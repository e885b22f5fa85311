-------------------------- MODULE DeploymentProofs --------------------------
(* Machine-checked proofs about Deployment, for every set of calls and of     *)
(* passwords, any number of flags and other files, and any number of mistakes.*)
EXTENDS Deployment, FiniteSetTheorems, TLAPS

----------------------------------------------------------------------------
(* The files of a runtime                                                  *)

(* A call that is past the first file owns all files before the one it is at, *)
(* and there are none after it: nobody else gets past O_EXCL on the first one. *)
Owns(c) == \A f \in Files : f < at[c] => runtime[f] = Whole(c, f)

WriterInv == \A c \in Calls :
    /\ call[c] = "begun" => at[c] = 1
    /\ call[c] \in {"create", "write"} => at[c] \in Files
    /\ call[c] = "create" /\ at[c] > 1 =>
          Owns(c) /\ \A f \in Files : f >= at[c] => runtime[f] = Absent
    /\ call[c] = "write" =>
          /\ Owns(c) /\ runtime[at[c]] = Empty(c, at[c])
          /\ \A f \in Files : f > at[c] => runtime[f] = Absent

(* A referee on its way has kept whole values, and as many as its place says. *)
KeeperInv ==
    /\ kept \in Seq(Texts) /\ \A i \in 1..Len(kept) : kept[i].whole
    /\ referee = "exited" => kept = <<>>
    /\ referee \in {"look", "read"} => Current \in Flags
    /\ referee \in {"distinct", "up"} => Len(kept) = Cardinality(Flags)
    /\ referee = "up" => Distinct

FlagsInv == FlagTypes /\ WriterInv /\ FilesOfOneHand /\ KeeperInv

(* The numbers of flags and of files. *)
LEMMA NumberFacts ==
    /\ Cardinality(Flags) \in Nat \ {0} /\ Flags = 1..Cardinality(Flags)
    /\ Cardinality(Files) \in Nat \ {0} /\ Files = 1..Cardinality(Files)
    /\ Flags \subseteq Files /\ Files \subseteq Nat
<1>1. Cardinality(Flags) \in Nat /\ Cardinality(Files) \in Nat
  BY NumberAssumption, FS_CardinalityType
<1>2. Cardinality(Flags) # 0
  BY NumberAssumption, FS_EmptySet
<1>3. Flags \subseteq Files
  BY DEF Files
<1>4. Flags = 1..Cardinality(Flags) /\ Files = 1..Cardinality(Files)
  BY NumberAssumption
<1> QED
  BY <1>1, <1>2, <1>3, <1>4

(* What the three states of a file have to do with each other. *)
LEMMA FileFacts ==
    ASSUME NEW c \in Calls, NEW f \in Files
    PROVE  /\ Empty(c, f) \in Texts /\ Whole(c, f) \in Texts
           /\ Empty(c, f) # Absent /\ Whole(c, f) # Absent
           /\ Empty(c, f).by = c /\ Whole(c, f).by = c
           /\ ~Absent.whole /\ ~Empty(c, f).whole /\ Whole(c, f).whole
           /\ \A d : Whole(d, f) = Whole(c, f) => d = c
<1>1. f # 0
  BY NumberFacts
<1> QED
  BY <1>1 DEF Empty, Whole, Absent, Texts

(* Provisioning and what it leaves alone. *)
Provisions == \E c \in Calls :
    Begin(c) \/ Refused(c) \/ MakeDirectory(c) \/ Create(c) \/ Write(c) \/ Dies(c)

(* The kinds of values are kept by every step about flags. *)
LEMMA FlagTypeStep ==
    ASSUME FlagsInv, FlagsNext \/ RefereeStarts \/ UNCHANGED flagVars
    PROVE  FlagTypes'
<1> USE DEF FlagsInv, FlagTypes, runtimeVars, refereeVars, flagVars
<1>1. ASSUME NEW c \in Calls, Begin(c) \/ Refused(c) \/ MakeDirectory(c) \/ Dies(c)
      PROVE FlagTypes'
  <2>1. at' \in [Calls -> Files \cup {0}] /\ call' \in [Calls -> {"idle", "begun", "create", "write", "done", "failed"}]
    BY <1>1, NumberFacts DEF Begin, Refused, MakeDirectory, Dies
  <2> QED
    BY <1>1, <2>1 DEF Begin, Refused, MakeDirectory, Dies
<1>2. ASSUME NEW c \in Calls, Create(c) PROVE FlagTypes'
  <2>1. at[c] \in Files
    BY <1>2 DEF Create, WriterInv
  <2>2. Empty(c, at[c]) \in Texts
    BY <2>1, FileFacts
  <2> QED
    BY <1>2, <2>1, <2>2 DEF Create
<1>3. ASSUME NEW c \in Calls, Write(c) PROVE FlagTypes'
  <2>1. at[c] \in Files
    BY <1>3 DEF Write, WriterInv
  <2>2. Whole(c, at[c]) \in Texts
    BY <2>1, FileFacts
  <2> QED
    BY <1>3, <2>1, <2>2 DEF Write
<1>4. CASE Clear
  BY <1>4 DEF Clear
<1>5. ASSUME NEW f \in Flags, NEW g \in Flags, NEW proper \in BOOLEAN, Install(f, g, proper)
      PROVE FlagTypes'
  <2>1. runtime[g] \in Texts \cup {Absent}
    BY NumberFacts
  <2>2. mistakes' \in 0..MaxMistakes
    BY <1>5, MistakeAssumption DEF Install
  <2> QED
    BY <1>5, <2>1, <2>2 DEF Install
<1>6. CASE RefereeStarts \/ LookAtFlag \/ Serve \/ RefereeExits
  BY <1>6 DEF RefereeStarts, LookAtFlag, Serve, RefereeExits, Exit
<1>7. CASE ReadFlag
  <2>1. volume[Current].file \in Texts
    BY <1>7 DEF ReadFlag, KeeperInv, Absent
  <2>2. kept' \in Seq(Texts)
    BY <1>7, <2>1 DEF ReadFlag, KeeperInv
  <2>3. \A i \in DOMAIN kept' : kept'[i] \in Texts
    BY <2>2
  <2> QED
    BY <1>7, <2>3 DEF ReadFlag
<1>8. CASE UNCHANGED flagVars
  BY <1>8
<1> HIDE DEF FlagsInv, FlagTypes
<1> QED
  BY <1>1, <1>2, <1>3, <1>4, <1>5, <1>6, <1>7, <1>8 DEF FlagsNext

(* Only the calls of provision and the operator who clears touch a runtime. *)
LEMMA RuntimeKept ==
    ASSUME \/ LookAtFlag \/ ReadFlag \/ Serve \/ RefereeExits \/ RefereeStarts
           \/ \E f, g \in Flags : \E proper \in BOOLEAN : Install(f, g, proper)
           \/ UNCHANGED flagVars
    PROVE  UNCHANGED runtimeVars
  BY DEF LookAtFlag, ReadFlag, Serve, RefereeExits, Exit, RefereeStarts, Install,
         refereeVars, flagVars

(* Each call stays alone with its files. *)
LEMMA WriterStep ==
    ASSUME FlagsInv, FlagsNext \/ RefereeStarts \/ UNCHANGED flagVars
    PROVE  WriterInv' /\ FilesOfOneCall'
<1>0. /\ call \in [Calls -> {"idle", "begun", "create", "write", "done", "failed"}]
      /\ at \in [Calls -> Files \cup {0}] /\ runtime \in [Files -> Texts \cup {Absent}]
      /\ WriterInv /\ FilesOfOneCall
  BY DEF FlagsInv, FlagTypes, FilesOfOneHand
<1> USE <1>0
<1>1. ASSUME NEW c \in Calls, Begin(c) \/ Refused(c) \/ Dies(c)
      PROVE WriterInv' /\ FilesOfOneCall'
  <2>1. runtime' = runtime /\ \A d \in Calls \ {c} : call'[d] = call[d] /\ at'[d] = at[d]
    BY <1>1 DEF Begin, Refused, Dies
  <2>2. call'[c] \in {"begun", "failed"} /\ (call'[c] = "begun" => at'[c] = 1)
    BY <1>1 DEF Begin, Refused, Dies
  <2> QED
    BY <2>1, <2>2 DEF WriterInv, FilesOfOneCall, Owns
<1>2. ASSUME NEW c \in Calls, MakeDirectory(c) PROVE WriterInv' /\ FilesOfOneCall'
  <2>1. runtime' = runtime /\ at' = at /\ \A d \in Calls \ {c} : call'[d] = call[d]
    BY <1>2 DEF MakeDirectory
  <2>2. call'[c] = "create" /\ at[c] = 1
    BY <1>2 DEF MakeDirectory, WriterInv
  <2> QED
    BY <2>1, <2>2, NumberFacts DEF WriterInv, FilesOfOneCall, Owns
<1>3. ASSUME NEW c \in Calls, Create(c) PROVE WriterInv' /\ FilesOfOneCall'
  <2>1. at' = at /\ at[c] \in Files /\ \A d \in Calls \ {c} : call'[d] = call[d]
    BY <1>3 DEF Create, WriterInv
  <2>2. CASE runtime[at[c]] # Absent
    <3>1. runtime' = runtime /\ call'[c] = "failed"
      BY <1>3, <2>2 DEF Create
    <3> QED
      BY <2>1, <3>1 DEF WriterInv, FilesOfOneCall, Owns
  <2>3. CASE runtime[at[c]] = Absent
    <3>1. /\ call[c] = "create" /\ call'[c] = "write"
          /\ runtime' = [runtime EXCEPT ![at[c]] = Empty(c, at[c])]
      BY <1>3, <2>3 DEF Create
    <3>2. /\ \A f \in Files : f < at[c] => runtime[f] = Whole(c, f)
          /\ \A f \in Files : f >= at[c] => runtime[f] = Absent
      <4>1. CASE at[c] > 1
        BY <4>1, <3>1 DEF WriterInv, Owns
      <4>2. CASE ~(at[c] > 1)
        <5>1. at[c] = 1
          BY <4>2, <2>1, NumberFacts
        <5>2. 1 \in Files /\ ~runtime[1].whole
          BY <5>1, <2>1, <2>3 DEF Absent
        <5>3. \A f \in Files : f > 1 => runtime[f] = Absent
          BY <5>2, NumberFacts DEF FilesOfOneCall
        <5> QED
          BY <5>1, <5>3, <2>3, NumberFacts
      <4> QED
        BY <4>1, <4>2
    <3>3. ASSUME NEW d \in Calls \ {c}, call[d] = "write" \/ (call[d] = "create" /\ at[d] > 1)
          PROVE  FALSE
      <4>1. 1 \in Files /\ at[d] \in Files
        BY <3>3, NumberFacts DEF WriterInv
      <4>2. runtime[1] = Whole(d, 1) \/ runtime[1] = Empty(d, 1)
        BY <3>3, <4>1, NumberFacts DEF WriterInv, Owns
      <4>3. at[c] > 1 => runtime[1] = Whole(c, 1)
        BY <3>2, <4>1
      <4>4. ~(at[c] > 1) => runtime[1] = Absent
        BY <2>1, <2>3, NumberFacts
      <4>5. runtime[1] # Absent /\ runtime[1].by = d
        BY <4>1, <4>2, FileFacts
      <4>6. Whole(c, 1).by = c
        BY DEF Whole
      <4> QED
        BY <4>3, <4>4, <4>5, <4>6
    <3>4. WriterInv'
      <4> SUFFICES ASSUME NEW d \in Calls PROVE
              /\ call'[d] = "begun" => at'[d] = 1
              /\ call'[d] \in {"create", "write"} => at'[d] \in Files
              /\ call'[d] = "create" /\ at'[d] > 1 =>
                    Owns(d)' /\ \A f \in Files : f >= at'[d] => runtime'[f] = Absent
              /\ call'[d] = "write" =>
                    /\ Owns(d)' /\ runtime'[at'[d]] = Empty(d, at'[d])
                    /\ \A f \in Files : f > at'[d] => runtime'[f] = Absent
        BY DEF WriterInv
      <4>1. CASE d = c
        BY <4>1, <2>1, <3>1, <3>2, NumberFacts DEF Owns
      <4>2. CASE d # c
        BY <4>2, <2>1, <3>3 DEF WriterInv
      <4> QED
        BY <4>1, <4>2
    <3>5. FilesOfOneCall'
      BY <2>1, <3>1, <3>2, FileFacts, NumberFacts DEF FilesOfOneCall
    <3> QED
      BY <3>4, <3>5
  <2> QED
    BY <2>2, <2>3
<1>4. ASSUME NEW c \in Calls, Write(c) PROVE WriterInv' /\ FilesOfOneCall'
  <2>1. /\ at[c] \in Files /\ Owns(c) /\ runtime[at[c]] = Empty(c, at[c])
        /\ \A f \in Files : f > at[c] => runtime[f] = Absent
    BY <1>4 DEF Write, WriterInv
  <2>2. /\ runtime' = [runtime EXCEPT ![at[c]] = Whole(c, at[c])]
        /\ \A d \in Calls \ {c} : call'[d] = call[d] /\ at'[d] = at[d]
        /\ \/ at[c] + 1 \in Files /\ at'[c] = at[c] + 1 /\ call'[c] = "create"
           \/ call'[c] = "done"
    BY <1>4, <2>1 DEF Write
  <2>3. \A f \in Files : f <= at[c] => runtime'[f] = Whole(c, f)
    BY <2>1, <2>2, NumberFacts DEF Owns
  <2>4. \A f \in Files : f > at[c] => runtime'[f] = Absent
    BY <2>1, <2>2, NumberFacts
  <2>5. ASSUME NEW d \in Calls \ {c}, call[d] = "write" \/ (call[d] = "create" /\ at[d] > 1)
        PROVE  FALSE
    <3>1. 1 \in Files /\ at[d] \in Files
      BY <2>5, NumberFacts DEF WriterInv
    <3>2. runtime[1] = Whole(d, 1) \/ runtime[1] = Empty(d, 1)
      BY <2>5, <3>1, NumberFacts DEF WriterInv, Owns
    <3>3. runtime[1] = Whole(c, 1) \/ runtime[1] = Empty(c, 1)
      BY <2>1, <3>1, NumberFacts DEF Owns
    <3> QED
      BY <3>1, <3>2, <3>3 DEF Whole, Empty
  <2>6. WriterInv'
    <3> SUFFICES ASSUME NEW d \in Calls PROVE
            /\ call'[d] = "begun" => at'[d] = 1
            /\ call'[d] \in {"create", "write"} => at'[d] \in Files
            /\ call'[d] = "create" /\ at'[d] > 1 =>
                  Owns(d)' /\ \A f \in Files : f >= at'[d] => runtime'[f] = Absent
            /\ call'[d] = "write" =>
                  /\ Owns(d)' /\ runtime'[at'[d]] = Empty(d, at'[d])
                  /\ \A f \in Files : f > at'[d] => runtime'[f] = Absent
      BY DEF WriterInv
    <3>1. CASE d = c
      BY <3>1, <2>1, <2>2, <2>3, <2>4, NumberFacts DEF Owns
    <3>2. CASE d # c
      BY <3>2, <2>2, <2>5 DEF WriterInv
    <3> QED
      BY <3>1, <3>2
  <2>7. FilesOfOneCall'
    BY <2>1, <2>3, <2>4, FileFacts, NumberFacts DEF FilesOfOneCall
  <2> QED
    BY <2>6, <2>7
<1>5. CASE Clear
  <2>1. \A d \in Calls : call'[d] \notin {"begun", "create", "write"}
    BY <1>5 DEF Clear, Running
  <2> QED
    BY <1>5, <2>1 DEF Clear, WriterInv, FilesOfOneCall
<1>6. CASE UNCHANGED runtimeVars
  BY <1>6 DEF WriterInv, FilesOfOneCall, Owns, runtimeVars
<1> QED
  BY <1>1, <1>2, <1>3, <1>4, <1>5, <1>6, RuntimeKept DEF FlagsNext

(* A runtime is complete only when the call that wrote it has ended. *)
LEMMA CompleteStep ==
    ASSUME FlagsInv, FlagsNext \/ RefereeStarts \/ UNCHANGED flagVars
    PROVE  CompleteIsDone'
<1>0. /\ call \in [Calls -> {"idle", "begun", "create", "write", "done", "failed"}]
      /\ at \in [Calls -> Files \cup {0}] /\ runtime \in [Files -> Texts \cup {Absent}]
      /\ WriterInv /\ CompleteIsDone
  BY DEF FlagsInv, FlagTypes, FilesOfOneHand
<1> USE <1>0
<1>1. ASSUME NEW c \in Calls, Begin(c) \/ Refused(c) \/ MakeDirectory(c) \/ Dies(c)
      PROVE CompleteIsDone'
  <2>1. runtime' = runtime /\ \A d \in Calls : call[d] = "done" => call'[d] = "done"
    BY <1>1 DEF Begin, Refused, MakeDirectory, Dies, Running
  <2> QED
    BY <2>1 DEF CompleteIsDone
<1>2. ASSUME NEW c \in Calls, Create(c) PROVE CompleteIsDone'
  <2>1. CASE runtime[at[c]] = Absent
    <3>1. at[c] \in Files /\ runtime'[at[c]] = Empty(c, at[c])
      BY <1>2, <2>1 DEF Create, WriterInv
    <3> QED
      BY <3>1, FileFacts DEF CompleteIsDone
  <2>2. CASE runtime[at[c]] # Absent
    <3>1. runtime' = runtime /\ \A d \in Calls : call[d] = "done" => call'[d] = "done"
      BY <1>2, <2>2 DEF Create
    <3> QED
      BY <3>1 DEF CompleteIsDone
  <2> QED
    BY <2>1, <2>2
<1>3. ASSUME NEW c \in Calls, Write(c) PROVE CompleteIsDone'
  <2>1. /\ at[c] \in Files /\ Owns(c) /\ runtime' = [runtime EXCEPT ![at[c]] = Whole(c, at[c])]
        /\ \A f \in Files : f > at[c] => runtime[f] = Absent
    BY <1>3 DEF Write, WriterInv
  <2>2. CASE at[c] + 1 \in Files
    <3>1. runtime'[at[c] + 1] = Absent
      BY <2>1, <2>2, NumberFacts
    <3> QED
      BY <2>2, <3>1 DEF CompleteIsDone, Absent
  <2>3. CASE at[c] + 1 \notin Files
    <3>1. call'[c] = "done"
      BY <1>3, <2>3 DEF Write
    <3>2. \A f \in Files : f <= at[c]
      BY <2>1, <2>3, NumberFacts
    <3>3. \A f \in Files : runtime'[f] = Whole(c, f)
      BY <2>1, <3>2, NumberFacts DEF Owns
    <3>4. \A f \in Files : runtime'[f].by = c
      BY <3>3, FileFacts
    <3> QED
      BY <3>1, <3>4 DEF CompleteIsDone
  <2> QED
    BY <2>2, <2>3
<1>4. CASE Clear
  BY <1>4, NumberFacts DEF Clear, CompleteIsDone, Absent
<1>5. CASE UNCHANGED runtimeVars
  BY <1>5 DEF CompleteIsDone, runtimeVars
<1> QED
  BY <1>1, <1>2, <1>3, <1>4, <1>5, RuntimeKept DEF FlagsNext

(* The referee keeps what it has looked at, one value for each flag. *)
LEMMA KeeperStep ==
    ASSUME FlagsInv, FlagsNext \/ RefereeStarts \/ UNCHANGED flagVars
    PROVE  KeeperInv'
<1>0. KeeperInv
  BY DEF FlagsInv
<1> USE <1>0
<1>1. CASE Provisions \/ Clear \/ (\E f, g \in Flags : \E proper \in BOOLEAN : Install(f, g, proper))
           \/ UNCHANGED flagVars
  <2>1. UNCHANGED refereeVars
    BY <1>1 DEF Provisions, Begin, Refused, MakeDirectory, Create, Write, Dies, Clear, Install,
                flagVars
  <2> QED
    BY <2>1 DEF KeeperInv, Current, Distinct, refereeVars
<1>2. CASE RefereeStarts
  <2>1. referee = "exited" /\ referee' = "look" /\ kept' = kept
    BY <1>2 DEF RefereeStarts
  <2>2. kept' = <<>> /\ Current' = 1
    BY <2>1 DEF KeeperInv, Current
  <2> QED
    BY <2>1, <2>2, NumberFacts DEF KeeperInv
<1>3. CASE LookAtFlag
  BY <1>3 DEF LookAtFlag, KeeperInv, Current
<1>4. CASE ReadFlag
  <2>1. /\ referee = "read" /\ Current \in Flags /\ volume[Current].file.whole
        /\ kept' = Append(kept, volume[Current].file)
        /\ referee' = IF Current + 1 \in Flags THEN "look" ELSE "distinct"
    BY <1>4 DEF ReadFlag, KeeperInv
  <2>2. volume[Current].file \in Texts
    BY <2>1 DEF FlagsInv, FlagTypes, Absent
  <2>3. kept' \in Seq(Texts) /\ Len(kept') = Len(kept) + 1 /\ Len(kept) \in Nat
    BY <2>1, <2>2 DEF KeeperInv
  <2>4. \A i \in 1..Len(kept') : kept'[i].whole
    BY <2>1, <2>2, <2>3 DEF KeeperInv
  <2>5. Current' = Current + 1
    BY <2>3 DEF Current
  <2>6. Current + 1 \notin Flags => Len(kept') = Cardinality(Flags)
    BY <2>1, <2>3, NumberFacts DEF Current
  <2> QED
    BY <2>1, <2>3, <2>4, <2>5, <2>6 DEF KeeperInv
<1>5. CASE Serve
  BY <1>5 DEF Serve, KeeperInv, Distinct, Current
<1>6. CASE RefereeExits
  <2>1. referee' = "exited" /\ kept' = <<>>
    BY <1>6 DEF RefereeExits, Exit
  <2> QED
    BY <2>1 DEF KeeperInv
<1> QED
  BY <1>1, <1>2, <1>3, <1>4, <1>5, <1>6 DEF FlagsNext, Provisions

(* Nothing is there at first. *)
LEMMA FlagsInitially == FlagsInit => FlagsInv
<1> SUFFICES ASSUME FlagsInit PROVE FlagsInv
  OBVIOUS
<1> USE DEF FlagsInit
<1>1. FlagTypes
  <2>1. \A i \in DOMAIN kept : kept[i] \in Texts
    OBVIOUS
  <2>2. mistakes \in 0..MaxMistakes
    BY MistakeAssumption
  <2> QED
    BY <2>1, <2>2 DEF FlagTypes
<1>2. WriterInv /\ FilesOfOneCall
  BY DEF WriterInv, FilesOfOneCall
<1>3. CompleteIsDone
  BY NumberFacts DEF CompleteIsDone, Absent
<1>4. KeeperInv
  BY DEF KeeperInv
<1> QED
  BY <1>1, <1>2, <1>3, <1>4 DEF FlagsInv, FilesOfOneHand

(* With the steps above: what a referee serves, and the files behind it.     *)
LEMMA FlagsStep ==
    ASSUME FlagsInv, FlagsNext \/ RefereeStarts \/ UNCHANGED flagVars
    PROVE  FlagsInv'
  BY FlagTypeStep, WriterStep, CompleteStep, KeeperStep DEF FlagsInv, FilesOfOneHand

LEMMA FlagsImply == FlagsInv => ServesDistinctFlags
<1> SUFFICES ASSUME FlagsInv, referee = "up" PROVE ServesDistinctFlags
  BY DEF ServesDistinctFlags
<1>1. Len(kept) = Cardinality(Flags) /\ Distinct /\ \A i \in 1..Len(kept) : kept[i].whole
  BY DEF FlagsInv, KeeperInv
<1> QED
  BY <1>1, NumberFacts DEF ServesDistinctFlags

----------------------------------------------------------------------------
(* The database of the web application                                      *)

(* What a starting web application has in its transaction, by where it is.   *)
DraftInv ==
    /\ web \in {"exited", "tables", "users"} => draft = db
    /\ web \in {"users", "customers", "password", "commit"} => draft.tables = 3
    /\ web = "customers" => draft = [db EXCEPT !.users = 1]
    /\ web \in {"password", "commit"} =>
          draft = [db EXCEPT !.users = 1, !.customers = 1, !.password = draft.password]
    /\ web = "password" => draft.password = db.password
    /\ web = "commit" => draft.password = environ.web /\ environ.web \in Valid
    /\ web = "up" => draft = db /\ db.password = environ.web /\ environ.web \in Valid

(* An SSH endpoint runs with a valid password only.                          *)
CredentialInv ==
    CredentialTypes /\ DraftInv /\ (ssh = "up" => environ.ssh \in Valid)

LEMMA CredentialInitially == CredentialInit => CredentialInv
<1> SUFFICES ASSUME CredentialInit PROVE CredentialInv
  OBVIOUS
<1>1. PICK filled \in {0, 1} :
          db = [tables |-> 2 * filled, users |-> filled, customers |-> filled, password |-> Unset]
  BY DEF CredentialInit
<1>2. 2 * filled \in 0..3 /\ filled \in 0..1
  OBVIOUS
<1>3. db \in Databases
  BY <1>1, <1>2 DEF Databases
<1>4. CredentialTypes
  BY <1>3 DEF CredentialInit, CredentialTypes
<1>5. DraftInv /\ ssh # "up"
  BY DEF CredentialInit, DraftInv
<1> QED
  BY <1>4, <1>5 DEF CredentialInv

(* init_db statement by statement, and the two containers. *)
LEMMA CredentialStep ==
    ASSUME CredentialInv,
           \/ CredentialNext \/ UNCHANGED credentialVars
           \/ \E password \in Passwords : CreateWeb(password) \/ CreateSsh(password)
    PROVE  CredentialInv'
<1> USE DEF CredentialInv
<1>0. CredentialTypes /\ DraftInv /\ db \in Databases /\ draft \in Databases
  BY DEF CredentialTypes
<1>1. CASE WebStarts
  BY <1>0, <1>1 DEF WebStarts, CredentialTypes, DraftInv
<1>2. CASE CreateTable
  <2>1. web = "tables" /\ draft = db
    BY <1>0, <1>2 DEF CreateTable, DraftInv
  <2>2. CASE draft.tables < 3
    <3>1. db' = [db EXCEPT !.tables = @ + 1] /\ draft' = db' /\ UNCHANGED <<web, environ, ssh>>
      BY <1>2, <2>1, <2>2 DEF CreateTable
    <3>2. db.tables + 1 \in 0..3
      BY <1>0, <2>1, <2>2 DEF Databases
    <3>3. db' \in Databases
      BY <1>0, <3>1, <3>2 DEF Databases
    <3> QED
      BY <1>0, <2>1, <3>1, <3>3 DEF CredentialTypes, DraftInv
  <2>3. CASE ~(draft.tables < 3)
    <3>1. draft.tables = 3
      BY <1>0, <2>3 DEF Databases
    <3> QED
      BY <1>0, <1>2, <2>1, <2>3, <3>1 DEF CreateTable, CredentialTypes, DraftInv
  <2> QED
    BY <2>2, <2>3
<1>3. CASE InsertUsers
  <2>1. web = "users" /\ draft = db /\ db.users \in 0..1
    BY <1>0, <1>3 DEF InsertUsers, DraftInv, Databases
  <2>2. web' = "customers" /\ draft' = [db EXCEPT !.users = 1] /\ UNCHANGED <<environ, db, ssh>>
    BY <1>3, <2>1 DEF InsertUsers
  <2>3. draft' \in Databases /\ draft'.tables = 3
    BY <1>0, <2>1, <2>2 DEF Databases, DraftInv
  <2> QED
    BY <1>0, <2>2, <2>3 DEF CredentialTypes, DraftInv
<1>4. CASE InsertCustomers
  <2>1. web = "customers" /\ draft = [db EXCEPT !.users = 1] /\ db.customers \in 0..1
    BY <1>0, <1>4 DEF InsertCustomers, DraftInv, Databases
  <2>2. /\ web' = "password" /\ draft' = [draft EXCEPT !.customers = 1]
        /\ UNCHANGED <<environ, db, ssh>>
    <3>1. draft.customers \in 0..1
      BY <1>0 DEF Databases
    <3>2. (IF draft.customers = 0 THEN 1 ELSE draft.customers) = 1
      BY <3>1
    <3> QED
      BY <1>4, <3>2 DEF InsertCustomers
  <2>3. draft' \in Databases /\ draft'.tables = 3
    BY <1>0, <2>1, <2>2 DEF Databases, DraftInv
  <2>4. /\ draft'.password = db.password
        /\ draft' = [db EXCEPT !.users = 1, !.customers = 1, !.password = draft'.password]
    BY <1>0, <2>1, <2>2 DEF Databases
  <2> QED
    BY <1>0, <2>2, <2>3, <2>4 DEF CredentialTypes, DraftInv
<1>5. CASE SetPassword
  <2>1. web = "password" /\ draft = [db EXCEPT !.users = 1, !.customers = 1, !.password = draft.password]
    BY <1>0, <1>5 DEF SetPassword, DraftInv
  <2>2. CASE environ.web \in Valid
    <3>1. /\ web' = "commit" /\ draft' = [draft EXCEPT !.password = environ.web]
          /\ UNCHANGED <<environ, db, ssh>>
      BY <1>5, <2>2 DEF SetPassword
    <3>2. draft' \in Databases /\ draft'.password = environ.web /\ draft'.tables = 3
      BY <1>0, <2>1, <2>2, <3>1, PasswordAssumption DEF Databases, DraftInv
    <3>3. draft' = [db EXCEPT !.users = 1, !.customers = 1, !.password = draft'.password]
      BY <1>0, <2>1, <3>1, <3>2 DEF Databases
    <3> QED
      BY <1>0, <2>2, <3>1, <3>2, <3>3 DEF CredentialTypes, DraftInv
  <2>3. CASE environ.web \notin Valid
    BY <1>0, <1>5, <2>3 DEF SetPassword, CredentialTypes, DraftInv
  <2> QED
    BY <2>2, <2>3
<1>6. CASE Commit
  <2>1. /\ web = "commit" /\ web' = "up" /\ db' = draft /\ UNCHANGED <<environ, draft, ssh>>
        /\ draft.password = environ.web /\ environ.web \in Valid
        /\ draft = [db EXCEPT !.users = 1, !.customers = 1, !.password = draft.password]
    BY <1>0, <1>6 DEF Commit, DraftInv
  <2> QED
    BY <1>0, <2>1 DEF CredentialTypes, DraftInv
<1>7. CASE WebDies
  BY <1>0, <1>7 DEF WebDies, CredentialTypes, DraftInv
<1>8. CASE SshStarts \/ SshDies
  BY <1>0, <1>8 DEF SshStarts, SshDies, webVars, CredentialTypes, DraftInv
<1>9. ASSUME NEW password \in Passwords, CreateWeb(password) PROVE CredentialInv'
  <2>1. environ'.ssh = environ.ssh /\ environ' \in [{"web", "ssh"} -> Passwords \cup {Unset}]
    BY <1>0, <1>9 DEF CreateWeb, CredentialTypes
  <2> QED
    BY <1>0, <1>9, <2>1 DEF CreateWeb, CredentialTypes, DraftInv
<1>10. ASSUME NEW password \in Passwords, CreateSsh(password) PROVE CredentialInv'
  <2>1. environ'.web = environ.web /\ environ' \in [{"web", "ssh"} -> Passwords \cup {Unset}]
    BY <1>0, <1>10 DEF CreateSsh, CredentialTypes
  <2> QED
    BY <1>0, <1>10, <2>1 DEF CreateSsh, webVars, CredentialTypes, DraftInv
<1>11. CASE UNCHANGED credentialVars
  BY <1>0, <1>11 DEF credentialVars, webVars, CredentialTypes, DraftInv
<1> QED
  BY <1>1, <1>2, <1>3, <1>4, <1>5, <1>6, <1>7, <1>8, <1>9, <1>10, <1>11 DEF CredentialNext

(* Two statements change the database: one more table, and the commit of a    *)
(* transaction that is complete.                                              *)
LEMMA CredentialChanges ==
    ASSUME CredentialInv,
           \/ CredentialNext \/ UNCHANGED credentialVars
           \/ \E password \in Passwords : CreateWeb(password) \/ CreateSsh(password)
    PROVE  \/ db' = [db EXCEPT !.tables = @ + 1]
           \/ /\ environ.web \in Valid
              /\ db' = [tables |-> 3, users |-> 1, customers |-> 1, password |-> environ.web]
           \/ UNCHANGED db
<1>0. CredentialTypes /\ DraftInv /\ db \in Databases /\ draft \in Databases
  BY DEF CredentialInv, CredentialTypes
<1>1. CASE CreateTable
  <2>1. draft = db
    BY <1>0, <1>1 DEF CreateTable, DraftInv
  <2> QED
    BY <1>1, <2>1 DEF CreateTable
<1>2. CASE Commit
  <2>1. /\ db' = draft /\ draft.tables = 3 /\ environ.web \in Valid
        /\ draft.password = environ.web
        /\ draft = [db EXCEPT !.users = 1, !.customers = 1, !.password = draft.password]
    BY <1>0, <1>2 DEF Commit, DraftInv
  <2>2. draft.users = 1 /\ draft.customers = 1
    BY <1>0, <2>1 DEF Databases
  <2>3. draft = [tables |-> 3, users |-> 1, customers |-> 1, password |-> environ.web]
    BY <1>0, <2>1, <2>2 DEF Databases
  <2> QED
    BY <2>1, <2>3
<1>3. CASE ~(CreateTable \/ Commit)
  BY <1>3 DEF CredentialNext, WebStarts, InsertUsers, InsertCustomers, SetPassword, WebDies,
              SshStarts, SshDies, CreateWeb, CreateSsh, webVars, credentialVars
<1> QED
  BY <1>1, <1>2, <1>3

LEMMA CredentialImplies == CredentialInv => LoginFindsPassword
<1> SUFFICES ASSUME CredentialInv, web = "up", ssh = "up", environ.web = environ.ssh
             PROVE  VerifyPassword(db.password)
                        = IF db.password \in Ascii THEN "taken" ELSE "raises"
  BY DEF LoginFindsPassword
<1>1. db.password = environ.ssh /\ environ.ssh \in Valid
  BY DEF CredentialInv, DraftInv
<1>2. {db.password, environ.ssh} \subseteq Ascii <=> db.password \in Ascii
  BY <1>1
<1> QED
  BY <1>1, <1>2 DEF VerifyPassword

----------------------------------------------------------------------------
(* The deployment                                                           *)

IInv == FlagsInv /\ CredentialInv /\ dotenv \in Passwords \cup {Unset}

LEMMA IInvInitially == Init => IInv
  BY FlagsInitially, CredentialInitially DEF Init, IInv

(* Each step of the deployment is one of the containers with passwords, or    *)
(* leaves them alone.                                                         *)
LEMMA CredentialPart ==
    ASSUME IInv, [Next]_vars
    PROVE  \/ CredentialNext \/ UNCHANGED credentialVars
           \/ \E password \in Passwords : CreateWeb(password) \/ CreateSsh(password)
<1>1. CASE UpWeb \/ UpSsh
  BY <1>1 DEF UpWeb, UpSsh, IInv
<1>2. CASE ~(UpWeb \/ UpSsh)
  BY <1>2 DEF Next, Edit, UpReferee, vars
<1> QED
  BY <1>1, <1>2

LEMMA IInvStep == IInv /\ [Next]_vars => IInv'
<1> SUFFICES ASSUME IInv, [Next]_vars PROVE IInv'
  OBVIOUS
<1>1. FlagsInv /\ CredentialInv /\ dotenv \in Passwords \cup {Unset}
  BY DEF IInv
<1>2. FlagsNext \/ RefereeStarts \/ UNCHANGED flagVars
  BY DEF Next, Edit, UpWeb, UpSsh, UpReferee, vars
<1>3. dotenv' \in Passwords \cup {Unset}
  BY <1>1 DEF Next, Edit, UpWeb, UpSsh, UpReferee, vars
<1>4. FlagsInv'
  BY <1>1, <1>2, FlagsStep
<1>5. CredentialInv'
  BY <1>1, CredentialPart, CredentialStep
<1> QED
  BY <1>3, <1>4, <1>5 DEF IInv

(* The invariant everything below follows from. *)
THEOREM Invariance == Spec => []IInv
  BY IInvInitially, IInvStep, PTL DEF Spec

(* Every variable holds a value of its kind, with any number of calls, flags,  *)
(* other files, passwords and mistakes.                                       *)
THEOREM TypeCorrect == Spec => []TypeOK
<1>1. IInv => TypeOK
  BY DEF IInv, FlagsInv, CredentialInv, TypeOK
<1> QED
  BY <1>1, Invariance, PTL

(* provision(): overlapping and dying calls never mix their files in one       *)
(* runtime, and a complete one is of a call that came to its end.              *)
THEOREM OneHand == Spec => []FilesOfOneHand
<1>1. IInv => FilesOfOneHand
  BY DEF IInv, FlagsInv
<1> QED
  BY <1>1, Invariance, PTL

(* Referee.__init__: a referee that serves holds as many different, complete   *)
(* values as there are flags, whatever was exchanged under its eyes.           *)
THEOREM DistinctServed == Spec => []ServesDistinctFlags
<1>1. IInv => ServesDistinctFlags
  BY FlagsImply DEF IInv
<1> QED
  BY <1>1, Invariance, PTL

(* init_db: from an empty database or the one of the repository, whichever     *)
(* starts are refused or killed, a change is one more table or the rows and     *)
(* a valid password together.                                                  *)
THEOREM Filled == Spec => FilledTogether
<1>1. IInv /\ [Next]_vars =>
          [ \/ db' = [db EXCEPT !.tables = @ + 1]
            \/ /\ environ.web \in Valid
               /\ db' = [tables |-> 3, users |-> 1, customers |-> 1, password |-> environ.web] ]_db
  BY CredentialPart, CredentialChanges DEF IInv
<1> QED
  BY <1>1, Invariance, PTL DEF Spec, FilledTogether

(* init_db and validate_password: with both containers created with the same   *)
(* password, the one in the database is the one the SSH endpoint takes, or for  *)
(* which it raises.                                                            *)
THEOREM Login == Spec => []LoginFindsPassword
<1>1. IInv => LoginFindsPassword
  BY CredentialImplies DEF IInv
<1> QED
  BY <1>1, Invariance, PTL
=============================================================================
