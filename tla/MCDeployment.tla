--------------------------- MODULE MCDeployment ---------------------------
(***************************************************************************)
(* A small instance of Deployment: two flags and two more files, two calls  *)
(* of provision, three passwords that are valid, one of them not of ASCII  *)
(* characters alone, and one that is too short.  The flags and the         *)
(* password of AP-02 meet in .env only, and no property is about both: a   *)
(* behaviour moves the containers of one of the two.                       *)
(***************************************************************************)
EXTENDS Deployment

VARIABLE moving   \* "flags" or "password"

MCInit == Init /\ moving \in {"flags", "password"}

MCNext ==
    /\ Next
    /\ moving = "flags" => UNCHANGED credentialVars
    /\ moving = "password" => UNCHANGED flagVars
    /\ UNCHANGED moving

MCSpec == MCInit /\ [][MCNext]_<<vars, moving>>

TwoFlags == 1..2
TwoMore == 3..4
FourPasswords == {"short", "old", "new", "accented"}
ThreeValid == {"old", "new", "accented"}
ThreeAscii == {"short", "old", "new"}
=============================================================================
