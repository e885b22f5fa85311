--------------------------- MODULE Ap2Credential ---------------------------
(***************************************************************************)
(* The password of AP-02: the web application (web/app.py, init_db) writes *)
(* it into its database at each start, and the SSH endpoint                *)
(* (challenge-ap2-ssh) compares with the one in its own environment.  Each *)
(* container keeps the environment it was created with.  init_db creates   *)
(* the tables in statements that commit by themselves; the first rows and  *)
(* the password are one transaction, which a refusal or a kill takes back. *)
(* The database outlives the containers (docker-compose.yml mounts data/), *)
(* and the repository brings one, data/crm.db, of before there was AP-02.  *)
(***************************************************************************)
EXTENDS Naturals

CONSTANTS
    Passwords,   \* values of K3DF_AP2_SSH_PASSWORD
    Valid,       \* those of at least 32 characters and no line break or zero
    Ascii        \* those of ASCII characters alone

Unset == "unset"

ASSUME PasswordAssumption ==
    /\ Valid \subseteq Passwords /\ Ascii \subseteq Passwords
    /\ Unset \notin Passwords

VARIABLES
    environ,   \* per container: the password it was created with
    web,       \* "exited", "tables", "users", "customers", "password", "commit" or "up"
    db,        \* crm.db: its tables, how often its first rows were inserted, the password
    draft,     \* what the connection of a starting web application sees
    ssh        \* "exited" or "up"

webVars == <<web, db, draft>>
credentialVars == <<environ, webVars, ssh>>

\* No database yet, or the one of the repository: two tables and their first
\* rows, without a table for the password.
CredentialInit ==
    /\ environ = [web |-> Unset, ssh |-> Unset]
    /\ web = "exited" /\ ssh = "exited"
    /\ \E filled \in {0, 1} :
          db = [tables |-> 2 * filled, users |-> filled, customers |-> filled, password |-> Unset]
    /\ draft = db

----------------------------------------------------------------------------
(* init_db                                                                 *)

WebStarts ==
    /\ web = "exited" /\ environ.web # Unset
    /\ web' = "tables"
    /\ draft' = db
    /\ UNCHANGED <<environ, db, ssh>>

\* CREATE TABLE IF NOT EXISTS, three times, outside any transaction
CreateTable ==
    /\ web = "tables"
    /\ IF draft.tables < 3
       THEN /\ draft' = [draft EXCEPT !.tables = @ + 1]
            /\ db' = draft'
            /\ UNCHANGED web
       ELSE web' = "users" /\ UNCHANGED <<draft, db>>
    /\ UNCHANGED <<environ, ssh>>

\* Mutant: the rows are committed as they are inserted.
InsertUsersCommitted ==
    /\ web = "users"
    /\ web' = "customers"
    /\ draft' = [draft EXCEPT !.users = IF @ = 0 THEN 1 ELSE @]
    /\ db' = draft'
    /\ UNCHANGED <<environ, ssh>>

\* Only into an empty table
InsertUsers ==
    /\ web = "users"
    /\ web' = "customers"
    /\ draft' = [draft EXCEPT !.users = IF @ = 0 THEN 1 ELSE @]
    /\ UNCHANGED <<environ, db, ssh>>

\* Mutant: every start inserts them.
InsertCustomersAgain ==
    /\ web = "customers"
    /\ web' = "password"
    /\ draft' = [draft EXCEPT !.customers = @ + 1]
    /\ UNCHANGED <<environ, db, ssh>>

InsertCustomers ==
    /\ web = "customers"
    /\ web' = "password"
    /\ draft' = [draft EXCEPT !.customers = IF @ = 0 THEN 1 ELSE @]
    /\ UNCHANGED <<environ, db, ssh>>

\* Mutant: a password that is there is left alone.
SetPasswordOnce ==
    /\ web = "password"
    /\ IF environ.web \in Valid
       THEN /\ web' = "commit"
            /\ draft' = [draft EXCEPT !.password = IF @ = Unset THEN environ.web ELSE @]
       ELSE web' = "exited" /\ draft' = db
    /\ UNCHANGED <<environ, db, ssh>>

\* The upsert; a password that is not valid closes the connection and raises.
\* (Without any the step is left out; compose starts no container without one.)
SetPassword ==
    /\ web = "password"
    /\ IF environ.web \in Valid
       THEN web' = "commit" /\ draft' = [draft EXCEPT !.password = environ.web]
       ELSE web' = "exited" /\ draft' = db
    /\ UNCHANGED <<environ, db, ssh>>

Commit ==
    /\ web = "commit"
    /\ web' = "up"
    /\ db' = draft
    /\ UNCHANGED <<environ, draft, ssh>>

\* The process is killed or raises; Docker starts it again.
WebDies ==
    /\ web # "exited"
    /\ web' = "exited"
    /\ draft' = db
    /\ UNCHANGED <<environ, db, ssh>>

----------------------------------------------------------------------------
(* The SSH endpoint                                                        *)

\* serve: configured_password raises for a password that is not valid.
SshStarts ==
    /\ ssh = "exited" /\ environ.ssh \in Valid
    /\ ssh' = "up"
    /\ UNCHANGED <<environ, webVars>>

SshDies ==
    /\ ssh = "up"
    /\ ssh' = "exited"
    /\ UNCHANGED <<environ, webVars>>

\* validate_password, for the one account there is: hmac.compare_digest takes
\* two strings of ASCII characters, or raises.
VerifyPassword(password) ==
    IF environ.ssh \notin Valid THEN "refused"
    ELSE IF ~({password, environ.ssh} \subseteq Ascii) THEN "raises"
    ELSE IF password = environ.ssh THEN "taken" ELSE "refused"

----------------------------------------------------------------------------
(* The containers are created anew, with the password given to them.       *)

CreateWeb(password) ==
    /\ environ' = [environ EXCEPT !.web = password]
    /\ web' = "exited" /\ draft' = db
    /\ UNCHANGED <<db, ssh>>

CreateSsh(password) ==
    /\ environ' = [environ EXCEPT !.ssh = password]
    /\ ssh' = "exited"
    /\ UNCHANGED webVars

CredentialNext ==
    \/ WebStarts \/ CreateTable \/ InsertUsers \/ InsertCustomers
    \/ SetPassword \/ Commit \/ WebDies
    \/ SshStarts \/ SshDies

----------------------------------------------------------------------------
(* Properties                                                              *)

Databases == [tables : 0..3, users : 0..1, customers : 0..1, password : Passwords \cup {Unset}]

CredentialTypes ==
    /\ environ \in [{"web", "ssh"} -> Passwords \cup {Unset}]
    /\ web \in {"exited", "tables", "users", "customers", "password", "commit", "up"}
    /\ db \in Databases /\ draft \in Databases
    /\ ssh \in {"exited", "up"}

\* Whatever was there, and whoever is killed or refused on the way: a start
\* changes the database by one table more, or to the first rows of both tables
\* together with the valid password it was created with, never by a part.
FilledTogether ==
    [][ \/ db' = [db EXCEPT !.tables = @ + 1]
        \/ /\ environ.web \in Valid
           /\ db' = [tables |-> 3, users |-> 1, customers |-> 1, password |-> environ.web] ]_db

\* The password a visitor finds in the database of a running web application is
\* the one the SSH endpoint takes, as long as both containers were created with
\* the same one, whatever was there before.  Both accept one that is not ASCII
\* at their start; with such a one the endpoint raises, and there is no login.
LoginFindsPassword ==
    (web = "up" /\ ssh = "up" /\ environ.web = environ.ssh) =>
        VerifyPassword(db.password) = IF db.password \in Ascii THEN "taken" ELSE "raises"
=============================================================================
