---------------------------- MODULE Deployment ----------------------------
(***************************************************************************)
(* The containers that depend on secrets, started by docker compose        *)
(* (docker-compose.yml): the web application, the SSH endpoint and the     *)
(* referee.  compose reads .env anew at each call and refuses every call   *)
(* while the password of AP-02 is not set there; Docker restarts a         *)
(* container with the environment it has, except the referee.              *)
(***************************************************************************)
EXTENDS Flags, Ap2Credential

VARIABLE dotenv   \* K3DF_AP2_SSH_PASSWORD in .env

vars == <<flagVars, credentialVars, dotenv>>

Init == FlagsInit /\ CredentialInit /\ dotenv = Unset

\* The operator edits .env.
Edit ==
    /\ dotenv' \in Passwords \ {dotenv}
    /\ UNCHANGED <<flagVars, credentialVars>>

\* docker compose up --force-recreate of one service; the referee takes no
\* password, but compose looks for it all the same.
UpWeb == dotenv # Unset /\ CreateWeb(dotenv) /\ UNCHANGED <<flagVars, dotenv>>
UpSsh == dotenv # Unset /\ CreateSsh(dotenv) /\ UNCHANGED <<flagVars, dotenv>>
UpReferee == dotenv # Unset /\ RefereeStarts /\ UNCHANGED <<credentialVars, dotenv>>

Next ==
    \/ FlagsNext /\ UNCHANGED <<credentialVars, dotenv>>
    \/ CredentialNext /\ UNCHANGED <<flagVars, dotenv>>
    \/ Edit \/ UpWeb \/ UpSsh \/ UpReferee

Spec == Init /\ [][Next]_vars

\* Every variable holds a value of its kind.
TypeOK ==
    /\ FlagTypes
    /\ CredentialTypes
    /\ dotenv \in Passwords \cup {Unset}
=============================================================================
