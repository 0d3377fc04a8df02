------------------------------ MODULE Startup ------------------------------
(***************************************************************************)
(* How attribute-qa starts (main.go: resolve, platformToken, newEnv; the   *)
(* head of runServe in console.go; AccountID in platform.go): it settles   *)
(* the endpoint, finds a bearer in the flags, in the environment or in the *)
(* credential store of the privasys CLI, reads the referential and the     *)
(* identity, and then runs the suite or opens the console.                 *)
(*                                                                         *)
(* Abstraction: a token is the endpoint it is for, and whether it is still *)
(* valid.  The CLI is external, and so are time and the control plane.     *)
(***************************************************************************)
EXTENDS Naturals, Sequences

CONSTANTS
  Endpoint,      \* control planes
  dev, prod,     \* devEndpoint and prodEndpoint
  Commands,      \* command lines, each with its environment
  Stores,        \* what the credential store of the CLI may hold
  Referentials,  \* the lists of attributes an IdP may serve, as sets
  None,
  MaxExpiries    \* bound: tokens that expire

Token == [for : Endpoint, valid : BOOLEAN]

Command ==
  [serve : BOOLEAN, json : BOOLEAN, endpoint : Endpoint \cup {None}, prod : BOOLEAN,
   token : Token \cup {None}, env : Token \cup {None}, admin : BOOLEAN]

\* A login of the CLI: its access token, which may be empty, and whether its
\* refresh token is still good for another.
Credential == [for : Endpoint, access : {"valid", "expired", "empty"}, renewable : BOOLEAN]

ASSUME StartupAssumption ==
  /\ dev \in Endpoint /\ prod \in Endpoint
  /\ Commands \subseteq Command
  /\ Stores \subseteq Seq(Credential)
  /\ None \notin Endpoint \cup Token
  /\ MaxExpiries \in Nat

VARIABLES
  cmd,       \* the flags and the environment
  store,     \* the CLI's credentials, in the order in which it lists them
  ref,       \* the referential the IdP serves
  stage,     \* what the process does next
  exit,      \* its exit status, or None
  bearer,    \* PlatformClient.Token, or None
  expiries   \* how many tokens have expired

startVars == <<cmd, store, ref, stage, exit, bearer, expiries>>

\* resolve: an explicit endpoint wins over the shorthand.
Target ==
  IF cmd.endpoint # None THEN cmd.endpoint ELSE IF cmd.prod THEN prod ELSE dev

\* External: the control plane takes a bearer that is its own and still valid.
Accepted == bearer = [for |-> Target, valid |-> TRUE]

Goes(to) == stage' = to /\ UNCHANGED exit

\* main prints the error and exits.
GivesUp == stage' = "exited" /\ exit' = 1

(***************************************************************************)
(* platformToken                                                           *)
(***************************************************************************)

\* The flag, then the environment.
TokenGiven ==
  /\ stage = "token"
  /\ \/ cmd.token # None /\ bearer' = cmd.token
     \/ cmd.token = None /\ cmd.env # None /\ bearer' = cmd.env
  /\ Goes("referential")
  /\ UNCHANGED <<cmd, store, ref, expiries>>

\* `privasys account show --endpoint`: with a login for that endpoint whose refresh
\* token is good, the store has a new access token.  Its failure is not looked at.
Refresh ==
  /\ stage = "token"
  /\ cmd.token = None /\ cmd.env = None
  /\ \/ UNCHANGED store
     \/ \E i \in DOMAIN store :
          /\ store[i].for = Target /\ store[i].renewable
          /\ store' = [store EXCEPT ![i].access = "valid"]
  /\ Goes("list")
  /\ UNCHANGED <<cmd, ref, bearer, expiries>>

\* Mutant: the last credential listed is taken for the newest.
ListCredentialsLast ==
  /\ stage = "list"
  /\ \/ /\ store # <<>>
        /\ store[Len(store)].access # "empty"
        /\ bearer' = [for |-> store[Len(store)].for, valid |-> store[Len(store)].access = "valid"]
        /\ Goes("referential")
     \/ GivesUp /\ UNCHANGED bearer
  /\ UNCHANGED <<cmd, store, ref, expiries>>

\* `privasys auth list`: the first credential's token, whichever endpoint it is
\* for.  No command, no credential or an empty token is an error.
ListCredentials ==
  /\ stage = "list"
  /\ \/ /\ store # <<>>
        /\ Head(store).access # "empty"
        /\ bearer' = [for |-> Head(store).for, valid |-> Head(store).access = "valid"]
        /\ Goes("referential")
     \/ GivesUp /\ UNCHANGED bearer
  /\ UNCHANGED <<cmd, store, ref, expiries>>

(***************************************************************************)
(* newEnv, and the head of runServe                                        *)
(***************************************************************************)

\* LoadReferential: an error, and an empty list is one.
LoadReferential ==
  /\ stage = "referential"
  /\ GivesUp \/ (ref # {} /\ Goes("identity"))
  /\ UNCHANGED <<cmd, store, ref, bearer, expiries>>

\* LoadOrCreateIdentity, which fails on a file it cannot decode; a console needs
\* the admin token of the IdP besides.
LoadIdentity ==
  /\ stage = "identity"
  /\ \/ GivesUp
     \/ cmd.serve /\ cmd.admin /\ Goes("account")
     \/ ~cmd.serve /\ Goes("cases")
  /\ UNCHANGED <<cmd, store, ref, bearer, expiries>>

\* AccountID: the account that pays is the one of the bearer; without it the
\* console is not opened.
AccountID ==
  /\ stage = "account"
  /\ GivesUp \/ (Accepted /\ Goes("listening"))
  /\ UNCHANGED <<cmd, store, ref, bearer, expiries>>

(***************************************************************************)
(* External: time                                                          *)
(***************************************************************************)

\* A token expires, in the store or in the hands of the process.
Expire ==
  /\ expiries < MaxExpiries
  /\ expiries' = expiries + 1
  /\ \/ /\ \E i \in DOMAIN store :
             /\ store[i].access = "valid"
             /\ store' = [store EXCEPT ![i].access = "expired"]
        /\ stage \in {"token", "list"}
        /\ UNCHANGED bearer
     \/ /\ bearer # None
        /\ bearer.valid
        /\ bearer' = [bearer EXCEPT !.valid = FALSE]
        /\ stage \notin {"exited", "listening"}
        /\ UNCHANGED store
  /\ UNCHANGED <<cmd, ref, stage, exit>>

StartupInit ==
  /\ cmd \in Commands
  /\ store \in Stores
  /\ ref \in Referentials
  /\ stage = "token"
  /\ exit = None
  /\ bearer = None
  /\ expiries = 0

Starts ==
  \/ TokenGiven \/ Refresh \/ ListCredentials
  \/ LoadReferential \/ LoadIdentity \/ AccountID
  \/ Expire

StartupTypeOK ==
  /\ cmd \in Commands
  /\ store \in Seq(Credential)
  /\ ref \in Referentials
  /\ stage \in {"token", "list", "referential", "identity", "account", "cases", "listening", "exited"}
  /\ exit \in {None, 0, 1}
  /\ exit # None <=> stage = "exited"
  /\ bearer \in Token \cup {None}
  /\ stage \notin {"token", "list", "exited"} => bearer # None
  /\ stage = "listening" => bearer.for = Target
  /\ expiries \in 0..MaxExpiries
=============================================================================
