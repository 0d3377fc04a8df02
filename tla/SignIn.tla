------------------------------- MODULE SignIn -------------------------------
(***************************************************************************)
(* The headless sign-in of attribute-qa: IdPClient.SignIn (idp.go), the    *)
(* software passkey it signs in with (fido2.go) and the wallet's delivery  *)
(* (wallet.go), together with the identity file that outlives the process. *)
(*                                                                         *)
(* Several harness processes may use the same identity file, one after the *)
(* other or at the same time (a `test` run beside a `serve` console).  A   *)
(* process may be killed between any two steps, any HTTP call may fail, and*)
(* the answer of a call the IdP has carried out may be lost.               *)
(*                                                                         *)
(* Abstraction: a key pair is a model value; the credential id derived     *)
(* from the public key (fido2.go, credentialID) is the key itself, because *)
(* SHA-256 of the coordinates tells keys apart and nothing else.  What a   *)
(* registration is made of byte by byte is Passkey's matter.  The IdP      *)
(* is external: its credential table and the session of each sign-in are   *)
(* modelled as far as the harness depends on them.                         *)
(***************************************************************************)
EXTENDS Passkey, FiniteSets

CONSTANTS
  Proc,        \* harness processes that share one --identity path
  Key,         \* P-256 key pairs
  User,        \* user ids the IdP hands out
  None,        \* the empty string of credential_id and user_id
  MaxFaults,   \* bound: failed calls, lost answers, failed writes, crashes
  MaxForgets   \* bound: times the IdP loses its credential table

ASSUME ConstantsAssumption ==
  /\ IsFiniteSet(Proc)
  /\ None \notin Key
  /\ None \notin User
  /\ MaxFaults \in Nat
  /\ MaxForgets \in Nat

VARIABLES
  pc,        \* pc[p]: where process p is; the HTTP call or write it does next
  mem,       \* mem[p]: the *Identity p holds
  cer,       \* cer[p]: UserID of the ceremonyResult p is carrying
  outcome,   \* outcome[p]: how p's last SignIn returned
  file,      \* the identity file on disk
  account,   \* IdP: account[k] is the user enrolled with credential k
  session,   \* IdP: session[p] is the session of p's sign-in
  faults,    \* how many faults have happened
  forgets    \* how many times the IdP has lost its credentials

procVars == <<pc, mem, cer, outcome>>
idpVars  == <<account, session>>
vars == <<pc, mem, cer, outcome, file, account, session, faults, forgets>>

(***************************************************************************)
(* Data                                                                    *)
(***************************************************************************)

\* Identity, fido2.go: the key pair, and what the IdP called it.  A credential
\* id is derived from the key it stands beside.
Identity ==
  {id \in [key : Key, cred : Key \cup {None}, user : User \cup {None}] :
     id.cred \in {None, id.key}}

EnrolledIdentity == {id \in Identity : id.cred # None}

NoIdentity == [key |-> None, cred |-> None, user |-> None]

\* os.WriteFile truncates before it writes, so the file can be found empty;
\* two overlapping writers can leave one document with the tail of another.
Absent     == [kind |-> "absent",  id |-> NoIdentity]
Empty      == [kind |-> "empty",   id |-> NoIdentity]
Garbage    == [kind |-> "garbage", id |-> NoIdentity]
Stored(id) == [kind |-> "stored",  id |-> id]

\* json.Unmarshal refuses both an empty file and a mangled one.
Unreadable == file.kind \in {"empty", "garbage"}

\* Length class of the bytes on disk: credential_id and user_id are omitempty,
\* so an identity not yet enrolled is the shorter document.
Size(f) ==
  IF f.kind \in {"absent", "empty"} THEN 0
  ELSE IF f.kind = "stored" /\ f.id.cred = None THEN 1 ELSE 2

\* What the file holds after id is written from offset 0 over what is there.
\* Over a longer document the old tail stays; two enrolled documents may
\* differ in length, because nothing fixes the length of a user id.
Overwritten(id) ==
  {f \in {Stored(id), Garbage} :
     \/ f = Stored(id) /\ Size(Stored(id)) >= Size(file)
     \/ f = Garbage    /\ Size(file) = 2 /\ file # Stored(id)}

NoSession == [user |-> None, delivered |-> None]

\* HTTP calls of SignIn that can fail without an effect at the IdP.
CallPc == {"ready", "regBegin", "regComplete", "authBegin", "authComplete",
           "deliver", "status", "token"}
SavePc == {"mintOpen", "mintWrite", "enrolOpen", "enrolWrite"}
Pc == {"off", "load"} \cup CallPc \cup SavePc

\* A key pair that nobody holds: what ecdsa.GenerateKey returns.
FreshKey(k) ==
  /\ \A p \in Proc : mem[p].key # k
  /\ file.id.key # k
  /\ account[k] = None

\* A user id that is in use nowhere.
FreshUser(u) ==
  /\ \A k \in Key : account[k] # u
  /\ \A p \in Proc : u \notin {mem[p].user, cer[p], session[p].user, session[p].delivered}
  /\ file.id.user # u

(***************************************************************************)
(* Faults                                                                  *)
(***************************************************************************)

Fault == faults < MaxFaults /\ faults' = faults + 1
NoFault == faults' = faults

\* SignIn returns an error; the process goes on to its next case.
FailSignIn(p, how) ==
  /\ pc' = [pc EXCEPT ![p] = "ready"]
  /\ outcome' = [outcome EXCEPT ![p] = how]
  /\ cer' = [cer EXCEPT ![p] = None]

\* The process ends: its memory and its session are gone.
Ends(p) ==
  /\ pc' = [pc EXCEPT ![p] = "off"]
  /\ mem' = [mem EXCEPT ![p] = NoIdentity]
  /\ cer' = [cer EXCEPT ![p] = None]
  /\ outcome' = [outcome EXCEPT ![p] = "none"]
  /\ session' = [session EXCEPT ![p] = NoSession]

(***************************************************************************)
(* LoadOrCreateIdentity and Save                                           *)
(***************************************************************************)

Start(p) ==
  /\ pc[p] = "off"
  /\ pc' = [pc EXCEPT ![p] = "load"]
  /\ UNCHANGED <<mem, cer, outcome, file, account, session, faults, forgets>>

\* The file is read and decoded.
LoadStored(p) ==
  /\ pc[p] = "load"
  /\ file.kind = "stored"
  /\ mem' = [mem EXCEPT ![p] = file.id]
  /\ pc' = [pc EXCEPT ![p] = "ready"]
  /\ UNCHANGED <<cer, outcome, file, account, session, faults, forgets>>

\* Mutant: the decoding error is dropped and the zero Identity is used.
LoadUnreadableIgnored(p) ==
  /\ pc[p] = "load"
  /\ Unreadable
  /\ pc' = [pc EXCEPT ![p] = "ready"]
  /\ UNCHANGED <<mem, cer, outcome, file, account, session, faults, forgets>>

\* Mutant: a file that does not decode is taken for a first use.
LoadUnreadableMints(p) ==
  /\ pc[p] = "load"
  /\ Unreadable
  /\ \E k \in {key \in Key : FreshKey(key)} :
       mem' = [mem EXCEPT ![p] = [key |-> k, cred |-> None, user |-> None]]
  /\ pc' = [pc EXCEPT ![p] = "mintOpen"]
  /\ UNCHANGED <<cer, outcome, file, account, session, faults, forgets>>

\* A file that does not decode is an error, and newEnv gives up.
LoadUnreadable(p) ==
  /\ pc[p] = "load"
  /\ Unreadable
  /\ Ends(p)
  /\ UNCHANGED <<file, account, faults, forgets>>

\* Mutant: the new key pair is saved only once it has been enrolled.
MintUnsaved(p) ==
  /\ pc[p] = "load"
  /\ file.kind = "absent"
  /\ \E k \in {key \in Key : FreshKey(key)} :
       mem' = [mem EXCEPT ![p] = [key |-> k, cred |-> None, user |-> None]]
  /\ pc' = [pc EXCEPT ![p] = "ready"]
  /\ UNCHANGED <<cer, outcome, file, account, session, faults, forgets>>

\* os.IsNotExist: mint a key pair, then save it before returning.
Mint(p) ==
  /\ pc[p] = "load"
  /\ file.kind = "absent"
  /\ \E k \in {key \in Key : FreshKey(key)} :
       mem' = [mem EXCEPT ![p] = [key |-> k, cred |-> None, user |-> None]]
  /\ pc' = [pc EXCEPT ![p] = "mintOpen"]
  /\ UNCHANGED <<cer, outcome, file, account, session, faults, forgets>>

\* os.WriteFile, first half: open with O_TRUNC.
SaveOpen(p) ==
  /\ \/ pc[p] = "mintOpen"  /\ pc' = [pc EXCEPT ![p] = "mintWrite"]
     \/ pc[p] = "enrolOpen" /\ pc' = [pc EXCEPT ![p] = "enrolWrite"]
  /\ file' = Empty
  /\ UNCHANGED <<mem, cer, outcome, account, session, faults, forgets>>

\* os.WriteFile, second half: the bytes; Save returns nil.
SaveWrite(p) ==
  /\ \/ pc[p] = "mintWrite"  /\ pc' = [pc EXCEPT ![p] = "ready"]
     \/ pc[p] = "enrolWrite" /\ pc' = [pc EXCEPT ![p] = "deliver"]
  /\ file' \in Overwritten(mem[p])
  /\ UNCHANGED <<mem, cer, outcome, account, session, faults, forgets>>

\* Save returns an error, before or after it has truncated the file: newEnv
\* gives up; Register has already set the credential in memory and passes the
\* error on, so SignIn fails with the process still enrolled.
SaveFails(p) ==
  /\ Fault
  /\ \/ pc[p] \in {"mintOpen", "mintWrite"} /\ Ends(p)
     \/ /\ pc[p] \in {"enrolOpen", "enrolWrite"}
        /\ FailSignIn(p, "failed")
        /\ UNCHANGED <<mem, session>>
  /\ UNCHANGED <<file, account, forgets>>

(***************************************************************************)
(* SignIn: authorize, ceremony, delivery, status, token                    *)
(***************************************************************************)

\* Mutant: the session of the last sign-in is used again.
AuthorizeReuses(p) ==
  /\ pc[p] = "ready"
  /\ outcome' = [outcome EXCEPT ![p] = "none"]
  /\ pc' = [pc EXCEPT ![p] = IF mem[p].cred = None THEN "regBegin" ELSE "authBegin"]
  /\ UNCHANGED <<mem, cer, file, account, session, faults, forgets>>

\* Authorize opens a session; an identity without a credential id is enrolled,
\* any other one is asserted.
Authorize(p) ==
  /\ pc[p] = "ready"
  /\ session' = [session EXCEPT ![p] = NoSession]
  /\ outcome' = [outcome EXCEPT ![p] = "none"]
  /\ pc' = [pc EXCEPT ![p] = IF mem[p].cred = None THEN "regBegin" ELSE "authBegin"]
  /\ UNCHANGED <<mem, cer, file, account, faults, forgets>>

\* Mutant: the credential id is stored before the IdP has accepted it.
RegisterBeginSaves(p) ==
  /\ pc[p] = "regBegin"
  /\ mem' = [mem EXCEPT ![p].cred = mem[p].key]
  /\ file' = Stored([mem[p] EXCEPT !.cred = mem[p].key])
  /\ pc' = [pc EXCEPT ![p] = "regComplete"]
  /\ UNCHANGED <<cer, outcome, account, session, faults, forgets>>

\* /fido2/register/begin: a challenge, no effect.
RegisterBegin(p) ==
  /\ pc[p] = "regBegin"
  /\ pc' = [pc EXCEPT ![p] = "regComplete"]
  /\ UNCHANGED <<mem, cer, outcome, file, account, session, faults, forgets>>

\* External: the IdP enrols the credential, or answers with the user it
\* already has for it, and authenticates the session as that user.
IdPEnrols(p, u) ==
  /\ IF account[mem[p].key] = None THEN FreshUser(u) ELSE u = account[mem[p].key]
  /\ account' = [account EXCEPT ![mem[p].key] = u]
  /\ session' = [session EXCEPT ![p].user = u]

\* /fido2/register/complete.  On an answer the identity takes the credential
\* and the user, and is saved; if the answer is lost it takes neither.
RegisterComplete(p) ==
  /\ pc[p] = "regComplete"
  /\ \E u \in User :
       /\ IdPEnrols(p, u)
       /\ \/ /\ NoFault
             /\ mem' = [mem EXCEPT ![p].cred = mem[p].key, ![p].user = u]
             /\ cer' = [cer EXCEPT ![p] = u]
             /\ pc' = [pc EXCEPT ![p] = "enrolOpen"]
             /\ UNCHANGED outcome
          \/ /\ Fault
             /\ FailSignIn(p, "failed")
             /\ UNCHANGED mem
  /\ UNCHANGED <<file, forgets>>

\* /fido2/authenticate/begin for a credential the IdP knows.
AuthenticateBegin(p) ==
  /\ pc[p] = "authBegin"
  /\ account[mem[p].cred] # None
  /\ pc' = [pc EXCEPT ![p] = "authComplete"]
  /\ UNCHANGED <<mem, cer, outcome, file, account, session, faults, forgets>>

\* An error as statusOf sees it: the status is read only off a bare *httpError.
HTTPError(status) == [status |-> status, wrapped |-> FALSE]
Wrap(err) == [err EXCEPT !.wrapped = TRUE]
StatusOf(err) == IF err.wrapped THEN 0 ELSE err.status

\* The IdP answers 404 to either half of the assertion because it no longer
\* knows the credential.  Authenticate wraps the error with fmt.Errorf, and
\* SignIn switches on statusOf of what it gets back.
AuthenticateUnknown(p) ==
  LET err == Wrap(HTTPError(404)) IN
  /\ pc[p] \in {"authBegin", "authComplete"}
  /\ account[mem[p].cred] = None
  /\ IF StatusOf(err) = 404
     THEN /\ mem' = [mem EXCEPT ![p].cred = None]
          /\ pc' = [pc EXCEPT ![p] = "regBegin"]
          /\ UNCHANGED <<cer, outcome>>
     ELSE FailSignIn(p, "forgotten") /\ UNCHANGED mem
  /\ UNCHANGED <<file, account, session, faults, forgets>>

\* /fido2/authenticate/complete: the session becomes the user's.  The result
\* carries the user id; the identity in memory is not touched.
AuthenticateComplete(p) ==
  /\ pc[p] = "authComplete"
  /\ account[mem[p].cred] # None
  /\ session' = [session EXCEPT ![p].user = account[mem[p].cred]]
  /\ \/ /\ NoFault
        /\ cer' = [cer EXCEPT ![p] = account[mem[p].cred]]
        /\ pc' = [pc EXCEPT ![p] = "deliver"]
        /\ UNCHANGED outcome
     \/ Fault /\ FailSignIn(p, "failed")
  /\ UNCHANGED <<mem, file, account, forgets>>

\* Mutant: the attributes go out for the user id remembered in the identity.
CompleteSessionRemembered(p) ==
  /\ pc[p] = "deliver"
  /\ session' = [session EXCEPT ![p].delivered = mem[p].user]
  /\ \/ NoFault /\ pc' = [pc EXCEPT ![p] = "status"] /\ UNCHANGED <<outcome, cer>>
     \/ Fault /\ FailSignIn(p, "failed")
  /\ UNCHANGED <<mem, file, account, forgets>>

\* CompleteSession: the attributes, on behalf of the ceremony's user.
CompleteSession(p) ==
  /\ pc[p] = "deliver"
  /\ session' = [session EXCEPT ![p].delivered = cer[p]]
  /\ \/ NoFault /\ pc' = [pc EXCEPT ![p] = "status"] /\ UNCHANGED <<outcome, cer>>
     \/ Fault /\ FailSignIn(p, "failed")
  /\ UNCHANGED <<mem, file, account, forgets>>

\* /session/status: authenticated, with a code on the redirect.
SessionStatus(p) ==
  /\ pc[p] = "status"
  /\ session[p].user # None
  /\ session[p].delivered # None
  /\ pc' = [pc EXCEPT ![p] = "token"]
  /\ UNCHANGED <<mem, cer, outcome, file, account, session, faults, forgets>>

\* /token: the code is spent, the claims are decoded, SignIn returns.
Token(p) ==
  /\ pc[p] = "token"
  /\ pc' = [pc EXCEPT ![p] = "ready"]
  /\ outcome' = [outcome EXCEPT ![p] = "ok"]
  /\ cer' = [cer EXCEPT ![p] = None]
  /\ UNCHANGED <<mem, file, account, session, faults, forgets>>

\* Any call of SignIn fails with nothing done: SignIn returns the error.
CallFails(p) ==
  /\ pc[p] \in CallPc
  /\ Fault
  /\ FailSignIn(p, "failed")
  /\ UNCHANGED <<mem, file, account, session, forgets>>

(***************************************************************************)
(* The environment                                                         *)
(***************************************************************************)

\* The process has run its cases and exits, or the console is closed.
Exit(p) ==
  /\ pc[p] = "ready"
  /\ Ends(p)
  /\ UNCHANGED <<file, account, faults, forgets>>

\* The process is killed.
Crash(p) ==
  /\ pc[p] # "off"
  /\ Fault
  /\ Ends(p)
  /\ UNCHANGED <<file, account, forgets>>

\* The IdP's database is wiped: it forgets every credential.
Forget ==
  /\ forgets < MaxForgets
  /\ \E k \in Key : account[k] # None
  /\ account' = [k \in Key |-> None]
  /\ forgets' = forgets + 1
  /\ UNCHANGED <<pc, mem, cer, outcome, file, session, faults>>

(***************************************************************************)
(* Specification                                                           *)
(***************************************************************************)

\* First use: no identity file, an IdP that has never seen the harness.
Init ==
  /\ pc = [p \in Proc |-> "off"]
  /\ mem = [p \in Proc |-> NoIdentity]
  /\ cer = [p \in Proc |-> None]
  /\ outcome = [p \in Proc |-> "none"]
  /\ file = Absent
  /\ account = [k \in Key |-> None]
  /\ session = [p \in Proc |-> NoSession]
  /\ faults = 0
  /\ forgets = 0

\* The steps a process takes by itself while it runs.
Runs(p) ==
  \/ LoadStored(p) \/ LoadUnreadable(p) \/ Mint(p) \/ SaveOpen(p) \/ SaveWrite(p)
  \/ RegisterBegin(p) \/ RegisterComplete(p)
  \/ AuthenticateBegin(p) \/ AuthenticateUnknown(p) \/ AuthenticateComplete(p)
  \/ CompleteSession(p) \/ SessionStatus(p) \/ Token(p)

Next ==
  \/ \E p \in Proc : \/ Start(p) \/ Runs(p) \/ Authorize(p)
                     \/ SaveFails(p) \/ CallFails(p) \/ Exit(p) \/ Crash(p)
  \/ Forget

Spec == Init /\ [][Next]_vars

\* Every call has the 30 s timeout of NewIdPClient, so a running process keeps
\* moving; the suite, sign-in cases included, is run again and again.
Fairness ==
  \A p \in Proc : WF_vars(Start(p)) /\ WF_vars(Runs(p)) /\ SF_vars(Authorize(p))

FairSpec == Spec /\ Fairness

(***************************************************************************)
(* Properties                                                              *)
(***************************************************************************)

\* Types: among them, that a stored identity and the identity of a process past
\* loading have a key, and that a credential id is always that of its key.
TypeOK ==
  /\ pc \in [Proc -> Pc]
  /\ mem \in [Proc -> Identity \cup {NoIdentity}]
  /\ cer \in [Proc -> User \cup {None}]
  /\ outcome \in [Proc -> {"none", "ok", "failed", "forgotten"}]
  /\ file \in {Absent, Empty, Garbage} \cup {Stored(id) : id \in Identity}
  /\ account \in [Key -> User \cup {None}]
  /\ session \in [Proc -> [user : User \cup {None}, delivered : User \cup {None}]]
  /\ faults \in 0 .. MaxFaults
  /\ forgets \in 0 .. MaxForgets
  /\ \A p \in Proc : /\ pc[p] \in {"off", "load"} \/ mem[p] \in Identity
                     /\ pc[p] \in {"authBegin", "authComplete"} => mem[p] \in EnrolledIdentity

\* A credential that reaches the file is one the IdP has accepted.  Register
\* writes only after register/complete has answered, whatever crashes, fails
\* or interleaves; since a forgotten credential is never replaced, a file that
\* named a credential the IdP does not hold would refuse every later sign-in.
PersistedCredentialEnrolled ==
  forgets = 0 /\ file.kind = "stored" /\ file.id.cred # None
    => account[file.id.cred] = file.id.user /\ file.id.user # None

\* The harness does not litter the IdP with users (fido2.go: a fresh key every
\* run would produce a new user every run): however often runs crash, fail to
\* save or lose an answer, there is at most one enrolled key per process that
\* ever shared the file, because a key is on disk before it is enrolled.
EnrolledKeysBounded ==
  Cardinality({k \in Key : account[k] # None}) <= Cardinality(Proc)

\* The attributes of a session are delivered for the user the IdP
\* authenticated in that session, also when the user id remembered in the
\* identity is stale because another process re-enrolled the key after the IdP
\* forgot it.
DeliveredForAuthenticatedUser ==
  \A p \in Proc : session[p].delivered # None => session[p].delivered = session[p].user

\* Whatever the bytes of its key pair and of its credential id, what a process is
\* about to send to register/complete reads as that key beside that id, at the IdP
\* that decodes it: an item whose head is wrong by one shifts all that follow it, and
\* no test of the repository decodes what fido2.go encodes.
RegistrationReadsBack == \A p \in Proc : pc[p] = "regComplete" => ReadsBack

\* A sign-in is refused as unknown only by an IdP that has lost its table: no crash,
\* failed save or lost answer of the harness makes it assert a credential that was
\* never accepted (idp.go SignIn, fido2.go Register).
RefusedOnlyWhenForgotten ==
  \A p \in Proc : outcome[p] = "forgotten" => forgets > 0

\* Sessions are what UserSession says of them: whatever fails, crashes or interleaves,
\* one is authenticated once, receives once, for its user, and is told a success last.
Promise == INSTANCE UserSession WITH
  who <- [p \in Proc |-> session[p].user],
  received <- [p \in Proc |-> session[p].delivered],
  told <- outcome

SessionsKept == Promise!Spec

\* SignIn's comment: "enrolling on first use and re-enrolling if the IdP has
\* forgotten this credential" -- so no sign-in ends refused for that reason.
ReEnrolsForgottenCredential ==
  \A p \in Proc : outcome[p] # "forgotten"

\* With an IdP that keeps its credentials and finitely many faults, the suite
\* keeps signing in, unless a run died inside os.WriteFile and left a file
\* that no run can decode and none will replace.
KeepsSigningIn ==
  []<>(\E p \in Proc : outcome[p] = "ok") \/ <>[]Unreadable
=============================================================================
