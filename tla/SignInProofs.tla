---------------------------- MODULE SignInProofs ----------------------------
(***************************************************************************)
(* What holds of SignIn for any number of processes, keys, users, faults   *)
(* and forgotten credential tables.                                        *)
(***************************************************************************)
EXTENDS SignIn, PasskeyProofs, FiniteSetTheorems, TLAPS

(***************************************************************************)
(* Identities and the file                                                 *)
(***************************************************************************)

LEMMA IdentityFields ==
  ASSUME NEW id \in Identity
  PROVE  /\ id.key \in Key /\ id.key # None
         /\ id.cred \in {None, id.key}
         /\ id.user \in User \cup {None}
         /\ id # NoIdentity
  BY ConstantsAssumption DEF Identity, NoIdentity

LEMMA FreshIdentity ==
  ASSUME NEW k \in Key
  PROVE  [key |-> k, cred |-> None, user |-> None] \in Identity
  BY DEF Identity

LEMMA EnrolIdentity ==
  ASSUME NEW id \in Identity, NEW u \in User
  PROVE  [id EXCEPT !.cred = id.key, !.user = u] \in Identity
  BY DEF Identity

LEMMA StoredFields ==
  /\ \A id : Stored(id).kind = "stored" /\ Stored(id).id = id
  /\ Absent.kind = "absent" /\ Absent.id = NoIdentity
  /\ Empty.kind = "empty" /\ Empty.id = NoIdentity
  /\ Garbage.kind = "garbage" /\ Garbage.id = NoIdentity
  BY DEF Stored, Absent, Empty, Garbage

FileType == {Absent, Empty, Garbage} \cup {Stored(id) : id \in Identity}

LEMMA StoredIdentity ==
  ASSUME file \in FileType, file.kind = "stored"
  PROVE  file.id \in Identity
  BY StoredFields DEF FileType

(***************************************************************************)
(* Type correctness                                                        *)
(***************************************************************************)

Outcome == {"none", "ok", "failed", "forgotten"}
Sessions == [Proc -> [user : User \cup {None}, delivered : User \cup {None}]]

LEMMA InitType == Init => TypeOK
  BY ConstantsAssumption DEF Init, TypeOK, Pc, CallPc, SavePc, NoSession

\* An error return puts a process that holds an identity back to "ready".
LEMMA FailSignInType ==
  ASSUME TypeOK, NEW p \in Proc, NEW how \in Outcome,
         FailSignIn(p, how), pc[p] \notin {"off", "load"}
  PROVE  /\ pc' \in [Proc -> Pc]
         /\ cer' \in [Proc -> User \cup {None}]
         /\ outcome' \in [Proc -> Outcome]
         /\ \A q \in Proc : /\ pc'[q] \in {"off", "load"} \/ mem[q] \in Identity
                            /\ pc'[q] \in {"authBegin", "authComplete"} => mem[q] \in EnrolledIdentity
  BY DEF TypeOK, FailSignIn, Pc, CallPc, Outcome

\* A process that ends holds nothing.
LEMMA EndsType ==
  ASSUME TypeOK, NEW p \in Proc, Ends(p)
  PROVE  /\ pc' \in [Proc -> Pc]
         /\ mem' \in [Proc -> Identity \cup {NoIdentity}]
         /\ cer' \in [Proc -> User \cup {None}]
         /\ outcome' \in [Proc -> Outcome]
         /\ session' \in Sessions
         /\ \A q \in Proc : /\ pc'[q] \in {"off", "load"} \/ mem'[q] \in Identity
                            /\ pc'[q] \in {"authBegin", "authComplete"} => mem'[q] \in EnrolledIdentity
  <1>1. /\ pc' \in [Proc -> Pc]
        /\ cer' \in [Proc -> User \cup {None}]
        /\ outcome' \in [Proc -> Outcome]
        /\ session' \in Sessions
    BY DEF TypeOK, Ends, Pc, Outcome, Sessions, NoSession
  <1>2. mem' \in [Proc -> Identity \cup {NoIdentity}]
    BY DEF TypeOK, Ends
  <1>3. \A q \in Proc : /\ pc'[q] \in {"off", "load"} \/ mem'[q] \in Identity
                        /\ pc'[q] \in {"authBegin", "authComplete"} => mem'[q] \in EnrolledIdentity
    BY DEF TypeOK, Ends
  <1> QED
    BY <1>1, <1>2, <1>3

LEMMA FaultType == ASSUME TypeOK, Fault PROVE faults' \in 0 .. MaxFaults
  BY ConstantsAssumption DEF TypeOK, Fault

LEMMA NextType == TypeOK /\ [Next]_vars => TypeOK'
  <1> SUFFICES ASSUME TypeOK, [Next]_vars PROVE TypeOK'
    OBVIOUS
  <1> USE ConstantsAssumption
  <1>1. ASSUME NEW p \in Proc, Start(p) PROVE TypeOK'
    BY <1>1 DEF TypeOK, Start, Pc
  <1>2. ASSUME NEW p \in Proc, LoadStored(p) PROVE TypeOK'
    <2>1. file.id \in Identity
      BY <1>2, StoredIdentity DEF TypeOK, FileType, LoadStored
    <2> QED
      BY <1>2, <2>1 DEF TypeOK, LoadStored, Pc, CallPc
  <1>3. ASSUME NEW p \in Proc, LoadUnreadable(p) PROVE TypeOK'
    BY <1>3, EndsType DEF TypeOK, LoadUnreadable, Outcome, Sessions
  <1>4. ASSUME NEW p \in Proc, Mint(p) PROVE TypeOK'
    <2>1. PICK k \in Key : mem' = [mem EXCEPT ![p] = [key |-> k, cred |-> None, user |-> None]]
      BY <1>4 DEF Mint
    <2> QED
      BY <1>4, <2>1, FreshIdentity DEF TypeOK, Mint, Pc, SavePc
  <1>5. ASSUME NEW p \in Proc, SaveOpen(p) PROVE TypeOK'
    BY <1>5 DEF TypeOK, SaveOpen, Pc, SavePc
  <1>6. ASSUME NEW p \in Proc, SaveWrite(p) PROVE TypeOK'
    <2>1. mem[p] \in Identity
      BY <1>6 DEF TypeOK, SaveWrite
    <2>2. file' \in FileType
      BY <1>6, <2>1 DEF SaveWrite, Overwritten, FileType
    <2> QED
      BY <1>6, <2>1, <2>2 DEF TypeOK, FileType, SaveWrite, Pc, CallPc
  <1>7. ASSUME NEW p \in Proc, RegisterBegin(p) PROVE TypeOK'
    BY <1>7 DEF TypeOK, RegisterBegin, Pc, CallPc
  <1>8. ASSUME NEW p \in Proc, RegisterComplete(p) PROVE TypeOK'
    <2>1. PICK u \in User :
            /\ IdPEnrols(p, u)
            /\ \/ /\ NoFault
                  /\ mem' = [mem EXCEPT ![p].cred = mem[p].key, ![p].user = u]
                  /\ cer' = [cer EXCEPT ![p] = u]
                  /\ pc' = [pc EXCEPT ![p] = "enrolOpen"]
                  /\ UNCHANGED outcome
               \/ /\ Fault
                  /\ FailSignIn(p, "failed")
                  /\ UNCHANGED mem
      BY <1>8 DEF RegisterComplete
    <2>2. pc[p] = "regComplete" /\ UNCHANGED <<file, forgets>>
      BY <1>8 DEF RegisterComplete
    <2>3. mem[p] \in Identity /\ mem[p].key \in Key
      BY <2>2, IdentityFields DEF TypeOK
    <2>4. account' \in [Key -> User \cup {None}] /\ session' \in Sessions
      BY <2>1, <2>3 DEF TypeOK, IdPEnrols, Sessions
    <2>5. CASE NoFault /\ mem' = [mem EXCEPT ![p].cred = mem[p].key, ![p].user = u]
               /\ cer' = [cer EXCEPT ![p] = u]
               /\ pc' = [pc EXCEPT ![p] = "enrolOpen"] /\ UNCHANGED outcome
      <3>1. [mem[p] EXCEPT !.cred = mem[p].key, !.user = u] \in Identity
        BY <2>3, EnrolIdentity
      <3>2. mem' = [mem EXCEPT ![p] = [mem[p] EXCEPT !.cred = mem[p].key, !.user = u]]
        BY <2>5 DEF TypeOK
      <3> QED
        BY <2>2, <2>4, <2>5, <3>1, <3>2 DEF TypeOK, Sessions, Pc, SavePc, NoFault
    <2>6. CASE Fault /\ FailSignIn(p, "failed") /\ UNCHANGED mem
      BY <2>2, <2>4, <2>6, FailSignInType, FaultType DEF TypeOK, Outcome, Sessions
    <2> QED
      BY <2>1, <2>5, <2>6
  <1>9. ASSUME NEW p \in Proc, AuthenticateBegin(p) PROVE TypeOK'
    BY <1>9 DEF TypeOK, AuthenticateBegin, Pc, CallPc
  <1>10. ASSUME NEW p \in Proc, AuthenticateUnknown(p) PROVE TypeOK'
    <2>1. FailSignIn(p, "forgotten") /\ UNCHANGED <<mem, file, account, session, faults, forgets>>
      BY <1>10 DEF AuthenticateUnknown, StatusOf, Wrap, HTTPError
    <2>2. pc[p] \in {"authBegin", "authComplete"}
      BY <1>10 DEF AuthenticateUnknown
    <2> QED
      BY <2>1, <2>2, FailSignInType DEF TypeOK, Outcome
  <1>11. ASSUME NEW p \in Proc, AuthenticateComplete(p) PROVE TypeOK'
    <2>1. pc[p] = "authComplete" /\ UNCHANGED <<mem, file, account, forgets>>
      BY <1>11 DEF AuthenticateComplete
    <2>2. account[mem[p].cred] \in User \cup {None} /\ session' \in Sessions
      <3>1. mem[p].cred \in Key
        BY <2>1, IdentityFields DEF TypeOK, EnrolledIdentity
      <3>2. account[mem[p].cred] # None /\ session' = [session EXCEPT ![p].user = account[mem[p].cred]]
        BY <1>11 DEF AuthenticateComplete
      <3> QED
        BY <3>1, <3>2 DEF TypeOK, Sessions
    <2>3. CASE Fault /\ FailSignIn(p, "failed")
      BY <2>1, <2>2, <2>3, FailSignInType, FaultType DEF TypeOK, Outcome, Sessions
    <2>4. CASE NoFault /\ cer' = [cer EXCEPT ![p] = account[mem[p].cred]]
               /\ pc' = [pc EXCEPT ![p] = "deliver"] /\ UNCHANGED outcome
      BY <2>1, <2>2, <2>4 DEF TypeOK, Sessions, Pc, CallPc, NoFault
    <2> QED
      BY <1>11, <2>3, <2>4 DEF AuthenticateComplete
  <1>12. ASSUME NEW p \in Proc, CompleteSession(p) PROVE TypeOK'
    <2>1. pc[p] = "deliver" /\ UNCHANGED <<mem, file, account, forgets>>
      BY <1>12 DEF CompleteSession
    <2>2. session' \in Sessions
      BY <1>12 DEF TypeOK, CompleteSession, Sessions
    <2>3. CASE Fault /\ FailSignIn(p, "failed")
      BY <2>1, <2>2, <2>3, FailSignInType, FaultType DEF TypeOK, Outcome, Sessions
    <2>4. CASE NoFault /\ pc' = [pc EXCEPT ![p] = "status"] /\ UNCHANGED <<outcome, cer>>
      BY <2>1, <2>2, <2>4 DEF TypeOK, Sessions, Pc, CallPc, NoFault
    <2> QED
      BY <1>12, <2>3, <2>4 DEF CompleteSession
  <1>13. ASSUME NEW p \in Proc, SessionStatus(p) PROVE TypeOK'
    BY <1>13 DEF TypeOK, SessionStatus, Pc, CallPc
  <1>14. ASSUME NEW p \in Proc, Token(p) PROVE TypeOK'
    BY <1>14 DEF TypeOK, Token, Pc, CallPc
  <1>15. ASSUME NEW p \in Proc, Authorize(p) PROVE TypeOK'
    <2>1. mem[p].cred # None => mem[p] \in EnrolledIdentity
      BY <1>15 DEF TypeOK, Authorize, EnrolledIdentity
    <2>2. \E to \in {"regBegin", "authBegin"} :
            /\ pc' = [pc EXCEPT ![p] = to]
            /\ to = "authBegin" => mem[p].cred # None
      BY <1>15 DEF Authorize
    <2> QED
      BY <1>15, <2>1, <2>2 DEF TypeOK, Authorize, Pc, CallPc, NoSession
  <1>16. ASSUME NEW p \in Proc, SaveFails(p) PROVE TypeOK'
    <2>1. faults' \in 0 .. MaxFaults /\ UNCHANGED <<file, account, forgets>>
      BY <1>16, FaultType DEF SaveFails
    <2>2. CASE Ends(p)
      BY <2>1, <2>2, EndsType DEF TypeOK, Outcome, Sessions
    <2>3. CASE pc[p] \in {"enrolOpen", "enrolWrite"} /\ FailSignIn(p, "failed")
               /\ UNCHANGED <<mem, session>>
      BY <2>1, <2>3, FailSignInType DEF TypeOK, Outcome
    <2> QED
      BY <1>16, <2>2, <2>3 DEF SaveFails
  <1>17. ASSUME NEW p \in Proc, CallFails(p) PROVE TypeOK'
    BY <1>17, FailSignInType, FaultType DEF TypeOK, CallFails, CallPc, Outcome
  <1>18. ASSUME NEW p \in Proc, Exit(p) PROVE TypeOK'
    BY <1>18, EndsType DEF TypeOK, Exit, Outcome, Sessions
  <1>19. ASSUME NEW p \in Proc, Crash(p) PROVE TypeOK'
    BY <1>19, EndsType, FaultType DEF TypeOK, Crash, Outcome, Sessions
  <1>20. CASE Forget
    BY <1>20 DEF TypeOK, Forget
  <1>21. CASE UNCHANGED vars
    BY <1>21 DEF TypeOK, vars
  <1> QED
    BY <1>1, <1>2, <1>3, <1>4, <1>5, <1>6, <1>7, <1>8, <1>9, <1>10, <1>11, <1>12,
       <1>13, <1>14, <1>15, <1>16, <1>17, <1>18, <1>19, <1>20, <1>21 DEF Next, Runs

\* Every variable keeps its type, a stored or loaded identity has a key, and a
\* credential id is always the one of the key it stands beside.
THEOREM TypeCorrect == Spec => []TypeOK
  BY InitType, NextType, PTL DEF Spec

(***************************************************************************)
(* A credential on disk is enrolled                                        *)
(***************************************************************************)

\* The IdP holds this identity's credential for this identity's user.
Accepted(id) == id.cred # None => account[id.cred] = id.user /\ id.user # None

\* PersistedCredentialEnrolled is not inductive: what is written to the file is
\* what some process holds in memory, so memory must be as good as the file.
AcceptedInv ==
  forgets = 0 => /\ \A p \in Proc : Accepted(mem[p])
                 /\ Accepted(file.id)

LEMMA InitAccepted == Init => AcceptedInv
  BY StoredFields DEF Init, AcceptedInv, Accepted, NoIdentity

LEMMA AcceptedImplies == AcceptedInv => PersistedCredentialEnrolled
  BY DEF AcceptedInv, Accepted, PersistedCredentialEnrolled

\* As long as the IdP's table is left alone, what was accepted stays accepted.
LEMMA AcceptedStable ==
  ASSUME UNCHANGED account, NEW id, Accepted(id)
  PROVE  Accepted(id)'
  BY DEF Accepted

\* Steps that leave the table, every memory and the file alone.
LEMMA AcceptedUntouched ==
  ASSUME AcceptedInv, UNCHANGED <<account, forgets, mem, file>>
  PROVE  AcceptedInv'
  BY DEF AcceptedInv, Accepted

\* A process that ends takes its identity with it.
LEMMA AcceptedEnds ==
  ASSUME TypeOK, AcceptedInv, NEW p \in Proc, Ends(p), UNCHANGED <<account, forgets, file>>
  PROVE  AcceptedInv'
  <1> SUFFICES ASSUME forgets = 0, NEW q \in Proc PROVE Accepted(mem[q])'
    BY DEF AcceptedInv, Accepted
  <1>1. CASE q = p
    BY <1>1 DEF TypeOK, Ends, Accepted, NoIdentity
  <1>2. CASE q # p
    BY <1>2 DEF TypeOK, Ends, AcceptedInv, Accepted
  <1> QED
    BY <1>1, <1>2

LEMMA NextAccepted == TypeOK /\ AcceptedInv /\ [Next]_vars => AcceptedInv'
  <1> SUFFICES ASSUME TypeOK, AcceptedInv, [Next]_vars PROVE AcceptedInv'
    OBVIOUS
  <1>1. ASSUME NEW p \in Proc,
               Start(p) \/ RegisterBegin(p) \/ AuthenticateBegin(p) \/ AuthenticateComplete(p)
                 \/ CompleteSession(p) \/ SessionStatus(p) \/ Token(p) \/ Authorize(p)
                 \/ CallFails(p)
        PROVE  AcceptedInv'
    BY <1>1, AcceptedUntouched DEF Start, RegisterBegin, AuthenticateBegin,
       AuthenticateComplete, CompleteSession, SessionStatus, Token, Authorize, CallFails
  <1>2. ASSUME NEW p \in Proc, LoadUnreadable(p) \/ Exit(p) \/ Crash(p) PROVE AcceptedInv'
    BY <1>2, AcceptedEnds DEF LoadUnreadable, Exit, Crash
  <1>3. ASSUME NEW p \in Proc, SaveFails(p) PROVE AcceptedInv'
    BY <1>3, AcceptedEnds, AcceptedUntouched DEF SaveFails
  <1>4. ASSUME NEW p \in Proc, LoadStored(p) PROVE AcceptedInv'
    BY <1>4 DEF TypeOK, AcceptedInv, Accepted, LoadStored
  <1>5. ASSUME NEW p \in Proc, Mint(p) PROVE AcceptedInv'
    <2>1. PICK k \in Key : mem' = [mem EXCEPT ![p] = [key |-> k, cred |-> None, user |-> None]]
      BY <1>5 DEF Mint
    <2> SUFFICES ASSUME forgets = 0, NEW q \in Proc PROVE Accepted(mem[q])'
      BY <1>5 DEF AcceptedInv, Accepted, Mint
    <2>2. CASE q = p
      BY <2>1, <2>2 DEF TypeOK, Accepted
    <2>3. CASE q # p
      BY <1>5, <2>1, <2>3 DEF TypeOK, Mint, AcceptedInv, Accepted
    <2> QED
      BY <2>2, <2>3
  <1>6. ASSUME NEW p \in Proc, SaveOpen(p) PROVE AcceptedInv'
    BY <1>6, StoredFields DEF SaveOpen, AcceptedInv, Accepted, NoIdentity
  <1>7. ASSUME NEW p \in Proc, SaveWrite(p) PROVE AcceptedInv'
    <2>1. file'.id \in {mem[p], NoIdentity}
      BY <1>7, StoredFields DEF SaveWrite, Overwritten
    <2> QED
      BY <1>7, <2>1 DEF SaveWrite, AcceptedInv, Accepted, NoIdentity
  <1>8. ASSUME NEW p \in Proc, RegisterComplete(p) PROVE AcceptedInv'
    <2>1. PICK u \in User :
            /\ IdPEnrols(p, u)
            /\ \/ mem' = [mem EXCEPT ![p].cred = mem[p].key, ![p].user = u]
               \/ UNCHANGED mem
      BY <1>8 DEF RegisterComplete
    <2>2. mem[p] \in Identity /\ mem[p].key \in Key
      BY <1>8, IdentityFields DEF RegisterComplete, TypeOK
    <2>3. account' = [account EXCEPT ![mem[p].key] = u]
      BY <2>1 DEF IdPEnrols
    <2>4. account[mem[p].key] \in {None, u}
      BY <2>1 DEF IdPEnrols
    <2>5. ASSUME NEW id, Accepted(id), id.cred \in Key \cup {None}
          PROVE  id.cred # None => account'[id.cred] = id.user /\ id.user # None
      BY <2>2, <2>3, <2>4, <2>5 DEF Accepted, TypeOK
    <2>6. file.id.cred \in Key \cup {None}
      <3>1. file.id \in Identity \cup {NoIdentity}
        BY StoredFields DEF TypeOK
      <3> QED
        BY <3>1, IdentityFields DEF NoIdentity
    <2>7. \A q \in Proc : mem[q].cred \in Key \cup {None}
      BY IdentityFields DEF TypeOK, NoIdentity
    <2> SUFFICES ASSUME forgets = 0, NEW q \in Proc PROVE Accepted(mem[q])'
      BY <1>8, <2>5, <2>6 DEF RegisterComplete, AcceptedInv, Accepted
    <2>8. CASE UNCHANGED mem \/ q # p
      <3>1. mem'[q] = mem[q]
        BY <2>1, <2>8 DEF TypeOK
      <3>2. Accepted(mem[q])
        BY DEF AcceptedInv
      <3> QED
        BY <2>5, <2>7, <3>1, <3>2 DEF Accepted
    <2>9. CASE q = p /\ mem' = [mem EXCEPT ![p].cred = mem[p].key, ![p].user = u]
      <3>1. mem'[p].cred = mem[p].key /\ mem'[p].user = u
        BY <2>2, <2>9 DEF TypeOK, Identity
      <3>2. account'[mem[p].key] = u /\ u # None
        BY <2>2, <2>3, ConstantsAssumption DEF TypeOK
      <3> QED
        BY <2>9, <3>1, <3>2 DEF Accepted
    <2> QED
      BY <2>1, <2>8, <2>9
  <1>9. ASSUME NEW p \in Proc, AuthenticateUnknown(p) PROVE AcceptedInv'
    BY <1>9, AcceptedUntouched DEF AuthenticateUnknown, StatusOf, Wrap, HTTPError
  <1>10. CASE Forget
    BY <1>10 DEF Forget, AcceptedInv, TypeOK
  <1>11. CASE UNCHANGED vars
    BY <1>11, AcceptedUntouched DEF vars
  <1> QED
    BY <1>1, <1>2, <1>3, <1>4, <1>5, <1>6, <1>7, <1>8, <1>9, <1>10, <1>11 DEF Next, Runs

\* Register writes the file only after the IdP has answered, so whatever
\* crashes, fails or interleaves, a stored credential is one the IdP accepted.
THEOREM PersistedCredential == Spec => []PersistedCredentialEnrolled
  <1>1. Spec => []AcceptedInv
    BY TypeCorrect, InitAccepted, NextAccepted, PTL DEF Spec
  <1> QED
    BY <1>1, AcceptedImplies, PTL

\* A process asserts the credential it holds, which the IdP accepted: the table alone
\* can have forgotten it.
LEMMA NextRefused ==
  TypeOK /\ AcceptedInv /\ RefusedOnlyWhenForgotten /\ [Next]_vars => RefusedOnlyWhenForgotten'
  <1> SUFFICES ASSUME TypeOK, AcceptedInv, RefusedOnlyWhenForgotten, [Next]_vars
               PROVE  RefusedOnlyWhenForgotten'
    OBVIOUS
  <1>1. forgets' = forgets \/ forgets' > 0
    <2>1. CASE Forget
      BY <2>1 DEF Forget, TypeOK
    <2>2. CASE ~ Forget
      BY <2>2 DEF Next, Runs, vars, Start, LoadStored, LoadUnreadable, Mint, SaveOpen, SaveWrite,
             SaveFails, RegisterBegin, RegisterComplete, AuthenticateBegin, AuthenticateUnknown,
             AuthenticateComplete, CompleteSession, SessionStatus, Token, Authorize, CallFails,
             Exit, Crash
    <2> QED
      BY <2>1, <2>2
  <1>2. ASSUME NEW p \in Proc, AuthenticateUnknown(p) PROVE RefusedOnlyWhenForgotten'
    <2>1. mem[p] \in EnrolledIdentity /\ account[mem[p].cred] = None /\ forgets' = forgets
      BY <1>2 DEF AuthenticateUnknown, TypeOK
    <2>2. mem[p].cred # None
      BY <2>1 DEF EnrolledIdentity
    <2>3. forgets # 0
      BY <2>1, <2>2 DEF AcceptedInv, Accepted
    <2> QED
      BY <2>1, <2>3 DEF TypeOK, RefusedOnlyWhenForgotten
  <1>3. CASE /\ ~ \E p \in Proc : AuthenticateUnknown(p)
             /\ ~ UNCHANGED outcome
    <2>1. PICK p \in Proc, how \in {"none", "ok", "failed"} : outcome' = [outcome EXCEPT ![p] = how]
      BY <1>3 DEF Next, Runs, vars, Start, LoadStored, LoadUnreadable, Mint, SaveOpen, SaveWrite,
           SaveFails, RegisterBegin, RegisterComplete, AuthenticateBegin, AuthenticateComplete,
           CompleteSession, SessionStatus, Token, Authorize, CallFails, Exit, Crash, Forget,
           FailSignIn, Ends
    <2> QED
      BY <1>1, <2>1 DEF TypeOK, RefusedOnlyWhenForgotten
  <1>4. CASE UNCHANGED outcome
    BY <1>1, <1>4 DEF RefusedOnlyWhenForgotten
  <1> QED
    BY <1>2, <1>3, <1>4

\* Only an IdP that lost its table refuses a sign-in as unknown.
THEOREM RefusalsAreForgetting == Spec => []RefusedOnlyWhenForgotten
  <1>1. Init => RefusedOnlyWhenForgotten
    BY DEF Init, RefusedOnlyWhenForgotten
  <1>2. Spec => [](TypeOK /\ AcceptedInv)
    BY TypeCorrect, InitAccepted, NextAccepted, PTL DEF Spec
  <1> QED
    BY <1>1, <1>2, NextRefused, PTL DEF Spec

(***************************************************************************)
(* Attributes go to the session's own user                                 *)
(***************************************************************************)

BeforeDelivery ==
  {"regBegin", "regComplete", "authBegin", "authComplete", "enrolOpen", "enrolWrite", "deliver"}

\* DeliveredForAuthenticatedUser is kept because nothing is delivered before the
\* ceremony is over, and the user a ceremony returns is the session's.
SessionOf(p) ==
  /\ pc[p] \in BeforeDelivery => session[p].delivered = None
  /\ pc[p] \in {"enrolOpen", "enrolWrite", "deliver"} => cer[p] = session[p].user
  /\ session[p].delivered # None => session[p].delivered = session[p].user

SessionInv == \A p \in Proc : SessionOf(p)

LEMMA InitSession == Init => SessionInv
  BY DEF Init, SessionInv, SessionOf, BeforeDelivery, NoSession

\* Every step changes the program counter, the result and the session of one
\* process only.
LEMMA SessionOfOthers ==
  ASSUME TypeOK, SessionInv, NEW p \in Proc, NEW to, NEW user, NEW sess,
         pc' = [pc EXCEPT ![p] = to], cer' = [cer EXCEPT ![p] = user],
         session' = [session EXCEPT ![p] = sess],
         to \in BeforeDelivery => sess.delivered = None,
         to \in {"enrolOpen", "enrolWrite", "deliver"} => user = sess.user,
         sess.delivered # None => sess.delivered = sess.user
  PROVE  SessionInv'
  <1> SUFFICES ASSUME NEW q \in Proc PROVE SessionOf(q)'
    BY DEF SessionInv
  <1>1. CASE q = p
    BY <1>1 DEF TypeOK, SessionOf
  <1>2. CASE q # p
    BY <1>2 DEF TypeOK, SessionInv, SessionOf
  <1> QED
    BY <1>1, <1>2

LEMMA SessionUntouched ==
  ASSUME SessionInv, UNCHANGED <<pc, cer, session>>
  PROVE  SessionInv'
  BY DEF SessionInv, SessionOf

LEMMA SessionEnds ==
  ASSUME TypeOK, SessionInv, NEW p \in Proc, Ends(p)
  PROVE  SessionInv'
  BY SessionOfOthers DEF Ends, NoSession, BeforeDelivery

\* After an error the session stays as the last call left it.
LEMMA SessionFailSignIn ==
  ASSUME TypeOK, SessionInv, NEW p \in Proc, NEW how, FailSignIn(p, how), NEW sess,
         session' = [session EXCEPT ![p] = sess],
         sess.delivered # None => sess.delivered = sess.user
  PROVE  SessionInv'
  BY SessionOfOthers DEF FailSignIn, BeforeDelivery

LEMMA NextSession == TypeOK /\ SessionInv /\ [Next]_vars => SessionInv'
  <1> SUFFICES ASSUME TypeOK, SessionInv, [Next]_vars PROVE SessionInv'
    OBVIOUS
  <1>0. \A p \in Proc : /\ session = [session EXCEPT ![p] = session[p]]
                        /\ cer = [cer EXCEPT ![p] = cer[p]]
                        /\ SessionOf(p)
    BY DEF TypeOK, SessionInv
  <1>1. ASSUME NEW p \in Proc, LoadUnreadable(p) \/ Exit(p) \/ Crash(p) PROVE SessionInv'
    BY <1>1, SessionEnds DEF LoadUnreadable, Exit, Crash
  <1>2. ASSUME NEW p \in Proc, Start(p) \/ LoadStored(p) \/ Mint(p) PROVE SessionInv'
    <2>1. PICK to \in {"load", "ready", "mintOpen"} : pc' = [pc EXCEPT ![p] = to]
      BY <1>2 DEF Start, LoadStored, Mint
    <2>2. cer' = [cer EXCEPT ![p] = cer[p]] /\ session' = [session EXCEPT ![p] = session[p]]
      BY <1>0, <1>2 DEF Start, LoadStored, Mint
    <2> QED
      BY <1>0, <2>1, <2>2, SessionOfOthers DEF SessionOf, BeforeDelivery
  <1>3. ASSUME NEW p \in Proc, SaveOpen(p) \/ SaveWrite(p) PROVE SessionInv'
    <2>1. cer' = [cer EXCEPT ![p] = cer[p]] /\ session' = [session EXCEPT ![p] = session[p]]
      BY <1>0, <1>3 DEF SaveOpen, SaveWrite
    <2>2. CASE pc[p] \in {"mintOpen", "mintWrite"}
      <3>1. PICK to \in {"mintWrite", "ready"} : pc' = [pc EXCEPT ![p] = to]
        BY <1>3, <2>2 DEF SaveOpen, SaveWrite
      <3> QED
        BY <1>0, <2>1, <3>1, SessionOfOthers DEF SessionOf, BeforeDelivery
    <2>3. CASE pc[p] \in {"enrolOpen", "enrolWrite"}
      <3>1. PICK to \in {"enrolWrite", "deliver"} : pc' = [pc EXCEPT ![p] = to]
        BY <1>3, <2>3 DEF SaveOpen, SaveWrite
      <3> QED
        BY <1>0, <2>1, <2>3, <3>1, SessionOfOthers DEF SessionOf, BeforeDelivery
    <2> QED
      BY <1>3, <2>2, <2>3 DEF SaveOpen, SaveWrite
  <1>4. ASSUME NEW p \in Proc, SaveFails(p) PROVE SessionInv'
    BY <1>0, <1>4, SessionEnds, SessionFailSignIn DEF SaveFails, SessionOf
  <1>5. ASSUME NEW p \in Proc, RegisterBegin(p) \/ AuthenticateBegin(p) PROVE SessionInv'
    <2>1. session[p].delivered = None
      BY <1>0, <1>5 DEF RegisterBegin, AuthenticateBegin, SessionOf, BeforeDelivery
    <2>2. PICK to \in {"regComplete", "authComplete"} : pc' = [pc EXCEPT ![p] = to]
      BY <1>5 DEF RegisterBegin, AuthenticateBegin
    <2>3. cer' = [cer EXCEPT ![p] = cer[p]] /\ session' = [session EXCEPT ![p] = session[p]]
      BY <1>0, <1>5 DEF RegisterBegin, AuthenticateBegin
    <2> QED
      BY <2>1, <2>2, <2>3, SessionOfOthers
  <1>6. ASSUME NEW p \in Proc, RegisterComplete(p) PROVE SessionInv'
    <2>1. PICK u \in User :
            /\ session' = [session EXCEPT ![p].user = u]
            /\ \/ cer' = [cer EXCEPT ![p] = u] /\ pc' = [pc EXCEPT ![p] = "enrolOpen"]
               \/ FailSignIn(p, "failed")
      BY <1>6 DEF RegisterComplete, IdPEnrols
    <2>2. session[p].delivered = None
      BY <1>0, <1>6 DEF RegisterComplete, SessionOf, BeforeDelivery
    <2> DEFINE sess == [session[p] EXCEPT !.user = u]
    <2>3. session' = [session EXCEPT ![p] = sess] /\ sess.delivered = None /\ sess.user = u
      BY <2>1, <2>2 DEF TypeOK
    <2> HIDE DEF sess
    <2>4. CASE cer' = [cer EXCEPT ![p] = u] /\ pc' = [pc EXCEPT ![p] = "enrolOpen"]
      BY <2>3, <2>4, SessionOfOthers
    <2>5. CASE FailSignIn(p, "failed")
      BY <2>3, <2>5, SessionFailSignIn
    <2> QED
      BY <2>1, <2>4, <2>5
  <1>7. ASSUME NEW p \in Proc, AuthenticateComplete(p) PROVE SessionInv'
    <2> DEFINE u == account[mem[p].cred]
               sess == [session[p] EXCEPT !.user = u]
    <2>1. session[p].delivered = None
      BY <1>0, <1>7 DEF AuthenticateComplete, SessionOf, BeforeDelivery
    <2>2. session' = [session EXCEPT ![p] = sess] /\ sess.delivered = None /\ sess.user = u
      BY <1>7, <2>1 DEF TypeOK, AuthenticateComplete
    <2>3. \/ cer' = [cer EXCEPT ![p] = u] /\ pc' = [pc EXCEPT ![p] = "deliver"]
          \/ FailSignIn(p, "failed")
      BY <1>7 DEF AuthenticateComplete
    <2> HIDE DEF u, sess
    <2>4. CASE cer' = [cer EXCEPT ![p] = u] /\ pc' = [pc EXCEPT ![p] = "deliver"]
      BY <2>2, <2>4, SessionOfOthers
    <2>5. CASE FailSignIn(p, "failed")
      BY <2>2, <2>5, SessionFailSignIn
    <2> QED
      BY <2>3, <2>4, <2>5
  <1>8. ASSUME NEW p \in Proc, AuthenticateUnknown(p) PROVE SessionInv'
    BY <1>0, <1>8, SessionFailSignIn
    DEF AuthenticateUnknown, StatusOf, Wrap, HTTPError, SessionOf
  <1>9. ASSUME NEW p \in Proc, CompleteSession(p) PROVE SessionInv'
    <2> DEFINE sess == [session[p] EXCEPT !.delivered = cer[p]]
    <2>1. cer[p] = session[p].user
      BY <1>0, <1>9 DEF CompleteSession, SessionOf
    <2>2. session' = [session EXCEPT ![p] = sess] /\ sess.delivered = sess.user
      BY <1>9, <2>1 DEF TypeOK, CompleteSession
    <2>3. \/ pc' = [pc EXCEPT ![p] = "status"] /\ cer' = [cer EXCEPT ![p] = cer[p]]
          \/ FailSignIn(p, "failed")
      BY <1>0, <1>9 DEF CompleteSession
    <2> HIDE DEF sess
    <2>4. CASE pc' = [pc EXCEPT ![p] = "status"] /\ cer' = [cer EXCEPT ![p] = cer[p]]
      BY <2>2, <2>4, SessionOfOthers DEF BeforeDelivery
    <2>5. CASE FailSignIn(p, "failed")
      BY <2>2, <2>5, SessionFailSignIn
    <2> QED
      BY <2>3, <2>4, <2>5
  <1>10. ASSUME NEW p \in Proc, SessionStatus(p) \/ Token(p) PROVE SessionInv'
    <2>1. PICK to \in {"token", "ready"}, user \in {None, cer[p]} :
            pc' = [pc EXCEPT ![p] = to] /\ cer' = [cer EXCEPT ![p] = user]
      BY <1>0, <1>10 DEF SessionStatus, Token
    <2>2. session' = [session EXCEPT ![p] = session[p]]
      BY <1>0, <1>10 DEF SessionStatus, Token
    <2> QED
      BY <1>0, <2>1, <2>2, SessionOfOthers DEF SessionOf, BeforeDelivery
  <1>11. ASSUME NEW p \in Proc, Authorize(p) PROVE SessionInv'
    <2>1. PICK to \in {"regBegin", "authBegin"} : pc' = [pc EXCEPT ![p] = to]
      BY <1>11 DEF Authorize
    <2>2. session' = [session EXCEPT ![p] = NoSession] /\ cer' = [cer EXCEPT ![p] = cer[p]]
      BY <1>0, <1>11 DEF Authorize
    <2> QED
      BY <2>1, <2>2, SessionOfOthers DEF NoSession
  <1>12. ASSUME NEW p \in Proc, CallFails(p) PROVE SessionInv'
    BY <1>0, <1>12, SessionFailSignIn DEF CallFails, SessionOf
  <1>13. CASE Forget
    BY <1>13, SessionUntouched DEF Forget
  <1>14. CASE UNCHANGED vars
    BY <1>14, SessionUntouched DEF vars
  <1> QED
    BY <1>1, <1>2, <1>3, <1>4, <1>5, <1>6, <1>7, <1>8, <1>9, <1>10, <1>11, <1>12,
       <1>13, <1>14 DEF Next, Runs

\* The wallet delivers for the user the ceremony returned, which is the user the
\* IdP authenticated in that session, whatever the identity file remembers.
THEOREM DeliveredToSessionUser == Spec => []DeliveredForAuthenticatedUser
  <1>1. Spec => []SessionInv
    BY TypeCorrect, InitSession, NextSession, PTL DEF Spec
  <1>2. SessionInv => DeliveredForAuthenticatedUser
    BY DEF SessionInv, SessionOf, DeliveredForAuthenticatedUser
  <1> QED
    BY <1>1, <1>2, PTL

(***************************************************************************)
(* Sessions are kept                                                       *)
(***************************************************************************)

Ceremony == {"regBegin", "regComplete", "authBegin", "authComplete"}
Enrolled == {"enrolOpen", "enrolWrite", "deliver"}

\* How far the session has come where the process is, and that nothing has been told
\* of it before SignIn returns.
Standing(p) ==
  /\ pc[p] \in Ceremony => session[p].user = None /\ session[p].delivered = None
  /\ pc[p] \in Enrolled => session[p].user # None /\ session[p].delivered = None
  /\ pc[p] \in {"status", "token"} => session[p].delivered # None
  /\ pc[p] # "ready" => outcome[p] = "none"

StandingInv == \A p \in Proc : Standing(p)

LEMMA InitStanding == Init => StandingInv
  BY DEF Init, StandingInv, Standing, Ceremony, Enrolled

LEMMA StandingOfOthers ==
  ASSUME TypeOK, StandingInv, NEW p \in Proc, NEW to, NEW how, NEW sess,
         pc' = [pc EXCEPT ![p] = to], outcome' = [outcome EXCEPT ![p] = how],
         session' = [session EXCEPT ![p] = sess],
         to \in Ceremony => sess.user = None /\ sess.delivered = None,
         to \in Enrolled => sess.user # None /\ sess.delivered = None,
         to \in {"status", "token"} => sess.delivered # None,
         to # "ready" => how = "none"
  PROVE  StandingInv'
  <1> SUFFICES ASSUME NEW q \in Proc PROVE Standing(q)'
    BY DEF StandingInv
  <1>1. CASE q = p
    BY <1>1 DEF TypeOK, Standing
  <1>2. CASE q # p
    BY <1>2 DEF TypeOK, StandingInv, Standing
  <1> QED
    BY <1>1, <1>2

\* What UserSession calls who and received.
Who == [p \in Proc |-> session[p].user]
Received == [p \in Proc |-> session[p].delivered]

LEMMA SessionSame ==
  ASSUME UNCHANGED session
  PROVE  UNCHANGED <<Who, Received>>
  BY DEF Who, Received

LEMMA NobodysSession == NoSession.user = None /\ NoSession.delivered = None
  BY DEF NoSession

\* What a step owes: the standing of the sessions, and a step of UserSession.
Kept == StandingInv' /\ [Promise!Next]_<<account, Who, Received, outcome>>

LEMMA KeptEnds ==
  ASSUME TypeOK, StandingInv, NEW p \in Proc, Ends(p), UNCHANGED account
  PROVE  Kept
  <1>1. StandingInv'
    BY StandingOfOthers DEF Ends, Ceremony, Enrolled
  <1>2. /\ Who' = [Who EXCEPT ![p] = None] /\ Received' = [Received EXCEPT ![p] = None]
        /\ outcome' = [outcome EXCEPT ![p] = "none"]
    <2>1. session' = [session EXCEPT ![p] = NoSession]
      BY DEF Ends
    <2>2. NoSession.user = None /\ NoSession.delivered = None
      BY NobodysSession
    <2>3. Who' = [Who EXCEPT ![p] = None] /\ Received' = [Received EXCEPT ![p] = None]
      BY <2>1, <2>2 DEF TypeOK, Who, Received
    <2> QED
      BY <2>3 DEF Ends
  <1>3. Promise!Open(p)
    BY <1>2 DEF Promise!Open, Promise!Tells, Who, Received
  <1> QED
    BY <1>1, <1>3 DEF Kept, Promise!Next

\* An error return, with nothing done at the IdP.
LEMMA KeptFailSignIn ==
  ASSUME TypeOK, StandingInv, NEW p \in Proc, FailSignIn(p, "failed"), UNCHANGED <<account, session>>
  PROVE  Kept
  <1>1. session' = [session EXCEPT ![p] = session[p]]
    BY DEF TypeOK
  <1>2. StandingInv'
    BY <1>1, StandingOfOthers DEF FailSignIn, Ceremony, Enrolled
  <1>3. Promise!Fail(p)
    BY SessionSame DEF FailSignIn, Promise!Fail, Promise!Tells, Who, Received
  <1> QED
    BY <1>2, <1>3 DEF Kept, Promise!Next

\* A step of the process alone.
LEMMA KeptMoves ==
  ASSUME TypeOK, StandingInv, NEW p \in Proc, NEW to, pc' = [pc EXCEPT ![p] = to],
         UNCHANGED <<account, session, outcome>>,
         to \in Ceremony => pc[p] \in Ceremony,
         to \in Enrolled => pc[p] \in Enrolled,
         to \in {"status", "token"} => pc[p] \in {"status", "token"},
         to # "ready" => pc[p] # "ready"
  PROVE  Kept
  <1>1. session' = [session EXCEPT ![p] = session[p]] /\ outcome' = [outcome EXCEPT ![p] = outcome[p]]
    BY DEF TypeOK
  <1>2. StandingInv'
    BY <1>1, StandingOfOthers DEF StandingInv, Standing
  <1> QED
    BY <1>2, SessionSame DEF Kept

\* The IdP authenticates the session as u, the user of key k from now on.
LEMMA KeptAuthenticates ==
  ASSUME TypeOK, StandingInv, NEW p \in Proc, pc[p] \in Ceremony, NEW k \in Key, NEW u \in User,
         account[k] = u \/ (account[k] = None /\ FreshUser(u)),
         account' = [account EXCEPT ![k] = u], session' = [session EXCEPT ![p].user = u],
         \/ FailSignIn(p, "failed")
         \/ UNCHANGED outcome /\ \E to \in Enrolled : pc' = [pc EXCEPT ![p] = to]
  PROVE  Kept
  <1> DEFINE sess == [session[p] EXCEPT !.user = u]
  <1>1. session' = [session EXCEPT ![p] = sess] /\ sess.user = u
        /\ sess.delivered = session[p].delivered
    BY DEF TypeOK
  <1> HIDE DEF sess
  <1>2. session[p].user = None /\ session[p].delivered = None /\ outcome[p] = "none"
    BY DEF StandingInv, Standing, Ceremony
  <1>3. u # None
    BY ConstantsAssumption
  <1>4. StandingInv'
    <2>1. CASE FailSignIn(p, "failed")
      BY <1>1, <2>1, StandingOfOthers DEF FailSignIn, Ceremony, Enrolled
    <2>2. CASE UNCHANGED outcome /\ \E to \in Enrolled : pc' = [pc EXCEPT ![p] = to]
      <3>1. PICK to \in Enrolled : pc' = [pc EXCEPT ![p] = to]
        BY <2>2
      <3>2. outcome' = [outcome EXCEPT ![p] = "none"]
        BY <1>2, <2>2 DEF TypeOK
      <3>3. to \notin Ceremony /\ to \notin {"status", "token"}
        BY DEF Ceremony, Enrolled
      <3>4. to \in Enrolled => sess.user # None /\ sess.delivered = None
        BY <1>1, <1>2, <1>3
      <3> QED
        BY <1>1, <3>1, <3>2, <3>3, <3>4, StandingOfOthers
    <2> QED
      BY <2>1, <2>2
  <1>5. Who' = [Who EXCEPT ![p] = u] /\ UNCHANGED Received
    BY <1>1 DEF TypeOK, Who, Received
  <1>6. Who[p] = None
    BY <1>2 DEF Who
  <1>7. UNCHANGED outcome \/ outcome' = [outcome EXCEPT ![p] = "failed"]
    BY DEF FailSignIn
  <1>8. account[k] = u \/ (account[k] = None /\ \A j \in Key : account[j] # u)
    BY DEF FreshUser
  <1>9. Promise!Authenticate(p)
    BY <1>2, <1>5, <1>6, <1>7, <1>8
    DEF Promise!Authenticate, Promise!Answered, Promise!Tells, Who, Received
  <1> QED
    BY <1>4, <1>9 DEF Kept, Promise!Next

LEMMA NextKept == TypeOK /\ SessionInv /\ StandingInv /\ [Next]_vars => Kept
  <1> SUFFICES ASSUME TypeOK, SessionInv, StandingInv, [Next]_vars PROVE Kept
    OBVIOUS
  <1>0. \A p \in Proc : Standing(p)
    BY DEF StandingInv
  <1>1. ASSUME NEW p \in Proc, LoadUnreadable(p) \/ Exit(p) \/ Crash(p) PROVE Kept
    BY <1>1, KeptEnds DEF LoadUnreadable, Exit, Crash
  <1>2. ASSUME NEW p \in Proc, Start(p) \/ LoadStored(p) \/ Mint(p) PROVE Kept
    <2>1. PICK to \in {"load", "ready", "mintOpen"} : pc' = [pc EXCEPT ![p] = to]
      BY <1>2 DEF Start, LoadStored, Mint
    <2> QED
      BY <1>2, <2>1, KeptMoves DEF Start, LoadStored, Mint, Ceremony, Enrolled
  <1>3. ASSUME NEW p \in Proc, SaveOpen(p) \/ SaveWrite(p) PROVE Kept
    <2>1. CASE pc[p] \in {"mintOpen", "mintWrite"}
      <3>1. PICK to \in {"mintWrite", "ready"} : pc' = [pc EXCEPT ![p] = to]
        BY <1>3, <2>1 DEF SaveOpen, SaveWrite
      <3> QED
        BY <1>3, <2>1, <3>1, KeptMoves DEF SaveOpen, SaveWrite, Ceremony, Enrolled
    <2>2. CASE pc[p] \in {"enrolOpen", "enrolWrite"}
      <3>1. PICK to \in {"enrolWrite", "deliver"} : pc' = [pc EXCEPT ![p] = to]
        BY <1>3, <2>2 DEF SaveOpen, SaveWrite
      <3> QED
        BY <1>3, <2>2, <3>1, KeptMoves DEF SaveOpen, SaveWrite, Ceremony, Enrolled
    <2> QED
      BY <1>3, <2>1, <2>2 DEF SaveOpen, SaveWrite
  <1>4. ASSUME NEW p \in Proc, SaveFails(p) PROVE Kept
    BY <1>4, KeptEnds, KeptFailSignIn DEF SaveFails
  <1>5. ASSUME NEW p \in Proc, RegisterBegin(p) \/ AuthenticateBegin(p) PROVE Kept
    <2>1. PICK to \in {"regComplete", "authComplete"} : pc' = [pc EXCEPT ![p] = to]
      BY <1>5 DEF RegisterBegin, AuthenticateBegin
    <2> QED
      BY <1>5, <2>1, KeptMoves DEF RegisterBegin, AuthenticateBegin, Ceremony, Enrolled
  <1>6. ASSUME NEW p \in Proc, RegisterComplete(p) PROVE Kept
    <2>1. pc[p] = "regComplete" /\ mem[p] \in Identity
      BY <1>6 DEF RegisterComplete, TypeOK
    <2>2. mem[p].key \in Key
      BY <2>1, IdentityFields
    <2>3. PICK u \in User :
            /\ IdPEnrols(p, u)
            /\ \/ UNCHANGED outcome /\ pc' = [pc EXCEPT ![p] = "enrolOpen"]
               \/ FailSignIn(p, "failed")
      BY <1>6 DEF RegisterComplete
    <2>4. /\ account[mem[p].key] = u \/ (account[mem[p].key] = None /\ FreshUser(u))
          /\ account' = [account EXCEPT ![mem[p].key] = u]
          /\ session' = [session EXCEPT ![p].user = u]
      BY <2>3 DEF IdPEnrols
    <2> QED
      BY <2>1, <2>2, <2>3, <2>4, KeptAuthenticates DEF Ceremony, Enrolled
  <1>7. ASSUME NEW p \in Proc, AuthenticateComplete(p) PROVE Kept
    <2> DEFINE k == mem[p].cred
               u == account[k]
    <2>1. pc[p] = "authComplete" /\ mem[p] \in EnrolledIdentity
      BY <1>7 DEF AuthenticateComplete, TypeOK
    <2>2. k \in Key
      BY <2>1, IdentityFields DEF EnrolledIdentity
    <2>3. u \in User /\ UNCHANGED account
      BY <1>7, <2>2 DEF AuthenticateComplete, TypeOK
    <2>4. account' = [account EXCEPT ![k] = u]
      BY <2>2, <2>3 DEF TypeOK
    <2>5. /\ session' = [session EXCEPT ![p].user = u]
          /\ \/ UNCHANGED outcome /\ pc' = [pc EXCEPT ![p] = "deliver"]
             \/ FailSignIn(p, "failed")
      BY <1>7 DEF AuthenticateComplete
    <2> HIDE DEF k
    <2> QED
      BY <2>1, <2>2, <2>3, <2>4, <2>5, KeptAuthenticates DEF Ceremony, Enrolled
  <1>8. ASSUME NEW p \in Proc, AuthenticateUnknown(p) PROVE Kept
    <2>1. /\ pc[p] \in Ceremony /\ FailSignIn(p, "forgotten")
          /\ UNCHANGED <<account, session>>
      BY <1>8 DEF AuthenticateUnknown, StatusOf, Wrap, HTTPError, Ceremony
    <2>2. outcome[p] = "none" /\ session[p].user = None
      BY <1>0, <2>1 DEF Standing, Ceremony
    <2>3. session' = [session EXCEPT ![p] = session[p]]
      BY <2>1 DEF TypeOK
    <2>4. StandingInv'
      BY <2>1, <2>3, StandingOfOthers DEF FailSignIn, Ceremony, Enrolled
    <2>5. Promise!Refuse(p)
      BY <2>1, <2>2, SessionSame DEF FailSignIn, Promise!Refuse, Promise!Tells, Who, Received
    <2> QED
      BY <2>4, <2>5 DEF Kept, Promise!Next
  <1>9. ASSUME NEW p \in Proc, CompleteSession(p) PROVE Kept
    <2> DEFINE sess == [session[p] EXCEPT !.delivered = cer[p]]
    <2>1. pc[p] = "deliver" /\ UNCHANGED account
      BY <1>9 DEF CompleteSession
    <2>2. /\ cer[p] = session[p].user /\ session[p].user # None
          /\ session[p].delivered = None /\ outcome[p] = "none"
      BY <1>0, <2>1 DEF SessionInv, SessionOf, Standing, Enrolled
    <2>3. /\ session' = [session EXCEPT ![p] = sess]
          /\ sess.user = session[p].user /\ sess.delivered = session[p].user
      BY <1>9, <2>2 DEF TypeOK, CompleteSession
    <2> HIDE DEF sess
    <2>4. \/ FailSignIn(p, "failed")
          \/ UNCHANGED outcome /\ pc' = [pc EXCEPT ![p] = "status"]
      BY <1>9 DEF CompleteSession
    <2>5. StandingInv'
      <3>1. CASE FailSignIn(p, "failed")
        BY <2>3, <3>1, StandingOfOthers DEF FailSignIn, Ceremony, Enrolled
      <3>2. CASE UNCHANGED outcome /\ pc' = [pc EXCEPT ![p] = "status"]
        <4>1. outcome' = [outcome EXCEPT ![p] = "none"]
          BY <2>2, <3>2 DEF TypeOK
        <4> QED
          BY <2>2, <2>3, <3>2, <4>1, StandingOfOthers DEF Ceremony, Enrolled
      <3> QED
        BY <2>4, <3>1, <3>2
    <2>6. Received' = [Received EXCEPT ![p] = Who[p]] /\ UNCHANGED Who
      <3>1. /\ Who' = [Who EXCEPT ![p] = session[p].user]
            /\ Received' = [Received EXCEPT ![p] = session[p].user]
        BY <2>3 DEF TypeOK, Who, Received
      <3>2. Who[p] = session[p].user
        BY DEF Who
      <3> QED
        BY <3>1, <3>2 DEF Who
    <2>7. Who[p] # None /\ Received[p] = None
      BY <2>2 DEF Who, Received
    <2>8. UNCHANGED outcome \/ outcome' = [outcome EXCEPT ![p] = "failed"]
      BY <2>4 DEF FailSignIn
    <2>9. Promise!Receive(p)
      BY <2>1, <2>2, <2>6, <2>7, <2>8
      DEF Promise!Receive, Promise!Answered, Promise!Tells, Who, Received
    <2> QED
      BY <2>5, <2>9 DEF Kept, Promise!Next
  <1>10. ASSUME NEW p \in Proc, SessionStatus(p) PROVE Kept
    BY <1>10, KeptMoves DEF SessionStatus, Ceremony, Enrolled
  <1>11. ASSUME NEW p \in Proc, Token(p) PROVE Kept
    <2>1. /\ pc[p] = "token" /\ pc' = [pc EXCEPT ![p] = "ready"]
          /\ outcome' = [outcome EXCEPT ![p] = "ok"] /\ UNCHANGED <<account, session>>
      BY <1>11 DEF Token
    <2>2. session[p].delivered # None /\ outcome[p] = "none"
      BY <1>0, <2>1 DEF Standing
    <2>3. session' = [session EXCEPT ![p] = session[p]]
      BY <2>1 DEF TypeOK
    <2>4. StandingInv'
      BY <2>1, <2>3, StandingOfOthers DEF Ceremony, Enrolled
    <2>5. Promise!Succeed(p)
      BY <2>1, <2>2, SessionSame DEF Promise!Succeed, Promise!Tells, Who, Received
    <2> QED
      BY <2>4, <2>5 DEF Kept, Promise!Next
  <1>12. ASSUME NEW p \in Proc, Authorize(p) PROVE Kept
    <2>1. PICK to \in {"regBegin", "authBegin"} : pc' = [pc EXCEPT ![p] = to]
      BY <1>12 DEF Authorize
    <2>2. /\ session' = [session EXCEPT ![p] = NoSession] /\ UNCHANGED account
          /\ outcome' = [outcome EXCEPT ![p] = "none"]
      BY <1>12 DEF Authorize
    <2>3. StandingInv'
      BY <2>1, <2>2, StandingOfOthers DEF NoSession, Ceremony, Enrolled
    <2>4. Who' = [Who EXCEPT ![p] = None] /\ Received' = [Received EXCEPT ![p] = None]
      BY <2>2, NobodysSession DEF TypeOK, Who, Received
    <2>5. Promise!Open(p)
      BY <2>2, <2>4 DEF Promise!Open, Promise!Tells, Who, Received
    <2> QED
      BY <2>3, <2>5 DEF Kept, Promise!Next
  <1>13. ASSUME NEW p \in Proc, CallFails(p) PROVE Kept
    BY <1>13, KeptFailSignIn DEF CallFails
  <1>14. CASE Forget
    <2>1. StandingInv'
      BY <1>14 DEF Forget, StandingInv, Standing
    <2>2. Promise!Forget
      BY <1>14, SessionSame DEF Forget, Promise!Forget, Who, Received
    <2> QED
      BY <2>1, <2>2 DEF Kept, Promise!Next
  <1>15. CASE UNCHANGED vars
    <2>1. StandingInv'
      BY <1>15 DEF vars, StandingInv, Standing
    <2> QED
      BY <1>15, <2>1, SessionSame DEF vars, Kept
  <1> QED
    BY <1>1, <1>2, <1>3, <1>4, <1>5, <1>6, <1>7, <1>8, <1>9, <1>10, <1>11, <1>12,
       <1>13, <1>14, <1>15 DEF Next, Runs

\* The sign-in implements UserSession: a session is authenticated once, receives once
\* and for its user, and is told a success last, whatever fails or crashes meanwhile.
THEOREM KeepsSessions == Spec => SessionsKept
  <1>1. Init => Promise!Init
    BY DEF Init, Promise!Init, NoSession
  <1>2. TypeOK /\ SessionInv /\ StandingInv /\ [Next]_vars => StandingInv'
    BY NextKept DEF Kept
  <1>3. TypeOK /\ SessionInv /\ StandingInv /\ [Next]_vars =>
          [Promise!Next]_<<account, Who, Received, outcome>>
    BY NextKept DEF Kept
  <1> QED
    BY <1>1, <1>2, <1>3, TypeCorrect, InitSession, NextSession, InitStanding, PTL
    DEF Spec, SessionsKept, Promise!Spec, Promise!svars, Who, Received

(***************************************************************************)
(* The harness enrols at most one key per process                          *)
(***************************************************************************)

\* The keys that are or may yet be enrolled.
Live == ({mem[p].key : p \in Proc} \cup {file.id.key} \cup {k \in Key : account[k] # None}) \ {None}

\* EnrolledKeysBounded counts what has been enrolled; inductively the keys still
\* held have to be counted with it.  A key is minted only while there is no file
\* and reaches the IdP only once there is one, so until then every live key is
\* some process's, and from then on no new one appears.
KeysInv ==
  /\ IsFiniteSet(Live)
  /\ Cardinality(Live) <= Cardinality(Proc)
  /\ file.kind = "absent" => /\ \A k \in Key : account[k] = None
                             /\ \A p \in Proc : pc[p] \in {"off", "load", "mintOpen"}

LEMMA ProcessKeys ==
  ASSUME NEW f, f = [p \in Proc |-> f[p]], NEW S \in SUBSET {f[p] : p \in Proc}
  PROVE  IsFiniteSet(S) /\ Cardinality(S) <= Cardinality(Proc)
  <1> DEFINE T == {f[p] : p \in Proc}
  <1>1. f \in Surjection(Proc, T)
    BY DEF Surjection
  <1>2. IsFiniteSet(T) /\ Cardinality(T) <= Cardinality(Proc)
    BY <1>1, FS_Surjection, ConstantsAssumption
  <1>3. IsFiniteSet(S) /\ Cardinality(S) <= Cardinality(T)
    BY <1>2, FS_Subset
  <1>4. Cardinality(Proc) \in Nat /\ Cardinality(T) \in Nat /\ Cardinality(S) \in Nat
    BY <1>2, <1>3, FS_CardinalityType, ConstantsAssumption
  <1> QED
    BY <1>2, <1>3, <1>4

Unsaved == file.kind = "absent" /\ \A k \in Key : account[k] = None
FewLive == IsFiniteSet(Live) /\ Cardinality(Live) <= Cardinality(Proc)

\* While there is no file, the live keys are those the processes hold.
LEMMA UnsavedKeys == TypeOK /\ Unsaved => FewLive
  <1> SUFFICES ASSUME TypeOK, Unsaved PROVE FewLive
    OBVIOUS
  <1> DEFINE f == [p \in Proc |-> mem[p].key]
  <1>1. file = Absent
    BY StoredFields DEF TypeOK, Unsaved
  <1>2. Live \subseteq {f[p] : p \in Proc}
    BY <1>1, StoredFields DEF Live, NoIdentity, Unsaved
  <1> HIDE DEF f
  <1>3. f = [p \in Proc |-> f[p]]
    BY DEF f
  <1> QED
    BY <1>2, <1>3, ProcessKeys DEF FewLive

LEMMA UnsavedKeysNext == TypeOK' /\ Unsaved' => FewLive'
  BY UnsavedKeys, PTL

LEMMA InitKeys == TypeOK /\ Init => KeysInv
  <1> SUFFICES ASSUME TypeOK, Init PROVE KeysInv
    OBVIOUS
  <1>1. \A k \in Key : account[k] = None
    BY DEF Init
  <1>2. file.kind = "absent" /\ \A p \in Proc : pc[p] = "off"
    BY StoredFields DEF Init
  <1> QED
    BY <1>1, <1>2, UnsavedKeys DEF KeysInv, Unsaved, FewLive

LEMMA LiveMembers ==
  /\ \A p \in Proc : mem[p].key \in Live \cup {None}
  /\ file.id.key \in Live \cup {None}
  /\ \A k \in Key : account[k] # None => k \in Live
  BY ConstantsAssumption DEF Live

\* A step after which every key in use was already live.
LEMMA LiveShrinks ==
  ASSUME KeysInv,
         \A p \in Proc : mem'[p].key \in Live \cup {None},
         file'.id.key \in Live \cup {None},
         \A k \in Key : account'[k] # None => k \in Live
  PROVE  IsFiniteSet(Live') /\ Cardinality(Live') <= Cardinality(Proc)
  <1>1. Live' \in SUBSET Live
    BY DEF Live
  <1>2. IsFiniteSet(Live) /\ Cardinality(Live) <= Cardinality(Proc)
    BY DEF KeysInv
  <1>3. IsFiniteSet(Live') /\ Cardinality(Live') <= Cardinality(Live)
    BY <1>1, <1>2, FS_Subset
  <1>4. Cardinality(Proc) \in Nat /\ Cardinality(Live) \in Nat /\ Cardinality(Live') \in Nat
    BY <1>2, <1>3, FS_CardinalityType, ConstantsAssumption
  <1> QED
    BY <1>2, <1>3, <1>4

\* A process takes up a key that is in use, or none, and nothing else changes
\* but what the file can have become: absent only if it was.
LEMMA KeysMove ==
  ASSUME TypeOK, KeysInv, NEW p \in Proc, NEW id, NEW to,
         id.key \in Live \cup {None}, mem' = [mem EXCEPT ![p] = id],
         file'.id.key \in Live \cup {None}, UNCHANGED account,
         pc' = [pc EXCEPT ![p] = to],
         file'.kind = "absent" => file.kind = "absent" /\ to \in {"off", "load", "mintOpen"}
  PROVE  KeysInv'
  <1>1. \A q \in Proc : mem'[q].key \in Live \cup {None}
    BY LiveMembers DEF TypeOK
  <1>2. IsFiniteSet(Live') /\ Cardinality(Live') <= Cardinality(Proc)
    BY <1>1, LiveMembers, LiveShrinks
  <1>3. file'.kind = "absent" => \A q \in Proc : pc'[q] \in {"off", "load", "mintOpen"}
    BY DEF KeysInv, TypeOK
  <1>4. file'.kind = "absent" => \A k \in Key : account'[k] = None
    BY DEF KeysInv
  <1> QED
    BY <1>2, <1>3, <1>4 DEF KeysInv

\* A process past loading: there is a file, so only that it stays there matters.
LEMMA KeysPastLoading ==
  ASSUME TypeOK, KeysInv, NEW p \in Proc, pc[p] \notin {"off", "load", "mintOpen"},
         \A q \in Proc : mem'[q].key = mem[q].key,
         file' = file, \A k \in Key : account'[k] # None => k \in Live
  PROVE  KeysInv'
  <1>1. IsFiniteSet(Live') /\ Cardinality(Live') <= Cardinality(Proc)
    BY LiveMembers, LiveShrinks
  <1>2. file'.kind # "absent"
    BY DEF KeysInv
  <1> QED
    BY <1>1, <1>2 DEF KeysInv

LEMMA KeysEnds ==
  ASSUME TypeOK, KeysInv, NEW p \in Proc, Ends(p), UNCHANGED <<account, file>>
  PROVE  KeysInv'
  BY KeysMove, LiveMembers DEF Ends, NoIdentity

LEMMA NextKeys == TypeOK /\ TypeOK' /\ KeysInv /\ [Next]_vars => KeysInv'
  <1> SUFFICES ASSUME TypeOK, TypeOK', KeysInv, [Next]_vars PROVE KeysInv'
    OBVIOUS
  <1>0. \A p \in Proc : mem = [mem EXCEPT ![p] = mem[p]]
    BY DEF TypeOK
  <1>1. ASSUME NEW p \in Proc, Start(p) PROVE KeysInv'
    BY <1>0, <1>1, KeysMove, LiveMembers DEF Start
  <1>2. ASSUME NEW p \in Proc, LoadStored(p) PROVE KeysInv'
    <2>1. /\ mem' = [mem EXCEPT ![p] = file.id] /\ pc' = [pc EXCEPT ![p] = "ready"]
          /\ UNCHANGED <<account, file>> /\ file.kind # "absent"
      BY <1>2 DEF LoadStored
    <2> QED
      BY <2>1, KeysMove, LiveMembers
  <1>3. ASSUME NEW p \in Proc, LoadUnreadable(p) \/ Exit(p) \/ Crash(p) PROVE KeysInv'
    BY <1>3, KeysEnds DEF LoadUnreadable, Exit, Crash
  <1>4. ASSUME NEW p \in Proc, Mint(p) PROVE KeysInv'
    <2>1. file.kind = "absent" /\ UNCHANGED <<file, account>> /\ pc' = [pc EXCEPT ![p] = "mintOpen"]
      BY <1>4 DEF Mint
    <2>2. \A k \in Key : account'[k] = None
      BY <2>1 DEF KeysInv
    <2>3. IsFiniteSet(Live') /\ Cardinality(Live') <= Cardinality(Proc)
      BY <2>1, <2>2, UnsavedKeysNext DEF Unsaved, FewLive
    <2>4. \A q \in Proc : pc'[q] \in {"off", "load", "mintOpen"}
      BY <2>1 DEF KeysInv, TypeOK
    <2> QED
      BY <2>2, <2>3, <2>4 DEF KeysInv
  <1>5. ASSUME NEW p \in Proc, SaveOpen(p) PROVE KeysInv'
    <2>1. \E to \in {"mintWrite", "enrolWrite"} : pc' = [pc EXCEPT ![p] = to]
      BY <1>5 DEF SaveOpen
    <2>2. file'.kind # "absent" /\ file'.id.key = None
      BY <1>5, StoredFields DEF SaveOpen, NoIdentity
    <2>3. mem' = [mem EXCEPT ![p] = mem[p]] /\ UNCHANGED account
      BY <1>0, <1>5 DEF SaveOpen
    <2> QED
      BY <2>1, <2>2, <2>3, KeysMove, LiveMembers
  <1>6. ASSUME NEW p \in Proc, SaveWrite(p) PROVE KeysInv'
    <2>1. \E to \in {"ready", "deliver"} : pc' = [pc EXCEPT ![p] = to]
      BY <1>6 DEF SaveWrite
    <2>2. file'.kind # "absent" /\ file'.id.key \in {mem[p].key, None}
      BY <1>6, StoredFields DEF SaveWrite, Overwritten, NoIdentity
    <2>3. mem' = [mem EXCEPT ![p] = mem[p]] /\ UNCHANGED account
      BY <1>0, <1>6 DEF SaveWrite
    <2> QED
      BY <2>1, <2>2, <2>3, KeysMove, LiveMembers
  <1>7. ASSUME NEW p \in Proc, SaveFails(p) PROVE KeysInv'
    <2>1. CASE Ends(p)
      BY <1>7, <2>1, KeysEnds DEF SaveFails
    <2>2. CASE pc[p] \in {"enrolOpen", "enrolWrite"} /\ UNCHANGED mem
      BY <1>7, <2>2, KeysPastLoading, LiveMembers DEF SaveFails
    <2> QED
      BY <1>7, <2>1, <2>2 DEF SaveFails
  <1>8. ASSUME NEW p \in Proc,
               RegisterBegin(p) \/ AuthenticateBegin(p) \/ AuthenticateComplete(p)
                 \/ CompleteSession(p) \/ SessionStatus(p) \/ Token(p) \/ Authorize(p)
                 \/ CallFails(p) \/ AuthenticateUnknown(p)
        PROVE  KeysInv'
    <2>1. pc[p] \notin {"off", "load", "mintOpen"}
      BY <1>8 DEF RegisterBegin, AuthenticateBegin, AuthenticateComplete, CompleteSession,
         SessionStatus, Token, Authorize, CallFails, CallPc, AuthenticateUnknown
    <2>2. UNCHANGED <<mem, file, account>>
      BY <1>8 DEF RegisterBegin, AuthenticateBegin, AuthenticateComplete, CompleteSession,
         SessionStatus, Token, Authorize, CallFails, AuthenticateUnknown, StatusOf, Wrap, HTTPError
    <2> QED
      BY <2>1, <2>2, KeysPastLoading, LiveMembers
  <1>9. ASSUME NEW p \in Proc, RegisterComplete(p) PROVE KeysInv'
    <2>1. PICK u \in User :
            /\ account' = [account EXCEPT ![mem[p].key] = u]
            /\ \/ mem' = [mem EXCEPT ![p].cred = mem[p].key, ![p].user = u]
               \/ UNCHANGED mem
      BY <1>9 DEF RegisterComplete, IdPEnrols
    <2>2. pc[p] = "regComplete" /\ UNCHANGED file
      BY <1>9 DEF RegisterComplete
    <2>3. mem[p] \in Identity
      BY <2>2 DEF TypeOK
    <2>4. mem[p].key \in Live
      BY <2>3, IdentityFields, LiveMembers
    <2>5. \A k \in Key : account'[k] # None => k \in Live
      BY <2>1, <2>4, LiveMembers DEF TypeOK
    <2>6. \A q \in Proc : mem'[q].key = mem[q].key
      BY <2>1, <2>3 DEF TypeOK, Identity
    <2> QED
      BY <2>2, <2>5, <2>6, KeysPastLoading
  <1>10. CASE Forget
    <2>1. /\ \A k \in Key : account'[k] = None
          /\ UNCHANGED <<pc, mem, file>>
      BY <1>10 DEF Forget
    <2>2. IsFiniteSet(Live') /\ Cardinality(Live') <= Cardinality(Proc)
      BY <2>1, LiveMembers, LiveShrinks
    <2> QED
      BY <2>1, <2>2 DEF KeysInv
  <1>11. CASE UNCHANGED vars
    <2>1. UNCHANGED <<pc, mem, file, account>>
      BY <1>11 DEF vars
    <2>2. IsFiniteSet(Live') /\ Cardinality(Live') <= Cardinality(Proc)
      BY <2>1, LiveMembers, LiveShrinks
    <2> QED
      BY <2>1, <2>2 DEF KeysInv
  <1> QED
    BY <1>1, <1>2, <1>3, <1>4, <1>5, <1>6, <1>7, <1>8, <1>9, <1>10, <1>11 DEF Next, Runs

LEMMA KeysImplies == KeysInv => EnrolledKeysBounded
  <1> SUFFICES ASSUME KeysInv PROVE EnrolledKeysBounded
    OBVIOUS
  <1> DEFINE E == {k \in Key : account[k] # None}
  <1>1. E \in SUBSET Live
    BY LiveMembers
  <1>2. IsFiniteSet(Live) /\ Cardinality(Live) <= Cardinality(Proc)
    BY DEF KeysInv
  <1>3. IsFiniteSet(E) /\ Cardinality(E) <= Cardinality(Live)
    BY <1>1, <1>2, FS_Subset
  <1>4. Cardinality(Proc) \in Nat /\ Cardinality(Live) \in Nat /\ Cardinality(E) \in Nat
    BY <1>2, <1>3, FS_CardinalityType, ConstantsAssumption
  <1> QED
    BY <1>2, <1>3, <1>4 DEF EnrolledKeysBounded

\* However often runs crash, fail to save or lose an answer, the IdP never holds
\* more keys of the harness than processes ever shared the identity file.
THEOREM EnrolledKeys == Spec => []EnrolledKeysBounded
  <1>1. Spec => []KeysInv
    BY TypeCorrect, InitType, InitKeys, NextKeys, PTL DEF Spec
  <1> QED
    BY <1>1, KeysImplies, PTL

\* At the point of enrolling, the registration is one the IdP can read the credential
\* and the key out of, for any coordinates and credential ids.
THEOREM RegistrationReadable == Spec => []RegistrationReadsBack
  <1>1. RegistrationReadsBack
    BY RegistrationIsReadable DEF RegistrationReadsBack
  <1> QED
    BY <1>1, PTL
=============================================================================
