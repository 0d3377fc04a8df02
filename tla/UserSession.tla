---------------------------- MODULE UserSession ----------------------------
(***************************************************************************)
(* What the sign-in promises of the sessions it opens at the IdP: each is  *)
(* authenticated at most once, as the user of an enrolled key, receives    *)
(* attributes at most once and for that user, and is reported a success    *)
(* only after both.  Once its outcome is told nothing more is done with it.*)
(***************************************************************************)
CONSTANTS
  Proc,  \* who signs in, in one session at a time
  Key,   \* what may be enrolled
  User,
  None   \* not a user

VARIABLES
  account,   \* account[k]: the user enrolled with key k
  who,       \* who[p]: the user p's session is authenticated as
  received,  \* received[p]: the user whose attributes it has received
  told       \* told[p]: what was reported of it

svars == <<account, who, received, told>>

Init ==
  /\ account = [k \in Key |-> None]
  /\ who = [p \in Proc |-> None]
  /\ received = [p \in Proc |-> None]
  /\ told = [p \in Proc |-> "none"]

Tells(p, what) == told' = [told EXCEPT ![p] = what]

\* A call takes effect, whether or not its answer arrives.
Answered(p) == UNCHANGED told \/ Tells(p, "failed")

\* A session takes the place of the last one, or p is gone.
Open(p) ==
  /\ who' = [who EXCEPT ![p] = None]
  /\ received' = [received EXCEPT ![p] = None]
  /\ Tells(p, "none")
  /\ UNCHANGED account

\* With a key that has a user, or that gets one that no other key has.
Authenticate(p) ==
  /\ told[p] = "none" /\ who[p] = None
  /\ \E k \in Key, u \in User :
       /\ account[k] = u \/ (account[k] = None /\ \A j \in Key : account[j] # u)
       /\ account' = [account EXCEPT ![k] = u]
       /\ who' = [who EXCEPT ![p] = u]
  /\ Answered(p)
  /\ UNCHANGED received

Receive(p) ==
  /\ told[p] = "none" /\ who[p] # None /\ received[p] = None
  /\ received' = [received EXCEPT ![p] = who[p]]
  /\ Answered(p)
  /\ UNCHANGED <<account, who>>

Succeed(p) ==
  /\ told[p] = "none" /\ received[p] # None
  /\ Tells(p, "ok")
  /\ UNCHANGED <<account, who, received>>

Fail(p) == Tells(p, "failed") /\ UNCHANGED <<account, who, received>>

\* The key is not known, and so the session is nobody's.
Refuse(p) ==
  /\ told[p] = "none" /\ who[p] = None
  /\ Tells(p, "forgotten")
  /\ UNCHANGED <<account, who, received>>

Forget == account' = [k \in Key |-> None] /\ UNCHANGED <<who, received, told>>

Next ==
  \/ \E p \in Proc : \/ Open(p) \/ Authenticate(p) \/ Receive(p)
                     \/ Succeed(p) \/ Fail(p) \/ Refuse(p)
  \/ Forget

Spec == Init /\ [][Next]_svars
=============================================================================
