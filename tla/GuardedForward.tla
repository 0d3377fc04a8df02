--------------------------- MODULE GuardedForward ---------------------------
(***************************************************************************)
(* What the dependency consumer promises of every prompt it is handed: it  *)
(* leaves the consumer at most once, for a peer in the trusted set, or not *)
(* at all; a caller told "refused" knows that nobody has it, and an answer *)
(* is given only by a peer that does.                                      *)
(***************************************************************************)
CONSTANTS
  Req,     \* requests, one prompt each
  Peer,    \* who may hold a prompt
  Nobody   \* not a peer

VARIABLES
  trusted,  \* the peers that may be given a prompt, fixed
  phase,    \* phase[r]: what has become of request r
  holder    \* holder[r]: the peer that has r's prompt

gvars == <<trusted, phase, holder>>

Phase == {"pending", "refused", "released", "lost", "answered"}

Init ==
  /\ trusted \in SUBSET Peer
  /\ phase = [r \in Req |-> "pending"]
  /\ holder = [r \in Req |-> Nobody]

Moves(r, from, to) == phase[r] = from /\ phase' = [phase EXCEPT ![r] = to]

Refuse(r) == Moves(r, "pending", "refused") /\ UNCHANGED <<trusted, holder>>

Release(r) ==
  /\ Moves(r, "pending", "released")
  /\ \E p \in trusted : holder' = [holder EXCEPT ![r] = p]
  /\ UNCHANGED trusted

Answer(r) == Moves(r, "released", "answered") /\ UNCHANGED <<trusted, holder>>

\* The call failed after the prompt had gone out; the peer may have acted on it.
Lose(r) == Moves(r, "released", "lost") /\ UNCHANGED <<trusted, holder>>

Next == \E r \in Req : Refuse(r) \/ Release(r) \/ Answer(r) \/ Lose(r)

Spec == Init /\ [][Next]_gvars
=============================================================================
