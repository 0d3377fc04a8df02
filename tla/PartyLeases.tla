---------------------------- MODULE PartyLeases ----------------------------
(***************************************************************************)
(* What the suite promises of the relying parties it registers: a case     *)
(* works with one that was opened for its very order, or with one opened   *)
(* in that step for itself, which nobody is given again.  Nobody but the   *)
(* platform's own editors changes the ceiling one was opened with.         *)
(***************************************************************************)
CONSTANTS
  Run,      \* who leases, one party at a time
  Client,   \* parties
  Order,    \* what a case asks for: records, "attrs" is the ceiling
  Ceiling,
  None

VARIABLES
  party,  \* party[c]: the order c was opened for (None: for one case alone), and its ceiling
  lease   \* lease[r]: the party r works with, for which order, and whether alone

lvars == <<party, lease>>

NoParty == [order |-> None, ceiling |-> None]
NoLease == [party |-> None, order |-> None, alone |-> FALSE]

Init ==
  /\ party = [c \in Client |-> NoParty]
  /\ lease = [r \in Run |-> NoLease]

Opens(c, order, ceiling) ==
  /\ party[c] = NoParty
  /\ party' = [party EXCEPT ![c] = [order |-> order, ceiling |-> ceiling]]

Leases(r, c, w, alone) ==
  lease[r] = NoLease /\ lease' = [lease EXCEPT ![r] = [party |-> c, order |-> w, alone |-> alone]]

\* Whoever asked may never learn of it.
OpenShared(r, c, w) == Opens(c, w, w.attrs) /\ (Leases(r, c, w, FALSE) \/ UNCHANGED lease)
OpenAlone(r, c, w)  == Opens(c, None, w.attrs) /\ (Leases(r, c, w, TRUE) \/ UNCHANGED lease)

Share(r, c, w) ==
  /\ party[c].order = w
  /\ Leases(r, c, w, FALSE)
  /\ UNCHANGED party

Return(r) == lease' = [lease EXCEPT ![r] = NoLease] /\ UNCHANGED party

Edit(c) ==
  /\ party[c] # NoParty
  /\ \E ceiling \in Ceiling : party' = [party EXCEPT ![c].ceiling = ceiling]
  /\ UNCHANGED lease

Next ==
  \/ \E r \in Run, c \in Client, w \in Order :
       OpenShared(r, c, w) \/ OpenAlone(r, c, w) \/ Share(r, c, w)
  \/ \E r \in Run : Return(r)
  \/ \E c \in Client : Edit(c)

Spec == Init /\ [][Next]_lvars
=============================================================================
