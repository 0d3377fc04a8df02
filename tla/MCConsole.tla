----------------------------- MODULE MCConsole -----------------------------
(***************************************************************************)
(* Instances of Console for TLC: a key of each tier.                       *)
(***************************************************************************)
EXTENDS Console, TLC

CONSTANTS name, passport

\* Two selections that overlap, each with a client of its own, and two that share
\* the client for step-up.
MCAsks ==
  {[asked |-> {name}, stable |-> FALSE], [asked |-> {name, passport}, stable |-> FALSE],
   [asked |-> {name}, stable |-> TRUE], [asked |-> {passport}, stable |-> TRUE]}

MCEveryAsk == [asked : Selection, stable : BOOLEAN]

\* Pages are interchangeable.
Symmetry == Permutations(Page)
=============================================================================
