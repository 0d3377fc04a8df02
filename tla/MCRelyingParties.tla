-------------------------- MODULE MCRelyingParties --------------------------
(***************************************************************************)
(* Instances of RelyingParties for TLC.                                    *)
(***************************************************************************)
EXTENDS RelyingParties, TLC

\* Runs, client ids and whitelists are interchangeable.
Symmetry == Permutations(Run) \cup Permutations(Client) \cup Permutations(Whitelist)
=============================================================================
