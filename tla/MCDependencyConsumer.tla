------------------------ MODULE MCDependencyConsumer ------------------------
(***************************************************************************)
(* The instance of DependencyConsumer for TLC: two requests, a host that   *)
(* runs the declared dependency, and one that runs an app nobody declared  *)
(* and may relay what the other one presents.                              *)
(***************************************************************************)
EXTENDS DependencyConsumer, TLC

CONSTANTS dep, other, provider, stranger, v1, v2

MCHost == {dep, other}
MCApp == {provider, stranger}
MCAppOf == dep :> provider @@ other :> stranger

\* The default host is the dependency; a request can only name the other one.
MCUrl == {[host |-> other, port |-> "ok"], [host |-> other, port |-> "bad"]}

\* Nothing, one build of the provider, or both of them.
MCDeclarations ==
  {{}, {[app |-> provider, build |-> v1]},
   {[app |-> provider, build |-> v1], [app |-> provider, build |-> v2]}}

Symmetry == Permutations(Req)
=============================================================================
