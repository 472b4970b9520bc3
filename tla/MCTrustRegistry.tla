-------------------------- MODULE MCTrustRegistry --------------------------
(* TrustRegistry on small sets of names.                                   *)
EXTENDS TrustRegistry, TLC

\* The names are interchangeable: no definition tells two of a kind apart.
Symmetry == Permutations(NodeIds) \cup Permutations(EndpointIds)
              \cup Permutations(RequestIds)
============================================================================
