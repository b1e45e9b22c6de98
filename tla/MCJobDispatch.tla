--------------------------- MODULE MCJobDispatch ---------------------------
(***************************************************************************)
(* Instances of JobDispatch for TLC.                                       *)
(***************************************************************************)
EXTENDS JobDispatchClaims, TLC

\* Controllers, agent processes, agent ids and request slots are interchangeable.
Symmetry == Permutations(Controllers) \cup Permutations(Procs)
              \cup Permutations(AgentIds) \cup Permutations(Slots)
=============================================================================
