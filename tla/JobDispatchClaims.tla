-------------------------- MODULE JobDispatchClaims --------------------------
(***************************************************************************)
(* What comments and documents of the repository say of the job path, and  *)
(* the code does not do.  TLC finds a counterexample.                      *)
(***************************************************************************)
EXTENDS JobDispatch

\* pkg/types/job.go, IsTerminal: a terminal status is "a final state from which no
\* further transitions are permitted".  CancelJob, which writes "cancelled" whenever it has
\* read a status that is not terminal, set aside: a result that is posted late replaces it.
TerminalIsFinal ==
  [][\A j \in Jobs : IsTerminal(status[j]) => status'[j] \in {status[j], "cancelled"}]_vars
=============================================================================
