----------------------------- MODULE MCGovernor -----------------------------
(* Values of the governor's constants for TLC. *)
EXTENDS Governor, ScaleModes

\* scale.Exponential(1.25): the factor alone does not grow from 0 or 1.
MCExponential == [n \in 0..MaxConns |-> ExponentialApply(5, 4, n)]

\* scale.Incremental(1)
MCIncremental == [n \in 0..MaxConns |-> IncrementalApply(1, n)]
=============================================================================
