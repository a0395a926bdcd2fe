------------------------------- MODULE MCMcpRuns ------------------------------
(* Instances of McpRuns for TLC.                                           *)
EXTENDS McpRuns

CONSTANT k1

\* Every caller uses one key, for either of two experiments: the second
\* identifier is there to be taken if the key does not stop it.
OneKey == [key : {k1}, input : Input]

=============================================================================
