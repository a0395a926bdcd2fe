----------------------------- MODULE MCBranchLock -----------------------------
(* Instances of BranchLock for TLC.                                        *)
EXTENDS BranchLock

CONSTANTS p1, h1, h2

\* Everybody on one machine.
OneHost == [p \in Proc |-> h1]

\* One process works from a second machine over a shared file system.
TwoHosts == [p \in Proc |-> IF p = p1 THEN h2 ELSE h1]

=============================================================================
