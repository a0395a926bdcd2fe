----------------------------- MODULE MCEnvJournal -----------------------------
(* Instances of EnvJournal for TLC: the constants are model values, one    *)
(* for each resource.                                                      *)
EXTENDS EnvJournal

=============================================================================
