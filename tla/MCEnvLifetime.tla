---------------------------- MODULE MCEnvLifetime ----------------------------
(* Instances of EnvLifetime for TLC.  Environments and checkouts are model *)
(* values; nothing in the specification orders them.                       *)
EXTENDS EnvLifetime

CONSTANTS e1, here

=============================================================================
