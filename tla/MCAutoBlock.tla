----------------------------- MODULE MCAutoBlock -----------------------------
(* Instances of AutoBlock for TLC: the daemon and a `run --once` process.   *)
EXTENDS AutoBlock, TLC

CONSTANTS daemon, once, evil, worse

TwoProcesses == {daemon, once}
JustDaemon == {daemon}
TwoDomains == {evil, worse}
OneDomain == {evil}
=============================================================================
