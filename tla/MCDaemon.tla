------------------------------ MODULE MCDaemon ------------------------------
(* Instances of Daemon for TLC: an account with an IDLE thread for       *)
(* INBOX, the catch-up loop and the training loop.                          *)
EXTENDS Daemon, TLC

CONSTANTS ann, inbox, junk, idleInbox, catchUp, training

OneAccount == {ann}
JustInbox == {idleInbox}
JustCatchUp == {catchUp}
JustInboxFolder == {inbox}
Schedulers == {catchUp, training}
AnnsThreads == [t \in Watches |-> ann]
Scanned == [w \in Workers |-> IF w \in {idleInbox, catchUp} THEN inbox ELSE junk]
=============================================================================
