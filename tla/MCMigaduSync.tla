---------------------------- MODULE MCMigaduSync ----------------------------
(* An instance of MigaduSync for TLC: two web requests about two users.     *)
EXTENDS MigaduSync

CONSTANTS ann, root, mbox, old, new, r1, r2

TwoUsers == {ann, root}
OneBox == {mbox}
TwoPasswords == {old, new}
TwoRequests == {r1, r2}
Root == {root}
=============================================================================
