---------------------------- MODULE MCRedirector ----------------------------
(* An instance of Redirector for TLC: two messages, the two threads of the  *)
(* daemon that redirect, and beside them a `run --once` that was started    *)
(* after after_move_folder was set.                                        *)
EXTENDS Redirector

CONSTANTS m1, m2, idle, catchup, once

TwoMessages == {m1, m2}
IdleAndCatchUp == {idle, catchup}
Once == {once}
=============================================================================
