---------------------------- MODULE MCSupervision ---------------------------
(* Instances of Supervision for TLC.                                        *)
EXTENDS Supervision

(* RestartSec=5min to RestartMaxDelaySec=6h in RestartSteps=6, as the README *)
(* lists the delays, in ticks of ten minutes rounded up.                    *)
UnitFileDelay == <<1, 1, 3, 5, 9, 18, 36>>

ShortDelay == <<1, 2>>
=============================================================================
