---------------------------- MODULE MCSpamLoop ----------------------------
(* Instances of SpamLoop for TLC: one or two messages, of which the second  *)
(* has no Message-ID, and the kinds of failure that may happen.            *)
EXTENDS SpamLoop

CONSTANTS m1, m2, daemon

TwoMessages == {m1, m2}
OneMessage == {m1}
OnlyM1 == {m1}
Daemon == {daemon}

NoFaults == {}
AllFaults == FaultKinds
MoveFaults == {"refuse"}

(* Bounds: the user deletes at most one message, and a behaviour is not     *)
(* followed beyond the second training on one arrival, nor beyond the third *)
(* arrival that the daemon moves or trains on.                              *)
Trained(f) == Cardinality({u \in Uid : f[u] > 0})

Bounded ==
  /\ Cardinality(deleted) <= 1
  /\ \A u \in Uid : hamTrain[u] < Many /\ spamTrain[u] < Many
  /\ Cardinality(daemonMoves) + Trained(hamTrain) + Trained(spamTrain) <= 2
=============================================================================
