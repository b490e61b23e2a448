-------------------------------- MODULE Relay --------------------------------
(***************************************************************************)
(* What the redirector promises (redirector.py's docstring): a message put  *)
(* into the source folder is removed from it only after it was appended to  *)
(* the destination, so that a redirect never loses mail.  Delivery is at    *)
(* least once: nothing forbids a second copy.                              *)
(***************************************************************************)
EXTENDS Naturals

CONSTANT Messages

VARIABLES
  offered,     \* messages in the source folder
  delivered,   \* [Messages -> copies appended to the destination, saturating]
  givenUp      \* messages the user took back or marked deleted

relayVars == <<offered, delivered, givenUp>>

Init ==
  /\ offered = {}
  /\ delivered = [m \in Messages |-> 0]
  /\ givenUp = {}

Offer(m) ==
  /\ m \notin offered
  /\ offered' = offered \cup {m}
  /\ UNCHANGED <<delivered, givenUp>>

GiveUp(m) ==
  /\ givenUp' = givenUp \cup {m}
  /\ offered' \in {offered, offered \ {m}}
  /\ UNCHANGED delivered

(* Possibly after the user took the message back, if it was being fetched.  *)
Deliver(m) ==
  /\ m \in offered \cup givenUp \/ delivered[m] > 0
  /\ delivered' = [delivered EXCEPT ![m] = @ + 1]
  /\ UNCHANGED <<offered, givenUp>>

(* The only way out of the source folder that is not the user's doing.     *)
Retire(S) ==
  /\ \A m \in S : delivered[m] > 0 \/ m \in givenUp
  /\ offered' = offered \ S
  /\ UNCHANGED <<delivered, givenUp>>

Next ==
  \/ \E m \in Messages : Offer(m) \/ GiveUp(m) \/ Deliver(m)
  \/ \E S \in SUBSET offered : Retire(S)

Spec == Init /\ [][Next]_relayVars

=============================================================================
