----------------------------- MODULE WordCounts -----------------------------
(***************************************************************************)
(* What user_tokens.json holds of an account: for every word the numbers of *)
(* spam and ham messages it was seen in (SpamTrainer.report, in             *)
(* mailwatch/email/filters/spam_detect.py).  last_seen_at is left out,      *)
(* which nothing reads; a word without an entry counts 0 and 0.            *)
(***************************************************************************)
EXTENDS Naturals

CONSTANTS
  Words,     \* tokens of messages
  Lessons    \* messages that users report: their words, and what they say of them

Labels == {"spam", "ham"}

Lesson == [words: SUBSET Words, as: Labels]

ASSUME LessonsAssumption == Lessons \subseteq Lesson

Counts == [Words -> [Labels -> Nat]]

Untaught == [x \in Words |-> [k \in Labels |-> 0]]

(* Each of the message's words counts once, under the user's label.         *)
Learn(counts, l) ==
  [x \in Words |->
    [k \in Labels |->
      IF x \in l.words /\ k = l.as THEN counts[x][k] + 1 ELSE counts[x][k]]]

(* No word was counted in more than n messages.                            *)
Within(counts, n) == \A x \in Words, k \in Labels : counts[x][k] <= n
=============================================================================
