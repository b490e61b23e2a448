--------------------------- MODULE AtomicReports ---------------------------
(***************************************************************************)
(* What training is to the readers of user_tokens.json, if a report is as   *)
(* atomic as _save_user_tokens says (spam_detect.py:92): the words of a      *)
(* report under way are counted for its account in one step and once, or    *)
(* given up unseen, and nothing that nobody reported is ever counted.       *)
(***************************************************************************)
EXTENDS WordCounts

CONSTANTS
  Accounts,    \* configured accounts
  Workers,     \* threads that train
  AccountOf,   \* [Workers -> Accounts]
  NoLesson     \* of a worker without a report

VARIABLES
  reporting,   \* [Workers -> the report under way]
  counted      \* [Accounts -> word counts in the file]

seen == <<reporting, counted>>

Init ==
  /\ reporting = [w \in Workers |-> NoLesson]
  /\ counted = [a \in Accounts |-> Untaught]

Ask(w, l) ==
  /\ reporting[w] = NoLesson
  /\ reporting' = [reporting EXCEPT ![w] = l]
  /\ UNCHANGED counted

(* The whole message at once: a reader finds all of its words or none.      *)
Count(w) ==
  /\ reporting[w] # NoLesson
  /\ counted' = [counted EXCEPT ![AccountOf[w]] = Learn(@, reporting[w])]
  /\ reporting' = [reporting EXCEPT ![w] = NoLesson]

(* One write fails, or the process dies with all its reports.              *)
GiveUp(lost) ==
  /\ lost # {} /\ \A w \in lost : reporting[w] # NoLesson
  /\ reporting' = [w \in Workers |-> IF w \in lost THEN NoLesson ELSE reporting[w]]
  /\ UNCHANGED counted

Next ==
  \/ \E w \in Workers : (\E l \in Lessons : Ask(w, l)) \/ Count(w)
  \/ \E lost \in SUBSET Workers : GiveUp(lost)

Spec == Init /\ [][Next]_seen

=============================================================================
