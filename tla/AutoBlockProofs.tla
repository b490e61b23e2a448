--------------------------- MODULE AutoBlockProofs ---------------------------
(* Counting, blocking and pushing, for any number of processes and domains.  *)
EXTENDS AutoBlock, TLAPS

(* A scanner past "scan" has a domain; one in a transaction is SQLite's only *)
(* writer, so the row it read stays as it was.                              *)
Exclusive ==
  \A s \in Scanners :
    /\ pc[s] # "scan" => domain[s] \in Domains
    /\ pc[s] \in {"begin", "select", "update"} => s \in writeLock
    /\ pc[s] \in {"select", "update"} => dbWriter = s
    /\ pc[s] = "update" => seen[s] = spamHits[domain[s]]

(* Past the threshold there are the hits; listings are of recorded domains.  *)
Earned ==
  \A s \in Scanners :
    /\ pc[s] \in {"window", "already", "record"} => spamHits[domain[s]] >= HitsThreshold
    /\ listing[s] \subseteq blocked

(* A listing nothing outdated has all that is recorded, and so does the      *)
(* script it became.                                                        *)
Complete ==
  \A s \in Scanners : s \notin stale =>
    /\ pc[s] = "put" => blocked \subseteq listing[s]
    /\ pc[s] = "activate" => blocked \subseteq script

IInv == TypeOK /\ Exclusive /\ NoHitLost /\ Earned /\ BlockIsEarned /\ Complete

LEMMA Initially ==
  ASSUME Init
  PROVE  IInv
<1> USE AutoBlockAssumption
    DEF IInv, TypeOK, Exclusive, NoHitLost, Earned, BlockIsEarned, Complete, Goto, scanners,
        locks, candidates, server, history, Point, Transaction, Pushing
<1> USE DEF Init
<1>1. TypeOK
  OBVIOUS
<1>2. Exclusive /\ Earned /\ BlockIsEarned /\ Complete
  OBVIOUS
<1>3. NoHitLost
  OBVIOUS
<1>. QED  BY <1>1, <1>2, <1>3

(* A hit is counted in a transaction. *)
LEMMA HitKeeps ==
  ASSUME IInv, NEW s \in Scanners, Hit(s)
  PROVE  IInv'
<1> USE AutoBlockAssumption
    DEF IInv, TypeOK, Exclusive, NoHitLost, Earned, BlockIsEarned, Complete, Goto, scanners,
        locks, candidates, server, history, Point, Transaction, Pushing
<1>1. CASE \E d \in Domains : TakesWriteLock(s, d)
  <2>1. TypeOK'
    BY <1>1 DEF TakesWriteLock
  <2>2. Exclusive'
    BY <1>1 DEF TakesWriteLock
  <2>3. NoHitLost'
    BY <1>1 DEF TakesWriteLock
  <2>4. Earned' /\ BlockIsEarned'
    BY <1>1 DEF TakesWriteLock
  <2>5. Complete'
    BY <1>1 DEF TakesWriteLock
  <2>. QED  BY <2>1, <2>2, <2>3, <2>4, <2>5
<1>2. CASE Begins(s)
  <2>1. TypeOK'
    BY <1>2 DEF Begins
  <2>2. Exclusive'
    BY <1>2 DEF Begins
  <2>3. NoHitLost'
    BY <1>2 DEF Begins
  <2>4. Earned' /\ BlockIsEarned'
    BY <1>2 DEF Begins
  <2>5. Complete'
    BY <1>2 DEF Begins
  <2>. QED  BY <2>1, <2>2, <2>3, <2>4, <2>5
<1>3. CASE BeginFails(s)
  <2>1. TypeOK'
    BY <1>3 DEF BeginFails
  <2>2. Exclusive'
    BY <1>3 DEF BeginFails
  <2>3. NoHitLost'
    BY <1>3 DEF BeginFails
  <2>4. Earned' /\ BlockIsEarned'
    BY <1>3 DEF BeginFails
  <2>5. Complete'
    BY <1>3 DEF BeginFails
  <2>. QED  BY <2>1, <2>2, <2>3, <2>4, <2>5
<1>4. CASE ReadsRow(s)
  <2>1. TypeOK'
    BY <1>4 DEF ReadsRow
  <2>2. Exclusive'
    BY <1>4 DEF ReadsRow
  <2>3. NoHitLost'
    BY <1>4 DEF ReadsRow
  <2>4. Earned' /\ BlockIsEarned'
    BY <1>4 DEF ReadsRow
  <2>5. Complete'
    BY <1>4 DEF ReadsRow
  <2>. QED  BY <2>1, <2>2, <2>3, <2>4, <2>5
<1>5. CASE Commits(s)
  <2>1. TypeOK'
    BY <1>5 DEF Commits, CountHit, EndTransaction
  <2>2. Exclusive'
    BY <1>5 DEF Commits, CountHit, EndTransaction
  <2>3. NoHitLost'
    BY <1>5 DEF Commits, CountHit, EndTransaction
  <2>4. Earned' /\ BlockIsEarned'
    BY <1>5 DEF Commits, CountHit, EndTransaction
  <2>5. Complete'
    BY <1>5 DEF Commits, CountHit, EndTransaction
  <2>. QED  BY <2>1, <2>2, <2>3, <2>4, <2>5
<1>6. CASE RollsBack(s)
  <2>1. TypeOK'
    BY <1>6 DEF RollsBack, EndTransaction
  <2>2. Exclusive'
    BY <1>6 DEF RollsBack, EndTransaction
  <2>3. NoHitLost'
    BY <1>6 DEF RollsBack, EndTransaction
  <2>4. Earned' /\ BlockIsEarned'
    BY <1>6 DEF RollsBack, EndTransaction
  <2>5. Complete'
    BY <1>6 DEF RollsBack, EndTransaction
  <2>. QED  BY <2>1, <2>2, <2>3, <2>4, <2>5
<1>. QED  BY <1>1, <1>2, <1>3, <1>4, <1>5, <1>6 DEF Hit

(* Hits only grow, so a decision taken on older ones stands. *)
LEMMA DecisionKeeps ==
  ASSUME IInv, NEW s \in Scanners, Decision(s)
  PROVE  IInv'
<1> USE AutoBlockAssumption
    DEF IInv, TypeOK, Exclusive, NoHitLost, Earned, BlockIsEarned, Complete, Goto, scanners,
        locks, candidates, server, history, Point, Transaction, Pushing
<1>1. CASE ChecksWindow(s)
  <2>1. TypeOK'
    BY <1>1 DEF ChecksWindow, CountRecentHits
  <2>2. Exclusive'
    BY <1>1 DEF ChecksWindow, CountRecentHits
  <2>3. NoHitLost'
    BY <1>1 DEF ChecksWindow, CountRecentHits
  <2>4. Earned' /\ BlockIsEarned'
    BY <1>1 DEF ChecksWindow, CountRecentHits
  <2>5. Complete'
    BY <1>1 DEF ChecksWindow, CountRecentHits
  <2>. QED  BY <2>1, <2>2, <2>3, <2>4, <2>5
<1>2. CASE ChecksBlocked(s)
  <2>1. TypeOK'
    BY <1>2 DEF ChecksBlocked
  <2>2. Exclusive'
    BY <1>2 DEF ChecksBlocked
  <2>3. NoHitLost'
    BY <1>2 DEF ChecksBlocked
  <2>4. Earned' /\ BlockIsEarned'
    BY <1>2 DEF ChecksBlocked
  <2>5. Complete'
    BY <1>2 DEF ChecksBlocked
  <2>. QED  BY <2>1, <2>2, <2>3, <2>4, <2>5
<1>3. CASE RecordsBlock(s)
  <2>1. TypeOK'
    BY <1>3 DEF RecordsBlock, Outdates
  <2>2. Exclusive'
    BY <1>3 DEF RecordsBlock, Outdates
  <2>3. NoHitLost'
    BY <1>3 DEF RecordsBlock, Outdates
  <2>4. Earned' /\ BlockIsEarned'
    BY <1>3 DEF RecordsBlock, Outdates
  <2>5. Complete'
    BY <1>3 DEF RecordsBlock, Outdates
  <2>. QED  BY <2>1, <2>2, <2>3, <2>4, <2>5
<1>4. CASE GivesUp(s)
  <2>1. TypeOK'
    BY <1>4 DEF GivesUp
  <2>2. Exclusive'
    BY <1>4 DEF GivesUp
  <2>3. NoHitLost'
    BY <1>4 DEF GivesUp
  <2>4. Earned' /\ BlockIsEarned'
    BY <1>4 DEF GivesUp
  <2>5. Complete'
    BY <1>4 DEF GivesUp
  <2>. QED  BY <2>1, <2>2, <2>3, <2>4, <2>5
<1>. QED  BY <1>1, <1>2, <1>3, <1>4 DEF Decision

(* A put outdates the listings of the others. *)
LEMMA PushKeeps ==
  ASSUME IInv, NEW s \in Scanners, Push(s)
  PROVE  IInv'
<1> USE AutoBlockAssumption
    DEF IInv, TypeOK, Exclusive, NoHitLost, Earned, BlockIsEarned, Complete, Goto, scanners,
        locks, candidates, server, history, Point, Transaction, Pushing
<1>1. CASE Generates(s)
  <2>1. TypeOK'
    BY <1>1 DEF Generates
  <2>2. Exclusive'
    BY <1>1 DEF Generates
  <2>3. NoHitLost'
    BY <1>1 DEF Generates
  <2>4. Earned' /\ BlockIsEarned'
    BY <1>1 DEF Generates
  <2>5. Complete'
    BY <1>1 DEF Generates
  <2>. QED  BY <2>1, <2>2, <2>3, <2>4, <2>5
<1>2. CASE Puts(s)
  <2>1. TypeOK'
    BY <1>2 DEF Puts, Outdates
  <2>2. Exclusive'
    BY <1>2 DEF Puts, Outdates
  <2>3. NoHitLost'
    BY <1>2 DEF Puts, Outdates
  <2>4. Earned' /\ BlockIsEarned'
    BY <1>2 DEF Puts, Outdates
  <2>5. Complete'
    BY <1>2 DEF Puts, Outdates
  <2>. QED  BY <2>1, <2>2, <2>3, <2>4, <2>5
<1>3. CASE PutIsRefused(s)
  <2>1. TypeOK'
    BY <1>3 DEF PutIsRefused
  <2>2. Exclusive'
    BY <1>3 DEF PutIsRefused
  <2>3. NoHitLost'
    BY <1>3 DEF PutIsRefused
  <2>4. Earned' /\ BlockIsEarned'
    BY <1>3 DEF PutIsRefused
  <2>5. Complete'
    BY <1>3 DEF PutIsRefused
  <2>. QED  BY <2>1, <2>2, <2>3, <2>4, <2>5
<1>4. CASE Activates(s)
  <2>1. TypeOK'
    BY <1>4 DEF Activates
  <2>2. Exclusive'
    BY <1>4 DEF Activates
  <2>3. NoHitLost'
    BY <1>4 DEF Activates
  <2>4. Earned' /\ BlockIsEarned'
    BY <1>4 DEF Activates
  <2>5. Complete'
    BY <1>4 DEF Activates
  <2>. QED  BY <2>1, <2>2, <2>3, <2>4, <2>5
<1>. QED  BY <1>1, <1>2, <1>3, <1>4 DEF Push

(* Restarts, the user and the calendar. *)
LEMMA WorldKeeps ==
  ASSUME IInv, (\E s \in Scanners : Restart(s)) \/ UserActivates \/ DayPasses
  PROVE  IInv'
<1> USE AutoBlockAssumption
    DEF IInv, TypeOK, Exclusive, NoHitLost, Earned, BlockIsEarned, Complete, Goto, scanners,
        locks, candidates, server, history, Point, Transaction, Pushing
<1>1. CASE \E s \in Scanners : Restart(s)
  <2>1. TypeOK'
    BY <1>1 DEF Restart, EndTransaction
  <2>2. Exclusive'
    BY <1>1 DEF Restart, EndTransaction
  <2>3. NoHitLost'
    BY <1>1 DEF Restart, EndTransaction
  <2>4. Earned' /\ BlockIsEarned'
    BY <1>1 DEF Restart, EndTransaction
  <2>5. Complete'
    BY <1>1 DEF Restart, EndTransaction
  <2>. QED  BY <2>1, <2>2, <2>3, <2>4, <2>5
<1>2. CASE UserActivates
  <2>1. TypeOK'
    BY <1>2 DEF UserActivates
  <2>2. Exclusive'
    BY <1>2 DEF UserActivates
  <2>3. NoHitLost'
    BY <1>2 DEF UserActivates
  <2>4. Earned' /\ BlockIsEarned'
    BY <1>2 DEF UserActivates
  <2>5. Complete'
    BY <1>2 DEF UserActivates
  <2>. QED  BY <2>1, <2>2, <2>3, <2>4, <2>5
<1>3. CASE DayPasses
  <2>1. TypeOK'
    BY <1>3 DEF DayPasses
  <2>2. Exclusive'
    BY <1>3 DEF DayPasses
  <2>3. NoHitLost'
    BY <1>3 DEF DayPasses
  <2>4. Earned' /\ BlockIsEarned'
    BY <1>3 DEF DayPasses
  <2>5. Complete'
    BY <1>3 DEF DayPasses
  <2>. QED  BY <2>1, <2>2, <2>3, <2>4, <2>5
<1>. QED  BY <1>1, <1>2, <1>3

LEMMA Inductive ==
  ASSUME IInv, [Next]_vars
  PROVE  IInv'
<1>1. CASE Next
  BY <1>1, HitKeeps, DecisionKeeps, PushKeeps, WorldKeeps DEF Next
<1>2. CASE UNCHANGED vars
  BY <1>2 DEF vars, scanners, locks, candidates, server, history, IInv, TypeOK, Exclusive,
     NoHitLost, Earned, BlockIsEarned, Complete
<1>. QED  BY <1>1, <1>2

LEMMA Invariance == Spec => []IInv
<1>. QED  BY Initially, Inductive, PTL DEF Spec

(* Every variable keeps its meaning; only a transaction writes, and under    *)
(* its process's write lock.                                                *)
THEOREM TypeCorrect == Spec => []TypeOK
<1>1. IInv => TypeOK
  BY DEF IInv
<1>. QED  BY <1>1, Invariance, PTL

(* BEGIN IMMEDIATE makes read and update one step for all processes.         *)
THEOREM HitsAreCounted == Spec => []NoHitLost
<1>1. IInv => NoHitLost
  BY DEF IInv
<1>. QED  BY <1>1, Invariance, PTL

(* No race, rollback, lost answer or restart makes the server reject mail of *)
(* a domain below the threshold.                                            *)
THEOREM NobodyBlockedEarly == Spec => []BlockIsEarned
<1>1. IInv => BlockIsEarned
  BY DEF IInv
<1>. QED  BY <1>1, Invariance, PTL

(* A push that nothing disturbed leaves the whole table in the active        *)
(* script, whatever failed before it.                                       *)
THEOREM PushesHeal == Spec => PushIsComplete
<1>1. IInv /\ [Next]_vars =>
       [\A s \in Scanners :
          pc[s] = "activate" /\ Activates(s) /\ s \notin stale =>
            blocked \subseteq script /\ active' = "mailwatch_blocks"]_vars
  BY DEF IInv, Complete, Activates
<1>. QED  BY <1>1, Invariance, PTL DEF Spec, PushIsComplete
=============================================================================
