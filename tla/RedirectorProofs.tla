-------------------------- MODULE RedirectorProofs --------------------------
(* Machine-checked theorems about Redirector, for any set of messages, any  *)
(* number of threads and other processes, and any number of failures.       *)
EXTENDS Redirector, FiniteSetTheorems, TLAPS

USE RedirectorAssumption

(* A worker has at most one message in hand.                               *)
OneInHand == \A w \in Workers : \A m, n \in cur[w] : m = n

SafeInv == TypeOK /\ OneInHand /\ RemovedAfterAppend /\ NoMailLost

(* The bookkeeping at the end of a message: control and lock stay typed.   *)
LEMMA NextMessageFacts ==
  ASSUME TypeOK, NEW w \in Workers, NEW rest \in SUBSET dropped, NextMessage(w, rest)
  PROVE  /\ pc' \in [Workers -> Point] /\ work' \in [Workers -> SUBSET dropped]
         /\ cur' \in [Workers -> SUBSET dropped]
         /\ lock' \in Threads \cup {NoOne}
         /\ pc'[w] \in {"idle", "fetch"} /\ cur'[w] = {}
         /\ \A v \in Workers \ {w} : pc'[v] = pc[v] /\ cur'[v] = cur[v]
BY DEF TypeOK, NextMessage, Goto, Release, Point

(* What an append does: copies only grow, and the message in hand has one.  *)
LEMMA AppendFacts ==
  ASSUME TypeOK, NEW w \in Workers, AppendCopy(w)
  PROVE  /\ dest' \in [Messages -> 0..Many]
         /\ \A m \in Messages : dest[m] > 0 => dest'[m] > 0
         /\ \A m \in cur[w] : dest'[m] > 0
         /\ \A m \in Messages \ cur[w] : dest'[m] = dest[m]
<1>1. \A m \in Messages : dest[m] \in 0..2
  BY DEF TypeOK, Many
<1>2. \A m \in Messages :
        dest'[m] = IF m \in cur[w] /\ dest[m] < 2 THEN dest[m] + 1 ELSE dest[m]
  BY DEF AppendCopy, Many
<1>3. \A m \in Messages : dest'[m] \in 0..2 /\ (dest[m] > 0 => dest'[m] > 0)
                          /\ (m \in cur[w] => dest'[m] > 0)
  BY <1>1, <1>2
<1>4. cur[w] \subseteq Messages
  BY DEF TypeOK
<1>5. dest' \in [Messages -> 0..Many]
  BY <1>3 DEF AppendCopy, Many
<1>6. QED
  BY <1>2, <1>3, <1>4, <1>5

(* Nothing is dropped or delivered at the start.                           *)
LEMMA SafeInit == Init => SafeInv
BY DEF Init, SafeInv, TypeOK, OneInHand, RemovedAfterAppend, NoMailLost, Point, Many

(* A step by which worker w turns to its next message, or ends, is safe if  *)
(* it takes from the source, and flags there, only what is safe to remove.  *)
LEMMA SafeNext ==
  ASSUME SafeInv, NEW w \in Workers, NEW rest \in SUBSET dropped, NextMessage(w, rest),
         source' \subseteq source, flagged' \subseteq flagged \cap source',
         archive' \subseteq dropped,
         dest' \in [Messages -> 0..Many], \A m \in Messages : dest[m] > 0 => dest'[m] > 0,
         \A m \in source \ source' : dest[m] > 0 \/ m \in givenUp,
         UNCHANGED <<dropped, givenUp, runs>>, faults' \in 0..MaxFaults
  PROVE  SafeInv'
<1>1. TypeOK'
  <2>1. /\ pc' \in [Workers -> Point] /\ work' \in [Workers -> SUBSET dropped]
        /\ cur' \in [Workers -> SUBSET dropped] /\ lock' \in Threads \cup {NoOne}
    BY NextMessageFacts DEF SafeInv
  <2>2. QED
    BY <2>1 DEF SafeInv, TypeOK
<1>2. /\ pc'[w] \in {"idle", "fetch"} /\ cur'[w] = {}
      /\ \A v \in Workers \ {w} : pc'[v] = pc[v] /\ cur'[v] = cur[v]
  BY NextMessageFacts DEF SafeInv
<1>3. OneInHand'
  BY <1>2 DEF SafeInv, OneInHand
<1>4. RemovedAfterAppend'
  <2>1. \A v \in Workers : cur[v] \subseteq Messages
    BY DEF SafeInv, TypeOK
  <2>2. flagged \subseteq Messages
    BY DEF SafeInv, TypeOK
  <2>3. QED
    BY <1>2, <2>1, <2>2 DEF SafeInv, RemovedAfterAppend
<1>5. NoMailLost'
  BY DEF SafeInv, NoMailLost, TypeOK
<1>6. QED
  BY <1>1, <1>3, <1>4, <1>5 DEF SafeInv

(* Every step keeps the safety invariant.                                  *)
LEMMA SafeStep == SafeInv /\ [Next]_vars => SafeInv'
<1> SUFFICES ASSUME SafeInv, [Next]_vars
             PROVE  SafeInv'
  OBVIOUS
<1> USE DEF SafeInv
<1>1. ASSUME NEW m \in Messages, Drop(m) PROVE SafeInv'
  BY <1>1 DEF Drop, TypeOK, OneInHand, RemovedAfterAppend, NoMailLost
<1>2. ASSUME NEW m \in Messages, TakeBack(m) PROVE SafeInv'
  BY <1>2 DEF TakeBack, TypeOK, OneInHand, RemovedAfterAppend, NoMailLost
<1>3. ASSUME NEW m \in Messages, MarkDeleted(m) PROVE SafeInv'
  BY <1>3 DEF MarkDeleted, TypeOK, OneInHand, RemovedAfterAppend, NoMailLost
<1>4. ASSUME NEW w \in Workers, Start(w) PROVE SafeInv'
  BY <1>4 DEF Start, Goto, mail, Workers, Point, TypeOK, OneInHand, RemovedAfterAppend, NoMailLost
<1>5. ASSUME NEW w \in Workers, NEW m \in Messages, FetchRaw(w, m) PROVE SafeInv'
  BY <1>5 DEF FetchRaw, Goto, mail, Point, TypeOK, OneInHand, RemovedAfterAppend, NoMailLost
<1>6. ASSUME NEW w \in Workers, NEW m \in Messages, SkipGone(w, m) \/ FetchFails(w, m)
      PROVE  SafeInv'
  <2>1. /\ NextMessage(w, work[w] \ {m}) /\ UNCHANGED mail
        /\ work[w] \ {m} \in SUBSET dropped /\ faults' \in 0..MaxFaults /\ UNCHANGED runs
    BY <1>6 DEF SkipGone, FetchFails, Fault, TypeOK
  <2>2. QED
    BY <2>1, SafeNext DEF mail, TypeOK
<1>7. ASSUME NEW w \in Workers, AppendOK(w) PROVE SafeInv'
  <2>1. AppendCopy(w)
    BY <1>7 DEF AppendOK
  <2>2. /\ dest' \in [Messages -> 0..Many]
        /\ \A m \in Messages : dest[m] > 0 => dest'[m] > 0
        /\ \A m \in cur[w] : dest'[m] > 0
    BY <2>1, AppendFacts
  <2>3. /\ UNCHANGED <<source, flagged, archive, dropped, givenUp, lock, work, cur, faults, runs>>
        /\ pc' = [pc EXCEPT ![w] = IF w \in Archivers THEN "remove" ELSE "store"]
    BY <1>7 DEF AppendOK, Goto
  <2>4. TypeOK'
    BY <2>2, <2>3 DEF TypeOK, Point
  <2>5. RemovedAfterAppend'
    BY <2>2, <2>3 DEF TypeOK, RemovedAfterAppend
  <2>6. OneInHand' /\ NoMailLost'
    BY <2>2, <2>3 DEF TypeOK, OneInHand, NoMailLost
  <2>7. QED
    BY <2>4, <2>5, <2>6
<1>8. ASSUME NEW w \in Workers, AppendFails(w) PROVE SafeInv'
  <2>1. /\ dest' \in [Messages -> 0..Many]
        /\ \A m \in Messages : dest[m] > 0 => dest'[m] > 0
    BY <1>8, AppendFacts DEF AppendFails, TypeOK
  <2>2. /\ NextMessage(w, work[w]) /\ UNCHANGED <<source, flagged, archive, dropped, givenUp>>
        /\ work[w] \in SUBSET dropped /\ faults' \in 0..MaxFaults /\ UNCHANGED runs
    BY <1>8 DEF AppendFails, Fault, TypeOK
  <2>3. QED
    BY <2>1, <2>2, SafeNext DEF TypeOK
<1>9. ASSUME NEW w \in Workers, ArchiveMove(w) PROVE SafeInv'
  <2>1. /\ NextMessage(w, work[w]) /\ UNCHANGED <<dest, dropped, givenUp, faults, runs>>
        /\ source' = source \ cur[w] /\ flagged' = flagged \ cur[w]
        /\ archive' = archive \cup (cur[w] \cap source)
        /\ pc[w] = "remove" /\ work[w] \in SUBSET dropped
    BY <1>9 DEF ArchiveMove, TypeOK
  <2>2. \A m \in source \ source' : dest[m] > 0
    BY <2>1 DEF RemovedAfterAppend
  <2>3. QED
    BY <2>1, <2>2, SafeNext DEF TypeOK
<1>10. ASSUME NEW w \in Workers, ArchiveCopy(w) PROVE SafeInv'
  BY <1>10 DEF ArchiveCopy, Fault, Goto, Point, TypeOK, OneInHand, RemovedAfterAppend, NoMailLost
<1>11. ASSUME NEW w \in Workers, StoreDeleted(w) PROVE SafeInv'
  BY <1>11 DEF StoreDeleted, Goto, Point, TypeOK, OneInHand, RemovedAfterAppend, NoMailLost
<1>12. ASSUME NEW w \in Workers, Expunge(w) PROVE SafeInv'
  <2>1. /\ NextMessage(w, work[w]) /\ UNCHANGED <<archive, dest, dropped, givenUp, faults, runs>>
        /\ source' = source \ flagged /\ flagged' = {} /\ work[w] \in SUBSET dropped
    BY <1>12 DEF Expunge, TypeOK
  <2>2. \A m \in source \ source' : dest[m] > 0 \/ m \in givenUp
    BY <2>1 DEF RemovedAfterAppend
  <2>3. QED
    BY <2>1, <2>2, SafeNext DEF TypeOK
<1>13. ASSUME NEW w \in Workers, RemoveFails(w) PROVE SafeInv'
  <2>1. /\ NextMessage(w, work[w]) /\ UNCHANGED mail
        /\ work[w] \in SUBSET dropped /\ faults' \in 0..MaxFaults /\ UNCHANGED runs
    BY <1>13 DEF RemoveFails, Fault, TypeOK
  <2>2. QED
    BY <2>1, SafeNext DEF mail, TypeOK
<1>14. ASSUME NEW w \in Workers, Abort(w) PROVE SafeInv'
  <2>1. NextMessage(w, {}) /\ UNCHANGED mail /\ faults' \in 0..MaxFaults /\ UNCHANGED runs
    BY <1>14 DEF Abort, Fault, TypeOK
  <2>2. QED
    BY <2>1, SafeNext DEF mail, TypeOK
<1>15. CASE UNCHANGED vars
  BY <1>15 DEF vars, mail, TypeOK, OneInHand, RemovedAfterAppend, NoMailLost
<1>16. QED
  BY <1>1, <1>2, <1>3, <1>4, <1>5, <1>6, <1>7, <1>8, <1>9, <1>10, <1>11, <1>12, <1>13, <1>14, <1>15
     DEF Next, User, Progress, Failure

(* The safety invariant holds in every reachable state.                    *)
LEMMA SafeAlways == Spec => []SafeInv
BY SafeInit, SafeStep, PTL DEF Spec

(* Types, for any number of messages, workers and failures.                *)
THEOREM TypeCorrect == Spec => []TypeOK
<1>1. SafeInv => TypeOK
  BY DEF SafeInv
<1>2. QED
  BY <1>1, SafeAlways, PTL

(* A redirect never loses mail: however the workers interleave and whatever *)
(* fails, a message that left the source folder without the user's doing    *)
(* is at the destination.                                                  *)
THEOREM MailConserved == Spec => []NoMailLost
<1>1. SafeInv => NoMailLost
  BY DEF SafeInv
<1>2. QED
  BY <1>1, SafeAlways, PTL

(* A message is removed, or flagged for removal, only once it is delivered  *)
(* or given up by the user.                                                *)
THEOREM AppendFirst == Spec => []RemovedAfterAppend
<1>1. SafeInv => RemovedAfterAppend
  BY DEF SafeInv
<1>2. QED
  BY <1>1, SafeAlways, PTL
-----------------------------------------------------------------------------
(* Delivered once.  The lock's holder is the one daemon thread that is not  *)
(* idle, and as long as nothing has failed and no other process has run,    *)
(* what waits to be appended has no copy yet, and a message of the source   *)
(* folder that has one is on its way out, in the hands of the holder.       *)
Holds(w) == lock = w <=> pc[w] # "idle"

OnItsWayOut(m, w) ==
  /\ pc[w] # "idle" /\ m \in cur[w]
  /\ \/ pc[w] \in {"remove", "store"}
     \/ pc[w] = "expunge" /\ m \in flagged

OnceSoFar ==
  /\ \A m \in Messages : dest[m] <= 1
  /\ \A m \in Messages \ dropped : dest[m] = 0
  /\ \A m \in source : dest[m] = 0 \/ \E w \in Threads : OnItsWayOut(m, w)
  /\ \A w \in Threads : \A m \in work[w] : dest[m] = 0
  /\ \A w \in Threads : \A m \in cur[w] : m \notin work[w]
  /\ \A w \in Threads : pc[w] = "append" => \A m \in cur[w] : dest[m] = 0
  /\ \A w \in Threads : pc[w] = "idle" => work[w] = {} /\ cur[w] = {}

OthersIdle == \A w \in Workers \ Threads : pc[w] = "idle"

OnceInv ==
  /\ \A w \in Threads : Holds(w)
  /\ runs = 0 => OthersIdle
  /\ faults = 0 /\ runs = 0 => OnceSoFar

(* Two threads of the daemon are never busy at the same time.              *)
LEMMA OneBusy ==
  ASSUME \A w \in Threads : Holds(w)
  PROVE  \A v, w \in Threads : pc[v] # "idle" /\ pc[w] # "idle" => v = w
BY DEF Holds

(* Turning to the next message keeps the lock with the busy thread.        *)
LEMMA HoldsNext ==
  ASSUME TypeOK, \A v \in Threads : Holds(v), NEW w \in Workers, pc[w] # "idle",
         NEW rest, NextMessage(w, rest)
  PROVE  \A v \in Threads : Holds(v)'
<1>1. pc' = [pc EXCEPT ![w] = IF rest = {} THEN "idle" ELSE "fetch"]
  BY DEF NextMessage, Goto
<1>2. lock' = IF rest = {} /\ lock = w THEN NoOne ELSE lock
  BY DEF NextMessage, Release
<1>3. \A v \in Threads : v # NoOne
  BY DEF Workers
<1>4. QED
  BY <1>1, <1>2, <1>3 DEF Holds, TypeOK, Workers

(* The lock's invariant through every step.                                *)
LEMMA HoldsStep ==
  ASSUME TypeOK, \A v \in Threads : Holds(v), [Next]_vars
  PROVE  \A v \in Threads : Holds(v)'
<1>1. CASE User \/ UNCHANGED vars
  BY <1>1 DEF User, Drop, TakeBack, MarkDeleted, vars, Holds
<1>2. ASSUME NEW w \in Workers, Start(w) PROVE \A v \in Threads : Holds(v)'
  <2>1. NoOne \notin Threads
    BY DEF Workers
  <2>2. CASE w \in Threads
    BY <1>2, <2>1, <2>2 DEF Start, Goto, Holds, TypeOK, Workers
  <2>3. CASE w \notin Threads
    BY <1>2, <2>1, <2>3 DEF Start, Goto, Holds, TypeOK, Workers
  <2>4. QED
    BY <2>2, <2>3
<1>3. ASSUME NEW w \in Workers, pc[w] # "idle", pc'[w] # "idle",
             \A v \in Workers \ {w} : pc'[v] = pc[v], UNCHANGED lock
      PROVE  \A v \in Threads : Holds(v)'
  BY <1>3 DEF Holds, Workers
<1>4. ASSUME NEW w \in Workers,
             AppendOK(w) \/ StoreDeleted(w) \/ ArchiveCopy(w) \/ \E m \in Messages : FetchRaw(w, m)
      PROVE  \A v \in Threads : Holds(v)'
  <2>1. /\ pc[w] # "idle" /\ UNCHANGED lock
        /\ pc' \in {[pc EXCEPT ![w] = "append"], [pc EXCEPT ![w] = "remove"],
                    [pc EXCEPT ![w] = "store"], [pc EXCEPT ![w] = "expunge"]}
    BY <1>4 DEF AppendOK, StoreDeleted, ArchiveCopy, FetchRaw, Goto
  <2>2. pc'[w] # "idle" /\ \A v \in Workers \ {w} : pc'[v] = pc[v]
    BY <2>1 DEF TypeOK
  <2>3. QED
    BY <1>3, <2>1, <2>2
<1>5. ASSUME NEW w \in Workers,
             \/ ArchiveMove(w) \/ Expunge(w) \/ AppendFails(w) \/ RemoveFails(w) \/ Abort(w)
             \/ \E m \in Messages : SkipGone(w, m) \/ FetchFails(w, m)
      PROVE  \A v \in Threads : Holds(v)'
  <2>1. pc[w] # "idle" /\ \E rest : NextMessage(w, rest)
    BY <1>5 DEF ArchiveMove, Expunge, AppendFails, RemoveFails, Abort, SkipGone, FetchFails
  <2>2. QED
    BY <2>1, HoldsNext
<1>6. QED
  BY <1>1, <1>2, <1>4, <1>5 DEF Next, Progress, Failure

(* The end of a message, when what it leaves in the source has no copy.     *)
LEMMA OnceNext ==
  ASSUME TypeOK, OnceSoFar, NEW w \in Threads, NEW rest \in SUBSET work[w],
         NextMessage(w, rest), \A v \in Threads : Holds(v), pc[w] # "idle",
         source' \subseteq source, UNCHANGED <<dest, dropped>>,
         \A m \in source' : ~OnItsWayOut(m, w)
  PROVE  OnceSoFar'
<1>1. /\ pc' = [pc EXCEPT ![w] = IF rest = {} THEN "idle" ELSE "fetch"]
      /\ work' = [work EXCEPT ![w] = rest] /\ cur' = [cur EXCEPT ![w] = {}]
  BY DEF NextMessage, Goto
<1>2. w \in Workers /\ Threads \subseteq Workers
  BY DEF Workers
<1>3. \A v \in Threads : v # w => pc[v] = "idle"
  BY OneBusy
<1>4. \A m \in source' : dest[m] = 0
  BY <1>3 DEF OnceSoFar, OnItsWayOut
<1>5. QED
  BY <1>1, <1>2, <1>4 DEF OnceSoFar, TypeOK

(* Failures and scans by other processes are counted, and nothing else is.  *)
LEMMA Counted ==
  ASSUME TypeOK, [Next]_vars
  PROVE  /\ \/ faults' = faults
            \/ faults' = faults + 1 /\ \E w \in Workers : Failure(w)
         /\ \/ runs' = runs
            \/ runs' = runs + 1 /\ \E w \in Workers \ Threads : Start(w)
<1>1. CASE User \/ UNCHANGED vars
  BY <1>1 DEF User, Drop, TakeBack, MarkDeleted, vars
<1>2. ASSUME NEW w \in Workers, Start(w)
      PROVE  /\ faults' = faults
             /\ runs' = runs \/ (w \notin Threads /\ runs' = runs + 1)
  BY <1>2 DEF Start
<1>3. ASSUME NEW w \in Workers, Progress(w) PROVE faults' = faults /\ runs' = runs
  BY <1>3 DEF Progress, FetchRaw, SkipGone, AppendOK, ArchiveMove, StoreDeleted, Expunge
<1>4. ASSUME NEW w \in Workers, Failure(w) PROVE faults' = faults + 1 /\ runs' = runs
  BY <1>4 DEF Failure, FetchFails, AppendFails, ArchiveCopy, RemoveFails, Abort, Fault
<1> QED
  BY <1>1, <1>2, <1>3, <1>4 DEF Next

(* Without such a scan no other process gets going.                         *)
LEMMA OthersStayIdle ==
  ASSUME TypeOK, OthersIdle, [Next]_vars, runs' = runs
  PROVE  OthersIdle'
<1>1. CASE User \/ UNCHANGED vars
  BY <1>1 DEF User, Drop, TakeBack, MarkDeleted, vars, OthersIdle
<1>2. ASSUME NEW w \in Workers, Start(w) PROVE OthersIdle'
  <2>1. w \in Threads
    BY <1>2 DEF Start, TypeOK
  <2> QED
    BY <1>2, <2>1 DEF Start, Goto, OthersIdle, TypeOK
<1>3. ASSUME NEW w \in Workers, Progress(w) \/ Failure(w) PROVE OthersIdle'
  <2>1. pc[w] # "idle" /\ \E point : pc' = [pc EXCEPT ![w] = point]
    BY <1>3 DEF Progress, FetchRaw, SkipGone, AppendOK, ArchiveMove, StoreDeleted, Expunge, Failure,
                FetchFails, AppendFails, ArchiveCopy, RemoveFails, Abort, NextMessage, Goto
  <2> QED
    BY <2>1 DEF OthersIdle, TypeOK
<1> QED
  BY <1>1, <1>2, <1>3 DEF Next

(* Every step that is not a failure keeps the messages delivered once.      *)
LEMMA OnceStep ==
  ASSUME SafeInv, OnceInv, [Next]_vars
  PROVE  OnceInv'
<1>1. \A w \in Threads : Holds(w)'
  BY HoldsStep DEF SafeInv, OnceInv
<1>2. ASSUME runs' = 0 PROVE runs' = runs /\ OthersIdle /\ OthersIdle'
  <2>1. runs' = runs
    BY <1>2, Counted DEF SafeInv, TypeOK
  <2> QED
    BY <1>2, <2>1, OthersStayIdle DEF OnceInv, SafeInv
<1> SUFFICES ASSUME faults' = 0, runs' = 0
             PROVE  OnceSoFar'
  BY <1>1, <1>2 DEF OnceInv
<1>2a. faults' = faults
  BY Counted DEF SafeInv, TypeOK
<1>3. OnceSoFar /\ TypeOK /\ OneInHand /\ \A w \in Threads : Holds(w) /\ w \in Workers
  BY <1>2, <1>2a DEF OnceInv, SafeInv, Workers
<1>4. \A v, w \in Threads : pc[v] # "idle" /\ pc[w] # "idle" => v = w
  BY <1>3, OneBusy
<1>5. ASSUME NEW m \in Messages, Drop(m) PROVE OnceSoFar'
  BY <1>3, <1>5 DEF Drop, OnceSoFar, OnItsWayOut, TypeOK
<1>6. ASSUME NEW m \in Messages, TakeBack(m) PROVE OnceSoFar'
  <2>1. \A n \in source', w \in Threads : OnItsWayOut(n, w) => OnItsWayOut(n, w)'
    BY <1>6 DEF TakeBack, OnItsWayOut
  <2>2. QED
    BY <1>3, <1>6, <2>1 DEF TakeBack, OnceSoFar
<1>7. ASSUME NEW m \in Messages, MarkDeleted(m) PROVE OnceSoFar'
  BY <1>3, <1>7 DEF MarkDeleted, OnceSoFar, OnItsWayOut
<1>8. ASSUME NEW w \in Threads, Start(w) PROVE OnceSoFar'
  <2>1. \A v \in Threads : pc[v] = "idle"
    BY <1>3, <1>8 DEF Start, Holds, Workers
  <2>2. \A m \in source : dest[m] = 0
    BY <1>3, <2>1 DEF OnceSoFar, OnItsWayOut
  <2>3. /\ pc' = [pc EXCEPT ![w] = "fetch"] /\ work' = [work EXCEPT ![w] = source]
        /\ UNCHANGED <<cur, dest, source, dropped>>
    BY <1>8 DEF Start, Goto, mail
  <2>4. QED
    BY <1>3, <2>1, <2>2, <2>3 DEF OnceSoFar, TypeOK
<1>9. ASSUME NEW w \in Threads, NEW m \in Messages, FetchRaw(w, m) PROVE OnceSoFar'
  <2>1. /\ pc' = [pc EXCEPT ![w] = "append"] /\ work' = [work EXCEPT ![w] = @ \ {m}]
        /\ cur' = [cur EXCEPT ![w] = {m}] /\ pc[w] = "fetch" /\ m \in work[w]
        /\ UNCHANGED <<dest, source, dropped, flagged>>
    BY <1>9 DEF FetchRaw, Goto, mail
  <2>2. \A n \in source : dest[n] = 0
    BY <1>3, <1>4, <2>1 DEF OnceSoFar, OnItsWayOut
  <2>3. QED
    BY <1>3, <2>1, <2>2 DEF OnceSoFar, TypeOK
<1>10. ASSUME NEW w \in Threads, NEW m \in Messages, SkipGone(w, m) PROVE OnceSoFar'
  <2>1. /\ NextMessage(w, work[w] \ {m}) /\ UNCHANGED mail /\ pc[w] = "fetch"
    BY <1>10 DEF SkipGone
  <2>2. QED
    BY <1>3, <2>1, OnceNext DEF mail, OnItsWayOut
<1>11. ASSUME NEW w \in Threads, AppendOK(w) PROVE OnceSoFar'
  <2>1. /\ pc' = [pc EXCEPT ![w] = IF w \in Archivers THEN "remove" ELSE "store"]
        /\ pc[w] = "append" /\ AppendCopy(w)
        /\ UNCHANGED <<source, dropped, flagged, work, cur>>
    BY <1>11 DEF AppendOK, Goto
  <2>2. \A m \in Messages : dest'[m] = IF m \in cur[w] THEN 1 ELSE dest[m]
    BY <1>3, <2>1 DEF AppendCopy, OnceSoFar, TypeOK, Many
  <2>3. pc'[w] \in {"remove", "store"} /\ \A v \in Threads \ {w} : pc'[v] = pc[v] /\ pc[v] = "idle"
    BY <1>3, <1>4, <2>1 DEF TypeOK
  <2>4. \A m \in source : dest'[m] = 0 \/ \E v \in Threads : OnItsWayOut(m, v)'
    <3>1. \A m \in source : dest[m] = 0
      BY <1>3, <1>4, <2>1 DEF OnceSoFar, OnItsWayOut
    <3>2. source \subseteq Messages
      BY <1>3 DEF TypeOK
    <3>3. \A m \in cur[w] : OnItsWayOut(m, w)'
      BY <2>1, <2>3 DEF OnItsWayOut
    <3>4. QED
      BY <2>2, <3>1, <3>2, <3>3
  <2>5. /\ \A v \in Threads : work[v] \subseteq Messages /\ cur[v] \subseteq Messages
        /\ cur[w] \subseteq dropped
    BY <1>3 DEF TypeOK
  <2>6. \A v \in Threads : \A m \in work[v] : dest'[m] = 0
    BY <1>3, <2>2, <2>3, <2>5 DEF OnceSoFar
  <2>7. QED
    BY <1>3, <2>1, <2>2, <2>3, <2>4, <2>5, <2>6 DEF OnceSoFar
<1>12. ASSUME NEW w \in Threads, ArchiveMove(w) PROVE OnceSoFar'
  <2>1. /\ NextMessage(w, work[w]) /\ UNCHANGED <<dest, dropped>> /\ pc[w] = "remove"
        /\ source' = source \ cur[w]
    BY <1>12 DEF ArchiveMove
  <2>2. QED
    BY <1>3, <2>1, OnceNext DEF OnItsWayOut
<1>13. ASSUME NEW w \in Threads, StoreDeleted(w) PROVE OnceSoFar'
  <2>1. /\ pc' = [pc EXCEPT ![w] = "expunge"] /\ pc[w] = "store"
        /\ flagged' = flagged \cup (cur[w] \cap source)
        /\ UNCHANGED <<source, dropped, dest, work, cur>>
    BY <1>13 DEF StoreDeleted, Goto
  <2>2. \A m \in source, v \in Threads : OnItsWayOut(m, v) => OnItsWayOut(m, v)'
    BY <1>3, <2>1 DEF OnItsWayOut, TypeOK
  <2>3. QED
    BY <1>3, <2>1, <2>2 DEF OnceSoFar, TypeOK
<1>14. ASSUME NEW w \in Threads, Expunge(w) PROVE OnceSoFar'
  <2>1. /\ NextMessage(w, work[w]) /\ UNCHANGED <<dest, dropped>> /\ pc[w] = "expunge"
        /\ source' = source \ flagged
    BY <1>14 DEF Expunge
  <2>2. QED
    BY <1>3, <2>1, OnceNext DEF OnItsWayOut
<1>15. ASSUME NEW w \in Workers, Failure(w) PROVE FALSE
  <2>1. Fault
    BY <1>15 DEF Failure, FetchFails, AppendFails, ArchiveCopy, RemoveFails, Abort
  <2>2. faults \in Nat
    BY <1>3 DEF TypeOK
  <2> QED
    BY <1>2a, <2>1, <2>2 DEF Fault
<1>16. CASE UNCHANGED vars
  BY <1>3, <1>16 DEF vars, mail, OnceSoFar, OnItsWayOut
<1>17. ASSUME NEW w \in Workers, Start(w) \/ Progress(w) PROVE w \in Threads
  <2>1. CASE Start(w)
    BY <1>2, <1>3, <2>1 DEF Start, TypeOK
  <2>2. CASE Progress(w)
    <3>1. pc[w] # "idle"
      BY <2>2 DEF Progress, FetchRaw, SkipGone, AppendOK, ArchiveMove, StoreDeleted, Expunge
    <3> QED
      BY <1>2, <3>1 DEF OthersIdle
  <2> QED
    BY <1>17, <2>1, <2>2
<1>18. QED
  BY <1>5, <1>6, <1>7, <1>8, <1>9, <1>10, <1>11, <1>12, <1>13, <1>14, <1>15, <1>16, <1>17
     DEF Next, User, Progress

(* Where nothing has failed, and no other process has redirected,           *)
(* the daemon's threads deliver every message at most once: the account's   *)
(* lock is enough, for any number of threads.                              *)
THEOREM LockDeliversOnce == Spec => []DeliveredOnce
<1>1. Init => OnceInv
  BY DEF Init, OnceInv, OnceSoFar, OthersIdle, Holds, Workers
<1>2. SafeInv /\ OnceInv /\ [Next]_vars => OnceInv'
  BY OnceStep
<1>3. OnceInv => DeliveredOnce
  BY DEF OnceInv, OnceSoFar, DeliveredOnce
<1>4. QED
  BY <1>1, <1>2, <1>3, SafeAlways, PTL DEF Spec

-----------------------------------------------------------------------------
(* A step of the redirector is a step of the relay, or leaves it as it is.  *)
LEMMA RelayStep == SafeInv /\ [Next]_vars => [RelaySpec!Next]_(RelaySpec!relayVars)
<1> SUFFICES ASSUME SafeInv, [Next]_vars
             PROVE  RelaySpec!Next \/ UNCHANGED RelaySpec!relayVars
  OBVIOUS
<1> USE DEF RelaySpec!Next, RelaySpec!relayVars
<1>1. ASSUME NEW m \in Messages, Drop(m) PROVE RelaySpec!Offer(m)
  BY <1>1 DEF Drop, RelaySpec!Offer, SafeInv, TypeOK
<1>2. ASSUME NEW m \in Messages, TakeBack(m) \/ MarkDeleted(m) PROVE RelaySpec!GiveUp(m)
  BY <1>2 DEF TakeBack, MarkDeleted, RelaySpec!GiveUp
<1>3. ASSUME NEW w \in Workers, AppendCopy(w), UNCHANGED <<source, givenUp>>
      PROVE  RelaySpec!Next \/ UNCHANGED RelaySpec!relayVars
  <2>1. CASE cur[w] = {}
    BY <1>3, <2>1 DEF AppendCopy, SafeInv, TypeOK
  <2>2. ASSUME NEW m \in cur[w] PROVE RelaySpec!Deliver(m) \/ UNCHANGED RelaySpec!relayVars
    <3>1. cur[w] = {m} /\ m \in dropped /\ m \in Messages /\ dest \in [Messages -> 0..2]
      BY DEF SafeInv, TypeOK, OneInHand, Many
    <3>2. m \in source \cup givenUp \/ dest[m] > 0
      BY <3>1 DEF SafeInv, NoMailLost
    <3>3. CASE dest[m] < 2
      <4>1. dest' = [dest EXCEPT ![m] = @ + 1]
        BY <1>3, <3>1, <3>3 DEF AppendCopy, Many
      <4>2. QED
        BY <1>3, <3>2, <4>1 DEF RelaySpec!Deliver
    <3>4. CASE ~(dest[m] < 2)
      BY <1>3, <3>1, <3>4 DEF AppendCopy, Many
    <3>5. QED
      BY <3>3, <3>4
  <2>3. cur[w] \subseteq Messages
    BY DEF SafeInv, TypeOK
  <2>4. QED
    BY <2>1, <2>2, <2>3
<1>4. ASSUME NEW w \in Workers, AppendOK(w) \/ AppendFails(w)
      PROVE  RelaySpec!Next \/ UNCHANGED RelaySpec!relayVars
  BY <1>3, <1>4 DEF AppendOK, AppendFails
<1>5. ASSUME NEW w \in Workers, ArchiveMove(w) PROVE RelaySpec!Retire(cur[w] \cap source)
  BY <1>5 DEF ArchiveMove, RelaySpec!Retire, SafeInv, RemovedAfterAppend
<1>6. ASSUME NEW w \in Workers, Expunge(w) PROVE RelaySpec!Retire(flagged)
  BY <1>6 DEF Expunge, RelaySpec!Retire, SafeInv, RemovedAfterAppend
<1>7. flagged \subseteq source
  BY DEF SafeInv, TypeOK
<1>8. ASSUME NEW w \in Workers,
             \/ Start(w) \/ ArchiveCopy(w) \/ StoreDeleted(w) \/ RemoveFails(w) \/ Abort(w)
             \/ \E m \in Messages : FetchRaw(w, m) \/ SkipGone(w, m) \/ FetchFails(w, m)
      PROVE  UNCHANGED RelaySpec!relayVars
  BY <1>8 DEF Start, ArchiveCopy, StoreDeleted, RemoveFails, Abort, FetchRaw, SkipGone, FetchFails, mail
<1>9. CASE UNCHANGED vars
  BY <1>9 DEF vars, mail
<1>10. QED
  BY <1>1, <1>2, <1>4, <1>5, <1>6, <1>7, <1>8, <1>9 DEF Next, User, Progress, Failure

(* The redirector, with its threads, processes, crashes and lost replies,   *)
(* implements the at-least-once relay its documentation promises.          *)
THEOREM RelayImplemented == Spec => ImplementsRelay
<1>1. Init => RelaySpec!Init
  BY DEF Init, RelaySpec!Init
<1>2. SafeInv /\ [Next]_vars => [RelaySpec!Next]_(RelaySpec!relayVars)
  BY RelayStep
<1>3. QED
  BY <1>1, <1>2, SafeAlways, PTL DEF Spec, ImplementsRelay, RelaySpec!Spec
-----------------------------------------------------------------------------
(* The end of a scan.  redirect_account lists the folder once; Distance is  *)
(* what is left: five steps for each message listed, and those of the one   *)
(* in hand.                                                                *)
StepsOf(p) ==
  CASE p = "idle" -> 0 [] p = "fetch" -> 1 [] p = "expunge" -> 2
    [] p = "store" -> 3 [] p = "remove" -> 4 [] p = "append" -> 5

Distance(p, todo) == IF p = "idle" THEN 0 ELSE 5 * Cardinality(todo) + StepsOf(p)

Left(w) == Distance(pc[w], work[w])

(* Until it is over, whatever changes a scan brings it nearer to its end.   *)
Shortens(w) ==
  pc[w] # "idle" => Left(w)' < Left(w) \/ UNCHANGED <<pc[w], work[w], cur[w]>>

(* Only finitely many messages have been there at any time.                *)
FiniteInv == SafeInv /\ IsFiniteSet(dropped)

LEMMA StepsKnown ==
  /\ StepsOf("idle") = 0
  /\ \A p \in Point : StepsOf(p) \in 0..5 /\ (p # "idle" => StepsOf(p) > 0)
BY DEF StepsOf, Point

(* A message done with is worth more than any step.                        *)
LEMMA DistanceFacts ==
  ASSUME NEW p \in Point, NEW q \in Point, NEW S, IsFiniteSet(S)
  PROVE  /\ Distance(p, S) \in Nat
         /\ StepsOf(q) < StepsOf(p) => Distance(q, S) < Distance(p, S)
         /\ p # "idle" => \A m \in S : Distance(q, S \ {m}) < Distance(p, S)
<1>1. Cardinality(S) \in Nat
  BY FS_CardinalityType
<1>2. /\ StepsOf("idle") = 0
      /\ StepsOf(p) \in 0..5 /\ (p # "idle" => StepsOf(p) > 0)
      /\ StepsOf(q) \in 0..5 /\ (q # "idle" => StepsOf(q) > 0)
  BY StepsKnown
<1>3. Distance(p, S) \in Nat
  BY <1>1, <1>2 DEF Distance
<1>4. StepsOf(q) < StepsOf(p) => Distance(q, S) < Distance(p, S)
  <2>1. StepsOf(q) < StepsOf(p) => p # "idle"
    BY <1>2
  <2> QED
    BY <1>1, <1>2, <2>1 DEF Distance
<1>5. ASSUME p # "idle", NEW m \in S
      PROVE  Distance(q, S \ {m}) < Distance(p, S)
  <2>1. Cardinality(S \ {m}) = Cardinality(S) - 1 /\ Cardinality(S \ {m}) \in Nat
    BY FS_RemoveElement, FS_CardinalityType
  <2> QED
    BY <1>1, <1>2, <1>5, <2>1 DEF Distance
<1> QED
  BY <1>3, <1>4, <1>5

(* The next message, or the end of the scan, from any point.               *)
LEMMA NextShortens ==
  ASSUME FiniteInv, NEW w \in Workers, pc[w] # "idle", NEW rest \in SUBSET work[w],
         NextMessage(w, rest),
         pc[w] # "fetch" \/ (\E m \in work[w] : rest = work[w] \ {m}) \/ rest = {}
  PROVE  Left(w)' < Left(w)
<1>1. /\ pc[w] \in Point /\ work[w] \subseteq dropped /\ IsFiniteSet(work[w])
      /\ pc'[w] \in Point /\ work'[w] = rest
      /\ pc'[w] = IF rest = {} THEN "idle" ELSE "fetch"
  BY FS_Subset DEF FiniteInv, SafeInv, TypeOK, NextMessage, Goto, Point
<1>2. CASE \E m \in work[w] : rest = work[w] \ {m}
  BY <1>1, <1>2, DistanceFacts DEF Left
<1>3. CASE rest = {}
  <2>1. Distance("idle", {}) = 0 /\ Distance(pc[w], work[w]) \in Nat
    BY <1>1, DistanceFacts DEF Distance
  <2>2. Cardinality(work[w]) \in Nat /\ StepsOf(pc[w]) \in 0..5 /\ StepsOf(pc[w]) > 0
    BY <1>1, FS_CardinalityType, StepsKnown
  <2>3. Distance(pc[w], work[w]) > 0
    BY <2>2 DEF Distance
  <2> QED
    BY <1>1, <1>3, <2>1, <2>3 DEF Left
<1>4. CASE pc[w] # "fetch" /\ rest # {}
  <2>1. /\ Cardinality(work[w]) \in Nat /\ Cardinality(rest) \in Nat
        /\ Cardinality(rest) <= Cardinality(work[w])
    BY <1>1, FS_CardinalityType, FS_Subset
  <2>2. StepsOf("fetch") = 1 /\ StepsOf(pc[w]) \in 2..5
    BY <1>1, <1>4 DEF StepsOf, Point
  <2> QED
    BY <1>1, <1>4, <2>1, <2>2 DEF Left, Distance
<1> QED
  BY <1>2, <1>3, <1>4

LEMMA ScanShortens ==
  ASSUME FiniteInv, NEW w \in Workers, Progress(w) \/ Failure(w)
  PROVE  Left(w)' < Left(w)
<1>1. /\ pc \in [Workers -> Point] /\ work \in [Workers -> SUBSET dropped]
      /\ pc[w] \in Point /\ IsFiniteSet(work[w])
  BY FS_Subset DEF FiniteInv, SafeInv, TypeOK
<1>2. ASSUME NEW m \in Messages, FetchRaw(w, m)
      PROVE  Left(w)' < Left(w)
  <2>1. /\ pc[w] = "fetch" /\ pc'[w] = "append" /\ m \in work[w]
        /\ work'[w] = work[w] \ {m}
    BY <1>1, <1>2 DEF FetchRaw, Goto
  <2> QED
    BY <1>1, <2>1, DistanceFacts DEF Left, Point
<1>3. ASSUME NEW m \in Messages, SkipGone(w, m) \/ FetchFails(w, m)
      PROVE  Left(w)' < Left(w)
  BY <1>3, NextShortens DEF SkipGone, FetchFails
<1>4. CASE AppendOK(w) \/ ArchiveCopy(w) \/ StoreDeleted(w)
  <2>1. /\ work'[w] = work[w] /\ pc'[w] \in Point
        /\ \/ pc[w] = "append" /\ pc'[w] \in {"remove", "store"}
           \/ pc[w] = "remove" /\ pc'[w] = "store"
           \/ pc[w] = "store" /\ pc'[w] = "expunge"
    BY <1>1, <1>4 DEF AppendOK, ArchiveCopy, StoreDeleted, Goto, Point
  <2>2. StepsOf(pc'[w]) < StepsOf(pc[w])
    BY <2>1 DEF StepsOf
  <2> QED
    BY <1>1, <2>1, <2>2, DistanceFacts DEF Left
<1>5. CASE AppendFails(w) \/ ArchiveMove(w) \/ Expunge(w) \/ RemoveFails(w)
  <2>1. pc[w] \notin {"idle", "fetch"} /\ NextMessage(w, work[w])
    BY <1>5 DEF AppendFails, ArchiveMove, Expunge, RemoveFails
  <2> QED
    BY <2>1, NextShortens
<1>6. CASE Abort(w)
  BY <1>6, NextShortens DEF Abort
<1> QED
  BY <1>2, <1>3, <1>4, <1>5, <1>6 DEF Progress, Failure

LEMMA OthersKeep ==
  ASSUME TypeOK, NEW w \in Workers, NEW v \in Workers, v # w,
         Start(v) \/ Progress(v) \/ Failure(v)
  PROVE  UNCHANGED <<pc[w], work[w], cur[w]>>
<1>1. \A rest : NextMessage(v, rest) => UNCHANGED <<pc[w], work[w], cur[w]>>
  BY DEF NextMessage, Goto, TypeOK
<1>2. CASE Start(v) \/ Progress(v)
  BY <1>1, <1>2 DEF Start, Progress, FetchRaw, SkipGone, AppendOK, ArchiveMove, StoreDeleted,
     Expunge, Goto, TypeOK
<1>3. CASE Failure(v)
  BY <1>1, <1>3 DEF Failure, FetchFails, AppendFails, ArchiveCopy, RemoveFails, Abort, Goto,
     TypeOK
<1> QED
  BY <1>2, <1>3

LEMMA FiniteStep ==
  ASSUME FiniteInv, [Next]_vars
  PROVE  FiniteInv'
<1>1. dropped' = dropped \/ \E m \in Messages : dropped' = dropped \cup {m}
  BY DEF Next, User, Drop, TakeBack, MarkDeleted, Start, Progress, Failure, FetchRaw, SkipGone,
         FetchFails, AppendOK, AppendFails, ArchiveMove, ArchiveCopy, StoreDeleted, Expunge,
         RemoveFails, Abort, vars, mail
<1>2. IsFiniteSet(dropped)'
  BY <1>1, FS_AddElement DEF FiniteInv
<1> QED
  BY <1>2, SafeStep DEF FiniteInv

(* A scan comes to its end (redirector.py, redirect_account): what arrives  *)
(* while it runs is left to the next one, and no failure makes it go back   *)
(* to a message, whatever the user and other workers do meanwhile.         *)
THEOREM ScansWearOut ==
  Spec => [](\A w \in Workers : Left(w) \in Nat)
          /\ [][\A w \in Workers : Shortens(w)]_vars
<1>1. Init => FiniteInv
  <2> SUFFICES ASSUME Init
               PROVE  FiniteInv
    OBVIOUS
  <2>1. IsFiniteSet(dropped)
    BY FS_EmptySet DEF Init
  <2> QED
    BY <2>1, SafeInit DEF FiniteInv
<1>2. FiniteInv /\ [Next]_vars => FiniteInv'
  BY FiniteStep
<1>3. FiniteInv => \A w \in Workers : Left(w) \in Nat
  <2> SUFFICES ASSUME FiniteInv, NEW w \in Workers
               PROVE  Left(w) \in Nat
    OBVIOUS
  <2>1. pc[w] \in Point /\ IsFiniteSet(work[w])
    BY FS_Subset DEF FiniteInv, SafeInv, TypeOK
  <2> QED
    BY <2>1, DistanceFacts DEF Left
<1>4. FiniteInv /\ [Next]_vars => [\A w \in Workers : Shortens(w)]_vars
  <2> SUFFICES ASSUME FiniteInv, Next, NEW w \in Workers, pc[w] # "idle"
               PROVE  Left(w)' < Left(w) \/ UNCHANGED <<pc[w], work[w], cur[w]>>
    BY DEF Shortens
  <2>1. CASE User
    BY <2>1 DEF User, Drop, TakeBack, MarkDeleted
  <2>2. ASSUME NEW v \in Workers, Start(v) \/ Progress(v) \/ Failure(v)
        PROVE  Left(w)' < Left(w) \/ UNCHANGED <<pc[w], work[w], cur[w]>>
    <3>1. CASE v # w
      BY <2>2, <3>1, OthersKeep DEF FiniteInv, SafeInv
    <3>2. CASE v = w
      <4>1. ~Start(w)
        BY DEF Start
      <4> QED
        BY <2>2, <3>2, <4>1, ScanShortens
    <3> QED
      BY <3>1, <3>2
  <2> QED
    BY <2>1, <2>2 DEF Next
<1> QED
  BY <1>1, <1>2, <1>3, <1>4, PTL DEF Spec

=============================================================================
