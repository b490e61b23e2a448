--------------------------- MODULE SpamLoopProofs ---------------------------
(* Machine-checked theorems about SpamLoop, for any set of messages, any    *)
(* number of concurrent scans, any combination of failures and any MaxUid.  *)
EXTENDS SpamLoop, FiniteSetTheorems, TLAPS

USE SpamLoopAssumption

(* What appending an arrival does to a folder: the new UID is the next one  *)
(* and every UID assigned before still denotes the same message.            *)
LEMMA AppendFacts ==
  ASSUME NEW S, NEW q \in Seq(S), NEW e \in S
  PROVE  /\ Append(q, e) \in Seq(S)
         /\ Len(Append(q, e)) = Len(q) + 1
         /\ DOMAIN Append(q, e) = DOMAIN q \cup {Len(q) + 1}
         /\ Len(q) + 1 \notin DOMAIN q
         /\ \A i \in DOMAIN q : Append(q, e)[i] = q[i]
         /\ Append(q, e)[Len(q) + 1] = e
OBVIOUS

(* What the locals of a running scan denote: the uids of a pipeline scan   *)
(* are INBOX arrivals, those of a training scan Junk arrivals, and a move  *)
(* under way has its daemon_moves row.                                     *)
LocalsOK ==
  /\ \A s \in Scanners :
       /\ pc[s] \in PipelinePoint => work[s] \subseteq DOMAIN inbox
       /\ pc[s] \in {"spam", "spamlog"} => work[s] \subseteq DOMAIN junk
       /\ pc[s] \in {"move", "store", "expunge"} => cur[s] \in daemonMoves
       /\ pc[s] = "spamlog" => cur[s] \in DOMAIN junk
       /\ pc[s] = "hamlog" => cur[s] \in DOMAIN inbox
  /\ \A j \in Uid : spamTrain[j] > 0 => j \in DOMAIN junk

TypeInv == TypeOK /\ LocalsOK

(* The two folder logs only grow: what one step can do to them.            *)
Grown ==
  /\ \/ inbox' = inbox
     \/ Len(inbox) < MaxUid /\ \E a \in InboxArrival : inbox' = Append(inbox, a)
  /\ \/ junk' = junk
     \/ Len(junk) < MaxUid /\ \E a \in JunkArrival : junk' = Append(junk, a)

(* After such a step every old UID denotes the same message, the folders    *)
(* stay well-typed and within the bound.                                   *)
LEMMA GrownFacts ==
  ASSUME TypeOK, Grown
  PROVE  /\ inbox' \in Seq(InboxArrival) /\ Len(inbox') <= MaxUid
         /\ junk' \in Seq(JunkArrival) /\ Len(junk') <= MaxUid
         /\ DOMAIN inbox \subseteq DOMAIN inbox'
         /\ DOMAIN junk \subseteq DOMAIN junk'
         /\ \A u \in DOMAIN inbox : inbox'[u] = inbox[u]
         /\ \A j \in DOMAIN junk : junk'[j] = junk[j]
         /\ DOMAIN inbox' \subseteq Uid /\ DOMAIN junk' \subseteq Uid
<1>1. /\ inbox' \in Seq(InboxArrival) /\ Len(inbox') <= MaxUid
      /\ DOMAIN inbox \subseteq DOMAIN inbox'
      /\ \A u \in DOMAIN inbox : inbox'[u] = inbox[u]
  <2>1. CASE inbox' = inbox
    BY <2>1 DEF TypeOK
  <2>2. CASE Len(inbox) < MaxUid /\ \E a \in InboxArrival : inbox' = Append(inbox, a)
    <3>1. PICK a \in InboxArrival : inbox' = Append(inbox, a)
      BY <2>2
    <3>2. inbox \in Seq(InboxArrival) /\ Len(inbox) < MaxUid
      BY <2>2 DEF TypeOK
    <3>3. QED
      BY <3>1, <3>2, AppendFacts
  <2>3. QED
    BY <2>1, <2>2 DEF Grown
<1>2. /\ junk' \in Seq(JunkArrival) /\ Len(junk') <= MaxUid
      /\ DOMAIN junk \subseteq DOMAIN junk'
      /\ \A j \in DOMAIN junk : junk'[j] = junk[j]
  <2>1. CASE junk' = junk
    BY <2>1 DEF TypeOK
  <2>2. CASE Len(junk) < MaxUid /\ \E a \in JunkArrival : junk' = Append(junk, a)
    <3>1. PICK a \in JunkArrival : junk' = Append(junk, a)
      BY <2>2
    <3>2. junk \in Seq(JunkArrival) /\ Len(junk) < MaxUid
      BY <2>2 DEF TypeOK
    <3>3. QED
      BY <3>1, <3>2, AppendFacts
  <2>3. QED
    BY <2>1, <2>2 DEF Grown
<1>3. DOMAIN inbox' \subseteq Uid /\ DOMAIN junk' \subseteq Uid
  BY <1>1, <1>2 DEF Uid
<1>4. QED
  BY <1>1, <1>2, <1>3

(* Every arrival logged in a folder is of one of the known messages.       *)
LEMMA ArrivalFacts ==
  ASSUME TypeOK
  PROVE  /\ \A u \in DOMAIN inbox : inbox[u] \in InboxArrival /\ inbox[u].msg \in Messages
         /\ \A j \in DOMAIN junk : junk[j] \in JunkArrival /\ junk[j].msg \in Messages
<1>1. ASSUME NEW S, NEW q \in Seq(S), NEW i \in DOMAIN q
      PROVE  q[i] \in S
  BY <1>1
<1>2. \A u \in DOMAIN inbox : inbox[u] \in InboxArrival
  BY <1>1 DEF TypeOK
<1>3. \A j \in DOMAIN junk : junk[j] \in JunkArrival
  BY <1>1 DEF TypeOK
<1>4. QED
  BY <1>2, <1>3 DEF InboxArrival, JunkArrival

(* Initially nothing has arrived and no scan runs.                         *)
LEMMA TypeInit == Init => TypeInv
BY DEF Init, TypeInv, TypeOK, LocalsOK, InboxArrival, JunkArrival, Uid, Many, None,
       PipelinePoint, TrainingPoint

(* Every step keeps the types and the meaning of the scans' locals.        *)
LEMMA TypeStep == TypeInv /\ [Next]_vars => TypeInv'
<1> SUFFICES ASSUME TypeInv, [Next]_vars
             PROVE  TypeInv'
  OBVIOUS
<1>1. ASSUME NEW m \in Messages, Deliver(m)
     PROVE  TypeInv'
  BY <1>1, GrownFacts, AppendFacts DEF Deliver, TypeInv, TypeOK, LocalsOK, Uid, Source, PipelinePoint, TrainingPoint, Many, None, Goto, NextMessage, server, tables, locals, history, Grown, AddToInbox, InboxArrival
<1>2. ASSUME NEW m \in Messages, GatewayJunks(m)
     PROVE  TypeInv'
  BY <1>2, GrownFacts, AppendFacts DEF GatewayJunks, TypeInv, TypeOK, LocalsOK, Uid, Source, PipelinePoint, TrainingPoint, Many, None, Goto, NextMessage, server, tables, locals, history, Grown, AddToJunk, JunkArrival
<1>3. ASSUME NEW u \in Uid, UserJunks(u)
     PROVE  TypeInv'
  <2>1. inbox[u].msg \in Messages /\ [msg |-> inbox[u].msg, by |-> "user"] \in JunkArrival
    BY <1>3, ArrivalFacts DEF UserJunks, TypeInv, TypeOK, JunkArrival
  <2>2. Grown /\ DOMAIN junk' = DOMAIN junk \cup {Len(junk) + 1}
    BY <1>3, <2>1, AppendFacts DEF UserJunks, AddToJunk, Grown, TypeInv, TypeOK
  <2>3. TypeOK'
    BY <1>3, <2>1, <2>2, GrownFacts DEF UserJunks, AddToJunk, TypeInv, TypeOK, LocalsOK, Goto, NextMessage, tables, locals, history, server, PipelinePoint, TrainingPoint, Uid, None
  <2>4. LocalsOK'
    BY <1>3, <2>2, GrownFacts DEF UserJunks, LocalsOK, TypeInv, TypeOK, Goto, NextMessage, tables, locals, history, server, PipelinePoint, Uid
  <2>5. QED
    BY <2>3, <2>4 DEF TypeInv
<1>4. ASSUME NEW u \in Uid, UserReads(u)
     PROVE  TypeInv'
  BY <1>4 DEF UserReads, TypeInv, TypeOK, LocalsOK, Uid, Source, PipelinePoint, TrainingPoint, Many, None, Goto, NextMessage, server, tables, locals, history
<1>5. ASSUME NEW u \in Uid, UserDeletesFromInbox(u)
     PROVE  TypeInv'
  <2>1. inbox[u].msg \in Messages
    BY <1>5, ArrivalFacts DEF UserDeletesFromInbox, TypeInv, TypeOK
  <2>2. QED
    BY <1>5, <2>1 DEF UserDeletesFromInbox, TypeInv, TypeOK, LocalsOK, Uid, Source, PipelinePoint, TrainingPoint, Many, None, Goto, NextMessage, server, tables, locals, history
<1>6. ASSUME NEW j \in Uid, UserRescues(j)
     PROVE  TypeInv'
  <2>1. junk[j].msg \in Messages /\ [msg |-> junk[j].msg, by |-> "user"] \in InboxArrival
    BY <1>6, ArrivalFacts DEF UserRescues, TypeInv, TypeOK, InboxArrival
  <2>2. Grown /\ DOMAIN inbox' = DOMAIN inbox \cup {Len(inbox) + 1}
    BY <1>6, <2>1, AppendFacts DEF UserRescues, AddToInbox, Grown, TypeInv, TypeOK
  <2>3. TypeOK'
    BY <1>6, <2>1, <2>2, GrownFacts DEF UserRescues, AddToInbox, TypeInv, TypeOK, LocalsOK, Goto, NextMessage, tables, locals, history, server, PipelinePoint, TrainingPoint, Uid, None
  <2>4. LocalsOK'
    BY <1>6, <2>2, GrownFacts DEF UserRescues, LocalsOK, TypeInv, TypeOK, Goto, NextMessage, tables, locals, history, server, PipelinePoint, Uid
  <2>5. QED
    BY <2>3, <2>4 DEF TypeInv
<1>7. ASSUME NEW j \in Uid, UserDeletesFromJunk(j)
     PROVE  TypeInv'
  <2>1. junk[j].msg \in Messages
    BY <1>7, ArrivalFacts DEF UserDeletesFromJunk, TypeInv, TypeOK
  <2>2. QED
    BY <1>7, <2>1 DEF UserDeletesFromJunk, TypeInv, TypeOK, LocalsOK, Uid, Source, PipelinePoint, TrainingPoint, Many, None, Goto, NextMessage, server, tables, locals, history
<1>8. ASSUME NEW s \in Scanners, StartInboxScan(s)
     PROVE  TypeInv'
  BY <1>8 DEF StartInboxScan, TypeInv, TypeOK, LocalsOK, Uid, Source, PipelinePoint, TrainingPoint, Many, None, Goto, NextMessage, server, tables, locals, history
<1>9. ASSUME NEW s \in Scanners, FetchUnseen(s)
     PROVE  TypeInv'
  <2>1. PICK got : got \subseteq inboxIn /\ NextMessage(s, got)
    BY <1>9 DEF FetchUnseen, Fetchable
  <2>2. QED
    BY <1>9, <2>1 DEF FetchUnseen, TypeInv, TypeOK, LocalsOK, Uid, Source, PipelinePoint, TrainingPoint, Many, None, Goto, NextMessage, server, tables, locals, history
<1>10. ASSUME NEW s \in Scanners, NEW u \in Uid, Leave(s, u)
     PROVE  TypeInv'
  BY <1>10 DEF Leave, TypeInv, TypeOK, LocalsOK, Uid, Source, PipelinePoint, TrainingPoint, Many, None, Goto, NextMessage, server, tables, locals, history
<1>11. ASSUME NEW s \in Scanners, NEW u \in Uid, RecordMove(s, u)
     PROVE  TypeInv'
  BY <1>11 DEF RecordMove, TypeInv, TypeOK, LocalsOK, Uid, Source, PipelinePoint, TrainingPoint, Many, None, Goto, NextMessage, server, tables, locals, history
<1>12. ASSUME NEW s \in Scanners, UidMove(s)
     PROVE  TypeInv'
  <2>1. ASSUME cur[s] \in inboxIn
        PROVE  inbox[cur[s]].msg \in Messages
               /\ [msg |-> inbox[cur[s]].msg, by |-> "daemon"] \in JunkArrival
    BY <2>1, ArrivalFacts DEF TypeInv, TypeOK, JunkArrival
  <2>2. Grown /\ junkIn' \subseteq DOMAIN junk' /\ junkFlagged' \subseteq DOMAIN junk'
    <3>1. CASE cur[s] \in inboxIn
      BY <1>12, <2>1, <3>1, AppendFacts DEF UidMove, CopyToJunk, AddToJunk, Grown, TypeInv, TypeOK
    <3>2. CASE cur[s] \notin inboxIn
      BY <1>12, <3>2 DEF UidMove, CopyToJunk, Grown, TypeInv, TypeOK
    <3>3. QED
      BY <3>1, <3>2
  <2>3. TypeOK'
    BY <1>12, <2>2, GrownFacts DEF UidMove, TypeInv, TypeOK, LocalsOK, Goto, NextMessage, tables, locals, history, server, PipelinePoint, TrainingPoint, Uid, None
  <2>4. LocalsOK'
    BY <1>12, <2>2, GrownFacts DEF UidMove, LocalsOK, TypeInv, TypeOK, Goto, NextMessage, tables, locals, history, server, PipelinePoint, Uid
  <2>5. QED
    BY <2>3, <2>4 DEF TypeInv
<1>13. ASSUME NEW s \in Scanners, MoveRefused(s)
     PROVE  TypeInv'
  BY <1>13 DEF MoveRefused, TypeInv, TypeOK, LocalsOK, Uid, Source, PipelinePoint, TrainingPoint, Many, None, Goto, NextMessage, server, tables, locals, history
<1>14. ASSUME NEW s \in Scanners, CopyFallback(s)
     PROVE  TypeInv'
  <2>1. ASSUME cur[s] \in inboxIn
        PROVE  inbox[cur[s]].msg \in Messages
               /\ [msg |-> inbox[cur[s]].msg, by |-> "daemon"] \in JunkArrival
    BY <2>1, ArrivalFacts DEF TypeInv, TypeOK, JunkArrival
  <2>2. Grown /\ junkIn' \subseteq DOMAIN junk' /\ junkFlagged' \subseteq DOMAIN junk'
    <3>1. CASE cur[s] \in inboxIn
      BY <1>14, <2>1, <3>1, AppendFacts DEF CopyFallback, CopyToJunk, AddToJunk, Grown, TypeInv, TypeOK
    <3>2. CASE cur[s] \notin inboxIn
      BY <1>14, <3>2 DEF CopyFallback, CopyToJunk, Grown, TypeInv, TypeOK
    <3>3. QED
      BY <3>1, <3>2
  <2>3. TypeOK'
    BY <1>14, <2>2, GrownFacts DEF CopyFallback, TypeInv, TypeOK, LocalsOK, Goto, NextMessage, tables, locals, history, server, PipelinePoint, TrainingPoint, Uid, None
  <2>4. LocalsOK'
    BY <1>14, <2>2, GrownFacts DEF CopyFallback, LocalsOK, TypeInv, TypeOK, Goto, NextMessage, tables, locals, history, server, PipelinePoint, Uid
  <2>5. QED
    BY <2>3, <2>4 DEF TypeInv
<1>15. ASSUME NEW s \in Scanners, Expunge(s)
     PROVE  TypeInv'
  BY <1>15 DEF Expunge, TypeInv, TypeOK, LocalsOK, Uid, Source, PipelinePoint, TrainingPoint, Many, None, Goto, NextMessage, server, tables, locals, history
<1>16. ASSUME NEW s \in Scanners, StoreDeleted(s)
     PROVE  TypeInv'
  BY <1>16 DEF StoreDeleted, TypeInv, TypeOK, LocalsOK, Uid, Source, PipelinePoint, TrainingPoint, Many, None, Goto, server, tables, locals, history
<1>17. ASSUME NEW s \in Scanners, ExpungeFails(s)
     PROVE  TypeInv'
  BY <1>17 DEF ExpungeFails, TypeInv, TypeOK, LocalsOK, Uid, Source, PipelinePoint, TrainingPoint, Many, None, Goto, NextMessage, server, tables, locals, history
<1>18. ASSUME NEW s \in Scanners, ListJunk(s)
     PROVE  TypeInv'
  BY <1>18 DEF ListJunk, TypeInv, TypeOK, LocalsOK, Uid, Source, PipelinePoint, TrainingPoint, Many, None, Goto, NextMessage, server, tables, locals, history, Listing
<1>19. ASSUME NEW s \in Scanners, ListInbox(s)
     PROVE  TypeInv'
  BY <1>19 DEF ListInbox, TypeInv, TypeOK, LocalsOK, Uid, Source, PipelinePoint, TrainingPoint, Many, None, Goto, NextMessage, server, tables, locals, history, Listing, Rescued
<1>20. ASSUME NEW s \in Scanners, NEW j \in Uid, SkipDaemonMove(s, j)
     PROVE  TypeInv'
  BY <1>20 DEF SkipDaemonMove, TypeInv, TypeOK, LocalsOK, Uid, Source, PipelinePoint, TrainingPoint, Many, None, Goto, NextMessage, server, tables, locals, history
<1>21. ASSUME NEW s \in Scanners, NEW j \in Uid, SkipUnfetched(s, j)
     PROVE  TypeInv'
  BY <1>21 DEF SkipUnfetched, TypeInv, TypeOK, LocalsOK, Uid, Source, PipelinePoint, TrainingPoint, Many, None, Goto, NextMessage, server, tables, locals, history
<1>22. ASSUME NEW s \in Scanners, NEW j \in Uid, TrainSpam(s, j)
     PROVE  TypeInv'
  BY <1>22 DEF TrainSpam, TypeInv, TypeOK, LocalsOK, Uid, Source, PipelinePoint, TrainingPoint, Many, None, Goto, NextMessage, server, tables, locals, history, Count
<1>23. ASSUME NEW s \in Scanners, LogSpam(s)
     PROVE  TypeInv'
  BY <1>23 DEF LogSpam, TypeInv, TypeOK, LocalsOK, Uid, Source, PipelinePoint, TrainingPoint, Many, None, Goto, NextMessage, server, tables, locals, history, JunkKey
<1>24. ASSUME NEW s \in Scanners, SpamDone(s)
     PROVE  TypeInv'
  BY <1>24 DEF SpamDone, TypeInv, TypeOK, LocalsOK, Uid, Source, PipelinePoint, TrainingPoint, Many, None, Goto, NextMessage, server, tables, locals, history
<1>25. ASSUME NEW s \in Scanners, NEW j \in Uid, NEW u \in Uid, SkipHam(s, j, u)
     PROVE  TypeInv'
  BY <1>25 DEF SkipHam, TypeInv, TypeOK, LocalsOK, Uid, Source, PipelinePoint, TrainingPoint, Many, None, Goto, NextMessage, server, tables, locals, history
<1>26. ASSUME NEW s \in Scanners, NEW j \in Uid, NEW u \in Uid, TrainHam(s, j, u)
     PROVE  TypeInv'
  BY <1>26 DEF TrainHam, TypeInv, TypeOK, LocalsOK, Uid, Source, PipelinePoint, TrainingPoint, Many, None, Goto, NextMessage, server, tables, locals, history, Count
<1>27. ASSUME NEW s \in Scanners, LogHam(s)
     PROVE  TypeInv'
  BY <1>27 DEF LogHam, TypeInv, TypeOK, LocalsOK, Uid, Source, PipelinePoint, TrainingPoint, Many, None, Goto, NextMessage, server, tables, locals, history, MoveKey
<1>28. ASSUME NEW s \in Scanners, SaveState(s)
     PROVE  TypeInv'
  BY <1>28 DEF SaveState, TypeInv, TypeOK, LocalsOK, Uid, Source, PipelinePoint, TrainingPoint, Many, None, Goto, NextMessage, server, tables, locals, history
<1>29. ASSUME NEW s \in Scanners, Abort(s)
     PROVE  TypeInv'
  BY <1>29 DEF Abort, TypeInv, TypeOK, LocalsOK, Uid, Source, PipelinePoint, TrainingPoint, Many, None, Goto, NextMessage, server, tables, locals, history
<1>30. CASE UNCHANGED vars
  BY <1>30 DEF TypeInv, TypeOK, LocalsOK, vars, server, tables, locals, history
<1>31. QED
  BY <1>1, <1>2, <1>3, <1>4, <1>5, <1>6, <1>7, <1>8, <1>9, <1>10, <1>11, <1>12, <1>13, <1>14, <1>15, <1>16, <1>17, <1>18, <1>19, <1>20, <1>21, <1>22, <1>23, <1>24, <1>25, <1>26, <1>27, <1>28, <1>29, <1>30
     DEF Next, Environment, Scan, PipelineStep, TrainingStep

(* The types, with what each scan's UIDs refer to, hold at every moment.    *)
LEMMA TypeAlways == Spec => []TypeInv
<1>1. Init => TypeInv
  BY TypeInit
<1>2. TypeInv /\ [Next]_vars => TypeInv'
  BY TypeStep
<1>3. QED
  BY <1>1, <1>2, PTL DEF Spec

(* Type correctness of the whole loop, in every reachable state.           *)
THEOREM TypeCorrect == Spec => []TypeOK
<1>1. TypeInv => TypeOK
  BY DEF TypeInv
<1>2. QED
  BY <1>1, TypeAlways, PTL

(* The bias guard is inductive together with the order RECORD, then MOVE.  *)
GuardInv == RecordedBeforeMoved /\ BiasGuard

(* A step that trains nothing keeps the guard if what it adds to Junk is   *)
(* not the daemon's or is recorded already.                                *)
LEMMA GuardKept ==
  ASSUME TypeInv, GuardInv, Grown,
         daemonMoves \subseteq daemonMoves',
         spamTrain' = spamTrain,
         \A j \in DOMAIN junk' \ DOMAIN junk :
           junk'[j].by = "daemon" =>
             \E u \in daemonMoves : inbox[u].msg = junk'[j].msg
  PROVE  GuardInv'
<1>1. /\ DOMAIN junk \subseteq DOMAIN junk'
      /\ \A u \in DOMAIN inbox : inbox'[u] = inbox[u]
      /\ \A j \in DOMAIN junk : junk'[j] = junk[j]
      /\ DOMAIN junk' \subseteq Uid
      /\ daemonMoves \subseteq DOMAIN inbox
  BY GrownFacts DEF TypeInv, TypeOK
<1>2. RecordedBeforeMoved'
  <2> SUFFICES ASSUME NEW j \in DOMAIN junk', junk'[j].by = "daemon"
               PROVE  \E u \in daemonMoves' : inbox'[u].msg = junk'[j].msg
    BY DEF RecordedBeforeMoved
  <2>1. \E u \in daemonMoves : inbox[u].msg = junk'[j].msg
    BY <1>1 DEF GuardInv, RecordedBeforeMoved
  <2>2. QED
    BY <1>1, <2>1
<1>3. BiasGuard'
  <2> SUFFICES ASSUME NEW j \in DOMAIN junk', junk'[j].msg \in HasId, spamTrain[j] > 0
               PROVE  junk'[j].by # "daemon"
    BY DEF BiasGuard
  <2>1. j \in DOMAIN junk
    BY <1>1 DEF TypeInv, LocalsOK
  <2>2. QED
    BY <1>1, <2>1 DEF GuardInv, BiasGuard
<1>4. QED
  BY <1>2, <1>3 DEF GuardInv

(* The daemon's own moves: the message going to Junk is the one in hand,    *)
(* and LocalsOK says that it is recorded.                                  *)
LEMMA GuardMove ==
  ASSUME TypeInv, GuardInv, NEW s \in Scanners, UidMove(s) \/ CopyFallback(s)
  PROVE  GuardInv'
<1>1. pc[s] = "move" /\ cur[s] \in daemonMoves
  BY DEF UidMove, CopyFallback, TypeInv, LocalsOK
<1>2. daemonMoves' = daemonMoves /\ spamTrain' = spamTrain /\ inbox' = inbox
  BY DEF UidMove, CopyFallback, tables, history
<1>3. CASE cur[s] \in inboxIn
  <2> DEFINE a == [msg |-> inbox[cur[s]].msg, by |-> "daemon"]
  <2>1. a \in JunkArrival /\ junk \in Seq(JunkArrival)
    BY <1>3, ArrivalFacts DEF JunkArrival, TypeInv, TypeOK
  <2>2. Len(junk) < MaxUid /\ junk' = Append(junk, a)
    BY <1>3 DEF UidMove, CopyFallback, CopyToJunk, AddToJunk
  <2>3. Grown
    BY <1>2, <2>1, <2>2 DEF Grown
  <2>4. \A j \in DOMAIN junk' \ DOMAIN junk : junk'[j].msg = inbox[cur[s]].msg
    BY <2>1, <2>2, AppendFacts
  <2>5. QED
    BY <1>1, <1>2, <2>3, <2>4, GuardKept
<1>4. CASE cur[s] \notin inboxIn
  <2>1. junk' = junk
    BY <1>4 DEF UidMove, CopyFallback, CopyToJunk
  <2>2. QED
    BY <1>2, <2>1, GuardKept DEF Grown
<1>5. QED
  BY <1>3, <1>4

(* Training: a daemon move with a Message-ID is found by its record.       *)
LEMMA GuardTrain ==
  ASSUME TypeInv, GuardInv, NEW s \in Scanners, NEW j \in Uid, TrainSpam(s, j)
  PROVE  GuardInv'
<1>1. UNCHANGED <<inbox, junk, daemonMoves>> /\ ~IsDaemonMove(j) /\ j \in DOMAIN junk
  BY DEF TrainSpam, server, tables, TypeInv, TypeOK
<1>2. \A i \in Uid : i # j => spamTrain'[i] = spamTrain[i]
  BY DEF TrainSpam, Count, TypeInv, TypeOK
<1>3. ASSUME junk[j].msg \in HasId, junk[j].by = "daemon"
      PROVE  FALSE
  <2>1. PICK u \in daemonMoves : inbox[u].msg = junk[j].msg
    BY <1>1, <1>3 DEF GuardInv, RecordedBeforeMoved
  <2>2. IsDaemonMove(j)
    BY <1>3, <2>1 DEF IsDaemonMove, MoveKey
  <2>3. QED
    BY <1>1, <2>2
<1>4. DOMAIN junk \subseteq Uid
  BY DEF TypeInv, TypeOK, Uid
<1>5. BiasGuard'
  BY <1>1, <1>2, <1>3, <1>4 DEF GuardInv, BiasGuard
<1>6. RecordedBeforeMoved'
  BY <1>1 DEF GuardInv, RecordedBeforeMoved
<1>7. QED
  BY <1>5, <1>6 DEF GuardInv

(* Every other step leaves the logs, the records and the counts alone, or   *)
(* adds an arrival that is not the daemon's.                               *)
LEMMA GuardStep == TypeInv /\ GuardInv /\ [Next]_vars => GuardInv'
<1> SUFFICES ASSUME TypeInv, GuardInv, [Next]_vars
             PROVE  GuardInv'
  OBVIOUS
<1> DEFINE Quiet == UNCHANGED <<inbox, junk, daemonMoves, spamTrain>>
<1>1. Quiet => GuardInv'
  BY DEF GuardInv, RecordedBeforeMoved, BiasGuard
<1>2. ASSUME NEW m \in Messages, Deliver(m)
     PROVE  GuardInv'
  <2> DEFINE a == [msg |-> m, by |-> "delivery"]
  <2>1. a \in InboxArrival
    BY <1>2, ArrivalFacts DEF Deliver, InboxArrival, TypeInv, TypeOK
  <2>2. Len(inbox) < MaxUid /\ inbox' = Append(inbox, a) /\ UNCHANGED <<junk, daemonMoves, spamTrain>>
    BY <1>2 DEF Deliver, AddToInbox, tables, history
  <2>3. Grown
    BY <2>1, <2>2 DEF Grown
  <2>4. QED
    BY <2>2, <2>3, GuardKept
<1>3. ASSUME NEW m \in Messages, GatewayJunks(m)
     PROVE  GuardInv'
  <2> DEFINE a == [msg |-> m, by |-> "gateway"]
  <2>1. a \in JunkArrival /\ junk \in Seq(JunkArrival)
    BY <1>3, ArrivalFacts DEF GatewayJunks, JunkArrival, TypeInv, TypeOK
  <2>2. Len(junk) < MaxUid /\ junk' = Append(junk, a) /\ UNCHANGED <<inbox, daemonMoves, spamTrain>>
    BY <1>3 DEF GatewayJunks, AddToJunk, tables, history
  <2>3. Grown
    BY <2>1, <2>2 DEF Grown
  <2>4. \A j \in DOMAIN junk' \ DOMAIN junk : junk'[j].by # "daemon"
    BY <2>1, <2>2, AppendFacts
  <2>5. QED
    BY <2>2, <2>3, <2>4, GuardKept
<1>4. ASSUME NEW u \in Uid, UserJunks(u)
     PROVE  GuardInv'
  <2> DEFINE a == [msg |-> inbox[u].msg, by |-> "user"]
  <2>1. a \in JunkArrival /\ junk \in Seq(JunkArrival)
    BY <1>4, ArrivalFacts DEF UserJunks, JunkArrival, TypeInv, TypeOK
  <2>2. Len(junk) < MaxUid /\ junk' = Append(junk, a) /\ UNCHANGED <<inbox, daemonMoves, spamTrain>>
    BY <1>4 DEF UserJunks, AddToJunk, tables, history
  <2>3. Grown
    BY <2>1, <2>2 DEF Grown
  <2>4. \A j \in DOMAIN junk' \ DOMAIN junk : junk'[j].by # "daemon"
    BY <2>1, <2>2, AppendFacts
  <2>5. QED
    BY <2>2, <2>3, <2>4, GuardKept
<1>5. ASSUME NEW u \in Uid, UserReads(u)
     PROVE  GuardInv'
  BY <1>1, <1>5 DEF UserReads, server, tables, locals, history
<1>6. ASSUME NEW u \in Uid, UserDeletesFromInbox(u)
     PROVE  GuardInv'
  BY <1>1, <1>6 DEF UserDeletesFromInbox, server, tables, locals, history
<1>7. ASSUME NEW j \in Uid, UserRescues(j)
     PROVE  GuardInv'
  <2> DEFINE a == [msg |-> junk[j].msg, by |-> "user"]
  <2>1. a \in InboxArrival
    BY <1>7, ArrivalFacts DEF UserRescues, InboxArrival, TypeInv, TypeOK
  <2>2. Len(inbox) < MaxUid /\ inbox' = Append(inbox, a) /\ UNCHANGED <<junk, daemonMoves, spamTrain>>
    BY <1>7 DEF UserRescues, AddToInbox, tables, history
  <2>3. Grown
    BY <2>1, <2>2 DEF Grown
  <2>4. QED
    BY <2>2, <2>3, GuardKept
<1>8. ASSUME NEW j \in Uid, UserDeletesFromJunk(j)
     PROVE  GuardInv'
  BY <1>1, <1>8 DEF UserDeletesFromJunk, server, tables, locals, history
<1>9. ASSUME NEW s \in Scanners, StartInboxScan(s)
     PROVE  GuardInv'
  BY <1>1, <1>9 DEF StartInboxScan, server, tables, locals, history
<1>10. ASSUME NEW s \in Scanners, FetchUnseen(s)
     PROVE  GuardInv'
  BY <1>1, <1>10 DEF FetchUnseen, server, tables, locals, history
<1>11. ASSUME NEW s \in Scanners, NEW u \in Uid, Leave(s, u)
     PROVE  GuardInv'
  BY <1>1, <1>11 DEF Leave, server, tables, locals, history
<1>12. ASSUME NEW s \in Scanners, NEW u \in Uid, RecordMove(s, u)
     PROVE  GuardInv'
  BY <1>12, GuardKept DEF RecordMove, Grown, server, history
<1>13. ASSUME NEW s \in Scanners, UidMove(s)
     PROVE  GuardInv'
  BY <1>13, GuardMove
<1>14. ASSUME NEW s \in Scanners, MoveRefused(s)
     PROVE  GuardInv'
  BY <1>1, <1>14 DEF MoveRefused, server, tables, locals, history
<1>15. ASSUME NEW s \in Scanners, CopyFallback(s)
     PROVE  GuardInv'
  BY <1>15, GuardMove
<1>16. ASSUME NEW s \in Scanners, Expunge(s)
     PROVE  GuardInv'
  BY <1>1, <1>16 DEF Expunge, server, tables, locals, history
<1>17. ASSUME NEW s \in Scanners, StoreDeleted(s)
     PROVE  GuardInv'
  BY <1>1, <1>17 DEF StoreDeleted, tables, locals, history
<1>18. ASSUME NEW s \in Scanners, ExpungeFails(s)
     PROVE  GuardInv'
  BY <1>1, <1>18 DEF ExpungeFails, server, tables, locals, history
<1>19. ASSUME NEW s \in Scanners, ListJunk(s)
     PROVE  GuardInv'
  BY <1>1, <1>19 DEF ListJunk, server, tables, locals, history
<1>20. ASSUME NEW s \in Scanners, ListInbox(s)
     PROVE  GuardInv'
  BY <1>1, <1>20 DEF ListInbox, server, tables, locals, history
<1>21. ASSUME NEW s \in Scanners, NEW j \in Uid, SkipDaemonMove(s, j)
     PROVE  GuardInv'
  BY <1>1, <1>21 DEF SkipDaemonMove, server, tables, locals, history
<1>22. ASSUME NEW s \in Scanners, NEW j \in Uid, SkipUnfetched(s, j)
     PROVE  GuardInv'
  BY <1>1, <1>22 DEF SkipUnfetched, server, tables, locals, history
<1>23. ASSUME NEW s \in Scanners, NEW j \in Uid, TrainSpam(s, j)
     PROVE  GuardInv'
  BY <1>23, GuardTrain
<1>24. ASSUME NEW s \in Scanners, LogSpam(s)
     PROVE  GuardInv'
  BY <1>1, <1>24 DEF LogSpam, server, tables, locals, history
<1>25. ASSUME NEW s \in Scanners, SpamDone(s)
     PROVE  GuardInv'
  BY <1>1, <1>25 DEF SpamDone, server, tables, locals, history
<1>26. ASSUME NEW s \in Scanners, NEW j \in Uid, NEW u \in Uid, SkipHam(s, j, u)
     PROVE  GuardInv'
  BY <1>1, <1>26 DEF SkipHam, server, tables, locals, history
<1>27. ASSUME NEW s \in Scanners, NEW j \in Uid, NEW u \in Uid, TrainHam(s, j, u)
     PROVE  GuardInv'
  BY <1>1, <1>27 DEF TrainHam, server, tables, locals, history
<1>28. ASSUME NEW s \in Scanners, LogHam(s)
     PROVE  GuardInv'
  BY <1>1, <1>28 DEF LogHam, server, tables, locals, history
<1>29. ASSUME NEW s \in Scanners, SaveState(s)
     PROVE  GuardInv'
  BY <1>1, <1>29 DEF SaveState, server, tables, locals, history
<1>30. ASSUME NEW s \in Scanners, Abort(s)
     PROVE  GuardInv'
  BY <1>1, <1>30 DEF Abort, server, tables, locals, history
<1>31. CASE UNCHANGED vars
  BY <1>1, <1>31 DEF vars, server, tables, history
<1>32. QED
  BY <1>2, <1>3, <1>4, <1>5, <1>6, <1>7, <1>8, <1>9, <1>10, <1>11, <1>12, <1>13, <1>14, <1>15, <1>16, <1>17, <1>18, <1>19, <1>20, <1>21, <1>22, <1>23, <1>24, <1>25, <1>26, <1>27, <1>28, <1>29, <1>30, <1>31
     DEF Next, Environment, Scan, PipelineStep, TrainingStep

(* Every message the daemon has put into Junk is recorded, at every moment  *)
(* and whatever fails: the record precedes the move.                       *)
THEOREM RecordFirst == Spec => []RecordedBeforeMoved
<1>1. Init => TypeInv /\ GuardInv
  BY TypeInit DEF Init, GuardInv, RecordedBeforeMoved, BiasGuard
<1>2. TypeInv /\ GuardInv /\ [Next]_vars => (TypeInv /\ GuardInv)'
  BY TypeStep, GuardStep
<1>3. TypeInv /\ GuardInv => RecordedBeforeMoved
  BY DEF GuardInv
<1>4. QED
  BY <1>1, <1>2, <1>3, PTL DEF Spec

(* No message with a Message-ID is trained as spam on account of a move the *)
(* daemon made itself.                                                     *)
THEOREM NoSelfTraining == Spec => []BiasGuard
<1>1. Init => TypeInv /\ GuardInv
  BY TypeInit DEF Init, GuardInv, RecordedBeforeMoved, BiasGuard
<1>2. TypeInv /\ GuardInv /\ [Next]_vars => (TypeInv /\ GuardInv)'
  BY TypeStep, GuardStep
<1>3. TypeInv /\ GuardInv => BiasGuard
  BY DEF GuardInv
<1>4. QED
  BY <1>1, <1>2, <1>3, PTL DEF Spec

-----------------------------------------------------------------------------
(* The INBOX copies an EXPUNGE takes, now or once a pending STORE has       *)
(* flagged them.                                                           *)
Doomed == flagged \cup {cur[s] : s \in {t \in Scanners : pc[t] = "store"}}

(* NoMailLost, made inductive: there is a copy that no EXPUNGE takes and    *)
(* that does not carry \Deleted back to INBOX when the user moves it.      *)
Kept(m) ==
  \/ \E u \in inboxIn \ Doomed : inbox[u].msg = m
  \/ \E j \in junkIn \ junkFlagged : junk[j].msg = m

SafeCopy == \A m \in Arrived \ deleted : Kept(m)

(* A message to be expunged is an INBOX arrival: a new one is not doomed.   *)
LEMMA DoomedFacts == TypeInv => Doomed \subseteq DOMAIN inbox
BY DEF TypeInv, TypeOK, LocalsOK, Doomed

(* A step that moves no mail and dooms no further copy keeps every message. *)
LEMMA SafeQuiet ==
  ASSUME SafeCopy, UNCHANGED <<inbox, inboxIn, junk, junkIn, junkFlagged, deleted>>,
         Doomed' \subseteq Doomed
  PROVE  SafeCopy'
BY DEF SafeCopy, Kept, Arrived

(* An arrival in INBOX: doomed only if it came with its flag from Junk.     *)
LEMMA SafeInboxArrival ==
  ASSUME TypeInv, SafeCopy, NEW a \in InboxArrival,
         Len(inbox) < MaxUid, inbox' = Append(inbox, a),
         inboxIn' = inboxIn \cup {Len(inbox) + 1},
         UNCHANGED <<junk, junkFlagged, deleted>>, junkIn' \subseteq junkIn,
         \A j \in junkIn \ junkIn' : junk[j].msg = a.msg,
         \/ Doomed' = Doomed
         \/ /\ Doomed' = Doomed \cup {Len(inbox) + 1}
            /\ a.msg \in Arrived /\ junkIn \ junkIn' \subseteq junkFlagged
  PROVE  SafeCopy'
<1>1. /\ inbox \in Seq(InboxArrival) /\ Doomed \subseteq DOMAIN inbox
      /\ inboxIn \subseteq DOMAIN inbox
  BY DoomedFacts DEF TypeInv, TypeOK
<1>2. /\ DOMAIN inbox' = DOMAIN inbox \cup {Len(inbox) + 1}
      /\ Len(inbox) + 1 \notin DOMAIN inbox
      /\ \A u \in DOMAIN inbox : inbox'[u] = inbox[u]
      /\ inbox'[Len(inbox) + 1] = a
  BY <1>1, AppendFacts
<1>3. \A u \in inboxIn \ Doomed : u \in inboxIn' \ Doomed' /\ inbox'[u] = inbox[u]
  BY <1>1, <1>2
<1>4. Arrived' \subseteq Arrived \cup {a.msg}
  BY <1>1, <1>2 DEF Arrived
<1>5. CASE Doomed' = Doomed
  <2>1. Kept(a.msg)'
    BY <1>1, <1>2, <1>5 DEF Kept
  <2>2. ASSUME NEW m \in Arrived \ deleted, m # a.msg
        PROVE  Kept(m)'
    BY <1>3, <2>2 DEF SafeCopy, Kept
  <2> QED
    BY <1>4, <2>1, <2>2 DEF SafeCopy
<1>6. CASE a.msg \in Arrived /\ junkIn \ junkIn' \subseteq junkFlagged
  <2>1. ASSUME NEW m \in Arrived \ deleted
        PROVE  Kept(m)'
    BY <1>3, <1>6 DEF SafeCopy, Kept
  <2> QED
    BY <1>4, <1>6, <2>1 DEF SafeCopy
<1>7. QED
  BY <1>5, <1>6

(* An arrival in Junk, which may be the INBOX copy of the same message gone *)
(* there, or about to be expunged; flagged only if that copy was.           *)
LEMMA SafeJunkArrival ==
  ASSUME TypeInv, SafeCopy, NEW a \in JunkArrival,
         Len(junk) < MaxUid, junk' = Append(junk, a),
         junkIn' = junkIn \cup {Len(junk) + 1},
         UNCHANGED <<inbox, deleted>>, inboxIn' \subseteq inboxIn,
         \A u \in (inboxIn \ Doomed) \ (inboxIn' \ Doomed') : inbox[u].msg = a.msg,
         \/ junkFlagged' = junkFlagged
         \/ /\ junkFlagged' = junkFlagged \cup {Len(junk) + 1}
            /\ a.msg \in Arrived /\ inboxIn \ Doomed \subseteq inboxIn' \ Doomed'
  PROVE  SafeCopy'
<1>1. junk \in Seq(JunkArrival) /\ junkIn \subseteq DOMAIN junk /\ junkFlagged \subseteq DOMAIN junk
  BY DEF TypeInv, TypeOK
<1>2. /\ DOMAIN junk' = DOMAIN junk \cup {Len(junk) + 1}
      /\ Len(junk) + 1 \notin DOMAIN junk
      /\ \A j \in DOMAIN junk : junk'[j] = junk[j]
      /\ junk'[Len(junk) + 1] = a
  BY <1>1, AppendFacts
<1>3. \A j \in junkIn \ junkFlagged : j \in junkIn' \ junkFlagged' /\ junk'[j] = junk[j]
  BY <1>1, <1>2
<1>4. Arrived' \subseteq Arrived \cup {a.msg}
  BY <1>1, <1>2 DEF Arrived
<1>5. CASE junkFlagged' = junkFlagged
  <2>1. Kept(a.msg)'
    BY <1>1, <1>2, <1>5 DEF Kept
  <2>2. ASSUME NEW m \in Arrived \ deleted, m # a.msg
        PROVE  Kept(m)'
    BY <1>3, <2>2 DEF SafeCopy, Kept
  <2> QED
    BY <1>4, <2>1, <2>2 DEF SafeCopy
<1>6. CASE a.msg \in Arrived /\ inboxIn \ Doomed \subseteq inboxIn' \ Doomed'
  <2>1. ASSUME NEW m \in Arrived \ deleted
        PROVE  Kept(m)'
    BY <1>3, <1>6 DEF SafeCopy, Kept
  <2> QED
    BY <1>4, <1>6, <2>1 DEF SafeCopy
<1>7. QED
  BY <1>5, <1>6

(* The user's deletions, by a flag too, take the message out of the promise. *)
LEMMA SafeDelete ==
  ASSUME TypeInv, SafeCopy, NEW m, deleted' = deleted \cup {m},
         UNCHANGED <<inbox, junk, junkFlagged>>,
         \A u \in (inboxIn \ Doomed) \ (inboxIn' \ Doomed') : inbox[u].msg = m,
         \A j \in junkIn \ junkIn' : junk[j].msg = m
  PROVE  SafeCopy'
BY DEF SafeCopy, Kept, Arrived

(* The daemon's move, by UID MOVE or by COPY: when the message is still in  *)
(* INBOX, Junk receives it first.                                          *)
LEMMA SafeMove ==
  ASSUME TypeInv, SafeCopy, NEW s \in Scanners, UidMove(s) \/ CopyFallback(s)
  PROVE  SafeCopy'
<1>1. pc[s] = "move" /\ UNCHANGED <<inbox, flagged, deleted>>
  BY DEF UidMove, CopyFallback, server
<1>2. inboxIn' \subseteq inboxIn /\ inboxIn \ inboxIn' \subseteq {cur[s]}
  BY DEF UidMove, CopyFallback
<1>3. Doomed' \subseteq Doomed \cup {cur[s]}
  BY <1>1 DEF UidMove, CopyFallback, NextMessage, Goto, Doomed, TypeInv, TypeOK
<1>4. CASE cur[s] \in inboxIn
  <2> DEFINE a == [msg |-> inbox[cur[s]].msg, by |-> "daemon"]
  <2>1. /\ a \in JunkArrival /\ a.msg = inbox[cur[s]].msg
        /\ a.msg \in Arrived
    BY <1>4, ArrivalFacts DEF JunkArrival, Arrived, TypeInv, TypeOK
  <2>2. Len(junk) < MaxUid /\ junk' = Append(junk, a) /\ junkIn' = junkIn \cup {Len(junk) + 1}
    BY <1>4 DEF UidMove, CopyFallback, CopyToJunk, AddToJunk
  <2>3. \A u \in (inboxIn \ Doomed) \ (inboxIn' \ Doomed') : inbox[u].msg = a.msg
    BY <1>2, <1>3, <2>1
  <2>4. CASE cur[s] \in flagged
    <3>1. junkFlagged' = junkFlagged \cup {Len(junk) + 1}
      BY <1>4, <2>4 DEF UidMove, CopyFallback, CopyToJunk, AddToJunk
    <3>2. inboxIn \ Doomed \subseteq inboxIn' \ Doomed'
      BY <1>2, <1>3, <2>4 DEF Doomed
    <3> HIDE DEF a
    <3> QED
      BY <1>1, <1>2, <2>1, <2>2, <2>3, <3>1, <3>2, SafeJunkArrival
  <2>5. CASE cur[s] \notin flagged
    <3>1. junkFlagged' = junkFlagged
      BY <1>4, <2>5 DEF UidMove, CopyFallback, CopyToJunk, AddToJunk
    <3> HIDE DEF a
    <3> QED
      BY <1>1, <1>2, <2>1, <2>2, <2>3, <3>1, SafeJunkArrival
  <2> QED
    BY <2>4, <2>5
<1>5. CASE cur[s] \notin inboxIn
  <2>1. UNCHANGED <<inboxIn, junk, junkIn, junkFlagged>>
    BY <1>2, <1>5 DEF UidMove, CopyFallback, CopyToJunk
  <2>2. QED
    BY <1>1, <1>3, <1>5, <2>1 DEF SafeCopy, Kept, Arrived
<1>6. QED
  BY <1>4, <1>5

(* The EXPUNGE that follows takes flagged copies only.                     *)
LEMMA SafeExpunge ==
  ASSUME TypeInv, SafeCopy, NEW s \in Scanners, Expunge(s)
  PROVE  SafeCopy'
<1>1. /\ UNCHANGED <<inbox, flagged, junk, junkIn, junkFlagged, deleted>>
      /\ inboxIn' = inboxIn \ flagged
  BY DEF Expunge
<1>2. Doomed' \subseteq Doomed
  BY <1>1 DEF Expunge, NextMessage, Goto, Doomed, TypeInv, TypeOK
<1>3. inboxIn \ Doomed \subseteq inboxIn' \ Doomed'
  BY <1>1, <1>2 DEF Doomed
<1>4. QED
  BY <1>1, <1>3 DEF SafeCopy, Kept, Arrived

(* Every step keeps a copy, out of reach of any pending EXPUNGE, of every   *)
(* message not deleted by the user.                                        *)
LEMMA SafeStep == TypeInv /\ SafeCopy /\ [Next]_vars => SafeCopy'
<1> SUFFICES ASSUME TypeInv, SafeCopy, [Next]_vars
             PROVE  SafeCopy'
  OBVIOUS
<1>1. ASSUME NEW m \in Messages, Deliver(m)
     PROVE  SafeCopy'
  <2> DEFINE a == [msg |-> m, by |-> "delivery"]
  <2>1. a \in InboxArrival /\ a.msg = m
    BY <1>1, ArrivalFacts DEF Deliver, InboxArrival, TypeInv, TypeOK
  <2>2. /\ Len(inbox) < MaxUid /\ inbox' = Append(inbox, a) /\ inboxIn' = inboxIn \cup {Len(inbox) + 1}
        /\ UNCHANGED <<junk, junkFlagged, deleted>> /\ junkIn' \subseteq junkIn
        /\ \A k \in junkIn \ junkIn' : junk[k].msg = a.msg
    BY <1>1, <2>1 DEF Deliver, AddToInbox
  <2>3. Doomed' = Doomed
    BY <1>1 DEF Deliver, AddToInbox, locals, Doomed
  <2>4. QED
    BY <2>1, <2>2, <2>3, SafeInboxArrival
<1>2. ASSUME NEW m \in Messages, GatewayJunks(m)
     PROVE  SafeCopy'
  <2> DEFINE a == [msg |-> m, by |-> "gateway"]
  <2>1. a \in JunkArrival /\ a.msg = m
    BY <1>2, ArrivalFacts DEF GatewayJunks, JunkArrival, TypeInv, TypeOK
  <2>2. /\ Len(junk) < MaxUid /\ junk' = Append(junk, a) /\ junkIn' = junkIn \cup {Len(junk) + 1}
        /\ UNCHANGED <<inbox, deleted>> /\ inboxIn' \subseteq inboxIn
        /\ \A v \in inboxIn \ inboxIn' : inbox[v].msg = a.msg
    BY <1>2, <2>1 DEF GatewayJunks, AddToJunk
  <2>3. Doomed' = Doomed /\ junkFlagged' = junkFlagged
    BY <1>2 DEF GatewayJunks, AddToJunk, locals, Doomed
  <2>4. QED
    BY <2>1, <2>2, <2>3, SafeJunkArrival
<1>3. ASSUME NEW u \in Uid, UserJunks(u)
     PROVE  SafeCopy'
  <2> DEFINE a == [msg |-> inbox[u].msg, by |-> "user"]
  <2>1. a \in JunkArrival /\ a.msg = inbox[u].msg
    BY <1>3, ArrivalFacts DEF UserJunks, JunkArrival, TypeInv, TypeOK
  <2>2. /\ Len(junk) < MaxUid /\ junk' = Append(junk, a) /\ junkIn' = junkIn \cup {Len(junk) + 1}
        /\ UNCHANGED <<inbox, deleted>> /\ inboxIn' \subseteq inboxIn
        /\ \A v \in inboxIn \ inboxIn' : inbox[v].msg = a.msg
    BY <1>3, <2>1 DEF UserJunks, AddToJunk
  <2>3. Doomed' = Doomed
    BY <1>3 DEF UserJunks, locals, Doomed
  <2>4. \/ junkFlagged' = junkFlagged
        \/ /\ junkFlagged' = junkFlagged \cup {Len(junk) + 1}
           /\ a.msg \in Arrived /\ inboxIn \ Doomed \subseteq inboxIn' \ Doomed'
    <3>1. inboxIn' = inboxIn \ {u} /\ a.msg \in Arrived
      BY <1>3, <2>1 DEF UserJunks, Arrived, TypeInv, TypeOK
    <3>2. junkFlagged' = IF u \in flagged THEN junkFlagged \cup {Len(junk) + 1} ELSE junkFlagged
      BY <1>3 DEF UserJunks, AddToJunk
    <3>3. u \in flagged => inboxIn \ Doomed \subseteq inboxIn' \ Doomed'
      BY <2>3, <3>1 DEF Doomed
    <3> QED
      BY <3>1, <3>2, <3>3
  <2> HIDE DEF a
  <2>5. QED
    BY <2>1, <2>2, <2>3, <2>4, SafeJunkArrival
<1>4. ASSUME NEW u \in Uid, UserReads(u)
     PROVE  SafeCopy'
  <2>1. UNCHANGED <<inbox, inboxIn, junk, junkIn, junkFlagged, deleted>>
    BY <1>4 DEF UserReads, server
  <2>2. Doomed' \subseteq Doomed
    BY <1>4 DEF UserReads, Goto, Doomed, server, locals, TypeInv, TypeOK
  <2>3. QED
    BY <2>1, <2>2, SafeQuiet
<1>5. ASSUME NEW u \in Uid, UserDeletesFromInbox(u)
     PROVE  SafeCopy'
  <2>1. \A v \in (inboxIn \ Doomed) \ (inboxIn' \ Doomed') : v = u
    BY <1>5 DEF UserDeletesFromInbox, locals, Doomed
  <2>2. QED
    BY <1>5, <2>1, SafeDelete DEF UserDeletesFromInbox
<1>6. ASSUME NEW j \in Uid, UserRescues(j)
     PROVE  SafeCopy'
  <2> DEFINE a == [msg |-> junk[j].msg, by |-> "user"]
  <2>1. a \in InboxArrival /\ a.msg = junk[j].msg
    BY <1>6, ArrivalFacts DEF UserRescues, InboxArrival, TypeInv, TypeOK
  <2>2. /\ Len(inbox) < MaxUid /\ inbox' = Append(inbox, a) /\ inboxIn' = inboxIn \cup {Len(inbox) + 1}
        /\ UNCHANGED <<junk, junkFlagged, deleted>> /\ junkIn' \subseteq junkIn
        /\ \A k \in junkIn \ junkIn' : junk[k].msg = a.msg
    BY <1>6, <2>1 DEF UserRescues, AddToInbox
  <2>3. \/ Doomed' = Doomed
        \/ /\ Doomed' = Doomed \cup {Len(inbox) + 1}
           /\ a.msg \in Arrived /\ junkIn \ junkIn' \subseteq junkFlagged
    <3>1. junkIn' = junkIn \ {j} /\ a.msg \in Arrived
      BY <1>6, <2>1 DEF UserRescues, Arrived, TypeInv, TypeOK
    <3>2. flagged' = IF j \in junkFlagged THEN flagged \cup {Len(inbox) + 1} ELSE flagged
      BY <1>6 DEF UserRescues, AddToInbox
    <3>3. pc' = pc /\ cur' = cur
      BY <1>6 DEF UserRescues, locals
    <3>4. CASE j \in junkFlagged
      BY <3>1, <3>2, <3>3, <3>4 DEF Doomed
    <3>5. CASE j \notin junkFlagged
      BY <3>2, <3>3, <3>5 DEF Doomed
    <3> QED
      BY <3>4, <3>5
  <2> HIDE DEF a
  <2>4. QED
    BY <2>1, <2>2, <2>3, SafeInboxArrival
<1>7. ASSUME NEW j \in Uid, UserDeletesFromJunk(j)
     PROVE  SafeCopy'
  <2>1. Doomed' = Doomed
    BY <1>7 DEF UserDeletesFromJunk, locals, Doomed
  <2>2. QED
    BY <1>7, <2>1, SafeDelete DEF UserDeletesFromJunk
<1>8. ASSUME NEW s \in Scanners, StartInboxScan(s)
     PROVE  SafeCopy'
  <2>1. UNCHANGED <<inbox, inboxIn, junk, junkIn, junkFlagged, deleted>>
    BY <1>8 DEF StartInboxScan, server
  <2>2. Doomed' \subseteq Doomed
    BY <1>8 DEF StartInboxScan, Goto, Doomed, server, locals, TypeInv, TypeOK
  <2>3. QED
    BY <2>1, <2>2, SafeQuiet
<1>9. ASSUME NEW s \in Scanners, FetchUnseen(s)
     PROVE  SafeCopy'
  <2>1. UNCHANGED <<inbox, inboxIn, junk, junkIn, junkFlagged, deleted>>
    BY <1>9 DEF FetchUnseen, server
  <2>2. Doomed' \subseteq Doomed
    BY <1>9 DEF FetchUnseen, NextMessage, Goto, Doomed, server, locals, TypeInv, TypeOK
  <2>3. QED
    BY <2>1, <2>2, SafeQuiet
<1>10. ASSUME NEW s \in Scanners, NEW u \in Uid, Leave(s, u)
     PROVE  SafeCopy'
  <2>1. UNCHANGED <<inbox, inboxIn, junk, junkIn, junkFlagged, deleted>>
    BY <1>10 DEF Leave, server
  <2>2. Doomed' \subseteq Doomed
    BY <1>10 DEF Leave, NextMessage, Goto, Doomed, server, locals, TypeInv, TypeOK
  <2>3. QED
    BY <2>1, <2>2, SafeQuiet
<1>11. ASSUME NEW s \in Scanners, NEW u \in Uid, RecordMove(s, u)
     PROVE  SafeCopy'
  <2>1. UNCHANGED <<inbox, inboxIn, junk, junkIn, junkFlagged, deleted>>
    BY <1>11 DEF RecordMove, server
  <2>2. Doomed' \subseteq Doomed
    BY <1>11 DEF RecordMove, Goto, Doomed, server, locals, TypeInv, TypeOK
  <2>3. QED
    BY <2>1, <2>2, SafeQuiet
<1>12. ASSUME NEW s \in Scanners, UidMove(s)
     PROVE  SafeCopy'
  BY <1>12, SafeMove
<1>13. ASSUME NEW s \in Scanners, MoveRefused(s)
     PROVE  SafeCopy'
  <2>1. UNCHANGED <<inbox, inboxIn, junk, junkIn, junkFlagged, deleted>>
    BY <1>13 DEF MoveRefused, server
  <2>2. Doomed' \subseteq Doomed
    BY <1>13 DEF MoveRefused, NextMessage, Goto, Doomed, server, locals, TypeInv, TypeOK
  <2>3. QED
    BY <2>1, <2>2, SafeQuiet
<1>14. ASSUME NEW s \in Scanners, CopyFallback(s)
     PROVE  SafeCopy'
  BY <1>14, SafeMove
<1>15. ASSUME NEW s \in Scanners, Expunge(s)
     PROVE  SafeCopy'
  BY <1>15, SafeExpunge
<1>16. ASSUME NEW s \in Scanners, StoreDeleted(s)
     PROVE  SafeCopy'
  <2>1. UNCHANGED <<inbox, inboxIn, junk, junkIn, junkFlagged, deleted>>
    BY <1>16 DEF StoreDeleted
  <2>2. Doomed' \subseteq Doomed
    BY <1>16 DEF StoreDeleted, Goto, Doomed, TypeInv, TypeOK
  <2>3. QED
    BY <2>1, <2>2, SafeQuiet
<1>17. ASSUME NEW s \in Scanners, ExpungeFails(s)
     PROVE  SafeCopy'
  <2>1. UNCHANGED <<inbox, inboxIn, junk, junkIn, junkFlagged, deleted>>
    BY <1>17 DEF ExpungeFails, server
  <2>2. Doomed' \subseteq Doomed
    BY <1>17 DEF ExpungeFails, NextMessage, Goto, Doomed, server, locals, TypeInv, TypeOK
  <2>3. QED
    BY <2>1, <2>2, SafeQuiet
<1>18. ASSUME NEW s \in Scanners, ListJunk(s)
     PROVE  SafeCopy'
  <2>1. UNCHANGED <<inbox, inboxIn, junk, junkIn, junkFlagged, deleted>>
    BY <1>18 DEF ListJunk, server
  <2>2. Doomed' \subseteq Doomed
    BY <1>18 DEF ListJunk, Goto, Doomed, server, locals, TypeInv, TypeOK
  <2>3. QED
    BY <2>1, <2>2, SafeQuiet
<1>19. ASSUME NEW s \in Scanners, ListInbox(s)
     PROVE  SafeCopy'
  <2>1. UNCHANGED <<inbox, inboxIn, junk, junkIn, junkFlagged, deleted>>
    BY <1>19 DEF ListInbox, server
  <2>2. Doomed' \subseteq Doomed
    BY <1>19 DEF ListInbox, Goto, Doomed, server, locals, TypeInv, TypeOK
  <2>3. QED
    BY <2>1, <2>2, SafeQuiet
<1>20. ASSUME NEW s \in Scanners, NEW j \in Uid, SkipDaemonMove(s, j)
     PROVE  SafeCopy'
  <2>1. UNCHANGED <<inbox, inboxIn, junk, junkIn, junkFlagged, deleted>>
    BY <1>20 DEF SkipDaemonMove, server
  <2>2. Doomed' \subseteq Doomed
    BY <1>20 DEF SkipDaemonMove, Goto, Doomed, server, locals, TypeInv, TypeOK
  <2>3. QED
    BY <2>1, <2>2, SafeQuiet
<1>21. ASSUME NEW s \in Scanners, NEW j \in Uid, SkipUnfetched(s, j)
     PROVE  SafeCopy'
  <2>1. UNCHANGED <<inbox, inboxIn, junk, junkIn, junkFlagged, deleted>>
    BY <1>21 DEF SkipUnfetched, server
  <2>2. Doomed' \subseteq Doomed
    BY <1>21 DEF SkipUnfetched, Goto, Doomed, server, locals, TypeInv, TypeOK
  <2>3. QED
    BY <2>1, <2>2, SafeQuiet
<1>22. ASSUME NEW s \in Scanners, NEW j \in Uid, TrainSpam(s, j)
     PROVE  SafeCopy'
  <2>1. UNCHANGED <<inbox, inboxIn, junk, junkIn, junkFlagged, deleted>>
    BY <1>22 DEF TrainSpam, server
  <2>2. Doomed' \subseteq Doomed
    BY <1>22 DEF TrainSpam, Goto, Doomed, server, locals, TypeInv, TypeOK
  <2>3. QED
    BY <2>1, <2>2, SafeQuiet
<1>23. ASSUME NEW s \in Scanners, LogSpam(s)
     PROVE  SafeCopy'
  <2>1. UNCHANGED <<inbox, inboxIn, junk, junkIn, junkFlagged, deleted>>
    BY <1>23 DEF LogSpam, server
  <2>2. Doomed' \subseteq Doomed
    BY <1>23 DEF LogSpam, Goto, Doomed, server, locals, TypeInv, TypeOK
  <2>3. QED
    BY <2>1, <2>2, SafeQuiet
<1>24. ASSUME NEW s \in Scanners, SpamDone(s)
     PROVE  SafeCopy'
  <2>1. UNCHANGED <<inbox, inboxIn, junk, junkIn, junkFlagged, deleted>>
    BY <1>24 DEF SpamDone, server
  <2>2. Doomed' \subseteq Doomed
    BY <1>24 DEF SpamDone, Goto, Doomed, server, locals, TypeInv, TypeOK
  <2>3. QED
    BY <2>1, <2>2, SafeQuiet
<1>25. ASSUME NEW s \in Scanners, NEW j \in Uid, NEW u \in Uid, SkipHam(s, j, u)
     PROVE  SafeCopy'
  <2>1. UNCHANGED <<inbox, inboxIn, junk, junkIn, junkFlagged, deleted>>
    BY <1>25 DEF SkipHam, server
  <2>2. Doomed' \subseteq Doomed
    BY <1>25 DEF SkipHam, Goto, Doomed, server, locals, TypeInv, TypeOK
  <2>3. QED
    BY <2>1, <2>2, SafeQuiet
<1>26. ASSUME NEW s \in Scanners, NEW j \in Uid, NEW u \in Uid, TrainHam(s, j, u)
     PROVE  SafeCopy'
  <2>1. UNCHANGED <<inbox, inboxIn, junk, junkIn, junkFlagged, deleted>>
    BY <1>26 DEF TrainHam, server
  <2>2. Doomed' \subseteq Doomed
    BY <1>26 DEF TrainHam, Goto, Doomed, server, locals, TypeInv, TypeOK
  <2>3. QED
    BY <2>1, <2>2, SafeQuiet
<1>27. ASSUME NEW s \in Scanners, LogHam(s)
     PROVE  SafeCopy'
  <2>1. UNCHANGED <<inbox, inboxIn, junk, junkIn, junkFlagged, deleted>>
    BY <1>27 DEF LogHam, server
  <2>2. Doomed' \subseteq Doomed
    BY <1>27 DEF LogHam, Goto, Doomed, server, locals, TypeInv, TypeOK
  <2>3. QED
    BY <2>1, <2>2, SafeQuiet
<1>28. ASSUME NEW s \in Scanners, SaveState(s)
     PROVE  SafeCopy'
  <2>1. UNCHANGED <<inbox, inboxIn, junk, junkIn, junkFlagged, deleted>>
    BY <1>28 DEF SaveState, server
  <2>2. Doomed' \subseteq Doomed
    BY <1>28 DEF SaveState, Goto, Doomed, server, locals, TypeInv, TypeOK
  <2>3. QED
    BY <2>1, <2>2, SafeQuiet
<1>29. ASSUME NEW s \in Scanners, Abort(s)
     PROVE  SafeCopy'
  <2>1. UNCHANGED <<inbox, inboxIn, junk, junkIn, junkFlagged, deleted>>
    BY <1>29 DEF Abort, server
  <2>2. Doomed' \subseteq Doomed
    BY <1>29 DEF Abort, Goto, Doomed, server, locals, TypeInv, TypeOK
  <2>3. QED
    BY <2>1, <2>2, SafeQuiet
<1>30. CASE UNCHANGED vars
  BY <1>30, SafeQuiet DEF vars, server, locals, Doomed
<1>31. QED
  BY <1>1, <1>2, <1>3, <1>4, <1>5, <1>6, <1>7, <1>8, <1>9, <1>10, <1>11, <1>12, <1>13, <1>14, <1>15, <1>16, <1>17, <1>18, <1>19, <1>20, <1>21, <1>22, <1>23, <1>24, <1>25, <1>26, <1>27, <1>28, <1>29, <1>30
     DEF Next, Environment, Scan, PipelineStep, TrainingStep

(* Mail is conserved: a message the user has not deleted is in INBOX or in  *)
(* Junk, whatever fails and however many scans run at once.                *)
THEOREM MailConserved == Spec => []NoMailLost
<1>1. Init => TypeInv /\ SafeCopy
  BY TypeInit DEF Init, SafeCopy, Arrived
<1>2. TypeInv /\ SafeCopy /\ [Next]_vars => (TypeInv /\ SafeCopy)'
  BY TypeStep, SafeStep
<1>3. TypeInv /\ SafeCopy => NoMailLost
  BY DEF SafeCopy, Kept, NoMailLost
<1>4. QED
  BY <1>1, <1>2, <1>3, PTL DEF Spec

-----------------------------------------------------------------------------
(* Nothing enters the snapshot unexamined, provided fetches succeed.        *)
Settled(j) == j \notin junkIn \/ spamTrain[j] > 0 \/ IsDaemonMove(j)

(* KnownMeansSettled, made inductive: what a scan has gone past is settled, *)
(* and once it trains ham, all that it listed in Junk is.                  *)
SettledInv ==
  /\ \A j \in knownUids : Settled(j)
  /\ \A s \in Scanners :
       /\ pc[s] \in {"spam", "spamlog"} => \A j \in junkList[s] \ work[s] : Settled(j)
       /\ pc[s] \in {"ham", "hamlog"} => \A j \in junkList[s] : Settled(j)

(* What no step undoes: records and training counts grow, and a UID that    *)
(* left Junk does not come back.                                           *)
Onward ==
  /\ Grown
  /\ daemonMoves \subseteq daemonMoves'
  /\ \A j \in Uid : spamTrain[j] > 0 => spamTrain'[j] > 0
  /\ \A u \in Uid : hamTrain[u] > 0 => hamTrain'[u] > 0
  /\ junkIn' \cap DOMAIN junk \subseteq junkIn

(* Hence what is settled stays settled.                                    *)
LEMMA SettledStays ==
  ASSUME TypeInv, Onward
  PROVE  \A j \in DOMAIN junk : Settled(j) => Settled(j)'
<1> SUFFICES ASSUME NEW j \in DOMAIN junk, Settled(j)
             PROVE  Settled(j)'
  OBVIOUS
<1>1. /\ junk'[j] = junk[j] /\ j \in Uid
      /\ DOMAIN inbox \subseteq DOMAIN inbox'
      /\ \A u \in DOMAIN inbox : inbox'[u] = inbox[u]
  BY GrownFacts DEF TypeInv, Onward, TypeOK, Uid
<1>2. CASE j \notin junkIn \/ spamTrain[j] > 0
  BY <1>1, <1>2 DEF Settled, Onward
<1>3. CASE IsDaemonMove(j)
  <2>1. \A u \in daemonMoves : u \in daemonMoves' /\ MoveKey(u)' = MoveKey(u)
    BY <1>1 DEF Onward, MoveKey, TypeInv, TypeOK
  <2>2. IsDaemonMove(j)'
    BY <1>1, <1>3, <2>1 DEF IsDaemonMove
  <2>3. QED
    BY <2>2 DEF Settled
<1>4. QED
  BY <1>2, <1>3 DEF Settled

(* Every step goes onward.                                                 *)
LEMMA StepOnward == TypeInv /\ [Next]_vars => Onward
<1> SUFFICES ASSUME TypeInv, [Next]_vars
             PROVE  Onward
  OBVIOUS
<1>1. ASSUME UNCHANGED <<inbox, junk>>, daemonMoves \subseteq daemonMoves',
             UNCHANGED history, junkIn' \subseteq junkIn
      PROVE  Onward
  BY <1>1 DEF Onward, Grown, history
<1>2. ASSUME NEW m \in Messages, NEW by \in {"delivery", "user"}, NEW f, AddToInbox(m, by, f),
             UNCHANGED <<junk, daemonMoves, history>>, junkIn' \subseteq junkIn
      PROVE  Onward
  BY <1>2 DEF Onward, Grown, AddToInbox, InboxArrival, history
<1>3. ASSUME NEW m \in Messages, NEW by \in {"gateway", "user", "daemon"}, NEW f, AddToJunk(m, by, f),
             UNCHANGED <<inbox, daemonMoves, history>>
      PROVE  Onward
  <2>1. Len(junk) + 1 \notin DOMAIN junk
    BY DEF TypeInv, TypeOK
  <2>2. QED
    BY <1>3, <2>1 DEF Onward, Grown, AddToJunk, JunkArrival, history
<1>4. ASSUME NEW m \in Messages, Deliver(m) PROVE Onward
  BY <1>2, <1>4 DEF Deliver, tables, history
<1>5. ASSUME NEW m \in Messages, GatewayJunks(m) PROVE Onward
  BY <1>3, <1>5 DEF GatewayJunks, tables, history
<1>6. ASSUME NEW u \in Uid, UserJunks(u) PROVE Onward
  BY <1>3, <1>6, ArrivalFacts DEF UserJunks, tables, history, TypeInv, TypeOK
<1>7. ASSUME NEW j \in Uid, UserRescues(j) PROVE Onward
  BY <1>2, <1>7, ArrivalFacts DEF UserRescues, tables, history, TypeInv, TypeOK
<1>8. ASSUME NEW u \in Uid, UserReads(u) \/ UserDeletesFromInbox(u) \/ UserDeletesFromJunk(u)
      PROVE  Onward
  BY <1>1, <1>8 DEF UserReads, UserDeletesFromInbox, UserDeletesFromJunk, tables, history
<1>9. ASSUME NEW s \in Scanners, UidMove(s) \/ CopyFallback(s) PROVE Onward
  <2>1. CASE cur[s] \in inboxIn
    BY <1>3, <1>9, <2>1, ArrivalFacts DEF UidMove, CopyFallback, CopyToJunk, tables, history, TypeInv, TypeOK
  <2>2. CASE cur[s] \notin inboxIn
    BY <1>1, <1>9, <2>2 DEF UidMove, CopyFallback, CopyToJunk, tables, history
  <2>3. QED
    BY <2>1, <2>2
<1>10. ASSUME NEW s \in Scanners, NEW j \in Uid, TrainSpam(s, j) PROVE Onward
  <2>1. UNCHANGED <<inbox, junk, junkIn, daemonMoves, hamTrain>> /\ spamTrain' = Count(spamTrain, j)
    BY <1>10 DEF TrainSpam, server, tables
  <2>2. \A i \in Uid : spamTrain[i] > 0 => spamTrain'[i] > 0
    BY <2>1 DEF Count, TypeInv, TypeOK, Many
  <2>3. QED
    BY <2>1, <2>2 DEF Onward, Grown
<1>11. ASSUME NEW s \in Scanners,
              \/ StartInboxScan(s) \/ FetchUnseen(s) \/ MoveRefused(s) \/ Expunge(s)
              \/ StoreDeleted(s) \/ ExpungeFails(s) \/ ListJunk(s) \/ ListInbox(s) \/ LogSpam(s) \/ SpamDone(s)
              \/ LogHam(s) \/ SaveState(s) \/ Abort(s)
       PROVE  Onward
  <2>1. UNCHANGED <<inbox, junk, junkIn, daemonMoves, history>>
    BY <1>11 DEF StartInboxScan, FetchUnseen, MoveRefused, StoreDeleted, Expunge, ExpungeFails, ListJunk,
                 ListInbox, LogSpam, SpamDone, LogHam, SaveState, Abort, server, tables, history
  <2>2. QED
    BY <1>1, <2>1
<1>12. ASSUME NEW s \in Scanners, NEW j \in Uid, NEW u \in Uid,
              \/ Leave(s, u) \/ RecordMove(s, u) \/ SkipDaemonMove(s, j) \/ SkipUnfetched(s, j)
              \/ SkipHam(s, j, u)
       PROVE  Onward
  <2>1. /\ UNCHANGED <<inbox, junk, junkIn, history>>
        /\ daemonMoves \subseteq daemonMoves'
    BY <1>12 DEF Leave, RecordMove, SkipDaemonMove, SkipUnfetched, SkipHam,
                 server, tables, history
  <2>2. QED
    BY <1>1, <2>1
<1>13. ASSUME NEW s \in Scanners, NEW j \in Uid, NEW u \in Uid, TrainHam(s, j, u) PROVE Onward
  <2>1. UNCHANGED <<inbox, junk, junkIn, daemonMoves, spamTrain>> /\ hamTrain' = Count(hamTrain, u)
    BY <1>13 DEF TrainHam, server, tables
  <2>2. \A i \in Uid : hamTrain[i] > 0 => hamTrain'[i] > 0
    BY <2>1 DEF Count, TypeInv, TypeOK, Many
  <2>3. QED
    BY <2>1, <2>2 DEF Onward, Grown
<1>14. CASE UNCHANGED vars
  BY <1>1, <1>14 DEF vars, server, tables, history
<1>15. QED
  BY <1>4, <1>5, <1>6, <1>7, <1>8, <1>9, <1>10, <1>11, <1>12, <1>13, <1>14
     DEF Next, Environment, Scan, PipelineStep, TrainingStep

(* A step that leaves the snapshot and the training scans' locals alone, or *)
(* sends a scan to a point of the pipeline.                                *)
LEMMA SettledQuiet ==
  ASSUME TypeInv, SettledInv, Onward, UNCHANGED <<knownUids, junkList, work>>,
         UNCHANGED pc
  PROVE  SettledInv'
BY SettledStays DEF SettledInv, TypeInv, TypeOK

(* Only one scan moves, and not to a point where SettledInv says anything   *)
(* of it.                                                                  *)
LEMMA SettledElsewhere ==
  ASSUME TypeInv, SettledInv, Onward, NEW s \in Scanners, UNCHANGED knownUids,
         pc'[s] \notin {"spam", "spamlog", "ham", "hamlog"},
         \A t \in Scanners \ {s} : /\ pc'[t] = pc[t] /\ junkList'[t] = junkList[t]
                                   /\ work'[t] = work[t]
  PROVE  SettledInv'
<1>1. \A j \in knownUids : Settled(j)'
  BY SettledStays DEF SettledInv, TypeInv, TypeOK
<1>2. \A t \in Scanners \ {s} :
        /\ pc[t] \in {"spam", "spamlog"} => \A j \in junkList[t] \ work[t] : Settled(j)'
        /\ pc[t] \in {"ham", "hamlog"} => \A j \in junkList[t] : Settled(j)'
  BY SettledStays DEF SettledInv, TypeInv, TypeOK
<1>3. QED
  BY <1>1, <1>2 DEF SettledInv

(* A training scan keeps the promise if it goes past settled UIDs only.     *)
LEMMA SettledTraining ==
  ASSUME TypeInv, SettledInv, Onward, NEW s \in Scanners, UNCHANGED <<knownUids, junkList>>,
         pc'[s] \in {"spam", "spamlog", "ham", "hamlog"},
         \A t \in Scanners \ {s} : pc'[t] = pc[t] /\ work'[t] = work[t],
         pc'[s] \in {"spam", "spamlog"} => \A j \in junkList[s] \ work'[s] : Settled(j)',
         pc'[s] \in {"ham", "hamlog"} => \A j \in junkList[s] : Settled(j)'
  PROVE  SettledInv'
<1>1. \A j \in knownUids : Settled(j)'
  BY SettledStays DEF SettledInv, TypeInv, TypeOK
<1>2. \A t \in Scanners \ {s} :
        /\ pc[t] \in {"spam", "spamlog"} => \A j \in junkList[t] \ work[t] : Settled(j)'
        /\ pc[t] \in {"ham", "hamlog"} => \A j \in junkList[t] : Settled(j)'
  BY SettledStays DEF SettledInv, TypeInv, TypeOK
<1>3. QED
  BY <1>1, <1>2 DEF SettledInv

(* Every step keeps the promise if the messages in Junk can be fetched.     *)
LEMMA SettledStep ==
  ASSUME TypeInv, SettledInv, "fetch" \notin Faults, [Next]_vars
  PROVE  SettledInv'
<1>1. Onward
  BY StepOnward
<1>2. \A j \in DOMAIN junk : Settled(j) => Settled(j)'
  BY <1>1, SettledStays
<1>3. \A s \in Scanners : junkList[s] \subseteq DOMAIN junk
  BY DEF TypeInv, TypeOK
<1>4. CASE Environment \/ UNCHANGED vars
  <2>1. UNCHANGED <<knownUids, junkList, work, pc>>
    BY <1>4 DEF Environment, Deliver, GatewayJunks, UserJunks, UserReads, UserDeletesFromInbox,
                UserRescues, UserDeletesFromJunk, vars, tables, locals
  <2>2. QED
    BY <1>1, <2>1, SettledQuiet
<1>5. ASSUME NEW s \in Scanners,
             \/ StartInboxScan(s) \/ PipelineStep(s) \/ ListJunk(s) \/ Abort(s)
      PROVE  SettledInv'
  <2>1. /\ UNCHANGED knownUids
        /\ \A t \in Scanners \ {s} : /\ pc'[t] = pc[t] /\ junkList'[t] = junkList[t]
                                     /\ work'[t] = work[t]
        /\ pc'[s] \in {"idle", "listed"} \cup PipelinePoint
    <3>1. CASE StartInboxScan(s) \/ ListJunk(s) \/ Abort(s)
      BY <3>1 DEF StartInboxScan, ListJunk, Abort, Goto, tables, TypeInv, TypeOK, PipelinePoint
    <3>2. CASE FetchUnseen(s) \/ MoveRefused(s) \/ UidMove(s) \/ Expunge(s) \/ ExpungeFails(s)
      BY <3>2 DEF FetchUnseen, MoveRefused, UidMove, Expunge, ExpungeFails, NextMessage, Goto,
                  tables, TypeInv, TypeOK, PipelinePoint
    <3>3. CASE CopyFallback(s) \/ StoreDeleted(s)
      BY <3>3 DEF CopyFallback, StoreDeleted, Goto, tables, TypeInv, TypeOK, PipelinePoint
    <3>4. ASSUME NEW u \in Uid, Leave(s, u) \/ RecordMove(s, u)
          PROVE  /\ UNCHANGED knownUids
                 /\ \A t \in Scanners \ {s} : /\ pc'[t] = pc[t] /\ junkList'[t] = junkList[t]
                                              /\ work'[t] = work[t]
                 /\ pc'[s] \in {"idle", "listed"} \cup PipelinePoint
      BY <3>4 DEF Leave, RecordMove, NextMessage, Goto, tables, TypeInv, TypeOK, PipelinePoint
    <3>5. QED
      BY <1>5, <3>1, <3>2, <3>3, <3>4 DEF PipelineStep
  <2>2. pc'[s] \notin {"spam", "spamlog", "ham", "hamlog"}
    BY <2>1 DEF PipelinePoint
  <2>3. QED
    BY <1>1, <2>1, <2>2, SettledElsewhere
<1>6. ASSUME NEW s \in Scanners, ListInbox(s) PROVE SettledInv'
  <2>1. /\ pc' = [pc EXCEPT ![s] = "spam"] /\ UNCHANGED <<knownUids, junkList>>
        /\ work' = [work EXCEPT ![s] = junkList[s] \ knownUids]
    BY <1>6 DEF ListInbox, Goto, tables
  <2>2. \A j \in junkList[s] \ work'[s] : Settled(j)'
    BY <1>2, <1>3, <2>1 DEF SettledInv, TypeInv, TypeOK
  <2>3. pc'[s] = "spam" /\ \A t \in Scanners \ {s} : pc'[t] = pc[t] /\ work'[t] = work[t]
    BY <2>1 DEF TypeInv, TypeOK
  <2>4. QED
    BY <1>1, <2>1, <2>2, <2>3, SettledTraining
<1>7. ASSUME NEW s \in Scanners, NEW i \in Uid, SkipDaemonMove(s, i) \/ SkipUnfetched(s, i)
      PROVE  SettledInv'
  <2>1. /\ pc[s] = "spam" /\ UNCHANGED <<pc, knownUids, junkList>>
        /\ work' = [work EXCEPT ![s] = @ \ {i}]
        /\ IsDaemonMove(i) \/ i \notin junkIn
    BY <1>7 DEF SkipDaemonMove, SkipUnfetched, tables
  <2>2. \A j \in junkList[s] \ work'[s] : Settled(j)'
    BY <1>2, <1>3, <2>1 DEF SettledInv, Settled, TypeInv, TypeOK
  <2>3. QED
    BY <1>1, <2>1, <2>2, SettledTraining DEF TypeInv, TypeOK
<1>8. ASSUME NEW s \in Scanners, NEW i \in Uid, TrainSpam(s, i) PROVE SettledInv'
  <2>1. /\ pc[s] = "spam" /\ UNCHANGED <<knownUids, junkList>>
        /\ pc' = [pc EXCEPT ![s] = "spamlog"]
        /\ work' = [work EXCEPT ![s] = @ \ {i}]
        /\ spamTrain' = Count(spamTrain, i)
    BY <1>8 DEF TrainSpam, Goto, tables
  <2>2. Settled(i)'
    BY <2>1 DEF Count, Settled, TypeInv, TypeOK, Many
  <2>3. \A j \in junkList[s] \ work'[s] : Settled(j)'
    BY <1>2, <1>3, <2>1, <2>2 DEF SettledInv, TypeInv, TypeOK
  <2>4. pc'[s] = "spamlog" /\ \A t \in Scanners \ {s} : pc'[t] = pc[t] /\ work'[t] = work[t]
    BY <2>1 DEF TypeInv, TypeOK
  <2>5. QED
    BY <1>1, <2>1, <2>3, <2>4, SettledTraining
<1>9. ASSUME NEW s \in Scanners, LogSpam(s) \/ SpamDone(s) PROVE SettledInv'
  <2>1. /\ UNCHANGED <<knownUids, junkList, work>>
        /\ \/ pc[s] = "spamlog" /\ pc' = [pc EXCEPT ![s] = "spam"]
           \/ pc[s] = "spam" /\ work[s] = {} /\ pc' = [pc EXCEPT ![s] = "ham"]
    BY <1>9 DEF LogSpam, SpamDone, Goto, tables
  <2>2. \A j \in junkList[s] \ work[s] : Settled(j)'
    BY <1>2, <1>3, <2>1 DEF SettledInv
  <2>3. /\ \/ pc'[s] = "spam"
           \/ pc'[s] = "ham" /\ work[s] = {}
        /\ \A t \in Scanners \ {s} : pc'[t] = pc[t]
    BY <2>1 DEF TypeInv, TypeOK
  <2>4. QED
    BY <1>1, <2>1, <2>2, <2>3, SettledTraining
<1>10. ASSUME NEW s \in Scanners,
              LogHam(s) \/ \E j, u \in Uid : SkipHam(s, j, u) \/ TrainHam(s, j, u)
       PROVE  SettledInv'
  <2>1. /\ UNCHANGED <<knownUids, junkList, work>> /\ pc[s] \in {"ham", "hamlog"}
        /\ UNCHANGED pc \/ pc' = [pc EXCEPT ![s] = "ham"] \/ pc' = [pc EXCEPT ![s] = "hamlog"]
    BY <1>10 DEF LogHam, SkipHam, TrainHam, Goto, tables
  <2>2. \A j \in junkList[s] : Settled(j)'
    BY <1>2, <1>3, <2>1 DEF SettledInv
  <2>3. pc'[s] \in {"ham", "hamlog"} /\ \A t \in Scanners \ {s} : pc'[t] = pc[t]
    BY <2>1 DEF TypeInv, TypeOK
  <2>4. QED
    BY <1>1, <2>1, <2>2, <2>3, SettledTraining
<1>11. ASSUME NEW s \in Scanners, SaveState(s) PROVE SettledInv'
  <2>1. /\ pc[s] = "ham" /\ pc' = [pc EXCEPT ![s] = "idle"] /\ UNCHANGED work
        /\ knownUids' = junkList[s] /\ junkList' = [junkList EXCEPT ![s] = {}]
    BY <1>11 DEF SaveState, Goto
  <2>2. \A j \in knownUids' : Settled(j)'
    BY <1>2, <1>3, <2>1 DEF SettledInv
  <2>3. \A t \in Scanners \ {s} :
          /\ pc[t] \in {"spam", "spamlog"} => \A j \in junkList[t] \ work[t] : Settled(j)'
          /\ pc[t] \in {"ham", "hamlog"} => \A j \in junkList[t] : Settled(j)'
    BY <1>2, <1>3 DEF SettledInv
  <2>4. /\ pc'[s] = "idle"
        /\ \A t \in Scanners \ {s} : pc'[t] = pc[t] /\ junkList'[t] = junkList[t]
    BY <2>1 DEF TypeInv, TypeOK
  <2>5. QED
    BY <2>1, <2>2, <2>3, <2>4 DEF SettledInv
<1>12. QED
  BY <1>4, <1>5, <1>6, <1>7, <1>8, <1>9, <1>10, <1>11 DEF Next, Scan, TrainingStep

(* As long as messages can be fetched, a Junk arrival in the stored         *)
(* snapshot was trained on or recognised, however many scans of however     *)
(* many processes interleave with each other and with the user.            *)
THEOREM NothingSlipsIn ==
  ASSUME "fetch" \notin Faults
  PROVE  Spec => []KnownMeansSettled
<1>1. Init => TypeInv /\ SettledInv
  BY TypeInit DEF Init, SettledInv
<1>2. TypeInv /\ SettledInv /\ [Next]_vars => (TypeInv /\ SettledInv)'
  BY TypeStep, SettledStep
<1>3. SettledInv => KnownMeansSettled
  BY DEF SettledInv, Settled, KnownMeansSettled
<1>4. QED
  BY <1>1, <1>2, <1>3, PTL DEF Spec
-----------------------------------------------------------------------------
(* What a step of the pipeline, or the end of a scan, leaves to training.   *)
LEMMA PipelineEffect ==
  ASSUME TypeInv, NEW s \in Scanners, StartInboxScan(s) \/ PipelineStep(s) \/ Abort(s)
  PROVE  /\ UNCHANGED <<knownUids, feedback, history>>
         /\ \A t \in Scanners \ {s} : /\ pc'[t] = pc[t] /\ cur'[t] = cur[t] /\ work'[t] = work[t]
                                      /\ junkList'[t] = junkList[t] /\ hamWork'[t] = hamWork[t]
         /\ pc'[s] \in {"idle"} \cup PipelinePoint
         /\ hamWork'[s] \subseteq hamWork[s]
<1> USE DEF Goto, tables, history, TypeInv, TypeOK, PipelinePoint
<1>1. CASE StartInboxScan(s) \/ Abort(s)
  BY <1>1 DEF StartInboxScan, Abort
<1>2. CASE FetchUnseen(s)
  BY <1>2 DEF FetchUnseen, NextMessage
<1>3. CASE UidMove(s) \/ MoveRefused(s) \/ Expunge(s) \/ ExpungeFails(s)
  BY <1>3 DEF UidMove, MoveRefused, Expunge, ExpungeFails, NextMessage
<1>4. CASE CopyFallback(s) \/ StoreDeleted(s)
  BY <1>4 DEF CopyFallback, StoreDeleted
<1>5. ASSUME NEW u \in Uid, Leave(s, u) \/ RecordMove(s, u)
      PROVE  /\ UNCHANGED <<knownUids, feedback, history>>
             /\ \A t \in Scanners \ {s} : /\ pc'[t] = pc[t] /\ cur'[t] = cur[t] /\ work'[t] = work[t]
                                          /\ junkList'[t] = junkList[t] /\ hamWork'[t] = hamWork[t]
             /\ pc'[s] \in {"idle"} \cup PipelinePoint
             /\ hamWork'[s] \subseteq hamWork[s]
  BY <1>5 DEF Leave, RecordMove, NextMessage
<1>6. QED
  BY <1>1, <1>2, <1>3, <1>4, <1>5 DEF PipelineStep

(* The server, the users and stuttering touch no table and no scan.         *)
LEMMA EnvironmentEffect ==
  ASSUME Environment \/ UNCHANGED vars
  PROVE  UNCHANGED <<tables, locals, history>>
BY DEF Environment, Deliver, GatewayJunks, UserJunks, UserReads, UserDeletesFromInbox,
       UserRescues, UserDeletesFromJunk, vars

-----------------------------------------------------------------------------
(* FeedbackIsTrue, made inductive: the message in hand when a row is about  *)
(* to be written has been trained on.                                      *)
SpamLearned(m) == \E j \in DOMAIN junk : junk[j].msg = m /\ spamTrain[j] > 0
HamLearned(m) == \E u \in DOMAIN inbox : inbox[u].msg = m /\ hamTrain[u] > 0

InHand ==
  \A s \in Scanners :
    /\ pc[s] = "spamlog" => cur[s] \in DOMAIN junk /\ spamTrain[cur[s]] > 0
    /\ pc[s] = "hamlog" => cur[s] \in DOMAIN inbox /\ hamTrain[cur[s]] > 0

(* No message is unlearned.                                                *)
LEMMA LearnedStays ==
  ASSUME TypeInv, Onward
  PROVE  /\ \A j \in DOMAIN junk : /\ j \in DOMAIN junk' /\ junk'[j] = junk[j]
                                   /\ spamTrain[j] > 0 => spamTrain'[j] > 0
         /\ \A u \in DOMAIN inbox : /\ u \in DOMAIN inbox' /\ inbox'[u] = inbox[u]
                                    /\ hamTrain[u] > 0 => hamTrain'[u] > 0
         /\ \A m : SpamLearned(m) => SpamLearned(m)'
         /\ \A m : HamLearned(m) => HamLearned(m)'
<1>1. DOMAIN inbox \subseteq Uid /\ DOMAIN junk \subseteq Uid
  BY DEF TypeInv, TypeOK, Uid
<1>2. \A j \in DOMAIN junk : /\ j \in DOMAIN junk' /\ junk'[j] = junk[j]
                             /\ spamTrain[j] > 0 => spamTrain'[j] > 0
  BY <1>1, GrownFacts DEF TypeInv, Onward
<1>3. \A u \in DOMAIN inbox : /\ u \in DOMAIN inbox' /\ inbox'[u] = inbox[u]
                              /\ hamTrain[u] > 0 => hamTrain'[u] > 0
  BY <1>1, GrownFacts DEF TypeInv, Onward
<1>4. QED
  BY <1>2, <1>3 DEF SpamLearned, HamLearned

(* Nor does a row that is true become false.                               *)
LEMMA RowsStayTrue ==
  ASSUME TypeInv, Onward, FeedbackIsTrue, UNCHANGED feedback
  PROVE  FeedbackIsTrue'
BY LearnedStays DEF FeedbackIsTrue, SpamLearned, HamLearned

(* A scan that is not about to write a row of feedback, and writes none.    *)
LEMMA FeedbackQuiet ==
  ASSUME TypeInv, Onward, FeedbackIsTrue, InHand, UNCHANGED feedback, NEW s,
         pc'[s] \notin {"spamlog", "hamlog"},
         \A t \in Scanners \ {s} : pc'[t] = pc[t] /\ cur'[t] = cur[t]
  PROVE  FeedbackIsTrue' /\ InHand'
<1>1. FeedbackIsTrue'
  BY RowsStayTrue
<1>2. InHand'
  BY LearnedStays DEF InHand
<1>3. QED
  BY <1>1, <1>2

(* Every step keeps the rows of feedback true.                             *)
LEMMA FeedbackStep ==
  ASSUME TypeInv, FeedbackIsTrue, InHand, [Next]_vars
  PROVE  FeedbackIsTrue' /\ InHand'
<1>1. Onward
  BY StepOnward
<1>2. CASE Environment \/ UNCHANGED vars
  <2>1. UNCHANGED <<feedback, pc, cur>>
    BY <1>2, EnvironmentEffect DEF tables, locals
  <2>2. FeedbackIsTrue'
    BY <1>1, <2>1, RowsStayTrue
  <2>3. InHand'
    BY <1>1, <2>1, LearnedStays DEF InHand
  <2>4. QED
    BY <2>2, <2>3
<1>3. ASSUME NEW s \in Scanners, StartInboxScan(s) \/ PipelineStep(s) \/ Abort(s)
      PROVE  FeedbackIsTrue' /\ InHand'
  <2>1. /\ UNCHANGED feedback /\ pc'[s] \notin {"spamlog", "hamlog"}
        /\ \A t \in Scanners \ {s} : pc'[t] = pc[t] /\ cur'[t] = cur[t]
    BY <1>3, PipelineEffect DEF PipelinePoint
  <2>2. QED
    BY <1>1, <2>1, FeedbackQuiet
<1>4. ASSUME NEW s \in Scanners,
             ListJunk(s) \/ ListInbox(s) \/ SpamDone(s) \/ SaveState(s)
      PROVE  FeedbackIsTrue' /\ InHand'
  <2>1. /\ UNCHANGED feedback /\ pc'[s] \notin {"spamlog", "hamlog"}
        /\ \A t \in Scanners \ {s} : pc'[t] = pc[t] /\ cur'[t] = cur[t]
    BY <1>4 DEF ListJunk, ListInbox, SpamDone, SaveState, Goto, tables, TypeInv, TypeOK
  <2>2. QED
    BY <1>1, <2>1, FeedbackQuiet
<1>5. ASSUME NEW s \in Scanners, NEW j \in Uid, NEW u \in Uid,
             SkipDaemonMove(s, j) \/ SkipUnfetched(s, j) \/ SkipHam(s, j, u)
      PROVE  FeedbackIsTrue' /\ InHand'
  <2>1. /\ UNCHANGED <<feedback, pc, cur>> /\ pc[s] \in {"spam", "ham"}
    BY <1>5 DEF SkipDaemonMove, SkipUnfetched, SkipHam, tables
  <2>2. QED
    BY <1>1, <2>1, FeedbackQuiet
<1>6. ASSUME NEW s \in Scanners, NEW j \in Uid, TrainSpam(s, j)
      PROVE  FeedbackIsTrue' /\ InHand'
  <2>1. /\ UNCHANGED <<feedback, junk>> /\ j \in DOMAIN junk
        /\ pc' = [pc EXCEPT ![s] = "spamlog"] /\ cur' = [cur EXCEPT ![s] = j]
        /\ spamTrain'[j] > 0
    <3>1. spamTrain' = Count(spamTrain, j)
      BY <1>6 DEF TrainSpam
    <3>2. spamTrain \in [Uid -> 0..2]
      BY DEF TypeInv, TypeOK, Many
    <3>3. spamTrain'[j] > 0
      BY <3>1, <3>2 DEF Count, Many
    <3>4. QED
      BY <1>6, <3>3 DEF TrainSpam, Goto, tables, server, TypeInv, TypeOK
  <2>2. FeedbackIsTrue'
    BY <1>1, <2>1, RowsStayTrue
  <2>3. \A t \in Scanners : IF t = s THEN pc'[t] = "spamlog" /\ cur'[t] = j
                            ELSE pc'[t] = pc[t] /\ cur'[t] = cur[t]
    BY <2>1 DEF TypeInv, TypeOK
  <2>4. InHand'
    BY <1>1, <2>1, <2>3, LearnedStays DEF InHand
  <2>5. QED
    BY <2>2, <2>4
<1>7. ASSUME NEW s \in Scanners, NEW j \in Uid, NEW u \in Uid, TrainHam(s, j, u)
      PROVE  FeedbackIsTrue' /\ InHand'
  <2>1. /\ UNCHANGED <<feedback, inbox>> /\ u \in DOMAIN inbox
        /\ pc' = [pc EXCEPT ![s] = "hamlog"] /\ cur' = [cur EXCEPT ![s] = u]
        /\ hamTrain'[u] > 0
    <3>1. hamTrain' = Count(hamTrain, u)
      BY <1>7 DEF TrainHam
    <3>2. hamTrain \in [Uid -> 0..2]
      BY DEF TypeInv, TypeOK, Many
    <3>3. hamTrain'[u] > 0
      BY <3>1, <3>2 DEF Count, Many
    <3>4. QED
      BY <1>7, <3>3 DEF TrainHam, Goto, tables, server, TypeInv, TypeOK
  <2>2. FeedbackIsTrue'
    BY <1>1, <2>1, RowsStayTrue
  <2>3. \A t \in Scanners : IF t = s THEN pc'[t] = "hamlog" /\ cur'[t] = u
                            ELSE pc'[t] = pc[t] /\ cur'[t] = cur[t]
    BY <2>1 DEF TypeInv, TypeOK
  <2>4. InHand'
    BY <1>1, <2>1, <2>3, LearnedStays DEF InHand
  <2>5. QED
    BY <2>2, <2>4
<1>8. ASSUME NEW s \in Scanners, LogSpam(s) \/ LogHam(s)
      PROVE  FeedbackIsTrue' /\ InHand'
  <2>1. InHand'
    <3>1. \A t \in Scanners : IF t = s THEN pc'[t] \in {"spam", "ham"}
                              ELSE pc'[t] = pc[t] /\ cur'[t] = cur[t]
      BY <1>8 DEF LogSpam, LogHam, Goto, TypeInv, TypeOK
    <3>2. QED
      BY <1>1, <3>1, LearnedStays DEF InHand
  <2>2. ASSUME NEW m \in HasId, <<"junk_idler", m>> \in feedback'
        PROVE  SpamLearned(m)'
    <3>1. CASE <<"junk_idler", m>> \in feedback
      BY <1>1, <3>1, LearnedStays DEF FeedbackIsTrue, SpamLearned
    <3>2. CASE LogSpam(s) /\ m = JunkKey(cur[s])
      <4>1. cur[s] \in DOMAIN junk /\ spamTrain[cur[s]] > 0 /\ cur[s] \in Nat
        BY <3>2 DEF LogSpam, InHand, TypeInv, TypeOK
      <4>2. junk[cur[s]].msg = m
        BY <3>2, <4>1 DEF JunkKey
      <4>3. QED
        BY <1>1, <4>1, <4>2, LearnedStays DEF SpamLearned
    <3>3. QED
      BY <1>8, <2>2, <3>1, <3>2 DEF LogSpam, LogHam
  <2>3. ASSUME NEW m \in HasId, <<"junk_to_inbox", m>> \in feedback'
        PROVE  HamLearned(m)'
    <3>1. CASE <<"junk_to_inbox", m>> \in feedback
      BY <1>1, <3>1, LearnedStays DEF FeedbackIsTrue, HamLearned
    <3>2. CASE LogHam(s) /\ m = MoveKey(cur[s])
      <4>1. cur[s] \in DOMAIN inbox /\ hamTrain[cur[s]] > 0 /\ cur[s] \in Nat
        BY <3>2 DEF LogHam, InHand, TypeInv, TypeOK
      <4>2. inbox[cur[s]].msg = m
        BY <3>2, <4>1 DEF MoveKey
      <4>3. QED
        BY <1>1, <4>1, <4>2, LearnedStays DEF HamLearned
    <3>3. QED
      BY <1>8, <2>3, <3>1, <3>2 DEF LogSpam, LogHam
  <2>4. QED
    BY <2>1, <2>2, <2>3 DEF FeedbackIsTrue, SpamLearned, HamLearned
<1>9. QED
  BY <1>2, <1>3, <1>4, <1>5, <1>6, <1>7, <1>8 DEF Next, Scan, TrainingStep

(* A row of spam_feedback speaks of training that took place, through any    *)
(* failure and whoever else scans.                                         *)
THEOREM FeedbackTold == Spec => []FeedbackIsTrue
<1>1. Init => TypeInv /\ FeedbackIsTrue /\ InHand
  BY TypeInit DEF Init, FeedbackIsTrue, InHand
<1>2. TypeInv /\ FeedbackIsTrue /\ InHand /\ [Next]_vars
        => (TypeInv /\ FeedbackIsTrue /\ InHand)'
  BY TypeStep, FeedbackStep
<1>3. QED
  BY <1>1, <1>2, PTL DEF Spec

-----------------------------------------------------------------------------
(* HamMeansRescued, made inductive: as long as a delivery is in INBOX, its  *)
(* message has been nowhere else; what is listed for training as ham, and   *)
(* what has been trained on, the user put there.                           *)
Fresh ==
  \A u \in inboxIn : inbox[u].by = "delivery" =>
    /\ \A j \in DOMAIN junk : junk[j].msg # inbox[u].msg
    /\ \A v \in DOMAIN inbox \ {u} : inbox[v].msg # inbox[u].msg

ByUser(u) == u \in DOMAIN inbox /\ inbox[u].by = "user"

HamByUser ==
  /\ \A s \in Scanners : \A p \in hamWork[s] : ByUser(p[2])
  /\ \A u \in Uid : hamTrain[u] > 0 => ByUser(u)

(* A message that leaves INBOX as it enters Junk.                          *)
LEMMA MovedIsNotFresh ==
  ASSUME TypeInv, Fresh, NEW v \in inboxIn, NEW by \in {"user", "daemon"},
         NEW f, AddToJunk(inbox[v].msg, by, f), inboxIn' = inboxIn \ {v}, UNCHANGED inbox
  PROVE  Fresh'
<1>1. DOMAIN junk' = DOMAIN junk \cup {Len(junk) + 1}
      /\ junk'[Len(junk) + 1].msg = inbox[v].msg
      /\ \A j \in DOMAIN junk : junk'[j] = junk[j]
  <2>1. [msg |-> inbox[v].msg, by |-> by] \in JunkArrival
    BY ArrivalFacts DEF TypeInv, TypeOK, JunkArrival
  <2>2. QED
    BY <2>1, AppendFacts DEF AddToJunk, TypeInv, TypeOK
<1>2. v \in DOMAIN inbox
  BY DEF TypeInv, TypeOK
<1>3. QED
  BY <1>1, <1>2 DEF Fresh

(* Moves that take the message along keep deliveries fresh.                 *)
LEMMA FreshStep ==
  ASSUME TypeInv, Fresh, "copy" \notin Faults, [Next]_vars
  PROVE  Fresh'
<1>1. ASSUME UNCHANGED <<inbox, junk>>, inboxIn' \subseteq inboxIn
      PROVE  Fresh'
  BY <1>1 DEF Fresh
<1>2. ASSUME NEW m \in Messages, Deliver(m) PROVE Fresh'
  <2>1. DOMAIN inbox' = DOMAIN inbox \cup {Len(inbox) + 1}
        /\ inbox'[Len(inbox) + 1].msg = m
        /\ \A u \in DOMAIN inbox : inbox'[u] = inbox[u]
    BY <1>2, AppendFacts DEF Deliver, AddToInbox, InboxArrival, TypeInv, TypeOK
  <2>2. /\ UNCHANGED junk /\ inboxIn' = inboxIn \cup {Len(inbox) + 1}
        /\ \A u \in DOMAIN inbox : inbox[u].msg # m
        /\ \A j \in DOMAIN junk : junk[j].msg # m
        /\ inboxIn \subseteq DOMAIN inbox
    BY <1>2 DEF Deliver, AddToInbox, Arrived, TypeInv, TypeOK
  <2>3. QED
    BY <2>1, <2>2 DEF Fresh
<1>3. ASSUME NEW m \in Messages, GatewayJunks(m) PROVE Fresh'
  <2>1. DOMAIN junk' = DOMAIN junk \cup {Len(junk) + 1}
        /\ junk'[Len(junk) + 1].msg = m
        /\ \A j \in DOMAIN junk : junk'[j] = junk[j]
    BY <1>3, AppendFacts DEF GatewayJunks, AddToJunk, JunkArrival, TypeInv, TypeOK
  <2>2. /\ UNCHANGED <<inbox, inboxIn>>
        /\ \A u \in DOMAIN inbox : inbox[u].msg # m
        /\ inboxIn \subseteq DOMAIN inbox
    BY <1>3 DEF GatewayJunks, Arrived, TypeInv, TypeOK
  <2>3. QED
    BY <2>1, <2>2 DEF Fresh
<1>4. ASSUME NEW u \in Uid, UserJunks(u) PROVE Fresh'
  BY <1>4, MovedIsNotFresh DEF UserJunks
<1>5. ASSUME NEW j \in Uid, UserRescues(j) PROVE Fresh'
  <2>1. j \in DOMAIN junk /\ [msg |-> junk[j].msg, by |-> "user"] \in InboxArrival
    BY <1>5, ArrivalFacts DEF UserRescues, TypeInv, TypeOK, InboxArrival
  <2>2. DOMAIN inbox' = DOMAIN inbox \cup {Len(inbox) + 1}
        /\ inbox'[Len(inbox) + 1] = [msg |-> junk[j].msg, by |-> "user"]
        /\ \A u \in DOMAIN inbox : inbox'[u] = inbox[u]
    BY <1>5, <2>1, AppendFacts DEF UserRescues, AddToInbox, TypeInv, TypeOK
  <2>3. UNCHANGED junk /\ inboxIn' = inboxIn \cup {Len(inbox) + 1} /\ inboxIn \subseteq DOMAIN inbox
    BY <1>5 DEF UserRescues, AddToInbox, TypeInv, TypeOK
  <2>4. QED
    BY <2>1, <2>2, <2>3 DEF Fresh
<1>6. ASSUME NEW u \in Uid, UserReads(u) \/ UserDeletesFromInbox(u) \/ UserDeletesFromJunk(u)
      PROVE  Fresh'
  BY <1>1, <1>6 DEF UserReads, UserDeletesFromInbox, UserDeletesFromJunk
<1>7. ASSUME NEW s \in Scanners, UidMove(s) PROVE Fresh'
  <2>1. CASE cur[s] \in inboxIn
    BY <1>7, <2>1, MovedIsNotFresh DEF UidMove, CopyToJunk
  <2>2. CASE cur[s] \notin inboxIn
    BY <1>1, <1>7, <2>2 DEF UidMove, CopyToJunk
  <2>3. QED
    BY <2>1, <2>2
<1>8. ASSUME NEW s \in Scanners,
             \/ StartInboxScan(s) \/ FetchUnseen(s) \/ MoveRefused(s) \/ Expunge(s)
             \/ StoreDeleted(s) \/ ExpungeFails(s) \/ ListJunk(s) \/ ListInbox(s) \/ LogSpam(s) \/ SpamDone(s)
             \/ LogHam(s) \/ SaveState(s) \/ Abort(s)
      PROVE  Fresh'
  <2>1. UNCHANGED <<inbox, junk>> /\ inboxIn' \subseteq inboxIn
    BY <1>8 DEF StartInboxScan, FetchUnseen, MoveRefused, StoreDeleted, Expunge, ExpungeFails, ListJunk,
                ListInbox, LogSpam, SpamDone, LogHam, SaveState, Abort, server
  <2>2. QED
    BY <1>1, <2>1
<1>9. ASSUME NEW s \in Scanners, NEW j \in Uid, NEW u \in Uid,
             \/ Leave(s, u) \/ RecordMove(s, u) \/ SkipDaemonMove(s, j) \/ SkipUnfetched(s, j)
             \/ TrainSpam(s, j) \/ SkipHam(s, j, u) \/ TrainHam(s, j, u)
      PROVE  Fresh'
  <2>1. UNCHANGED <<inbox, junk, inboxIn>>
    BY <1>9 DEF Leave, RecordMove, SkipDaemonMove, SkipUnfetched, TrainSpam, SkipHam, TrainHam,
                server
  <2>2. QED
    BY <1>1, <2>1
<1>10. CASE UNCHANGED vars
  BY <1>1, <1>10 DEF vars, server
<1>11. QED
  BY <1>2, <1>3, <1>4, <1>5, <1>6, <1>7, <1>8, <1>9, <1>10
     DEF Next, Environment, Scan, PipelineStep, TrainingStep, CopyFallback

(* Only messages of the user are listed for training as ham.               *)
LEMMA HamStep ==
  ASSUME TypeInv, Fresh, HamByUser, [Next]_vars
  PROVE  HamByUser'
<1>1. \A u : ByUser(u) => ByUser(u)'
  BY StepOnward, LearnedStays DEF ByUser
<1>2. ASSUME UNCHANGED hamTrain, \A s \in Scanners : hamWork'[s] \subseteq hamWork[s]
      PROVE  HamByUser'
  BY <1>1, <1>2 DEF HamByUser
<1>3. CASE Environment \/ UNCHANGED vars
  BY <1>2, <1>3, EnvironmentEffect DEF locals, history
<1>4. ASSUME NEW s \in Scanners, StartInboxScan(s) \/ PipelineStep(s) \/ Abort(s)
      PROVE  HamByUser'
  <2>1. UNCHANGED hamTrain /\ \A t \in Scanners : hamWork'[t] \subseteq hamWork[t]
    BY <1>4, PipelineEffect DEF history
  <2>2. QED
    BY <1>2, <2>1
<1>5. ASSUME NEW s \in Scanners, NEW j \in Uid, NEW u \in Uid,
             \/ SkipDaemonMove(s, j) \/ SkipUnfetched(s, j) \/ TrainSpam(s, j)
             \/ SkipHam(s, j, u)
      PROVE  HamByUser'
  <2>1. UNCHANGED hamTrain /\ \A t \in Scanners : hamWork'[t] \subseteq hamWork[t]
    BY <1>5 DEF SkipDaemonMove, SkipUnfetched, TrainSpam, SkipHam, history, TypeInv, TypeOK
  <2>2. QED
    BY <1>2, <2>1
<1>6. ASSUME NEW s \in Scanners, ListInbox(s) PROVE HamByUser'
  <2>1. PICK found \in Listing(inboxIn) :
          hamWork' = [hamWork EXCEPT ![s] = Rescued(knownUids, junkList[s], found)]
    BY <1>6 DEF ListInbox
  <2>2. found \subseteq inboxIn /\ knownUids \subseteq DOMAIN junk
    BY <2>1 DEF Listing, TypeInv, TypeOK
  <2>3. ASSUME NEW p \in Rescued(knownUids, junkList[s], found)
        PROVE  ByUser(p[2])
    <3>1. /\ p[1] \in DOMAIN junk /\ p[2] \in inboxIn
          /\ junk[p[1]].msg = inbox[p[2]].msg
      BY <2>2 DEF Rescued
    <3>2. p[2] \in DOMAIN inbox /\ inbox[p[2]] \in InboxArrival
      BY <3>1, ArrivalFacts DEF TypeInv, TypeOK
    <3>3. QED
      BY <3>1, <3>2 DEF Fresh, ByUser, InboxArrival
  <2>4. \A t \in Scanners : \A p \in hamWork'[t] : ByUser(p[2])
    BY <2>1, <2>3 DEF HamByUser, TypeInv, TypeOK
  <2>5. QED
    BY <1>1, <1>6, <2>4 DEF HamByUser, ListInbox, history
<1>7. ASSUME NEW s \in Scanners, NEW j \in Uid, NEW u \in Uid, TrainHam(s, j, u)
      PROVE  HamByUser'
  <2>1. /\ <<j, u>> \in hamWork[s]
        /\ hamTrain' = Count(hamTrain, u)
        /\ \A t \in Scanners : hamWork'[t] \subseteq hamWork[t]
    BY <1>7 DEF TrainHam, TypeInv, TypeOK
  <2>2. ByUser(u)
    BY <2>1 DEF HamByUser
  <2>3. \A v \in Uid : hamTrain'[v] > 0 => ByUser(v)
    BY <2>1, <2>2 DEF HamByUser, Count, TypeInv, TypeOK
  <2>4. QED
    BY <1>1, <2>1, <2>3 DEF HamByUser
<1>8. ASSUME NEW s \in Scanners,
             ListJunk(s) \/ LogSpam(s) \/ SpamDone(s) \/ LogHam(s) \/ SaveState(s)
      PROVE  HamByUser'
  <2>1. UNCHANGED <<hamTrain, hamWork>>
    BY <1>8 DEF ListJunk, LogSpam, SpamDone, LogHam, SaveState, history
  <2>2. QED
    BY <1>2, <2>1
<1>9. QED
  BY <1>3, <1>4, <1>5, <1>6, <1>7, <1>8 DEF Next, Scan, TrainingStep

(* Unless the daemon had to copy, ham is learned only from what the user    *)
(* took out of Junk, whatever else fails and whoever else scans.            *)
THEOREM HamIsTheUsers ==
  ASSUME "copy" \notin Faults
  PROVE  Spec => []HamMeansRescued
<1>1. Init => TypeInv /\ Fresh /\ HamByUser
  BY TypeInit DEF Init, Fresh, HamByUser
<1>2. TypeInv /\ Fresh /\ HamByUser /\ [Next]_vars => (TypeInv /\ Fresh /\ HamByUser)'
  BY TypeStep, FreshStep, HamStep
<1>3. TypeInv /\ HamByUser => HamMeansRescued
  BY DEF TypeInv, TypeOK, HamByUser, ByUser, HamMeansRescued, Uid
<1>4. QED
  BY <1>1, <1>2, <1>3, PTL DEF Spec

-----------------------------------------------------------------------------
(* SpamOncePerArrival, made inductive: between two training scans the       *)
(* snapshot holds all that was trained on and is still in Junk; during one  *)
(* its listing does, and the UIDs left to do are none of them.              *)
Trained == {j \in junkIn : spamTrain[j] > 0}

Apart ==
  \A s \in Scanners :
    /\ pc[s] \notin {"spam", "spamlog", "ham", "hamlog"} => Trained \subseteq knownUids
    /\ pc[s] \in TrainingPoint => Trained \cup (junkIn \cap knownUids) \subseteq junkList[s]
    /\ pc[s] \in {"spam", "spamlog"} => work[s] \subseteq junkList[s] \ Trained

OneScanner == \A s, t \in Scanners : s = t

(* What is new in Junk has not been trained on and is not known.           *)
LEMMA NewIsUntrained ==
  ASSUME TypeInv, TypeInv', Onward, UNCHANGED <<spamTrain, knownUids>>
  PROVE  /\ Trained' \subseteq Trained
         /\ junkIn' \cap knownUids' \subseteq junkIn \cap knownUids
<1>1. junkIn' \subseteq Uid
  BY DEF TypeInv, TypeOK, Uid
<1>2. /\ knownUids \subseteq DOMAIN junk
      /\ \A j \in Uid : spamTrain[j] > 0 => j \in DOMAIN junk
  BY DEF TypeInv, TypeOK, LocalsOK
<1>3. QED
  BY <1>1, <1>2 DEF Onward, Trained

(* Every step of the only scanner keeps the listing and the trained apart,  *)
(* if listings succeed and scans come to their end.                        *)
LEMMA ApartStep ==
  ASSUME TypeInv, Apart, SpamOncePerArrival, OneScanner,
         Faults \cap {"abort", "list"} = {}, [Next]_vars
  PROVE  Apart' /\ SpamOncePerArrival'
<1>1. Onward /\ TypeInv'
  BY StepOnward, TypeStep
<1>2. CASE Environment \/ UNCHANGED vars
  <2>1. UNCHANGED <<spamTrain, knownUids, pc, work, junkList>>
    BY <1>2, EnvironmentEffect DEF tables, locals, history
  <2>2. /\ Trained' \subseteq Trained
        /\ junkIn' \cap knownUids \subseteq junkIn \cap knownUids
    BY <1>1, <2>1, NewIsUntrained
  <2>3. QED
    BY <2>1, <2>2 DEF Apart, SpamOncePerArrival
<1>3. ASSUME NEW s \in Scanners, StartInboxScan(s) \/ PipelineStep(s)
      PROVE  Apart' /\ SpamOncePerArrival'
  <2>1. /\ UNCHANGED <<spamTrain, knownUids>>
        /\ pc'[s] \notin TrainingPoint
    BY <1>3, PipelineEffect DEF history, PipelinePoint, TrainingPoint
  <2>2. Trained' \subseteq Trained
    BY <1>1, <2>1, NewIsUntrained
  <2>3. pc[s] \notin {"spam", "spamlog", "ham", "hamlog"}
    BY <1>3 DEF StartInboxScan, PipelineStep, FetchUnseen, Leave, RecordMove, UidMove,
                MoveRefused, CopyFallback, StoreDeleted, Expunge, ExpungeFails
  <2>4. Apart'
    BY <2>1, <2>2, <2>3 DEF Apart, OneScanner, TrainingPoint
  <2>5. QED
    BY <2>1, <2>4 DEF SpamOncePerArrival
<1>4. ASSUME NEW s \in Scanners, ListJunk(s) PROVE Apart' /\ SpamOncePerArrival'
  <2>1. /\ UNCHANGED <<spamTrain, knownUids, junkIn>>
        /\ pc[s] = "idle" /\ pc'[s] = "listed" /\ junkList'[s] = junkIn
    BY <1>4 DEF ListJunk, Listing, Goto, server, tables, history, TypeInv, TypeOK
  <2>2. Apart'
    BY <2>1 DEF Apart, OneScanner, Trained
  <2>3. QED
    BY <2>1, <2>2 DEF SpamOncePerArrival
<1>5. ASSUME NEW s \in Scanners, ListInbox(s) PROVE Apart' /\ SpamOncePerArrival'
  <2>1. /\ UNCHANGED <<spamTrain, knownUids, junkIn, junkList>>
        /\ pc[s] = "listed" /\ pc'[s] = "spam" /\ work'[s] = junkList[s] \ knownUids
    BY <1>5 DEF ListInbox, Goto, server, tables, history, TypeInv, TypeOK
  <2>2. Apart'
    BY <2>1 DEF Apart, OneScanner, Trained, TrainingPoint
  <2>3. QED
    BY <2>1, <2>2 DEF SpamOncePerArrival
<1>6. ASSUME NEW s \in Scanners, NEW j \in Uid, NEW u \in Uid,
             \/ SkipDaemonMove(s, j) \/ SkipUnfetched(s, j)
             \/ SkipHam(s, j, u) \/ TrainHam(s, j, u)
      PROVE  Apart' /\ SpamOncePerArrival'
  <2>1. /\ UNCHANGED <<spamTrain, knownUids, junkIn, junkList>>
        /\ work'[s] \subseteq work[s]
        /\ pc[s] \in {"spam", "spamlog", "ham", "hamlog"}
        /\ pc'[s] \in {"spam", "ham", "hamlog"}
        /\ pc'[s] = "spam" => pc[s] \in {"spam", "spamlog"}
    BY <1>6 DEF SkipDaemonMove, SkipUnfetched, SkipHam, TrainHam, Goto, server, tables,
                history, TypeInv, TypeOK
  <2>2. Apart'
    BY <2>1 DEF Apart, OneScanner, Trained, TrainingPoint
  <2>3. QED
    BY <2>1, <2>2 DEF SpamOncePerArrival
<1>7. ASSUME NEW s \in Scanners, NEW j \in Uid, TrainSpam(s, j)
      PROVE  Apart' /\ SpamOncePerArrival'
  <2>1. /\ UNCHANGED <<knownUids, junkIn, junkList>>
        /\ pc[s] = "spam" /\ pc'[s] = "spamlog"
        /\ j \in work[s] /\ j \in junkIn /\ work'[s] = work[s] \ {j}
        /\ spamTrain' = Count(spamTrain, j)
    BY <1>7 DEF TrainSpam, Goto, server, tables, TypeInv, TypeOK
  <2>2. spamTrain[j] = 0 /\ j \in junkList[s]
    BY <2>1 DEF Apart, Trained, TypeInv, TypeOK
  <2>3. spamTrain' = [spamTrain EXCEPT ![j] = 1]
    BY <2>1, <2>2 DEF Count, Many
  <2>4. Trained' \subseteq Trained \cup {j}
    BY <2>1, <2>3 DEF Trained, TypeInv, TypeOK, Uid
  <2>5. Apart'
    BY <2>1, <2>2, <2>4 DEF Apart, OneScanner, TrainingPoint
  <2>6. SpamOncePerArrival'
    BY <2>3 DEF SpamOncePerArrival, TypeInv, TypeOK
  <2>7. QED
    BY <2>5, <2>6
<1>8. ASSUME NEW s \in Scanners, SaveState(s) PROVE Apart' /\ SpamOncePerArrival'
  <2>1. /\ UNCHANGED <<spamTrain, junkIn>>
        /\ pc[s] = "ham" /\ pc'[s] = "idle" /\ knownUids' = junkList[s]
    BY <1>8 DEF SaveState, Goto, server, history, TypeInv, TypeOK
  <2>2. Apart'
    BY <2>1 DEF Apart, OneScanner, Trained, TrainingPoint
  <2>3. QED
    BY <2>1, <2>2 DEF SpamOncePerArrival
<1>9. ASSUME NEW s \in Scanners, LogSpam(s) \/ SpamDone(s) \/ LogHam(s)
      PROVE  Apart' /\ SpamOncePerArrival'
  <2>1. /\ UNCHANGED <<spamTrain, knownUids, junkIn, junkList, work>>
        /\ pc[s] \in {"spam", "spamlog", "hamlog"}
        /\ pc'[s] \in {"spam", "ham"}
        /\ pc'[s] = "spam" => pc[s] \in {"spam", "spamlog"}
    BY <1>9 DEF LogSpam, SpamDone, LogHam, Goto, server, tables, history, TypeInv, TypeOK
  <2>2. Apart'
    BY <2>1 DEF Apart, OneScanner, Trained, TrainingPoint
  <2>3. QED
    BY <2>1, <2>2 DEF SpamOncePerArrival
<1>10. QED
  BY <1>2, <1>3, <1>4, <1>5, <1>6, <1>7, <1>8, <1>9 DEF Next, Scan, TrainingStep, Abort

(* One process at a time, whose listings succeed and whose scans come to    *)
(* their end, trains on no arrival in Junk twice.                          *)
THEOREM OneScannerTrainsOnce ==
  ASSUME OneScanner, Faults \cap {"abort", "list"} = {}
  PROVE  Spec => []SpamOncePerArrival
<1>1. Init => TypeInv /\ Apart /\ SpamOncePerArrival
  BY TypeInit DEF Init, Apart, Trained, SpamOncePerArrival, TrainingPoint
<1>2. TypeInv /\ Apart /\ SpamOncePerArrival /\ [Next]_vars
        => (TypeInv /\ Apart /\ SpamOncePerArrival)'
  BY TypeStep, ApartStep
<1>3. QED
  BY <1>1, <1>2, PTL DEF Spec

-----------------------------------------------------------------------------
(* The end of a scan: how many of its steps are left at most.  A message of *)
(* a pipeline scan takes four, one of a training scan two; a training scan *)
(* does not know its work before it has listed both folders.               *)
Uids == Cardinality(Uid)
Pairs == Cardinality(Uid \X Uid)

StepsOf(p) ==
  CASE p = "idle" -> 0
    [] p \in {"expunge", "ham"} -> 1
    [] p \in {"store", "hamlog", "spam"} -> 2
    [] p \in {"move", "spamlog"} -> 3
    [] p \in {"act", "listed"} -> 4
    [] p = "fetch" -> 5

Distance(p, todo, ham) ==
  IF p = "idle" THEN 0
  ELSE StepsOf(p) + (IF p \in PipelinePoint THEN 4 * Cardinality(todo)
                     ELSE IF p = "listed" THEN 2 * Uids + 2 * Pairs
                     ELSE 2 * Cardinality(todo) + 2 * Cardinality(ham))

Left(s) == Distance(pc[s], work[s], hamWork[s])

(* Until it is over, whatever changes a scan brings it nearer to its end.   *)
Shortens(s) ==
  pc[s] # "idle" =>
    Left(s)' < Left(s) \/ UNCHANGED <<pc[s], work[s], cur[s], junkList[s], hamWork[s]>>

(* The UID a scan moves is still among its work.                           *)
AtHand == \A s \in Scanners : pc[s] \in {"move", "store", "expunge"} => cur[s] \in work[s]

EndInv == TypeInv /\ AtHand

LEMMA UidsFinite ==
  /\ IsFiniteSet(Uid) /\ Uids \in Nat
  /\ IsFiniteSet(Uid \X Uid) /\ Pairs \in Nat
<1>1. IsFiniteSet(Uid)
  BY FS_Interval DEF Uid
<1>2. IsFiniteSet(Uid \X Uid)
  BY <1>1, FS_Product
<1> QED
  BY <1>1, <1>2, FS_CardinalityType DEF Uids, Pairs

LEMMA LocalsFinite ==
  ASSUME TypeOK, NEW s \in Scanners
  PROVE  /\ IsFiniteSet(work[s]) /\ Cardinality(work[s]) \in 0..Uids
         /\ IsFiniteSet(hamWork[s]) /\ Cardinality(hamWork[s]) \in 0..Pairs
<1>1. work[s] \in SUBSET Uid /\ hamWork[s] \in SUBSET (Uid \X Uid)
  BY DEF TypeOK
<1>2. /\ IsFiniteSet(work[s]) /\ Cardinality(work[s]) <= Uids
      /\ IsFiniteSet(hamWork[s]) /\ Cardinality(hamWork[s]) <= Pairs
  BY <1>1, UidsFinite, FS_Subset DEF Uids, Pairs
<1> QED
  BY <1>2, UidsFinite, FS_CardinalityType

LEMMA LeftIsNat ==
  ASSUME TypeOK, NEW s \in Scanners
  PROVE  Left(s) \in Nat /\ (pc[s] # "idle" => Left(s) > 0)
<1>1. /\ Cardinality(work[s]) \in Nat /\ Cardinality(hamWork[s]) \in Nat
      /\ Uids \in Nat /\ Pairs \in Nat
  BY LocalsFinite, UidsFinite
<1>2. StepsOf(pc[s]) \in 0..5 /\ (pc[s] # "idle" => StepsOf(pc[s]) > 0)
  BY DEF TypeOK, StepsOf, PipelinePoint, TrainingPoint
<1> QED
  BY <1>1, <1>2 DEF Left, Distance

(* The scan returns, or turns to a message with one less to do.            *)
LEMMA NextShortens ==
  ASSUME EndInv, NEW s \in Scanners, pc[s] \in {"act", "move", "store", "expunge"},
         NEW u \in work[s], NextMessage(s, work[s] \ {u})
  PROVE  Left(s)' < Left(s)
<1>1. /\ pc'[s] \in {"idle", "act"} /\ work'[s] = work[s] \ {u}
      /\ Cardinality(work[s] \ {u}) = Cardinality(work[s]) - 1
      /\ Cardinality(work[s]) \in Nat /\ Cardinality(work[s] \ {u}) \in Nat
  BY LocalsFinite, FS_RemoveElement, FS_CardinalityType
     DEF NextMessage, Goto, EndInv, TypeInv, TypeOK
<1>2. StepsOf("act") = 4 /\ StepsOf(pc[s]) \in 1..4
  BY DEF StepsOf
<1> QED
  BY <1>1, <1>2 DEF Left, Distance, PipelinePoint

LEMMA PipelineShortens ==
  ASSUME EndInv, NEW s \in Scanners, PipelineStep(s)
  PROVE  Left(s)' < Left(s)
<1> USE DEF EndInv, TypeInv
<1>1. CASE FetchUnseen(s)
  <2>1. PICK got \in SUBSET (work[s] \cap inboxIn) : NextMessage(s, got)
    BY <1>1 DEF FetchUnseen, Fetchable
  <2>2. /\ pc[s] = "fetch" /\ pc'[s] \in {"idle", "act"} /\ work'[s] = got
        /\ Cardinality(got) <= Cardinality(work[s])
        /\ Cardinality(work[s]) \in Nat /\ Cardinality(got) \in Nat
    BY <1>1, <2>1, LocalsFinite, FS_Subset, FS_CardinalityType
       DEF FetchUnseen, NextMessage, Goto, TypeOK
  <2>3. StepsOf("act") = 4 /\ StepsOf("fetch") = 5
    BY DEF StepsOf
  <2> QED
    BY <2>2, <2>3 DEF Left, Distance, PipelinePoint
<1>2. ASSUME NEW u \in Uid, Leave(s, u)
      PROVE  Left(s)' < Left(s)
  BY <1>2, NextShortens DEF Leave
<1>3. ASSUME NEW u \in Uid, RecordMove(s, u) \/ CopyFallback(s) \/ StoreDeleted(s)
      PROVE  Left(s)' < Left(s)
  <2>1. /\ work'[s] = work[s] /\ Cardinality(work[s]) \in Nat
        /\ \/ pc[s] = "act" /\ pc'[s] = "move"
           \/ pc[s] = "move" /\ pc'[s] = "store"
           \/ pc[s] = "store" /\ pc'[s] = "expunge"
    BY <1>3, LocalsFinite DEF RecordMove, CopyFallback, StoreDeleted, Goto, TypeOK
  <2>2. /\ StepsOf("act") = 4 /\ StepsOf("move") = 3
        /\ StepsOf("store") = 2 /\ StepsOf("expunge") = 1
    BY DEF StepsOf
  <2> QED
    BY <2>1, <2>2 DEF Left, Distance, PipelinePoint
<1>4. CASE UidMove(s) \/ MoveRefused(s) \/ Expunge(s) \/ ExpungeFails(s)
  <2>1. pc[s] \in {"move", "store", "expunge"} /\ NextMessage(s, work[s] \ {cur[s]})
    BY <1>4 DEF UidMove, MoveRefused, Expunge, ExpungeFails
  <2>2. cur[s] \in work[s]
    BY <2>1 DEF AtHand
  <2> QED
    BY <2>1, <2>2, NextShortens
<1>5. CASE CopyFallback(s) \/ StoreDeleted(s)
  <2>1. 1 \in Uid
    BY DEF Uid
  <2> QED
    BY <1>3, <1>5, <2>1
<1> QED
  BY <1>1, <1>2, <1>3, <1>4, <1>5 DEF PipelineStep

LEMMA TrainingShortens ==
  ASSUME EndInv, EndInv', NEW s \in Scanners, TrainingStep(s)
  PROVE  Left(s)' < Left(s)
<1> USE DEF EndInv, TypeInv
<1>1. /\ Cardinality(work[s]) \in 0..Uids /\ Cardinality(hamWork[s]) \in 0..Pairs
      /\ Uids \in Nat /\ Pairs \in Nat
      /\ \A j \in work[s] : Cardinality(work[s] \ {j}) = Cardinality(work[s]) - 1
      /\ \A p \in hamWork[s] : Cardinality(hamWork[s] \ {p}) = Cardinality(hamWork[s]) - 1
  BY LocalsFinite, UidsFinite, FS_RemoveElement
<1>2. /\ Cardinality(work'[s]) \in 0..Uids /\ Cardinality(hamWork'[s]) \in 0..Pairs
  <2>1. work'[s] \in SUBSET Uid /\ hamWork'[s] \in SUBSET (Uid \X Uid)
    BY DEF TypeOK
  <2>2. /\ IsFiniteSet(work'[s]) /\ Cardinality(work'[s]) <= Uids
        /\ IsFiniteSet(hamWork'[s]) /\ Cardinality(hamWork'[s]) <= Pairs
    BY <2>1, UidsFinite, FS_Subset DEF Uids, Pairs
  <2> QED
    BY <2>2, UidsFinite, FS_CardinalityType
<1>3. /\ StepsOf("idle") = 0 /\ StepsOf("ham") = 1 /\ StepsOf("hamlog") = 2
      /\ StepsOf("spam") = 2 /\ StepsOf("spamlog") = 3 /\ StepsOf("listed") = 4
  BY DEF StepsOf
<1>4. CASE ListInbox(s)
  <2>1. pc[s] = "listed" /\ pc'[s] = "spam"
    BY <1>4 DEF ListInbox, Goto, TypeOK
  <2> QED
    BY <1>1, <1>2, <1>3, <2>1 DEF Left, Distance, PipelinePoint
<1>5. ASSUME NEW j \in Uid, SkipDaemonMove(s, j) \/ SkipUnfetched(s, j) \/ TrainSpam(s, j)
      PROVE  Left(s)' < Left(s)
  <2>1. /\ j \in work[s] /\ work'[s] = work[s] \ {j} /\ hamWork' = hamWork
        /\ pc[s] = "spam" /\ pc'[s] \in {"spam", "spamlog"}
    BY <1>5 DEF SkipDaemonMove, SkipUnfetched, TrainSpam, Goto, TypeOK
  <2>2. Cardinality(work'[s]) = Cardinality(work[s]) - 1
    BY <1>1, <2>1
  <2> QED
    BY <1>1, <1>2, <1>3, <2>1, <2>2 DEF Left, Distance, PipelinePoint
<1>6. CASE LogSpam(s) \/ SpamDone(s) \/ LogHam(s)
  <2>1. /\ work' = work /\ hamWork' = hamWork
        /\ \/ pc[s] = "spamlog" /\ pc'[s] = "spam"
           \/ pc[s] = "spam" /\ pc'[s] = "ham"
           \/ pc[s] = "hamlog" /\ pc'[s] = "ham"
    BY <1>6 DEF LogSpam, SpamDone, LogHam, Goto, TypeOK
  <2> QED
    BY <1>1, <1>3, <2>1 DEF Left, Distance, PipelinePoint
<1>7. ASSUME NEW j \in Uid, NEW u \in Uid, SkipHam(s, j, u) \/ TrainHam(s, j, u)
      PROVE  Left(s)' < Left(s)
  <2>1. /\ <<j, u>> \in hamWork[s] /\ hamWork'[s] = hamWork[s] \ {<<j, u>>} /\ work' = work
        /\ pc[s] = "ham" /\ pc'[s] \in {"ham", "hamlog"}
    BY <1>7 DEF SkipHam, TrainHam, Goto, TypeOK
  <2>2. Cardinality(hamWork'[s]) = Cardinality(hamWork[s]) - 1
    BY <1>1, <2>1
  <2> QED
    BY <1>1, <1>2, <1>3, <2>1, <2>2 DEF Left, Distance, PipelinePoint
<1>8. CASE SaveState(s)
  <2>1. pc[s] = "ham" /\ pc'[s] = "idle"
    BY <1>8 DEF SaveState, Goto, TypeOK
  <2> QED
    BY <2>1, LeftIsNat DEF Left, Distance
<1> QED
  BY <1>4, <1>5, <1>6, <1>7, <1>8 DEF TrainingStep

LEMMA OthersKeep ==
  ASSUME TypeOK, NEW s \in Scanners, NEW t \in Scanners, s # t, Scan(t) \/ Abort(t)
  PROVE  UNCHANGED <<pc[s], work[s], cur[s], junkList[s], hamWork[s]>>
<1>1. CASE Abort(t) \/ StartInboxScan(t) \/ ListJunk(t)
  BY <1>1 DEF Abort, StartInboxScan, ListJunk, Goto, TypeOK
<1>2. CASE PipelineStep(t)
  BY <1>2 DEF PipelineStep, FetchUnseen, Leave, RecordMove, UidMove, MoveRefused, CopyFallback,
     StoreDeleted, Expunge, ExpungeFails, NextMessage, Goto, TypeOK
<1>3. CASE TrainingStep(t)
  BY <1>3 DEF TrainingStep, ListInbox, SkipDaemonMove, SkipUnfetched, TrainSpam, LogSpam,
     SpamDone, SkipHam, TrainHam, LogHam, SaveState, Goto, TypeOK
<1> QED
  BY <1>1, <1>2, <1>3 DEF Scan

LEMMA AtHandStep ==
  ASSUME EndInv, [Next]_vars
  PROVE  AtHand'
<1> USE DEF EndInv, TypeInv
<1> SUFFICES ASSUME NEW s \in Scanners, pc'[s] \in {"move", "store", "expunge"}
             PROVE  cur'[s] \in work'[s]
  BY DEF AtHand
<1>1. CASE Environment \/ UNCHANGED vars
  <2>1. UNCHANGED locals
    BY <1>1 DEF Environment, Deliver, GatewayJunks, UserJunks, UserReads, UserDeletesFromInbox,
       UserRescues, UserDeletesFromJunk, vars
  <2> QED
    BY <2>1 DEF locals, AtHand
<1>2. ASSUME NEW t \in Scanners, t # s, Scan(t) \/ Abort(t)
      PROVE  cur'[s] \in work'[s]
  BY <1>2, OthersKeep DEF AtHand
<1>3. CASE Scan(s) \/ Abort(s)
  <2>1. ~ TrainingStep(s)
    BY DEF TrainingStep, ListInbox, SkipDaemonMove, SkipUnfetched, TrainSpam, LogSpam,
       SpamDone, SkipHam, TrainHam, LogHam, SaveState, Goto, TypeOK
  <2>2. ~ (StartInboxScan(s) \/ ListJunk(s) \/ Abort(s))
    BY DEF StartInboxScan, ListJunk, Abort, Goto, TypeOK
  <2>3. \A rest : ~ NextMessage(s, rest)
    BY DEF NextMessage, Goto, TypeOK
  <2>4. (\E u \in Uid : RecordMove(s, u)) \/ CopyFallback(s) \/ StoreDeleted(s)
    BY <1>3, <2>1, <2>2, <2>3 DEF Scan, PipelineStep, FetchUnseen, Leave, UidMove, MoveRefused,
       Expunge, ExpungeFails
  <2> QED
    BY <2>4 DEF RecordMove, CopyFallback, StoreDeleted, AtHand, TypeOK
<1> QED
  BY <1>1, <1>2, <1>3 DEF Next

(* Every scan of the pipeline or of the training idler comes to its end,    *)
(* since it lists the folders once (pipeline.py, process_account;           *)
(* training.py, scan_account): no arrival, no move of the user and no other *)
(* scan adds to its work, and no failure makes it repeat a message.        *)
THEOREM ScansWearOut ==
  Spec => [](\A s \in Scanners : Left(s) \in Nat)
          /\ [][\A s \in Scanners : Shortens(s)]_vars
<1>1. Init => EndInv
  BY TypeInit DEF Init, EndInv, AtHand
<1>2. EndInv /\ [Next]_vars => EndInv'
  BY TypeStep, AtHandStep DEF EndInv
<1>3. EndInv => \A s \in Scanners : Left(s) \in Nat
  BY LeftIsNat DEF EndInv, TypeInv
<1>4. EndInv /\ EndInv' /\ [Next]_vars => [\A s \in Scanners : Shortens(s)]_vars
  <2> SUFFICES ASSUME EndInv, EndInv', Next, NEW s \in Scanners, pc[s] # "idle"
               PROVE  \/ Left(s)' < Left(s)
                      \/ UNCHANGED <<pc[s], work[s], cur[s], junkList[s], hamWork[s]>>
    BY DEF Shortens
  <2>1. CASE Environment
    BY <2>1 DEF Environment, Deliver, GatewayJunks, UserJunks, UserReads, UserDeletesFromInbox,
       UserRescues, UserDeletesFromJunk, locals
  <2>2. ASSUME NEW t \in Scanners, t # s, Scan(t) \/ Abort(t)
        PROVE  UNCHANGED <<pc[s], work[s], cur[s], junkList[s], hamWork[s]>>
    BY <2>2, OthersKeep DEF EndInv, TypeInv
  <2>3. CASE Scan(s)
    <3>1. ~ (StartInboxScan(s) \/ ListJunk(s))
      BY DEF StartInboxScan, ListJunk
    <3> QED
      BY <2>3, <3>1, PipelineShortens, TrainingShortens DEF Scan
  <2>4. CASE Abort(s)
    <3>1. pc'[s] = "idle"
      BY <2>4 DEF Abort, Goto, EndInv, TypeInv, TypeOK
    <3> QED
      BY <3>1, LeftIsNat DEF EndInv, TypeInv, Left, Distance
  <2> QED
    BY <2>1, <2>2, <2>3, <2>4 DEF Next
<1> QED
  BY <1>1, <1>2, <1>3, <1>4, PTL DEF Spec

=============================================================================
