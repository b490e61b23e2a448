------------------------------ MODULE SpamLoop ------------------------------
(***************************************************************************)
(* One account's two-signal spam loop: the classification pipeline          *)
(* (mailwatch/pipeline.py) moves suspected spam from INBOX to Junk and      *)
(* notes each move in daemon_moves, the training idler                      *)
(* (mailwatch/training.py) learns from what it finds in Junk and from what  *)
(* went back to INBOX.  Between any two IMAP or SQLite calls of a scan the  *)
(* mail server delivers and the user moves, reads or deletes messages, and  *)
(* the scan may die.                                                        *)
(*                                                                         *)
(* A folder is the sequence of its arrivals: the position is the UID, which *)
(* RFC 3501 assigns in ascending order and never reuses, so that a UID      *)
(* denotes the same message for ever.  xxxIn is the set of UIDs still       *)
(* there.  UIDVALIDITY never changes (the code ignores it).                 *)
(***************************************************************************)
EXTENDS Naturals, Sequences, FiniteSets

CONSTANTS
  Messages,   \* every message that can ever arrive
  HasId,      \* those with a Message-ID header (unique to the message)
  Scanners,   \* processes that scan the account: the daemon, a `run --once`
  Faults,     \* the failures that may happen, out of FaultKinds
  MaxUid      \* bound: at most this many arrivals in each folder

FaultKinds == {"abort", "list", "fetch", "refuse", "copy"}

ASSUME SpamLoopAssumption ==
  /\ HasId \subseteq Messages
  /\ HasId \cap Nat = {}    \* a Message-ID does not read like a UID
  /\ Faults \subseteq FaultKinds
  /\ MaxUid \in Nat \ {0}

VARIABLES
  inbox, inboxIn, unseen,   \* INBOX: arrivals, UIDs present, UIDs without \Seen
  flagged,                  \* INBOX: UIDs that were given \Deleted
  junk, junkIn,             \* Junk: arrivals, UIDs present
  junkFlagged,              \* Junk: UIDs that came with \Deleted
  daemonMoves,              \* daemon_moves table: the INBOX UIDs recorded
  knownUids,                \* folder_state.known_uids of Junk
  feedback,                 \* spam_feedback table: <<source, message key>>
  pc, work, cur,            \* per scan: control point, UIDs to do, UID in hand
  junkList, hamWork,        \* per scan: current_junk, <<Junk UID, INBOX UID>> to do
  spamTrain, hamTrain,      \* history: trainer.report calls per Junk/INBOX UID
  deleted                   \* history: messages the user deleted somewhere

server == <<inbox, inboxIn, unseen, flagged, junk, junkIn, junkFlagged, deleted>>
tables == <<daemonMoves, knownUids, feedback>>
locals == <<pc, work, cur, junkList, hamWork>>
history == <<spamTrain, hamTrain>>
vars == <<server, tables, locals, history>>

Uid == 1..MaxUid
InboxArrival == [msg : Messages, by : {"delivery", "user"}]
JunkArrival == [msg : Messages, by : {"gateway", "user", "daemon"}]
Source == {"junk_idler", "junk_to_inbox"}
PipelinePoint == {"fetch", "act", "move", "store", "expunge"}
TrainingPoint == {"listed", "spam", "spamlog", "ham", "hamlog"}
None == 0   \* no UID in hand
Many == 2   \* the history counters saturate: 2 stands for "more than once"

Arrived == {inbox[u].msg : u \in DOMAIN inbox} \cup {junk[j].msg : j \in DOMAIN junk}

(* The message_id column: the header, or str(uid) when there is none.      *)
MoveKey(u) == IF inbox[u].msg \in HasId THEN inbox[u].msg ELSE u
JunkKey(j) == IF junk[j].msg \in HasId THEN junk[j].msg ELSE j

(* Mutant of IsDaemonMove: UIDs only, as if a MOVE kept them.              *)
IsDaemonUid(j) == j \in daemonMoves

(* By Message-ID when the message has one, else, and also when that finds  *)
(* nothing, by comparing its Junk UID with the recorded INBOX UIDs.        *)
IsDaemonMove(j) ==
  \/ junk[j].msg \in HasId /\ \E u \in daemonMoves : MoveKey(u) = junk[j].msg
  \/ j \in daemonMoves

Init ==
  /\ inbox = <<>> /\ inboxIn = {} /\ unseen = {} /\ flagged = {}
  /\ junk = <<>> /\ junkIn = {} /\ junkFlagged = {}
  /\ daemonMoves = {} /\ knownUids = {} /\ feedback = {}
  /\ pc = [s \in Scanners |-> "idle"]
  /\ work = [s \in Scanners |-> {}]
  /\ cur = [s \in Scanners |-> None]
  /\ junkList = [s \in Scanners |-> {}]
  /\ hamWork = [s \in Scanners |-> {}]
  /\ spamTrain = [j \in Uid |-> 0]
  /\ hamTrain = [u \in Uid |-> 0]
  /\ deleted = {}

-----------------------------------------------------------------------------
(* The mail server and the user.                                           *)

AddToInbox(m, by, flag) ==
  /\ Len(inbox) < MaxUid
  /\ inbox' = Append(inbox, [msg |-> m, by |-> by])
  /\ inboxIn' = inboxIn \cup {Len(inbox) + 1}
  /\ flagged' = IF flag THEN flagged \cup {Len(inbox) + 1} ELSE flagged

AddToJunk(m, by, flag) ==
  /\ Len(junk) < MaxUid
  /\ junk' = Append(junk, [msg |-> m, by |-> by])
  /\ junkIn' = junkIn \cup {Len(junk) + 1}
  /\ junkFlagged' = IF flag THEN junkFlagged \cup {Len(junk) + 1} ELSE junkFlagged

Deliver(m) ==
  /\ m \notin Arrived
  /\ AddToInbox(m, "delivery", FALSE)
  /\ unseen' = unseen \cup {Len(inbox) + 1}
  /\ UNCHANGED <<junk, junkIn, junkFlagged, deleted, tables, locals, history>>

GatewayJunks(m) ==
  /\ m \notin Arrived
  /\ AddToJunk(m, "gateway", FALSE)
  /\ UNCHANGED <<inbox, inboxIn, unseen, flagged, deleted, tables, locals, history>>

(* A copied or moved message keeps its flags (RFC 3501, 6851).             *)
UserJunks(u) ==
  /\ u \in inboxIn
  /\ AddToJunk(inbox[u].msg, "user", u \in flagged)
  /\ inboxIn' = inboxIn \ {u}
  /\ unseen' = unseen \ {u}
  /\ UNCHANGED <<inbox, flagged, deleted, tables, locals, history>>

(* "Not spam": the message may or may not have been read in Junk.          *)
UserRescues(j) ==
  /\ j \in junkIn
  /\ AddToInbox(junk[j].msg, "user", j \in junkFlagged)
  /\ unseen' \in {unseen, unseen \cup {Len(inbox) + 1}}
  /\ junkIn' = junkIn \ {j}
  /\ UNCHANGED <<junk, junkFlagged, deleted, tables, locals, history>>

UserReads(u) ==
  /\ u \in unseen
  /\ unseen' = unseen \ {u}
  /\ UNCHANGED <<inbox, inboxIn, flagged, junk, junkIn, junkFlagged, deleted, tables, locals, history>>

(* The message is gone, or flagged for the next EXPUNGE.                   *)
UserDeletesFromInbox(u) ==
  /\ u \in inboxIn
  /\ \/ inboxIn' = inboxIn \ {u} /\ unseen' = unseen \ {u} /\ UNCHANGED flagged
     \/ flagged' = flagged \cup {u} /\ UNCHANGED <<inboxIn, unseen>>
  /\ deleted' = deleted \cup {inbox[u].msg}
  /\ UNCHANGED <<inbox, junk, junkIn, junkFlagged, tables, locals, history>>

UserDeletesFromJunk(j) ==
  /\ j \in junkIn
  /\ junkIn' = junkIn \ {j}
  /\ deleted' = deleted \cup {junk[j].msg}
  /\ UNCHANGED <<inbox, inboxIn, unseen, flagged, junk, junkFlagged, tables, locals, history>>

-----------------------------------------------------------------------------
(* A scan ends: it returns, raises, or its process is killed.              *)

Goto(s, point) == pc' = [pc EXCEPT ![s] = point]

Abort(s) ==
  /\ "abort" \in Faults
  /\ pc[s] # "idle"
  /\ Goto(s, "idle")
  /\ work' = [work EXCEPT ![s] = {}]
  /\ hamWork' = [hamWork EXCEPT ![s] = {}]
  /\ junkList' = [junkList EXCEPT ![s] = {}]
  /\ cur' = [cur EXCEPT ![s] = None]
  /\ UNCHANGED <<server, tables, history>>

-----------------------------------------------------------------------------
(* pipeline.process_account                                                *)

StartInboxScan(s) ==
  /\ pc[s] = "idle"
  /\ unseen # {}
  /\ work' = [work EXCEPT ![s] = unseen]
  /\ Goto(s, "fetch")
  /\ UNCHANGED <<cur, junkList, hamWork, server, tables, history>>

(* A failed FETCH chunk or an unparsable message drops UIDs silently.      *)
Fetchable(uids) == IF "fetch" \in Faults THEN SUBSET uids ELSE {uids}

(* Go on with the remaining messages of the scan, or return.               *)
NextMessage(s, rest) ==
  /\ work' = [work EXCEPT ![s] = rest]
  /\ cur' = [cur EXCEPT ![s] = None]
  /\ Goto(s, IF rest = {} THEN "idle" ELSE "act")

FetchUnseen(s) ==
  /\ pc[s] = "fetch"
  /\ \E got \in Fetchable(work[s] \cap inboxIn) : NextMessage(s, got)
  /\ UNCHANGED <<junkList, hamWork, server, tables, history>>

(* Not spam, dry run, or the classifier raised: only the audit log knows.  *)
Leave(s, u) ==
  /\ pc[s] = "act" /\ u \in work[s]
  /\ NextMessage(s, work[s] \ {u})
  /\ UNCHANGED <<junkList, hamWork, server, tables, history>>

(* Mutants of RecordMove: nothing is recorded; the UID the message is going *)
(* to have in Junk is recorded.                                            *)
MoveUnrecorded(s, u) ==
  /\ pc[s] = "act" /\ u \in work[s]
  /\ cur' = [cur EXCEPT ![s] = u]
  /\ Goto(s, "move")
  /\ UNCHANGED <<work, junkList, hamWork, server, tables, history>>

RecordJunkUid(s, u) ==
  /\ pc[s] = "act" /\ u \in work[s]
  /\ daemonMoves' = daemonMoves \cup {Len(junk) + 1}
  /\ cur' = [cur EXCEPT ![s] = u]
  /\ Goto(s, "move")
  /\ UNCHANGED <<work, junkList, hamWork, server, knownUids, feedback, history>>

(* Spam: _record_daemon_move commits the row before the IMAP MOVE.         *)
RecordMove(s, u) ==
  /\ pc[s] = "act" /\ u \in work[s]
  /\ daemonMoves' = daemonMoves \cup {u}
  /\ cur' = [cur EXCEPT ![s] = u]
  /\ Goto(s, "move")
  /\ UNCHANGED <<work, junkList, hamWork, server, knownUids, feedback, history>>

(* What MOVE and COPY put into Junk: nothing when the UID is gone, and      *)
(* that is OK too.                                                         *)
CopyToJunk(s) ==
  IF cur[s] \in inboxIn
    THEN AddToJunk(inbox[cur[s]].msg, "daemon", cur[s] \in flagged)
    ELSE UNCHANGED <<junk, junkIn, junkFlagged>>

(* Mutant of UidMove: the message is copied and stays in INBOX.            *)
UidCopy(s) ==
  /\ pc[s] = "move"
  /\ CopyToJunk(s)
  /\ NextMessage(s, work[s] \ {cur[s]})
  /\ UNCHANGED <<inbox, inboxIn, unseen, flagged, deleted, junkList, hamWork, tables, history>>

(* UID MOVE is atomic.  The reply may be lost: then COPY raises on the      *)
(* dead connection and the scan ends, as in Abort.                         *)
UidMove(s) ==
  /\ pc[s] = "move"
  /\ CopyToJunk(s)
  /\ inboxIn' = inboxIn \ {cur[s]}
  /\ unseen' = unseen \ {cur[s]}
  /\ NextMessage(s, work[s] \ {cur[s]})
  /\ UNCHANGED <<inbox, flagged, deleted, junkList, hamWork, tables, history>>

(* MOVE and COPY both refused: "move_failed"; the row stays.               *)
MoveRefused(s) ==
  /\ "refuse" \in Faults
  /\ pc[s] = "move"
  /\ NextMessage(s, work[s] \ {cur[s]})
  /\ UNCHANGED <<junkList, hamWork, server, tables, history>>

(* Mutant of CopyFallback: a refused COPY does not stop the removal.       *)
CopyUnchecked(s) ==
  /\ "copy" \in Faults
  /\ pc[s] = "move"
  /\ Goto(s, "store")
  /\ UNCHANGED <<server, work, cur, junkList, hamWork, tables, history>>

(* MOVE refused: COPY, then STORE \Deleted and EXPUNGE.                    *)
CopyFallback(s) ==
  /\ "copy" \in Faults
  /\ pc[s] = "move"
  /\ CopyToJunk(s)
  /\ Goto(s, "store")
  /\ UNCHANGED <<inbox, inboxIn, unseen, flagged, deleted, work, cur, junkList, hamWork, tables, history>>

(* STORE: its reply is not looked at, OK or NO.                            *)
StoreDeleted(s) ==
  /\ pc[s] = "store"
  /\ flagged' \in {flagged, flagged \cup ({cur[s]} \cap inboxIn)}
  /\ Goto(s, "expunge")
  /\ UNCHANGED <<inbox, inboxIn, unseen, junk, junkIn, junkFlagged, deleted>>
  /\ UNCHANGED <<work, cur, junkList, hamWork, tables, history>>

(* EXPUNGE takes every flagged message, whoever flagged it.                *)
Expunge(s) ==
  /\ pc[s] = "expunge"
  /\ inboxIn' = inboxIn \ flagged
  /\ unseen' = unseen \ flagged
  /\ NextMessage(s, work[s] \ {cur[s]})
  /\ UNCHANGED <<inbox, flagged, junk, junkIn, junkFlagged, deleted, junkList, hamWork, tables, history>>

(* STORE or EXPUNGE raised, or EXPUNGE was answered NO: flags stay.        *)
ExpungeFails(s) ==
  /\ pc[s] \in {"store", "expunge"}
  /\ NextMessage(s, work[s] \ {cur[s]})
  /\ UNCHANGED <<junkList, hamWork, server, tables, history>>

-----------------------------------------------------------------------------
(* training.scan_account                                                   *)

(* fetch_message_ids: the folder's contents, or nothing when it fails.     *)
Listing(uids) == IF "list" \in Faults THEN {uids, {}} ELSE {uids}

ListJunk(s) ==
  /\ pc[s] = "idle"
  /\ \E got \in Listing(junkIn) : junkList' = [junkList EXCEPT ![s] = got]
  /\ Goto(s, "listed")
  /\ UNCHANGED <<work, cur, hamWork, server, tables, history>>

(* inbox_uids maps a Message-ID to the last UID listed with it.            *)
Rescued(known, listed, found) ==
  {p \in (known \ listed) \X found :
     /\ junk[p[1]].msg = inbox[p[2]].msg
     /\ junk[p[1]].msg \in HasId
     /\ \A v \in found : inbox[v].msg = inbox[p[2]].msg => v <= p[2]}

(* Mutant of ListInbox: the stored snapshot does not limit what is trained. *)
TrainAllListed(s) ==
  /\ pc[s] = "listed"
  /\ work' = [work EXCEPT ![s] = junkList[s]]
  /\ \E found \in Listing(inboxIn) :
       hamWork' = [hamWork EXCEPT ![s] = Rescued(knownUids, junkList[s], found)]
  /\ Goto(s, "spam")
  /\ UNCHANGED <<cur, junkList, server, tables, history>>

(* Then list INBOX and load the stored snapshot: what is new in Junk, and  *)
(* what left it for INBOX, is settled here.                                *)
ListInbox(s) ==
  /\ pc[s] = "listed"
  /\ work' = [work EXCEPT ![s] = junkList[s] \ knownUids]
  /\ \E found \in Listing(inboxIn) :
       hamWork' = [hamWork EXCEPT ![s] = Rescued(knownUids, junkList[s], found)]
  /\ Goto(s, "spam")
  /\ UNCHANGED <<cur, junkList, server, tables, history>>

SkipDaemonMove(s, j) ==
  /\ pc[s] = "spam" /\ j \in work[s]
  /\ IsDaemonMove(j)
  /\ work' = [work EXCEPT ![s] = @ \ {j}]
  /\ UNCHANGED <<pc, cur, junkList, hamWork, server, tables, history>>

(* Mutant of SkipUnfetched: the feedback row is written all the same.      *)
LogUnfetched(s, j) ==
  /\ pc[s] = "spam" /\ j \in work[s]
  /\ ~IsDaemonMove(j)
  /\ j \notin junkIn \/ "fetch" \in Faults
  /\ cur' = [cur EXCEPT ![s] = j]
  /\ work' = [work EXCEPT ![s] = @ \ {j}]
  /\ Goto(s, "spamlog")
  /\ UNCHANGED <<junkList, hamWork, server, tables, history>>

(* _fetch_text found nothing: the message is passed over.                  *)
SkipUnfetched(s, j) ==
  /\ pc[s] = "spam" /\ j \in work[s]
  /\ ~IsDaemonMove(j)
  /\ j \notin junkIn \/ "fetch" \in Faults
  /\ work' = [work EXCEPT ![s] = @ \ {j}]
  /\ UNCHANGED <<pc, cur, junkList, hamWork, server, tables, history>>

Count(f, uid) == [f EXCEPT ![uid] = IF @ < Many THEN @ + 1 ELSE @]

TrainSpam(s, j) ==
  /\ pc[s] = "spam" /\ j \in work[s]
  /\ ~IsDaemonMove(j)
  /\ j \in junkIn
  /\ spamTrain' = Count(spamTrain, j)
  /\ cur' = [cur EXCEPT ![s] = j]
  /\ work' = [work EXCEPT ![s] = @ \ {j}]
  /\ Goto(s, "spamlog")
  /\ UNCHANGED <<junkList, hamWork, server, tables, hamTrain>>

(* _log_feedback inserts the row unless it is there.                       *)
LogSpam(s) ==
  /\ pc[s] = "spamlog"
  /\ feedback' = feedback \cup {<<"junk_idler", JunkKey(cur[s])>>}
  /\ cur' = [cur EXCEPT ![s] = None]
  /\ Goto(s, "spam")
  /\ UNCHANGED <<work, junkList, hamWork, server, daemonMoves, knownUids, history>>

SpamDone(s) ==
  /\ pc[s] = "spam" /\ work[s] = {}
  /\ Goto(s, "ham")
  /\ UNCHANGED <<work, cur, junkList, hamWork, server, tables, history>>

SkipHam(s, j, u) ==
  /\ pc[s] = "ham" /\ <<j, u>> \in hamWork[s]
  /\ u \notin inboxIn \/ "fetch" \in Faults
  /\ hamWork' = [hamWork EXCEPT ![s] = @ \ {<<j, u>>}]
  /\ UNCHANGED <<pc, work, cur, junkList, server, tables, history>>

TrainHam(s, j, u) ==
  /\ pc[s] = "ham" /\ <<j, u>> \in hamWork[s]
  /\ u \in inboxIn
  /\ hamTrain' = Count(hamTrain, u)
  /\ cur' = [cur EXCEPT ![s] = u]
  /\ hamWork' = [hamWork EXCEPT ![s] = @ \ {<<j, u>>}]
  /\ Goto(s, "hamlog")
  /\ UNCHANGED <<work, junkList, server, tables, spamTrain>>

LogHam(s) ==
  /\ pc[s] = "hamlog"
  /\ feedback' = feedback \cup {<<"junk_to_inbox", MoveKey(cur[s])>>}
  /\ cur' = [cur EXCEPT ![s] = None]
  /\ Goto(s, "ham")
  /\ UNCHANGED <<work, junkList, hamWork, server, daemonMoves, knownUids, history>>

(* Mutant of SaveState: what is in Junk by now is stored, not what was      *)
(* listed and examined.                                                    *)
SaveCurrent(s) ==
  /\ pc[s] = "ham" /\ hamWork[s] = {}
  /\ knownUids' = junkIn
  /\ junkList' = [junkList EXCEPT ![s] = {}]
  /\ Goto(s, "idle")
  /\ UNCHANGED <<work, cur, hamWork, server, daemonMoves, feedback, history>>

SaveState(s) ==
  /\ pc[s] = "ham" /\ hamWork[s] = {}
  /\ knownUids' = junkList[s]
  /\ junkList' = [junkList EXCEPT ![s] = {}]
  /\ Goto(s, "idle")
  /\ UNCHANGED <<work, cur, hamWork, server, daemonMoves, feedback, history>>

-----------------------------------------------------------------------------
Environment ==
  \/ \E m \in Messages : Deliver(m) \/ GatewayJunks(m)
  \/ \E u \in Uid : UserJunks(u) \/ UserReads(u) \/ UserDeletesFromInbox(u)
  \/ \E j \in Uid : UserRescues(j) \/ UserDeletesFromJunk(j)

PipelineStep(s) ==
  \/ FetchUnseen(s)
  \/ \E u \in Uid : Leave(s, u) \/ RecordMove(s, u)
  \/ UidMove(s) \/ MoveRefused(s)
  \/ CopyFallback(s) \/ StoreDeleted(s) \/ Expunge(s) \/ ExpungeFails(s)

TrainingStep(s) ==
  \/ ListInbox(s)
  \/ \E j \in Uid : SkipDaemonMove(s, j) \/ SkipUnfetched(s, j) \/ TrainSpam(s, j)
  \/ LogSpam(s) \/ SpamDone(s)
  \/ \E j, u \in Uid : SkipHam(s, j, u) \/ TrainHam(s, j, u)
  \/ LogHam(s) \/ SaveState(s)

Scan(s) == StartInboxScan(s) \/ PipelineStep(s) \/ ListJunk(s) \/ TrainingStep(s)

Next == Environment \/ \E s \in Scanners : Scan(s) \/ Abort(s)

Spec == Init /\ [][Next]_vars

(* The scheduler threads start a scan every interval for ever, and a scan  *)
(* that runs goes on.  Training competes with the pipeline for the account *)
(* lock, hence strong fairness; users and the server owe nothing.          *)
Fairness ==
  \A s \in Scanners : /\ WF_vars(PipelineStep(s))
                      /\ WF_vars(TrainingStep(s))
                      /\ SF_vars(ListJunk(s))

FairSpec == Spec /\ Fairness

-----------------------------------------------------------------------------
(* Properties.                                                             *)

(* Every variable holds what its column, dict or local holds; UIDs present *)
(* or recorded have been assigned.                                         *)
TypeOK ==
  /\ inbox \in Seq(InboxArrival) /\ Len(inbox) <= MaxUid
  /\ junk \in Seq(JunkArrival) /\ Len(junk) <= MaxUid
  /\ inboxIn \subseteq DOMAIN inbox /\ unseen \subseteq inboxIn
  /\ flagged \subseteq DOMAIN inbox
  /\ junkIn \subseteq DOMAIN junk /\ junkFlagged \subseteq DOMAIN junk
  /\ daemonMoves \subseteq DOMAIN inbox
  /\ knownUids \subseteq DOMAIN junk
  /\ feedback \subseteq Source \X (HasId \cup Uid)
  /\ pc \in [Scanners -> {"idle"} \cup PipelinePoint \cup TrainingPoint]
  /\ work \in [Scanners -> SUBSET Uid]
  /\ cur \in [Scanners -> Uid \cup {None}]
  /\ junkList \in [Scanners -> SUBSET DOMAIN junk]
  /\ hamWork \in [Scanners -> SUBSET (Uid \X Uid)]
  /\ spamTrain \in [Uid -> 0..Many]
  /\ hamTrain \in [Uid -> 0..Many]
  /\ deleted \subseteq Messages

(* A message the daemon put into Junk is in daemon_moves, wherever a crash *)
(* falls between the INSERT, the MOVE (or COPY) and the next scan.         *)
RecordedBeforeMoved ==
  \A j \in DOMAIN junk :
    junk[j].by = "daemon" => \E u \in daemonMoves : inbox[u].msg = junk[j].msg

(* The bias guard: a message with a Message-ID that the daemon itself moved *)
(* into Junk is never fed to the trainer as spam.                          *)
BiasGuard ==
  \A j \in DOMAIN junk :
    junk[j].msg \in HasId /\ spamTrain[j] > 0 => junk[j].by # "daemon"

(* No Junk arrival enters the stored snapshot unexamined: while it is in   *)
(* Junk, a known UID was trained on or passed for a daemon move.  Later    *)
(* scans skip known UIDs, so one that slips in is never learned from.      *)
KnownMeansSettled ==
  \A j \in knownUids \cap junkIn : spamTrain[j] > 0 \/ IsDaemonMove(j)

(* However often the idler scans while the user moves messages about, an   *)
(* arrival in Junk is trained on at most once.                             *)
SpamOncePerArrival == \A j \in Uid : spamTrain[j] <= 1

(* Ham is learned only from a message the user took out of Junk: the       *)
(* reappearance in INBOX is the user's verdict and no artefact of the      *)
(* daemon's own moves or of listing the two folders at different times.    *)
HamMeansRescued ==
  \A u \in DOMAIN inbox : hamTrain[u] > 0 => inbox[u].by = "user"

(* A row of spam_feedback never speaks of training that did not take place. *)
FeedbackIsTrue ==
  \A m \in HasId :
    /\ <<"junk_idler", m>> \in feedback =>
         \E j \in DOMAIN junk : junk[j].msg = m /\ spamTrain[j] > 0
    /\ <<"junk_to_inbox", m>> \in feedback =>
         \E u \in DOMAIN inbox : inbox[u].msg = m /\ hamTrain[u] > 0

(* Whatever fails in the middle of a move, a message the user did not      *)
(* delete is in INBOX or in Junk.                                          *)
NoMailLost ==
  \A m \in Arrived \ deleted :
    \/ \E u \in inboxIn : inbox[u].msg = m
    \/ \E j \in junkIn : junk[j].msg = m

(* What stays in Junk is eventually learned from, or recognised as the     *)
(* daemon's own move.                                                      *)
JunkIsLearned ==
  \A j \in Uid :
    j \in junkIn ~> (j \notin junkIn \/ spamTrain[j] > 0 \/ IsDaemonMove(j))

=============================================================================
