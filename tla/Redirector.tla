----------------------------- MODULE Redirector -----------------------------
(***************************************************************************)
(* mailwatch/redirector.py: every message found in an account's source      *)
(* folder is appended to a mailbox of another account, then deleted from    *)
(* the source or archived.  It runs from the IDLE callback of the source    *)
(* folder and from the catch-up loop (watcher.py), which share the          *)
(* account's lock, and from `run --once`, another process, which does not.  *)
(* Each IMAP command is a step; a failure may hit any of them.             *)
(***************************************************************************)
EXTENDS Naturals, FiniteSets

CONSTANTS
  Messages,    \* messages the user may drop into the source folder, once each
  Threads,     \* threads of the daemon that redirect: IDLE callback, catch-up
  Others,      \* other processes that redirect: `run --once`
  Archivers,   \* workers whose process was started with an after_move_folder
  MaxFaults,   \* bound: failures in a behaviour
  MaxRuns,     \* bound: scans by other processes
  NoOne        \* the holder of a free lock

Workers == Threads \cup Others

ASSUME RedirectorAssumption ==
  /\ Archivers \subseteq Workers
  /\ MaxFaults \in Nat /\ MaxRuns \in Nat
  /\ NoOne \notin Workers

VARIABLES
  source, flagged,   \* source folder: messages present, those with \Deleted
  archive,           \* after_move_folder
  dest,              \* [Messages -> copies stored at the destination]
  dropped, givenUp,  \* history: ever in source; taken back or deleted by the user
  lock,              \* AccountLock of the account: its holder
  pc, work, cur,     \* per worker: control point, UIDs to do, message in hand
  faults, runs       \* failures and scans by other processes so far

mail == <<source, flagged, archive, dest, dropped, givenUp>>
vars == <<mail, lock, pc, work, cur, faults, runs>>

Many == 2   \* dest saturates: 2 stands for "more than one copy"
Point == {"idle", "fetch", "append", "remove", "store", "expunge"}

Init ==
  /\ source = {} /\ flagged = {} /\ archive = {}
  /\ dest = [m \in Messages |-> 0]
  /\ dropped = {} /\ givenUp = {}
  /\ lock = NoOne
  /\ pc = [w \in Workers |-> "idle"]
  /\ work = [w \in Workers |-> {}]
  /\ cur = [w \in Workers |-> {}]
  /\ faults = 0 /\ runs = 0

-----------------------------------------------------------------------------
(* The user.                                                               *)

Drop(m) ==
  /\ m \notin dropped
  /\ source' = source \cup {m}
  /\ dropped' = dropped \cup {m}
  /\ UNCHANGED <<flagged, archive, dest, givenUp, lock, pc, work, cur, faults, runs>>

TakeBack(m) ==
  /\ m \in source
  /\ source' = source \ {m}
  /\ flagged' = flagged \ {m}
  /\ givenUp' = givenUp \cup {m}
  /\ UNCHANGED <<archive, dest, dropped, lock, pc, work, cur, faults, runs>>

(* A mail client that marks messages deleted and leaves EXPUNGE for later.  *)
MarkDeleted(m) ==
  /\ m \in source \ flagged
  /\ flagged' = flagged \cup {m}
  /\ givenUp' = givenUp \cup {m}
  /\ UNCHANGED <<source, archive, dest, dropped, lock, pc, work, cur, faults, runs>>

-----------------------------------------------------------------------------
Goto(w, point) == pc' = [pc EXCEPT ![w] = point]
Release(w) == lock' = IF lock = w THEN NoOne ELSE lock

(* Mutant of NextMessage: the last message leaves the lock taken.          *)
NextKeepsLock(w, rest) ==
  /\ work' = [work EXCEPT ![w] = rest]
  /\ cur' = [cur EXCEPT ![w] = {}]
  /\ Goto(w, IF rest = {} THEN "idle" ELSE "fetch")
  /\ UNCHANGED lock

(* Go on with the remaining UIDs, or return and release the lock.          *)
NextMessage(w, rest) ==
  /\ work' = [work EXCEPT ![w] = rest]
  /\ cur' = [cur EXCEPT ![w] = {}]
  /\ Goto(w, IF rest = {} THEN "idle" ELSE "fetch")
  /\ IF rest = {} THEN Release(w) ELSE UNCHANGED lock

Fault == faults < MaxFaults /\ faults' = faults + 1 /\ UNCHANGED runs

(* Mutants of Start: the lock is not taken; another process takes it too.  *)
StartUnlocked(w) ==
  /\ pc[w] = "idle"
  /\ source # {}
  /\ IF w \in Threads THEN UNCHANGED runs ELSE runs < MaxRuns /\ runs' = runs + 1
  /\ work' = [work EXCEPT ![w] = source]
  /\ Goto(w, "fetch")
  /\ UNCHANGED <<mail, lock, cur, faults>>

StartLockingAll(w) ==
  /\ pc[w] = "idle"
  /\ source # {}
  /\ lock = NoOne /\ lock' = w
  /\ IF w \in Threads THEN UNCHANGED runs ELSE runs < MaxRuns /\ runs' = runs + 1
  /\ work' = [work EXCEPT ![w] = source]
  /\ Goto(w, "fetch")
  /\ UNCHANGED <<mail, cur, faults>>

(* The IDLE callback or the loop takes the lock, both clients connect and   *)
(* SEARCH ALL lists the folder, \Deleted messages included.  When it is     *)
(* empty, or the lock is not obtained in time, or a connection fails, the   *)
(* scan returns and nothing has changed.                                   *)
Start(w) ==
  /\ pc[w] = "idle"
  /\ source # {}
  /\ IF w \in Threads
       THEN lock = NoOne /\ lock' = w /\ UNCHANGED runs
       ELSE runs < MaxRuns /\ runs' = runs + 1 /\ UNCHANGED lock
  /\ work' = [work EXCEPT ![w] = source]
  /\ Goto(w, "fetch")
  /\ UNCHANGED <<mail, cur, faults>>

(* fetch_raw: the bytes of a message that is still there.                  *)
FetchRaw(w, m) ==
  /\ pc[w] = "fetch" /\ m \in work[w]
  /\ m \in source
  /\ cur' = [cur EXCEPT ![w] = {m}]
  /\ work' = [work EXCEPT ![w] = @ \ {m}]
  /\ Goto(w, "append")
  /\ UNCHANGED <<mail, lock, faults, runs>>

(* Gone, or (in a dry run: always) passed over.                            *)
SkipGone(w, m) ==
  /\ pc[w] = "fetch" /\ m \in work[w]
  /\ m \notin source
  /\ NextMessage(w, work[w] \ {m})
  /\ UNCHANGED <<mail, faults, runs>>

FetchFails(w, m) ==
  /\ pc[w] = "fetch" /\ m \in work[w]
  /\ Fault
  /\ NextMessage(w, work[w] \ {m})
  /\ UNCHANGED mail

AppendCopy(w) ==
  dest' = [m \in Messages |-> IF m \in cur[w] /\ dest[m] < Many THEN dest[m] + 1 ELSE dest[m]]

(* Mutant of AppendOK: the source message is removed before the append.    *)
RemoveBeforeAppend(w) ==
  /\ pc[w] = "append"
  /\ Goto(w, IF w \in Archivers THEN "remove" ELSE "store")
  /\ UNCHANGED <<mail, lock, work, cur, faults, runs>>

AppendOK(w) ==
  /\ pc[w] = "append"
  /\ AppendCopy(w)
  /\ Goto(w, IF w \in Archivers THEN "remove" ELSE "store")
  /\ UNCHANGED <<source, flagged, archive, dropped, givenUp, lock, work, cur, faults, runs>>

(* Mutant of AppendFails: no `continue` after a failed append.             *)
RemoveAnyway(w) ==
  /\ pc[w] = "append"
  /\ Fault
  /\ AppendCopy(w) \/ UNCHANGED dest
  /\ Goto(w, IF w \in Archivers THEN "remove" ELSE "store")
  /\ UNCHANGED <<source, flagged, archive, dropped, givenUp, lock, work, cur>>

(* APPEND refused, or its reply lost after the server stored the message:   *)
(* append_message returns False for both and the source stays.             *)
AppendFails(w) ==
  /\ pc[w] = "append"
  /\ Fault
  /\ AppendCopy(w) \/ UNCHANGED dest
  /\ NextMessage(w, work[w])
  /\ UNCHANGED <<source, flagged, archive, dropped, givenUp>>

(* _remove_source with after_move_folder: UID MOVE...                      *)
ArchiveMove(w) ==
  /\ pc[w] = "remove"
  /\ archive' = archive \cup (cur[w] \cap source)
  /\ source' = source \ cur[w]
  /\ flagged' = flagged \ cur[w]
  /\ NextMessage(w, work[w])
  /\ UNCHANGED <<dest, dropped, givenUp, faults, runs>>

(* ... or, when it is refused, COPY and then as below.                     *)
ArchiveCopy(w) ==
  /\ pc[w] = "remove"
  /\ Fault
  /\ archive' = archive \cup (cur[w] \cap source)
  /\ Goto(w, "store")
  /\ UNCHANGED <<source, flagged, dest, dropped, givenUp, lock, work, cur>>

(* Without: STORE \Deleted on the message, then EXPUNGE, which removes every *)
(* message of the folder that carries the flag.                            *)
StoreDeleted(w) ==
  /\ pc[w] = "store"
  /\ flagged' = flagged \cup (cur[w] \cap source)
  /\ Goto(w, "expunge")
  /\ UNCHANGED <<source, archive, dest, dropped, givenUp, lock, work, cur, faults, runs>>

Expunge(w) ==
  /\ pc[w] = "expunge"
  /\ source' = source \ flagged
  /\ flagged' = {}
  /\ NextMessage(w, work[w])
  /\ UNCHANGED <<archive, dest, dropped, givenUp, faults, runs>>

(* The result of _remove_source is not looked at: the redirect counts as ok *)
(* and the message, delivered, stays in the source folder.                 *)
RemoveFails(w) ==
  /\ pc[w] \in {"remove", "store", "expunge"}
  /\ Fault
  /\ NextMessage(w, work[w])
  /\ UNCHANGED mail

(* An exception leaves redirect_account, or the process dies: locals are    *)
(* gone and the lock is free.                                              *)
Abort(w) ==
  /\ pc[w] # "idle"
  /\ Fault
  /\ NextMessage(w, {})
  /\ UNCHANGED mail

-----------------------------------------------------------------------------
User == \E m \in Messages : Drop(m) \/ TakeBack(m) \/ MarkDeleted(m)

Progress(w) ==
  \/ \E m \in Messages : FetchRaw(w, m) \/ SkipGone(w, m)
  \/ AppendOK(w) \/ ArchiveMove(w) \/ StoreDeleted(w) \/ Expunge(w)

Failure(w) ==
  \/ \E m \in Messages : FetchFails(w, m)
  \/ AppendFails(w) \/ ArchiveCopy(w) \/ RemoveFails(w) \/ Abort(w)

Next == User \/ \E w \in Workers : Start(w) \/ Progress(w) \/ Failure(w)

Spec == Init /\ [][Next]_vars

(* The catch-up loop rescans the folder for ever and a scan under way goes  *)
(* on; the lock is contended, so that starting needs strong fairness.       *)
Fairness == \A w \in Threads : SF_vars(Start(w)) /\ WF_vars(Progress(w))

FairSpec == Spec /\ Fairness

-----------------------------------------------------------------------------
(* Properties.                                                             *)

(* Folders hold dropped messages, a worker that handles a message has it in *)
(* hand, and only messages present are flagged.                            *)
TypeOK ==
  /\ source \subseteq dropped /\ flagged \subseteq source
  /\ archive \subseteq dropped
  /\ dest \in [Messages -> 0..Many]
  /\ dropped \subseteq Messages /\ givenUp \subseteq dropped
  /\ lock \in Threads \cup {NoOne}
  /\ pc \in [Workers -> Point]
  /\ work \in [Workers -> SUBSET dropped]
  /\ cur \in [Workers -> SUBSET dropped]
  /\ faults \in 0..MaxFaults /\ runs \in 0..MaxRuns

(* A redirect never loses mail: a message no longer in the source folder    *)
(* has reached the destination, unless the user took it away.              *)
NoMailLost == \A m \in dropped \ source : dest[m] > 0 \/ m \in givenUp

(* Why: a message about to be removed, and one flagged for the next EXPUNGE *)
(* of whichever worker, has been delivered.                                *)
RemovedAfterAppend ==
  /\ \A w \in Workers :
       pc[w] \in {"remove", "store", "expunge"} => \A m \in cur[w] : dest[m] > 0
  /\ \A m \in flagged : dest[m] > 0 \/ m \in givenUp

(* While nothing has failed and no other process has run, the threads of    *)
(* the daemon deliver a message once: the account's lock keeps the IDLE     *)
(* callback and the catch-up loop apart.                                   *)
DeliveredOnce ==
  faults = 0 /\ runs = 0 => \A m \in Messages : dest[m] <= 1

(* A message in the source folder is eventually delivered, if only finitely *)
(* many attempts fail: a failed redirect is tried again.                   *)
EventuallyDelivered ==
  \A m \in Messages : m \in source ~> (dest[m] > 0 \/ m \in givenUp)

(* The redirector implements the at-least-once relay.                      *)
RelaySpec == INSTANCE Relay WITH offered <- source, delivered <- dest

ImplementsRelay == RelaySpec!Spec

=============================================================================
