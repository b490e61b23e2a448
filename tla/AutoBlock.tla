------------------------------ MODULE AutoBlock ------------------------------
(***************************************************************************)
(* Repeat offenders of one account: pipeline._maybe_register_offender with   *)
(* sieve_block.py, the transaction of db.py and the ManageSieve server.     *)
(* Scanners are processes, the daemon and `mailwatch run --once`; within a   *)
(* process the account's lock lets one scan run at a time (module Daemon).   *)
(* The processes share the SQLite file and the account's Sieve scripts.     *)
(***************************************************************************)
EXTENDS Naturals, Sequences, FiniteSets

CONSTANTS
  Scanners, Domains,
  HitsThreshold, WindowDays,   \* daemon.auto_block
  MaxHits,                     \* bound: hits per domain
  MaxDay,                      \* bound: days of a behaviour
  Nobody                       \* no writer of the SQLite file, no domain

ASSUME AutoBlockAssumption ==
  /\ HitsThreshold \in Nat \ {0} /\ WindowDays \in Nat
  /\ MaxHits \in Nat /\ MaxDay \in Nat
  /\ Nobody \notin Scanners /\ Nobody \notin Domains

VARIABLES
  pc, domain,      \* per scanner: control point, sender domain in hand
  seen,            \* per scanner: spam_hits of the row it read
  listing,         \* per scanner: domains of the script it generated
  writeLock,       \* processes whose _write_lock is taken
  dbWriter,        \* the process in a write transaction of SQLite
  spamHits,        \* block_candidates: spam_hits, 0 for no row
  lastSeen,        \* block_candidates: last_seen
  blocked,         \* block_candidates: rows with blocked_at
  script,          \* domains the script mailwatch_blocks rejects
  active,          \* the active script of the account
  today,
  hitDays,         \* history: the days of the hits of a domain
  stale            \* history: listings that are no longer the table, or not on the server

scanners == <<pc, domain, seen, listing>>
locks == <<writeLock, dbWriter>>
candidates == <<spamHits, lastSeen, blocked>>
server == <<script, active>>
history == <<hitDays, stale>>
vars == <<scanners, locks, candidates, server, today, history>>

Transaction == {"select", "update"}
Pushing == {"put", "activate"}
Point == {"scan", "begin", "window", "already", "record", "list"} \cup Transaction \cup Pushing

Init ==
  /\ pc = [s \in Scanners |-> "scan"] /\ domain = [s \in Scanners |-> Nobody]
  /\ seen = [s \in Scanners |-> 0] /\ listing = [s \in Scanners |-> {}]
  /\ writeLock = {} /\ dbWriter = Nobody
  /\ spamHits = [d \in Domains |-> 0] /\ lastSeen = [d \in Domains |-> 0] /\ blocked = {}
  /\ script = {} /\ active = "user"
  /\ today = 0
  /\ hitDays = [d \in Domains |-> <<>>] /\ stale = {}

Goto(s, point) == pc' = [pc EXCEPT ![s] = point]

(* Others that are pushing what they listed before.                        *)
Outdates(s) == stale' = stale \cup {t \in Scanners \ {s} : pc[t] \in Pushing}

-----------------------------------------------------------------------------
(* register_hit.                                                           *)

(* A message of the domain was moved to Junk: _Transaction.__enter__ takes  *)
(* the write lock of the process.                                          *)
TakesWriteLock(s, d) ==
  /\ pc[s] = "scan"
  /\ s \notin writeLock
  /\ Len(hitDays[d]) < MaxHits
  /\ writeLock' = writeLock \cup {s}
  /\ domain' = [domain EXCEPT ![s] = d]
  /\ Goto(s, "begin")
  /\ UNCHANGED <<seen, listing, dbWriter, candidates, server, today, history>>

(* Mutant of Begins: BEGIN without IMMEDIATE.                              *)
BeginsDeferred(s) ==
  /\ pc[s] = "begin"
  /\ dbWriter = Nobody
  /\ Goto(s, "select")
  /\ UNCHANGED <<domain, seen, listing, locks, candidates, server, today, history>>

Begins(s) ==
  /\ pc[s] = "begin"
  /\ dbWriter = Nobody
  /\ dbWriter' = s
  /\ Goto(s, "select")
  /\ UNCHANGED <<domain, seen, listing, writeLock, candidates, server, today, history>>

(* BEGIN raises out of __enter__, so there is no __exit__ and the write     *)
(* lock of the process stays taken.                                        *)
BeginFails(s) ==
  /\ pc[s] = "begin"
  /\ Goto(s, "scan")
  /\ UNCHANGED <<domain, seen, listing, locks, candidates, server, today, history>>

ReadsRow(s) ==
  /\ pc[s] = "select"
  /\ seen' = [seen EXCEPT ![s] = spamHits[domain[s]]]
  /\ Goto(s, "update")
  /\ UNCHANGED <<domain, listing, locks, candidates, server, today, history>>

(* Leaving the transaction.                                                *)
EndTransaction(s) ==
  /\ writeLock' = writeLock \ {s}
  /\ dbWriter' = IF dbWriter = s THEN Nobody ELSE dbWriter

(* Mutant of RollsBack: the lock is released, the transaction stays open.   *)
LeavesOpen(s) ==
  /\ pc[s] \in Transaction
  /\ writeLock' = writeLock \ {s}
  /\ Goto(s, "scan")
  /\ UNCHANGED <<domain, seen, listing, dbWriter, candidates, server, today, history>>

RollsBack(s) ==
  /\ pc[s] \in Transaction
  /\ EndTransaction(s)
  /\ Goto(s, "scan")
  /\ UNCHANGED <<domain, seen, listing, candidates, server, today, history>>

(* What INSERT or UPDATE and COMMIT leave in the row.                      *)
CountHit(s) ==
  LET d == domain[s] IN
  /\ spamHits' = [spamHits EXCEPT ![d] = seen[s] + 1]
  /\ lastSeen' = [lastSeen EXCEPT ![d] = today]
  /\ hitDays' = [hitDays EXCEPT ![d] = Append(@, today)]

(* Mutant of Commits: one hit less is enough.                              *)
CommitsEarly(s) ==
  /\ pc[s] = "update"
  /\ CountHit(s)
  /\ EndTransaction(s)
  /\ Goto(s, IF seen[s] + 2 < HitsThreshold THEN "scan" ELSE "already")
  /\ UNCHANGED <<domain, seen, listing, blocked, server, today, stale>>

(* COMMIT, and hits < hits_threshold.                                      *)
Commits(s) ==
  /\ pc[s] = "update"
  /\ CountHit(s)
  /\ EndTransaction(s)
  /\ Goto(s, IF seen[s] + 1 < HitsThreshold THEN "scan" ELSE "window")
  /\ UNCHANGED <<domain, seen, listing, blocked, server, today, stale>>

-----------------------------------------------------------------------------
(* The decision.                                                           *)

(* count_recent_hits: all hits of a row that was touched within the window. *)
CountRecentHits(d) == IF lastSeen[d] + WindowDays >= today THEN spamHits[d] ELSE 0

ChecksWindow(s) ==
  /\ pc[s] = "window"
  /\ Goto(s, IF CountRecentHits(domain[s]) < HitsThreshold THEN "scan" ELSE "already")
  /\ UNCHANGED <<domain, seen, listing, locks, candidates, server, today, history>>

ChecksBlocked(s) ==
  /\ pc[s] = "already"
  /\ Goto(s, IF domain[s] \in blocked THEN "scan" ELSE "record")
  /\ UNCHANGED <<domain, seen, listing, locks, candidates, server, today, history>>

(* record_block, an autocommitted UPDATE.                                  *)
RecordsBlock(s) ==
  /\ pc[s] = "record"
  /\ dbWriter = Nobody
  /\ blocked' = blocked \cup {domain[s]}
  /\ Outdates(s)
  /\ Goto(s, "list")
  /\ UNCHANGED <<domain, seen, listing, locks, spamHits, lastSeen, server, today, hitDays>>

(* An exception of a statement outside the transaction, no password in the  *)
(* keyring any more, or no answer of the Sieve server.                      *)
GivesUp(s) ==
  /\ pc[s] \in Point \ ({"scan", "begin"} \cup Transaction)
  /\ Goto(s, "scan")
  /\ UNCHANGED <<domain, seen, listing, locks, candidates, server, today, history>>

-----------------------------------------------------------------------------
(* push_block_script.                                                      *)

(* Mutant of Generates: a script for the new domain.                       *)
GeneratesNew(s) ==
  /\ pc[s] = "list"
  /\ listing' = [listing EXCEPT ![s] = {domain[s]}]
  /\ stale' = stale \ {s}
  /\ Goto(s, "put")
  /\ UNCHANGED <<domain, seen, locks, candidates, server, today, hitDays>>

(* list_blocked and generate_block_script; the table is not empty.          *)
Generates(s) ==
  /\ pc[s] = "list"
  /\ listing' = [listing EXCEPT ![s] = blocked]
  /\ stale' = stale \ {s}
  /\ Goto(s, "put")
  /\ UNCHANGED <<domain, seen, locks, candidates, server, today, hitDays>>

(* PUTSCRIPT; the answer may be lost.                                      *)
Puts(s) ==
  /\ pc[s] = "put"
  /\ script' = listing[s]
  /\ Outdates(s)
  /\ \E point \in {"activate", "scan"} : Goto(s, point)
  /\ UNCHANGED <<domain, seen, listing, locks, candidates, active, today, hitDays>>

(* The library returns a NO of the server; put_script does not look at it.  *)
PutIsRefused(s) ==
  /\ pc[s] = "put"
  /\ stale' = stale \cup {s}
  /\ Goto(s, "activate")
  /\ UNCHANGED <<domain, seen, listing, locks, candidates, server, today, hitDays>>

(* SETACTIVE: another script of the user's is active no more.              *)
Activates(s) ==
  /\ pc[s] = "activate"
  /\ active' = "mailwatch_blocks"
  /\ Goto(s, "scan")
  /\ UNCHANGED <<domain, seen, listing, locks, candidates, script, today, history>>

-----------------------------------------------------------------------------
(* The process is killed and started again: SQLite rolls back.             *)
Restart(s) ==
  /\ EndTransaction(s)
  /\ Goto(s, "scan")
  /\ UNCHANGED <<domain, seen, listing, candidates, server, today, history>>

UserActivates ==
  /\ active' = "user"
  /\ UNCHANGED <<scanners, locks, candidates, script, today, history>>

DayPasses ==
  /\ today < MaxDay
  /\ today' = today + 1
  /\ UNCHANGED <<scanners, locks, candidates, server, history>>

Hit(s) ==
  \/ \E d \in Domains : TakesWriteLock(s, d)
  \/ Begins(s) \/ BeginFails(s) \/ ReadsRow(s) \/ Commits(s) \/ RollsBack(s)

Decision(s) == ChecksWindow(s) \/ ChecksBlocked(s) \/ RecordsBlock(s) \/ GivesUp(s)

Push(s) == Generates(s) \/ Puts(s) \/ PutIsRefused(s) \/ Activates(s)

Next ==
  \/ \E s \in Scanners : Hit(s) \/ Decision(s) \/ Push(s) \/ Restart(s)
  \/ UserActivates \/ DayPasses

Spec == Init /\ [][Next]_vars

-----------------------------------------------------------------------------
(* Properties.                                                             *)

(* What each variable holds; SQLite's writer is in a transaction and holds  *)
(* its process's write lock.                                               *)
TypeOK ==
  /\ pc \in [Scanners -> Point] /\ domain \in [Scanners -> Domains \cup {Nobody}]
  /\ seen \in [Scanners -> Nat] /\ listing \in [Scanners -> SUBSET Domains]
  /\ writeLock \subseteq Scanners /\ dbWriter \in Scanners \cup {Nobody}
  /\ dbWriter # Nobody => pc[dbWriter] \in Transaction /\ dbWriter \in writeLock
  /\ spamHits \in [Domains -> Nat] /\ lastSeen \in [Domains -> Nat]
  /\ blocked \subseteq Domains /\ script \subseteq Domains
  /\ active \in {"user", "mailwatch_blocks"}
  /\ today \in Nat /\ hitDays \in [Domains -> Seq(Nat)] /\ stale \subseteq Scanners

(* Two processes that count hits of one domain at once lose none, whatever  *)
(* is rolled back or killed.                                               *)
NoHitLost == \A d \in Domains : spamHits[d] = Len(hitDays[d])

(* The server rejects mail only of domains that were recorded, and only     *)
(* what has hits_threshold hits is recorded: through races of two processes, *)
(* older listings put last, and failures anywhere.                          *)
BlockIsEarned ==
  /\ script \subseteq blocked
  /\ \A d \in blocked : spamHits[d] >= HitsThreshold

(* Every push heals the failed ones before it: when it ends, the script     *)
(* that is active rejects all that is recorded.  Not if another process     *)
(* recorded or put meanwhile, or the server refused the script.             *)
PushIsComplete ==
  [][\A s \in Scanners :
       pc[s] = "activate" /\ Activates(s) /\ s \notin stale =>
         blocked \subseteq script /\ active' = "mailwatch_blocks"]_vars

(* "Only count hits within this window (days)" (config.py:41): a domain is  *)
(* recorded for hits_threshold hits of the last window_days days.          *)
RecentHits(d) ==
  {i \in DOMAIN hitDays[d] : hitDays[d][i] + WindowDays >= today}

BlockIsRecent ==
  [][\A d \in blocked' \ blocked : Cardinality(RecentHits(d)) >= HitsThreshold]_vars

=============================================================================
