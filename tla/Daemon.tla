------------------------------- MODULE Daemon -------------------------------
(***************************************************************************)
(* mailwatch/watcher.py with email/imap/idle.py and backoff.py: an IDLE     *)
(* thread per watched folder calls back into the daemon, scheduler threads  *)
(* scan the accounts again and again, each scan under its account's lock;   *)
(* a rejected password stops the daemon with exit code 3, upon which        *)
(* systemd (mailwatch.service, Restart=on-failure) starts it again.         *)
(* What a scan does is the business of SpamLoop and Redirector; here it     *)
(* deals with everything it listed in its folder, or fails.                 *)
(***************************************************************************)
EXTENDS Naturals

CONSTANTS
  Accounts,
  Folders,         \* where messages arrive
  Watches,         \* IDLE threads
  Loops,           \* scheduler threads: catch-up scans, training
  AccountOf,       \* [Watches -> Accounts]
  FolderOf,        \* [Watches and Loops -> folder] what the worker scans
  StopOnAuth,      \* daemon.connection.stop_on_auth_failure
  MaxReconnects,   \* _MAX_RECONNECT_ATTEMPTS
  MaxPower,        \* largest n for which factor ** n is a float
  MaxTrouble,      \* bound: failed connections in a behaviour
  NoOne            \* the holder of a free lock, the account of an idle loop

Workers == Watches \cup Loops

ASSUME DaemonAssumption ==
  /\ AccountOf \in [Watches -> Accounts]
  /\ DOMAIN FolderOf = Workers
  /\ StopOnAuth \in BOOLEAN
  /\ MaxReconnects \in Nat /\ MaxPower \in Nat /\ MaxTrouble \in Nat
  /\ NoOne \notin Workers /\ NoOne \notin Accounts
  /\ Watches \cap Loops = {}

VARIABLES
  main,          \* the main thread, or that there is no process
  stop,          \* _stop
  exitCode,      \* _exit_code, the status of the process when it has exited
  signalled,     \* history: SIGTERM in this run of the process
  rejected,      \* history: a login rejected in this run
  pc,            \* per worker: control point
  reconnects,    \* per watch: _reconnect_count
  pushed,        \* watches with an EXISTS to read
  cur, todo,     \* per loop: account in hand, accounts to do in this round
  lock,          \* AccountLock: [Accounts -> holder]
  failures,      \* ConnectionBackoff: consecutive failures per account
  window,        \* accounts in their backoff window
  pending,       \* <<account, folder>> where a message waits for its scan
  listed,        \* those of pending whose message a running scan has listed
  trouble        \* failed connections so far

process == <<main, stop, exitCode, signalled, rejected>>
threads == <<pc, reconnects, pushed, cur, todo>>
backoff == <<failures, window>>
mail == <<pending, listed>>
vars == <<process, threads, lock, backoff, mail, trouble>>

EXIT_AUTH_FAILURE == 3
Point == {"connect", "retry", "watch", "gone", "wait", "next",
          "acquire", "scan", "auth", "code", "stop"}

(* The account a worker works for.                                         *)
At(w) == IF w \in Watches THEN AccountOf[w] ELSE cur[w]
Holds(w) == \E a \in Accounts : lock[a] = w

(* Threads and objects of a process that starts, _start_idle_threads and    *)
(* _start_scheduler_threads.                                               *)
FreshThreads == [w \in Workers |-> IF w \in Watches THEN "connect" ELSE "wait"]

Init ==
  /\ main = "run" /\ stop = FALSE /\ exitCode = 0
  /\ signalled = FALSE /\ rejected = FALSE
  /\ pc = FreshThreads
  /\ reconnects = [w \in Watches |-> 0]
  /\ pushed = {}
  /\ cur = [l \in Loops |-> NoOne] /\ todo = [l \in Loops |-> {}]
  /\ lock = [a \in Accounts |-> NoOne]
  /\ failures = [a \in Accounts |-> 0] /\ window = {}
  /\ pending = {} /\ listed = {} /\ trouble = 0

-----------------------------------------------------------------------------
Goto(w, point) == pc' = [pc EXCEPT ![w] = point]
Trouble == trouble < MaxTrouble /\ trouble' = trouble + 1

(* Mutant of Release: the lock is not released.                            *)
KeepLock(w) == UNCHANGED <<lock, listed>>

(* finally: self.locks.release, if the worker has the lock; its scan ends.  *)
Release(w) ==
  /\ lock' = [a \in Accounts |-> IF lock[a] = w THEN NoOne ELSE lock[a]]
  /\ listed' = {k \in listed : lock[k[1]] # w}

(* Where a handler or a callback returns to: a loop goes to its next        *)
(* account, a callback to its IDLE thread, and an IDLE thread whose login   *)
(* was rejected stops itself.                                              *)
Return(w) ==
  /\ Release(w)
  /\ Goto(w, IF w \in Loops THEN "next" ELSE IF Holds(w) THEN "watch" ELSE "gone")

(* An exception nobody handles ends a loop.  _run_idle_loop catches it, and *)
(* one from the callback after DONE does not cost it its connection.       *)
Raise(w) ==
  /\ Release(w)
  /\ \E point \in IF w \in Loops THEN {"gone"}
                  ELSE {"retry"} \cup {p \in {"watch"} : Holds(w)} :
       Goto(w, point)

(* record_failure: factor ** (count - 1) overflows before min() caps it,    *)
(* and next_attempt stays as it was.                                       *)
RecordFailure(w) ==
  /\ failures' = [failures EXCEPT ![At(w)] = @ + 1]
  /\ IF failures[At(w)] > MaxPower
       THEN Raise(w) /\ UNCHANGED window
       ELSE Return(w) /\ window' = window \cup {At(w)}

-----------------------------------------------------------------------------
(* IDLE threads.                                                           *)

(* Logged in, folder selected: only what arrives from now on is pushed.     *)
Connects(t) ==
  /\ pc[t] = "connect"
  /\ reconnects' = [reconnects EXCEPT ![t] = 0]
  /\ pushed' = pushed \ {t}
  /\ Goto(t, "watch")
  /\ UNCHANGED <<process, cur, todo, lock, backoff, mail, trouble>>

LoginRejected(t) ==
  /\ pc[t] = "connect"
  /\ Trouble
  /\ rejected' = TRUE
  /\ Goto(t, "auth")
  /\ UNCHANGED <<main, stop, exitCode, signalled, reconnects, pushed, cur, todo,
                 lock, backoff, mail>>

(* No connection, SELECT refused, or a connection lost.                    *)
Disconnects(t) ==
  /\ pc[t] \in {"connect", "watch"}
  /\ Trouble
  /\ Goto(t, "retry")
  /\ UNCHANGED <<process, reconnects, pushed, cur, todo, lock, backoff, mail>>

(* After the delay, or never again.                                        *)
Reconnects(t) ==
  /\ pc[t] = "retry"
  /\ reconnects' = [reconnects EXCEPT ![t] = @ + 1]
  /\ Goto(t, IF reconnects'[t] > MaxReconnects THEN "gone" ELSE "connect")
  /\ UNCHANGED <<process, pushed, cur, todo, lock, backoff, mail, trouble>>

(* "EXISTS": the callback tries to lock the account, without asking the     *)
(* backoff.                                                                *)
Notified(t) ==
  /\ pc[t] = "watch"
  /\ t \in pushed
  /\ pushed' = pushed \ {t}
  /\ Goto(t, "acquire")
  /\ UNCHANGED <<process, reconnects, cur, todo, lock, backoff, mail, trouble>>

(* stop_all has set the thread's stop event.                               *)
IdleEnds(t) ==
  /\ main = "stopping"
  /\ pc[t] \in {"connect", "retry", "watch"}
  /\ Goto(t, "gone")
  /\ UNCHANGED <<process, reconnects, pushed, cur, todo, lock, backoff, mail, trouble>>

-----------------------------------------------------------------------------
(* Scheduler threads.                                                      *)

RoundBegins(l) ==
  /\ pc[l] = "wait"
  /\ ~ stop
  /\ todo' = [todo EXCEPT ![l] = Accounts]
  /\ Goto(l, "next")
  /\ UNCHANGED <<process, reconnects, pushed, cur, lock, backoff, mail, trouble>>

(* should_attempt.                                                         *)
Considers(l, a) ==
  /\ pc[l] = "next"
  /\ ~ stop
  /\ a \in todo[l]
  /\ todo' = [todo EXCEPT ![l] = @ \ {a}]
  /\ IF a \in window
       THEN UNCHANGED <<cur, pc>>
       ELSE cur' = [cur EXCEPT ![l] = a] /\ Goto(l, "acquire")
  /\ UNCHANGED <<process, reconnects, pushed, lock, backoff, mail, trouble>>

RoundEnds(l) ==
  /\ pc[l] = "next"
  /\ todo[l] = {}
  /\ Goto(l, "wait")
  /\ UNCHANGED <<process, reconnects, pushed, cur, todo, lock, backoff, mail, trouble>>

LoopEnds(l) ==
  /\ pc[l] \in {"wait", "next"}
  /\ stop
  /\ Goto(l, "gone")
  /\ UNCHANGED <<process, reconnects, pushed, cur, todo, lock, backoff, mail, trouble>>

-----------------------------------------------------------------------------
(* A scan, by a callback or by a loop.                                     *)

(* What a worker scans.                                                    *)
Scans(w) == <<At(w), FolderOf[w]>>

(* The scan lists its folder as soon as it has the lock.                   *)
Acquire(w) ==
  /\ pc[w] = "acquire"
  /\ lock[At(w)] = NoOne
  /\ lock' = [lock EXCEPT ![At(w)] = w]
  /\ listed' = listed \cup ({Scans(w)} \cap pending)
  /\ Goto(w, "scan")
  /\ UNCHANGED <<process, reconnects, pushed, cur, todo, backoff, pending, trouble>>

(* Mutant of TimesOut: acquire's result is not looked at.                  *)
ScanAnyway(w) ==
  /\ pc[w] = "acquire"
  /\ lock[At(w)] # NoOne
  /\ Goto(w, "scan")
  /\ UNCHANGED <<process, reconnects, pushed, cur, todo, lock, backoff, mail, trouble>>

TimesOut(w) ==
  /\ pc[w] = "acquire"
  /\ lock[At(w)] # NoOne
  /\ Goto(w, IF w \in Loops THEN "next" ELSE "watch")
  /\ UNCHANGED <<process, reconnects, pushed, cur, todo, lock, backoff, mail, trouble>>

(* The scan deals with what it listed, and record_success.                 *)
ScanSucceeds(w) ==
  /\ pc[w] = "scan"
  /\ pending' = pending \ ({Scans(w)} \cap listed)
  /\ failures' = [failures EXCEPT ![At(w)] = 0]
  /\ window' = window \ {At(w)}
  /\ Return(w)
  /\ UNCHANGED <<process, reconnects, pushed, cur, todo, trouble>>

(* IMAPAuthError.                                                          *)
ScanRejected(w) ==
  /\ pc[w] = "scan"
  /\ Trouble
  /\ rejected' = TRUE
  /\ Goto(w, "auth")
  /\ UNCHANGED <<main, stop, exitCode, signalled, reconnects, pushed, cur, todo,
                 lock, backoff, mail>>

(* IMAPConnectionError: _on_connection_failure.                            *)
ScanDisconnected(w) ==
  /\ pc[w] = "scan"
  /\ Trouble
  /\ RecordFailure(w)
  /\ UNCHANGED <<process, reconnects, pushed, cur, todo, pending>>

(* Any other exception is logged.                                          *)
ScanFails(w) ==
  /\ pc[w] = "scan"
  /\ Trouble
  /\ Return(w)
  /\ UNCHANGED <<process, reconnects, pushed, cur, todo, backoff, pending>>

-----------------------------------------------------------------------------
(* _on_auth_failure.                                                       *)

HandlesRejection(w) ==
  /\ pc[w] = "auth"
  /\ IF stop THEN Return(w) /\ UNCHANGED backoff
     ELSE IF StopOnAuth THEN Goto(w, "code") /\ UNCHANGED <<lock, backoff, listed>>
     ELSE RecordFailure(w)
  /\ UNCHANGED <<process, reconnects, pushed, cur, todo, pending, trouble>>

(* Mutant of SetsCode: the exit code stays 0.                              *)
ForgetsCode(w) ==
  /\ pc[w] = "code"
  /\ Goto(w, "stop")
  /\ UNCHANGED <<process, reconnects, pushed, cur, todo, lock, backoff, mail, trouble>>

SetsCode(w) ==
  /\ pc[w] = "code"
  /\ exitCode' = EXIT_AUTH_FAILURE
  /\ Goto(w, "stop")
  /\ UNCHANGED <<main, stop, signalled, rejected, reconnects, pushed, cur, todo,
                 lock, backoff, mail, trouble>>

SetsStop(w) ==
  /\ pc[w] = "stop"
  /\ stop' = TRUE
  /\ Return(w)
  /\ UNCHANGED <<main, exitCode, signalled, rejected, reconnects, pushed, cur, todo,
                 backoff, pending, trouble>>

-----------------------------------------------------------------------------
(* The main thread, and systemd.                                           *)

Signal ==
  /\ main # "exited"
  /\ ~ signalled
  /\ stop' = TRUE /\ signalled' = TRUE
  /\ UNCHANGED <<main, exitCode, rejected, threads, lock, backoff, mail, trouble>>

(* run leaves its wait, and _shutdown stops the IDLE threads, waiting 3 s   *)
(* for each at most.                                                       *)
ShutsDown ==
  /\ main = "run"
  /\ stop
  /\ main' = "stopping"
  /\ UNCHANGED <<stop, exitCode, signalled, rejected, threads, lock, backoff, mail, trouble>>

(* run returns; daemon threads end with the process, wherever they are.     *)
Exits ==
  /\ main = "stopping"
  /\ main' = "exited"
  /\ pc' = [w \in Workers |-> "gone"]
  /\ lock' = [a \in Accounts |-> NoOne] /\ listed' = {}
  /\ UNCHANGED <<stop, exitCode, signalled, rejected, reconnects, pushed, cur, todo,
                 backoff, pending, trouble>>

Boot ==
  /\ main = "exited"
  /\ main' = "run" /\ stop' = FALSE /\ exitCode' = 0
  /\ signalled' = FALSE /\ rejected' = FALSE
  /\ pc' = FreshThreads
  /\ reconnects' = [w \in Watches |-> 0]
  /\ pushed' = {}
  /\ cur' = [l \in Loops |-> NoOne] /\ todo' = [l \in Loops |-> {}]
  /\ failures' = [a \in Accounts |-> 0] /\ window' = {}
  /\ UNCHANGED <<lock, mail, trouble>>

(* Mutant of Restarts: RestartPreventExitStatus=3, of which errors.py:21    *)
(* speaks.                                                                 *)
RestartsUnlessAuth == exitCode \notin {0, EXIT_AUTH_FAILURE} /\ Boot

(* Restart=on-failure.                                                     *)
Restarts == exitCode # 0 /\ Boot

OperatorStarts == exitCode = 0 /\ Boot

(* An IDLE thread whose connection stands, whatever it does meanwhile.     *)
Connected(t) == pc[t] \in {"watch", "acquire"} \/ Holds(t)

(* A message comes into a folder, by delivery or by the user's hand; the    *)
(* server tells who watches.  pending is about the oldest one not scanned.  *)
Arrives(a, f) ==
  /\ pending' = pending \cup {<<a, f>>}
  /\ pushed' = pushed \cup
       {t \in Watches : AccountOf[t] = a /\ FolderOf[t] = f /\ Connected(t)}
  /\ UNCHANGED <<process, pc, reconnects, cur, todo, lock, backoff, listed, trouble>>

WindowEnds(a) ==
  /\ a \in window
  /\ window' = window \ {a}
  /\ UNCHANGED <<process, threads, lock, failures, mail, trouble>>

-----------------------------------------------------------------------------
Idle(t) ==
  \/ Connects(t) \/ LoginRejected(t) \/ Disconnects(t) \/ Reconnects(t)
  \/ Notified(t) \/ IdleEnds(t)

Loop(l) ==
  \/ RoundBegins(l) \/ RoundEnds(l) \/ LoopEnds(l)
  \/ \E a \in Accounts : Considers(l, a)

Scan(w) ==
  \/ Acquire(w) \/ TimesOut(w) \/ ScanSucceeds(w)
  \/ ScanRejected(w) \/ ScanDisconnected(w) \/ ScanFails(w)

Handler(w) == HandlesRejection(w) \/ SetsCode(w) \/ SetsStop(w)

Next ==
  \/ \E t \in Watches : Idle(t)
  \/ \E l \in Loops : Loop(l)
  \/ \E w \in Workers : Scan(w) \/ Handler(w)
  \/ Signal \/ ShutsDown \/ Exits \/ Restarts \/ OperatorStarts
  \/ \E a \in Accounts : WindowEnds(a) \/ \E f \in Folders : Arrives(a, f)

Spec == Init /\ [][Next]_vars

(* A worker that times out again and again on a lock that is free again and *)
(* again gets it some time: the scans of the other workers are short        *)
(* against the intervals between its attempts, and not in step with them.   *)
LockIsFair(w, a) ==
  /\ []<><<TimesOut(w) /\ At(w) = a>>_vars
  /\ []<>(lock[a] = NoOne)
  => []<><<Acquire(w) /\ At(w) = a>>_vars

(* Threads go on, intervals and windows end, systemd restarts.             *)
Fairness ==
  /\ WF_vars(ShutsDown) /\ WF_vars(Exits) /\ WF_vars(Restarts)
  /\ \A a \in Accounts : WF_vars(WindowEnds(a))
  /\ \A l \in Loops : WF_vars(Loop(l))
  /\ \A w \in Workers :
       /\ WF_vars(Acquire(w) \/ TimesOut(w)) /\ WF_vars(ScanSucceeds(w)) /\ WF_vars(Handler(w))
       /\ \A a \in Accounts : LockIsFair(w, a)

FairSpec == Spec /\ Fairness

-----------------------------------------------------------------------------
(* Properties.                                                             *)

(* What each variable holds; a lock is held by a worker that scans or       *)
(* handles a rejection for that account.                                   *)
TypeOK ==
  /\ main \in {"run", "stopping", "exited"}
  /\ stop \in BOOLEAN /\ exitCode \in {0, EXIT_AUTH_FAILURE}
  /\ signalled \in BOOLEAN /\ rejected \in BOOLEAN
  /\ pc \in [Workers -> Point]
  /\ reconnects \in [Watches -> 0..(MaxReconnects + 1)]
  /\ pushed \subseteq Watches
  /\ cur \in [Loops -> Accounts \cup {NoOne}] /\ todo \in [Loops -> SUBSET Accounts]
  /\ lock \in [Accounts -> Workers \cup {NoOne}]
  /\ \A a \in Accounts :
       lock[a] # NoOne =>
         At(lock[a]) = a /\ pc[lock[a]] \in {"scan", "auth", "code", "stop"}
  /\ failures \in [Accounts -> Nat] /\ window \subseteq Accounts
  /\ pending \subseteq Accounts \X Folders /\ listed \subseteq pending
  /\ trouble \in 0..MaxTrouble

(* AccountLock "prevents concurrent IMAP operations": callbacks and loops   *)
(* never scan an account at once, through timeouts, failures and restarts.  *)
OneScanPerAccount ==
  \A v, w \in Workers :
    pc[v] = "scan" /\ pc[w] = "scan" /\ At(v) = At(w) => v = w

(* The exit code tells systemd why: a process that nobody asked to stop     *)
(* exits with 3, and 3 means that a login was rejected.  Threads handle     *)
(* rejections while a signal arrives and the main thread shuts down.        *)
ExitCodeTellsWhy ==
  /\ main = "exited" => signalled \/ exitCode = EXIT_AUTH_FAILURE
  /\ exitCode = EXIT_AUTH_FAILURE => rejected /\ StopOnAuth

(* "retry ... rather than stay down forever" (mailwatch.service): a daemon  *)
(* that stopped without being told to runs again.                          *)
RejectionIsRetried == main = "exited" /\ ~ signalled ~> main = "run"

(* A missed notification, a callback that timed out or failed, an IDLE      *)
(* thread that gave up, a daemon that stopped on a rejected login: a        *)
(* scheduler thread scans the message in the end, unless somebody stops the *)
(* daemon.  (While the backoff does not overflow: see LoopsSurvive.)        *)
ArrivalIsScanned ==
  MaxTrouble <= MaxPower =>
    \A a \in Accounts, f \in Folders :
      <<a, f>> \in pending ~> <<a, f>> \notin pending \/ signalled

(* "Transient failures ... back off exponentially up to max_delay_seconds"  *)
(* (config.py:51): however often a connection fails, the scheduler threads  *)
(* of a daemon that is not stopping go on trying.                          *)
LoopsSurvive == ~ stop => \A l \in Loops : pc[l] # "gone"

=============================================================================
