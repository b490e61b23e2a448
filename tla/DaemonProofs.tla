---------------------------- MODULE DaemonProofs ----------------------------
(* The daemon's locks and its exit code, for any accounts, IDLE threads and  *)
(* loops, whether it stops on a rejected login or not.                      *)
EXTENDS Daemon, TLAPS

(* A scan runs under its account's lock, a loop beyond "next" has an        *)
(* account, a thread that used up its reconnects is gone, and so is every   *)
(* thread of a process that exited.                                        *)
Held ==
  /\ \A w \in Workers : pc[w] = "scan" => lock[At(w)] = w
  /\ \A l \in Loops :
       pc[l] \in {"acquire", "scan", "auth", "code", "stop"} => cur[l] \in Accounts
  /\ \A t \in Watches : pc[t] # "gone" => reconnects[t] <= MaxReconnects
  /\ main = "exited" => \A w \in Workers : pc[w] = "gone"

(* Who is about to stop the daemon saw a rejection and sets the code first. *)
Codes ==
  /\ \A w \in Workers :
       /\ pc[w] \in {"auth", "code", "stop"} => rejected
       /\ pc[w] \in {"code", "stop"} => StopOnAuth
       /\ pc[w] = "stop" => exitCode = EXIT_AUTH_FAILURE
  /\ exitCode = EXIT_AUTH_FAILURE => rejected /\ StopOnAuth
  /\ stop => signalled \/ exitCode = EXIT_AUTH_FAILURE
  /\ main # "run" => stop

IInv == TypeOK /\ Held /\ Codes

LEMMA Initially ==
  ASSUME Init
  PROVE  IInv
<1> USE DaemonAssumption
    DEF Init, TypeOK, Held, Codes, FreshThreads, Point, At, Workers, EXIT_AUTH_FAILURE
<1>1. TypeOK
  <2>1. pc \in [Workers -> Point] /\ reconnects \in [Watches -> 0..(MaxReconnects + 1)]
    OBVIOUS
  <2>2. trouble \in 0..MaxTrouble
    OBVIOUS
  <2>3. failures \in [Accounts -> Nat] /\ lock \in [Accounts -> Workers \cup {NoOne}]
    OBVIOUS
  <2>4. cur \in [Loops -> Accounts \cup {NoOne}] /\ todo \in [Loops -> SUBSET Accounts]
    OBVIOUS
  <2>. QED  BY <2>1, <2>2, <2>3, <2>4
<1>2. Held
  OBVIOUS
<1>3. Codes
  OBVIOUS
<1>. QED  BY <1>1, <1>2, <1>3 DEF IInv

(* An IDLE thread holds no lock between its callbacks. *)
LEMMA IdleKeeps ==
  ASSUME IInv, NEW t \in Watches, Idle(t)
  PROVE  IInv'
<1> USE DaemonAssumption
    DEF IInv, TypeOK, Held, Codes, At, Workers, Goto, process, mail, backoff, threads, Point,
        EXIT_AUTH_FAILURE
<1>1. CASE Connects(t)
  <2>1. TypeOK'
    BY <1>1 DEF Connects
  <2>2. Held'
    BY <1>1 DEF Connects
  <2>3. Codes'
    BY <1>1 DEF Connects
  <2>. QED  BY <2>1, <2>2, <2>3
<1>2. CASE LoginRejected(t)
  <2>1. TypeOK'
    BY <1>2 DEF LoginRejected, Trouble
  <2>2. Held'
    BY <1>2 DEF LoginRejected, Trouble
  <2>3. Codes'
    BY <1>2 DEF LoginRejected, Trouble
  <2>. QED  BY <2>1, <2>2, <2>3
<1>3. CASE Disconnects(t)
  <2>1. TypeOK'
    BY <1>3 DEF Disconnects, Trouble
  <2>2. Held'
    BY <1>3 DEF Disconnects, Trouble
  <2>3. Codes'
    BY <1>3 DEF Disconnects, Trouble
  <2>. QED  BY <2>1, <2>2, <2>3
<1>4. CASE Reconnects(t)
  <2>1. TypeOK'
    BY <1>4 DEF Reconnects
  <2>2. Held'
    BY <1>4 DEF Reconnects
  <2>3. Codes'
    BY <1>4 DEF Reconnects
  <2>. QED  BY <2>1, <2>2, <2>3
<1>5. CASE Notified(t)
  <2>1. TypeOK'
    BY <1>5 DEF Notified
  <2>2. Held'
    BY <1>5 DEF Notified
  <2>3. Codes'
    BY <1>5 DEF Notified
  <2>. QED  BY <2>1, <2>2, <2>3
<1>6. CASE IdleEnds(t)
  <2>1. TypeOK'
    BY <1>6 DEF IdleEnds
  <2>2. Held'
    BY <1>6 DEF IdleEnds
  <2>3. Codes'
    BY <1>6 DEF IdleEnds
  <2>. QED  BY <2>1, <2>2, <2>3
<1>. QED  BY <1>1, <1>2, <1>3, <1>4, <1>5, <1>6 DEF Idle

(* A loop chooses its account while it holds no lock. *)
LEMMA LoopKeeps ==
  ASSUME IInv, NEW l \in Loops, Loop(l)
  PROVE  IInv'
<1> USE DaemonAssumption
    DEF IInv, TypeOK, Held, Codes, At, Workers, Goto, process, mail, backoff, threads, Point,
        EXIT_AUTH_FAILURE
<1>1. CASE RoundBegins(l)
  <2>1. TypeOK'
    BY <1>1 DEF RoundBegins
  <2>2. Held'
    BY <1>1 DEF RoundBegins
  <2>3. Codes'
    BY <1>1 DEF RoundBegins
  <2>. QED  BY <2>1, <2>2, <2>3
<1>2. CASE RoundEnds(l)
  <2>1. TypeOK'
    BY <1>2 DEF RoundEnds
  <2>2. Held'
    BY <1>2 DEF RoundEnds
  <2>3. Codes'
    BY <1>2 DEF RoundEnds
  <2>. QED  BY <2>1, <2>2, <2>3
<1>3. CASE LoopEnds(l)
  <2>1. TypeOK'
    BY <1>3 DEF LoopEnds
  <2>2. Held'
    BY <1>3 DEF LoopEnds
  <2>3. Codes'
    BY <1>3 DEF LoopEnds
  <2>. QED  BY <2>1, <2>2, <2>3
<1>4. CASE \E a \in Accounts : Considers(l, a)
  <2>1. TypeOK'
    BY <1>4 DEF Considers
  <2>2. Held'
    BY <1>4 DEF Considers
  <2>3. Codes'
    BY <1>4 DEF Considers
  <2>. QED  BY <2>1, <2>2, <2>3
<1>. QED  BY <1>1, <1>2, <1>3, <1>4 DEF Loop

(* A scan starts with the free lock in hand, and ends with all of them free. *)
LEMMA ScanKeeps ==
  ASSUME IInv, NEW w \in Workers, Scan(w)
  PROVE  IInv'
<1> USE DaemonAssumption
    DEF IInv, TypeOK, Held, Codes, At, Workers, Goto, process, mail, backoff, threads, Point,
        EXIT_AUTH_FAILURE
<1>1. CASE Acquire(w)
  <2>1. TypeOK'
    BY <1>1 DEF Acquire, Scans
  <2>2. Held'
    BY <1>1 DEF Acquire, Scans
  <2>3. Codes'
    BY <1>1 DEF Acquire, Scans
  <2>. QED  BY <2>1, <2>2, <2>3
<1>2. CASE TimesOut(w)
  <2>1. TypeOK'
    BY <1>2 DEF TimesOut
  <2>2. Held'
    BY <1>2 DEF TimesOut
  <2>3. Codes'
    BY <1>2 DEF TimesOut
  <2>. QED  BY <2>1, <2>2, <2>3
<1>3. CASE ScanSucceeds(w)
  <2>1. TypeOK'
    BY <1>3 DEF ScanSucceeds, Scans, Return, Release, Holds
  <2>2. Held'
    BY <1>3 DEF ScanSucceeds, Scans, Return, Release, Holds
  <2>3. Codes'
    BY <1>3 DEF ScanSucceeds, Scans, Return, Release, Holds
  <2>. QED  BY <2>1, <2>2, <2>3
<1>4. CASE ScanRejected(w)
  <2>1. TypeOK'
    BY <1>4 DEF ScanRejected, Trouble
  <2>2. Held'
    BY <1>4 DEF ScanRejected, Trouble
  <2>3. Codes'
    BY <1>4 DEF ScanRejected, Trouble
  <2>. QED  BY <2>1, <2>2, <2>3
<1>5. CASE ScanDisconnected(w)
  <2>1. TypeOK'
    BY <1>5 DEF ScanDisconnected, Trouble, RecordFailure, Raise, Return, Release, Holds
  <2>2. Held'
    BY <1>5 DEF ScanDisconnected, Trouble, RecordFailure, Raise, Return, Release, Holds
  <2>3. Codes'
    BY <1>5 DEF ScanDisconnected, Trouble, RecordFailure, Raise, Return, Release, Holds
  <2>. QED  BY <2>1, <2>2, <2>3
<1>6. CASE ScanFails(w)
  <2>1. TypeOK'
    BY <1>6 DEF ScanFails, Trouble, Return, Release, Holds
  <2>2. Held'
    BY <1>6 DEF ScanFails, Trouble, Return, Release, Holds
  <2>3. Codes'
    BY <1>6 DEF ScanFails, Trouble, Return, Release, Holds
  <2>. QED  BY <2>1, <2>2, <2>3
<1>. QED  BY <1>1, <1>2, <1>3, <1>4, <1>5, <1>6 DEF Scan

(* The code is set before the stop. *)
LEMMA HandlerKeeps ==
  ASSUME IInv, NEW w \in Workers, Handler(w)
  PROVE  IInv'
<1> USE DaemonAssumption
    DEF IInv, TypeOK, Held, Codes, At, Workers, Goto, process, mail, backoff, threads, Point,
        EXIT_AUTH_FAILURE
<1>1. CASE HandlesRejection(w)
  <2>1. TypeOK'
    BY <1>1 DEF HandlesRejection, RecordFailure, Raise, Return, Release, Holds
  <2>2. Held'
    BY <1>1 DEF HandlesRejection, RecordFailure, Raise, Return, Release, Holds
  <2>3. Codes'
    BY <1>1 DEF HandlesRejection, RecordFailure, Raise, Return, Release, Holds
  <2>. QED  BY <2>1, <2>2, <2>3
<1>2. CASE SetsCode(w)
  <2>1. TypeOK'
    BY <1>2 DEF SetsCode
  <2>2. Held'
    BY <1>2 DEF SetsCode
  <2>3. Codes'
    BY <1>2 DEF SetsCode
  <2>. QED  BY <2>1, <2>2, <2>3
<1>3. CASE SetsStop(w)
  <2>1. TypeOK'
    BY <1>3 DEF SetsStop, Return, Release, Holds
  <2>2. Held'
    BY <1>3 DEF SetsStop, Return, Release, Holds
  <2>3. Codes'
    BY <1>3 DEF SetsStop, Return, Release, Holds
  <2>. QED  BY <2>1, <2>2, <2>3
<1>. QED  BY <1>1, <1>2, <1>3 DEF Handler

(* Signals, the end of the process, its restart, and the world. *)
World ==
  \E a \in Accounts : WindowEnds(a) \/ \E f \in Folders : Arrives(a, f)

LEMMA MainKeeps ==
  ASSUME IInv, Signal \/ ShutsDown \/ Exits \/ Boot \/ World
  PROVE  IInv'
<1> USE DaemonAssumption
    DEF IInv, TypeOK, Held, Codes, At, Workers, Goto, process, mail, backoff, threads, Point,
        EXIT_AUTH_FAILURE
<1>1. CASE Signal
  <2>1. TypeOK'
    BY <1>1 DEF Signal
  <2>2. Held'
    BY <1>1 DEF Signal
  <2>3. Codes'
    BY <1>1 DEF Signal
  <2>. QED  BY <2>1, <2>2, <2>3
<1>2. CASE ShutsDown
  <2>1. TypeOK'
    BY <1>2 DEF ShutsDown
  <2>2. Held'
    BY <1>2 DEF ShutsDown
  <2>3. Codes'
    BY <1>2 DEF ShutsDown
  <2>. QED  BY <2>1, <2>2, <2>3
<1>3. CASE Exits
  <2>1. TypeOK'
    BY <1>3 DEF Exits
  <2>2. Held'
    BY <1>3 DEF Exits
  <2>3. Codes'
    BY <1>3 DEF Exits
  <2>. QED  BY <2>1, <2>2, <2>3
<1>4. CASE Boot
  <2>1. TypeOK'
    <3>. USE <1>4 DEF Boot, FreshThreads
    <3>1. pc' \in [Workers -> Point] /\ reconnects' \in [Watches -> 0..(MaxReconnects + 1)]
      OBVIOUS
    <3>2. failures' \in [Accounts -> Nat]
      OBVIOUS
    <3>3. cur' \in [Loops -> Accounts \cup {NoOne}] /\ todo' \in [Loops -> SUBSET Accounts]
      OBVIOUS
    <3>4. lock' \in [Accounts -> Workers \cup {NoOne}]
      OBVIOUS
    <3>5. \A a \in Accounts : lock'[a] = NoOne
      OBVIOUS
    <3>6. /\ pending' \subseteq Accounts \X Folders /\ listed' \subseteq pending'
          /\ trouble' \in 0..MaxTrouble /\ window' \subseteq Accounts
      OBVIOUS
    <3>7. /\ main' \in {"run", "stopping", "exited"} /\ stop' \in BOOLEAN
          /\ exitCode' \in {0, EXIT_AUTH_FAILURE} /\ signalled' \in BOOLEAN
          /\ rejected' \in BOOLEAN /\ pushed' \subseteq Watches
      OBVIOUS
    <3>. HIDE DEF Boot
    <3>. QED  BY <3>1, <3>2, <3>3, <3>4, <3>5, <3>6, <3>7
  <2>2. Held'
    BY <1>4 DEF Boot, FreshThreads
  <2>3. Codes'
    BY <1>4 DEF Boot, FreshThreads
  <2>. QED  BY <2>1, <2>2, <2>3
<1>5. CASE World
  <2>1. TypeOK'
    BY <1>5 DEF World, WindowEnds, Arrives
  <2>2. Held'
    BY <1>5 DEF World, WindowEnds, Arrives
  <2>3. Codes'
    BY <1>5 DEF World, WindowEnds, Arrives
  <2>. QED  BY <2>1, <2>2, <2>3
<1>. QED  BY <1>1, <1>2, <1>3, <1>4, <1>5 DEF World

LEMMA Inductive ==
  ASSUME IInv, [Next]_vars
  PROVE  IInv'
<1>1. CASE Next
  BY <1>1, IdleKeeps, LoopKeeps, ScanKeeps, HandlerKeeps, MainKeeps
     DEF Next, Restarts, OperatorStarts, World
<1>2. CASE UNCHANGED vars
  BY <1>2 DEF vars, process, threads, backoff, mail, IInv, TypeOK, Held, Codes, At
<1>. QED  BY <1>1, <1>2

LEMMA Invariance == Spec => []IInv
<1>. QED  BY Initially, Inductive, PTL DEF Spec

(* Every variable keeps its meaning; a lock belongs to a worker that scans   *)
(* the account or handles its rejection, and to nobody else for ever.       *)
THEOREM TypeCorrect == Spec => []TypeOK
<1>1. IInv => TypeOK
  BY DEF IInv
<1>. QED  BY <1>1, Invariance, PTL

(* However many callbacks, loops, timeouts, failures and restarts there are, *)
(* no two workers scan an account at once.                                  *)
THEOREM LocksExclude == Spec => []OneScanPerAccount
<1>1. IInv => OneScanPerAccount
  BY DEF IInv, Held, OneScanPerAccount
<1>. QED  BY <1>1, Invariance, PTL

(* A process that nobody told to stop exits with 3, which systemd's          *)
(* Restart=on-failure and the operator see; and 3 says a login was rejected. *)
THEOREM CodeTellsWhy == Spec => []ExitCodeTellsWhy
<1>1. IInv => ExitCodeTellsWhy
  BY DEF IInv, TypeOK, Codes, ExitCodeTellsWhy, EXIT_AUTH_FAILURE
<1>. QED  BY <1>1, Invariance, PTL
=============================================================================
