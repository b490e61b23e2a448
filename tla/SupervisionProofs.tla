-------------------------- MODULE SupervisionProofs -------------------------
(* Types, and one alert of the watchdog per outage, for any delays, limit    *)
(* and threshold.                                                          *)
EXTENDS Supervision, TLAPS

AlertOK == alert \in [Callers -> {"off", "look", "look again"}]

(* Whoever is up owes nobody a page: ComeUp forgets, Pages needs ~ IsUp.    *)
UpUnpaged == IsUp => paged = {}

(* ALERTED is the memory of the page: it is there once the watchdog's own   *)
(* run of the script is over, and no run starts while it is.               *)
Remembered ==
  /\ alert["watchdog"] # "off" => watchdog = "alerting"
  /\ watchdog = "alerting" => ~ alerted
  /\ "watchdog" \in paged =>
       alerted \/ (watchdog = "alerting" /\ alert["watchdog"] = "off")

IInv == AlertOK /\ UpUnpaged /\ Remembered /\ WatchdogPagesOnce

LEMMA Initially ==
  ASSUME Init
  PROVE  IInv
BY DEF Init, IInv, AlertOK, UpUnpaged, Remembered, WatchdogPagesOnce, IsUp, Callers

(* What systemd, the daemon and the operator do to the unit.               *)
LEMMA UnitKeeps ==
  ASSUME IInv, Restart \/ StartLimitHit \/ Fail \/ OperatorStarts \/ OperatorStops
  PROVE  IInv'
<1> USE DEF IInv, AlertOK, UpUnpaged, Remembered, WatchdogPagesOnce, IsUp, Callers
<1>1. CASE Restart
  BY <1>1 DEF Restart, RestartDue, ComeUp
<1>2. CASE StartLimitHit
  BY <1>2 DEF StartLimitHit, RestartDue, TriggerAlert
<1>3. CASE Fail
  BY <1>3 DEF Fail, TriggerAlert
<1>4. CASE OperatorStarts
  BY <1>4 DEF OperatorStarts, ComeUp
<1>5. CASE OperatorStops
  BY <1>5 DEF OperatorStops
<1>. QED  BY <1>1, <1>2, <1>3, <1>4, <1>5

(* mailwatch-watchdog: ALERTED goes only when the unit is up, and then no   *)
(* page is remembered.                                                     *)
LEMMA WatchdogKeeps ==
  ASSUME IInv, Tick \/ WatchdogScript
  PROVE  IInv'
<1> USE DEF IInv, AlertOK, UpUnpaged, Remembered, WatchdogPagesOnce, IsUp, Callers
<1>1. CASE Tick
  BY <1>1 DEF Tick, Quiet
<1>2. CASE Healthy
  BY <1>2 DEF Healthy
<1>3. CASE NotesDown
  BY <1>3 DEF NotesDown
<1>4. CASE HoldsBack
  <2>1. /\ watchdog = "due" /\ watchdog' = "idle"
        /\ UNCHANGED <<unit, alerted, alert, paged, repeated>>
    BY <1>4 DEF HoldsBack
  <2>. QED  BY <2>1
<1>5. CASE CallsAlert
  BY <1>5 DEF CallsAlert, AlertGoto
<1>6. CASE TouchesAlerted
  BY <1>6 DEF TouchesAlerted
<1>. QED  BY <1>1, <1>2, <1>3, <1>4, <1>5, <1>6 DEF WatchdogScript

(* mailwatch-alert, run by either caller.                                  *)
LEMMA AlertKeeps ==
  ASSUME IInv, NEW c \in Callers, AlertScript(c)
  PROVE  IInv'
<1> USE DEF IInv, AlertOK, UpUnpaged, Remembered, WatchdogPagesOnce, IsUp, Callers
<1>1. CASE LooksUp(c)
  BY <1>1 DEF LooksUp, AlertGoto
<1>2. CASE Sleeps(c)
  BY <1>2 DEF Sleeps, AlertGoto
<1>3. CASE Pages(c)
  BY <1>3 DEF Pages, Page, AlertGoto
<1>. QED  BY <1>1, <1>2, <1>3 DEF AlertScript

LEMMA Inductive ==
  ASSUME IInv, [Next]_vars
  PROVE  IInv'
<1>1. CASE UNCHANGED vars
  BY <1>1 DEF vars, IInv, AlertOK, UpUnpaged, Remembered, WatchdogPagesOnce, IsUp
<1>2. CASE Next
  BY <1>2, UnitKeeps, WatchdogKeeps, AlertKeeps DEF Next, Systemd
<1>. QED  BY <1>1, <1>2

(* Between two times the unit comes up the watchdog pages at most once,     *)
(* however its runs interleave with systemd, the operator and the alert     *)
(* that OnFailure= starts (mailwatch-watchdog:21).                         *)
THEOREM OneAlertPerOutage == Spec => []WatchdogPagesOnce
<1>1. Init => IInv
  BY Initially
<1>2. IInv /\ [Next]_vars => IInv'
  BY Inductive
<1>3. IInv => WatchdogPagesOnce
  BY DEF IInv
<1>. QED  BY <1>1, <1>2, <1>3, PTL DEF Spec

-----------------------------------------------------------------------------
(* TypeOK in two halves, made inductive: the watchdog calls the alert       *)
(* script, and writes ALERTED, only an hour after DOWN_SINCE, which nothing *)
(* removes meanwhile.                                                      *)
Numbers ==
  /\ restarts \in 0..Steps
  /\ due \in Nat /\ \A n \in 1..Steps : restarts = n => due <= Delay[n]
  /\ age \in 0..Window /\ num \in 1..Burst
  /\ since \in {Absent} \cup 0..Threshold
  /\ down \in 0..Enough

Scripts ==
  /\ unit \in {"active", "activating", "failed", "inactive"}
  /\ watchdog \in {"idle", "due", "alerting"}
  /\ alerted \in BOOLEAN /\ (alerted => since = Threshold)
  /\ watchdog = "alerting" => since = Threshold
  /\ alert \in [Callers -> {"off", "look", "look again"}]
  /\ alert["watchdog"] # "off" => watchdog = "alerting"
  /\ paged \subseteq Callers /\ repeated \in BOOLEAN

LEMMA DelayFacts ==
  /\ Steps \in Nat \ {0}
  /\ \A n \in 1..Steps : Delay[n] \in Nat \ {0}
  /\ Threshold \in Nat \ {0} /\ Burst \in Nat \ {0} /\ Window \in Nat
  /\ Enough \in Nat
BY SupervisionAssumption DEF Steps, Enough

(* What a step of systemd, of the daemon or of the operator does to the     *)
(* numbers: the start limit keeps the starts of a window within Burst, and  *)
(* a failure draws the delay of its turn.                                  *)
LEMMA NumbersKept ==
  ASSUME Numbers, Scripts, Systemd \/ Fail \/ OperatorStarts \/ OperatorStops
  PROVE  Numbers'
<1> USE DelayFacts DEF Numbers, Absent
<1>1. CASE Restart \/ OperatorStarts
  <2>1. /\ WithinLimit /\ CountStart
        /\ due' = due /\ since' = since /\ down' = 0
        /\ restarts' = restarts \/ restarts' = 0
    BY <1>1 DEF Restart, RestartDue, OperatorStarts, ComeUp
  <2>2. age' \in 0..Window /\ num' \in 1..Burst
    BY <2>1 DEF WithinLimit, CountStart
  <2>. QED  BY <2>1, <2>2
<1>2. CASE StartLimitHit
  BY <1>2 DEF StartLimitHit
<1>3. CASE Tick
  <2>1. /\ due' = IF due > 0 THEN due - 1 ELSE 0
        /\ age' = IF age < Window THEN age + 1 ELSE age
        /\ since' = IF since \in 0..(Threshold - 1) THEN since + 1 ELSE since
        /\ down' = down \/ (down < Enough /\ down' = down + 1)
        /\ UNCHANGED <<restarts, num>>
    BY <1>3 DEF Tick
  <2>2. due' \in Nat /\ due' <= due
    BY <2>1
  <2>3. \A n \in 1..Steps : restarts = n => due' <= Delay[n]
    BY <2>1
  <2>. QED  BY <2>1, <2>2, <2>3
<1>4. CASE Fail
  <2>1. /\ restarts' \in 1..Steps
        /\ due' \in {Delay[restarts'] - 1, Delay[restarts']}
        /\ UNCHANGED <<age, num, since, down>>
    BY <1>4 DEF Fail
  <2>. QED  BY <2>1
<1>5. CASE OperatorStops
  BY <1>5 DEF OperatorStops
<1>. QED  BY <1>1, <1>2, <1>3, <1>4, <1>5 DEF Systemd

(* The scripts only ever write DOWN_SINCE as now, and remove it.            *)
LEMMA NumbersOfScripts ==
  ASSUME Numbers, WatchdogScript \/ \E c \in Callers : AlertScript(c)
  PROVE  Numbers'
<1>1. /\ UNCHANGED <<restarts, due, age, num, down>>
      /\ since' \in {since, Absent, 0}
  <2>1. CASE WatchdogScript
    BY <2>1 DEF WatchdogScript, Healthy, NotesDown, HoldsBack, CallsAlert, TouchesAlerted
  <2>2. ASSUME NEW c \in Callers, AlertScript(c)
        PROVE  /\ UNCHANGED <<restarts, due, age, num, down>>
               /\ since' \in {since, Absent, 0}
    BY <2>2 DEF AlertScript, LooksUp, Sleeps, Pages
  <2>. QED  BY <2>1, <2>2
<1>. QED  BY <1>1, DelayFacts DEF Numbers, Absent

(* DOWN_SINCE is there, and old enough, or it is not; once the hour is up   *)
(* the clock stands still.                                                 *)
LEMMA HourIsUp ==
  ASSUME Numbers
  PROVE  /\ since >= Threshold => since = Threshold
         /\ since = Absent => since # Threshold
BY DelayFacts DEF Numbers, Absent

LEMMA ClockStops ==
  ASSUME Tick, since = Threshold
  PROVE  since' = Threshold
BY DelayFacts DEF Tick

(* The same for the scripts, the unit and the two files: the hour is up     *)
(* when the watchdog calls the alert script, the clock stands still while   *)
(* that runs, and only a look at a unit that is up removes DOWN_SINCE.      *)
LEMMA ScriptsKept ==
  ASSUME Numbers, Scripts, Next
  PROVE  Scripts'
<1> USE DEF Scripts, Callers
<1>1. CASE Restart
  BY <1>1 DEF Restart, RestartDue, ComeUp
<1>2. CASE StartLimitHit
  BY <1>2 DEF StartLimitHit, RestartDue, TriggerAlert
<1>3. CASE Tick
  <2>1. since = Threshold => since' = Threshold
    BY <1>3, ClockStops
  <2>2. /\ watchdog = "idle" /\ watchdog' = "due" /\ alert["watchdog"] = "off"
        /\ UNCHANGED <<unit, alerted, alert, paged, repeated>>
    BY <1>3 DEF Tick, Quiet
  <2>. QED  BY <2>1, <2>2
<1>4. CASE Fail
  BY <1>4 DEF Fail, TriggerAlert
<1>5. CASE OperatorStarts
  BY <1>5 DEF OperatorStarts, ComeUp
<1>6. CASE OperatorStops
  BY <1>6 DEF OperatorStops
<1>7. CASE Healthy
  BY <1>7 DEF Healthy
<1>8. CASE NotesDown
  <2>1. since # Threshold
    BY <1>8, HourIsUp DEF NotesDown
  <2>. QED  BY <1>8, <2>1 DEF NotesDown
<1>9. CASE HoldsBack
  <2>1. /\ watchdog = "due" /\ watchdog' = "idle"
        /\ UNCHANGED <<unit, since, alerted, alert, paged, repeated>>
    BY <1>9 DEF HoldsBack
  <2>. QED  BY <2>1
<1>10. CASE CallsAlert
  <2>1. since = Threshold
    BY <1>10, HourIsUp DEF CallsAlert
  <2>. QED  BY <1>10, <2>1 DEF CallsAlert, AlertGoto
<1>11. CASE TouchesAlerted
  BY <1>11 DEF TouchesAlerted
<1>12. ASSUME NEW c \in Callers, AlertScript(c)
       PROVE  Scripts'
  <2>1. CASE LooksUp(c)
    BY <1>12, <2>1 DEF LooksUp, AlertGoto
  <2>2. CASE Sleeps(c)
    BY <1>12, <2>2 DEF Sleeps, AlertGoto
  <2>3. CASE Pages(c)
    BY <1>12, <2>3 DEF Pages, Page, AlertGoto
  <2>. QED  BY <1>12, <2>1, <2>2, <2>3 DEF AlertScript
<1>. QED
  BY <1>1, <1>2, <1>3, <1>4, <1>5, <1>6, <1>7, <1>8, <1>9, <1>10, <1>11, <1>12
     DEF Next, Systemd, WatchdogScript

(* Type correctness of systemd's counters and the scripts' two files, with  *)
(* the start limit as a bound and ALERTED only after an hour down.          *)
THEOREM TypeCorrect == Spec => []TypeOK
<1>1. Init => Numbers /\ Scripts
  <2>1. Init => Numbers
    BY DelayFacts DEF Init, Numbers, Absent
  <2>2. Init => Scripts
    BY DelayFacts DEF Init, Scripts, Callers, Absent
  <2>. QED  BY <2>1, <2>2
<1>2. Numbers /\ Scripts /\ [Next]_vars => (Numbers /\ Scripts)'
  <2>1. Numbers /\ Scripts /\ Next => Numbers'
    BY NumbersKept, NumbersOfScripts DEF Next
  <2>2. Numbers /\ UNCHANGED vars => Numbers'
    BY DEF vars, Numbers
  <2>3. ASSUME Scripts, UNCHANGED vars
        PROVE  Scripts'
    <3>1. UNCHANGED <<unit, watchdog, since, alerted, alert, paged, repeated>>
      BY <2>3 DEF vars
    <3>. QED  BY <2>3, <3>1 DEF Scripts
  <2>. QED  BY <2>1, <2>2, <2>3, ScriptsKept
<1>3. Numbers /\ Scripts => TypeOK
  <2>1. Numbers => due >= 0
    BY DEF Numbers
  <2>. QED  BY <2>1, Zenon DEF Numbers, Scripts, TypeOK
<1>. QED  BY <1>1, <1>2, <1>3, PTL DEF Spec

=============================================================================
