----------------------------- MODULE Supervision ----------------------------
(* Who learns that the daemon is down (mailwatch/systemd/): systemd restarts *)
(* mailwatch.service with growing delays and runs mailwatch-alert on each    *)
(* failure; mailwatch-watchdog looks every 10 minutes, a tick of the model,  *)
(* and runs mailwatch-alert after an hour.  mailwatch-alert looks at the     *)
(* unit, sleeps 2 s, looks again, and pages if the unit was down both times. *)
(* What systemd does is modelled from the settings of the unit file.         *)
EXTENDS Integers, Sequences

CONSTANTS
  Delay,        \* ticks from the n-th failure to the restart, the last for good
  Window,       \* StartLimitIntervalSec, in ticks
  Burst,        \* StartLimitBurst
  Threshold     \* MAILWATCH_WATCHDOG_THRESHOLD, in ticks

ASSUME SupervisionAssumption ==
  /\ Delay \in Seq(Nat \ {0}) /\ Delay # <<>>
  /\ Window \in Nat /\ Burst \in Nat \ {0} /\ Threshold \in Nat \ {0}

VARIABLES
  unit,       \* systemctl is-active mailwatch.service
  due,        \* ticks to the pending restart
  restarts,   \* restarts since the unit was last started by hand
  age, num,   \* the start limit: ticks of the window gone by, starts in it
  watchdog,   \* the timer's run of mailwatch-watchdog
  since,      \* ticks since DOWN_SINCE was written, Absent if it is not there
  alerted,    \* ALERTED is there
  alert,      \* per caller, its run of mailwatch-alert
  paged,      \* history: callers that paged since the unit last came up
  repeated,   \* history: the watchdog paged again in that time
  down        \* history: ticks the pending restart has taken, up to Enough

vars == <<unit, due, restarts, age, num, watchdog, since, alerted, alert, paged, repeated, down>>

Callers == {"OnFailure", "watchdog"}
Absent == -1
Steps == Len(Delay)

(* Down for the threshold, seen by the watchdog one tick late, and its run  *)
(* over.                                                                   *)
Enough == Threshold + 2

Init ==
  /\ unit = "active" /\ due = 0 /\ restarts = 0
  /\ age = 0 /\ num = 1
  /\ watchdog = "idle" /\ since = Absent /\ alerted = FALSE
  /\ alert = [c \in Callers |-> "off"]
  /\ paged = {} /\ repeated = FALSE
  /\ down = 0

-----------------------------------------------------------------------------
(* systemd and the operator.                                               *)

(* OnFailure=: a start job for a unit that still runs is merged with it.    *)
TriggerAlert ==
  alert' = [alert EXCEPT !["OnFailure"] = IF @ = "off" THEN "look" ELSE @]

WithinLimit == age >= Window \/ num < Burst

CountStart ==
  IF age >= Window THEN age' = 0 /\ num' = 1 ELSE num' = num + 1 /\ UNCHANGED age

(* The service is up; Type=simple does not wait for it to do anything.      *)
ComeUp ==
  /\ unit' = "active"
  /\ CountStart
  /\ paged' = {} /\ repeated' = FALSE
  /\ down' = 0

(* The daemon exits with an error, EXIT_AUTH_FAILURE for one.  The delay is *)
(* not in step with the timer, hence a tick more or less.                  *)
Fail ==
  /\ unit = "active"
  /\ unit' = "activating"
  /\ restarts' = IF restarts < Steps THEN restarts + 1 ELSE restarts
  /\ due' \in {Delay[restarts'] - 1, Delay[restarts']}
  /\ TriggerAlert
  /\ UNCHANGED <<age, num, watchdog, since, alerted, paged, repeated, down>>

(* Two seconds of mailwatch-alert are over long before five minutes.        *)
RestartDue == unit = "activating" /\ due = 0 /\ alert["OnFailure"] = "off"

Restart ==
  /\ RestartDue
  /\ WithinLimit
  /\ ComeUp
  /\ UNCHANGED <<due, restarts, watchdog, since, alerted, alert>>

StartLimitHit ==
  /\ RestartDue
  /\ ~ WithinLimit
  /\ unit' = "failed"
  /\ TriggerAlert
  /\ UNCHANGED <<due, restarts, age, num, watchdog, since, alerted, paged, repeated, down>>

OperatorStarts ==
  /\ unit \in {"failed", "inactive"}
  /\ WithinLimit
  /\ ComeUp
  /\ restarts' = 0
  /\ UNCHANGED <<due, watchdog, since, alerted, alert>>

OperatorStops ==
  /\ unit \in {"active", "activating"}
  /\ unit' = "inactive"
  /\ due' = 0
  /\ UNCHANGED <<restarts, age, num, watchdog, since, alerted, alert, paged, repeated, down>>

-----------------------------------------------------------------------------
(* mailwatch-alert.                                                        *)

IsUp == unit \in {"active", "activating"}

AlertGoto(c, point) == alert' = [alert EXCEPT ![c] = point]

(* A page: what caller c writes to alerts.log and the webhook.             *)
Page(c) ==
  /\ paged' = paged \cup {c}
  /\ repeated' = (repeated \/ (c = "watchdog" /\ c \in paged))

(* Mutant of LooksUp: the guard passes whatever the state of the unit.      *)
LooksUpUnlessInactive(c) ==
  /\ alert[c] # "off"
  /\ unit # "inactive"
  /\ AlertGoto(c, "off")
  /\ UNCHANGED <<unit, due, restarts, age, num, watchdog, since, alerted, paged, repeated, down>>

(* is_up: no alert, at the first look or after the sleep.                  *)
LooksUp(c) ==
  /\ alert[c] # "off"
  /\ IsUp
  /\ AlertGoto(c, "off")
  /\ UNCHANGED <<unit, due, restarts, age, num, watchdog, since, alerted, paged, repeated, down>>

Sleeps(c) ==
  /\ alert[c] = "look"
  /\ ~ IsUp
  /\ AlertGoto(c, "look again")
  /\ UNCHANGED <<unit, due, restarts, age, num, watchdog, since, alerted, paged, repeated, down>>

Pages(c) ==
  /\ alert[c] = "look again"
  /\ ~ IsUp
  /\ Page(c)
  /\ AlertGoto(c, "off")
  /\ UNCHANGED <<unit, due, restarts, age, num, watchdog, since, alerted, down>>

-----------------------------------------------------------------------------
(* mailwatch-watchdog.                                                     *)

Quiet == watchdog = "idle" /\ \A c \in Callers : alert[c] = "off"

(* OnUnitActiveSec=10min: the scripts are done by then, as is a restart.    *)
Tick ==
  /\ Quiet
  /\ unit = "activating" => due > 0
  /\ due' = IF due > 0 THEN due - 1 ELSE 0
  /\ age' = IF age < Window THEN age + 1 ELSE age
  /\ since' = IF since \in 0..(Threshold - 1) THEN since + 1 ELSE since
  /\ down' = IF unit = "activating" /\ down < Enough THEN down + 1 ELSE down
  /\ watchdog' = "due"
  /\ UNCHANGED <<unit, restarts, num, alerted, alert, paged, repeated>>

(* Mutant of Healthy: only DOWN_SINCE is removed.                          *)
HealthyKeepsAlerted ==
  /\ watchdog = "due"
  /\ unit = "active"
  /\ since' = Absent
  /\ watchdog' = "idle"
  /\ UNCHANGED <<unit, due, restarts, age, num, alerted, alert, paged, repeated, down>>

(* The unit is up: both files are removed.                                 *)
Healthy ==
  /\ watchdog = "due"
  /\ unit = "active"
  /\ since' = Absent /\ alerted' = FALSE
  /\ watchdog' = "idle"
  /\ UNCHANGED <<unit, due, restarts, age, num, alert, paged, repeated, down>>

NotesDown ==
  /\ watchdog = "due"
  /\ unit # "active"
  /\ since = Absent
  /\ since' = 0
  /\ watchdog' = "idle"
  /\ UNCHANGED <<unit, due, restarts, age, num, alerted, alert, paged, repeated, down>>

(* Below the threshold, or one alert per outage.                           *)
HoldsBack ==
  /\ watchdog = "due"
  /\ unit # "active"
  /\ since # Absent /\ (since < Threshold \/ alerted)
  /\ watchdog' = "idle"
  /\ UNCHANGED <<unit, due, restarts, age, num, since, alerted, alert, paged, repeated, down>>

CallsAlert ==
  /\ watchdog = "due"
  /\ unit # "active"
  /\ since >= Threshold /\ ~ alerted
  /\ watchdog' = "alerting"
  /\ AlertGoto("watchdog", "look")
  /\ UNCHANGED <<unit, due, restarts, age, num, since, alerted, paged, repeated, down>>

(* Mutant of TouchesAlerted: the file is not written.                      *)
ForgetsAlerted ==
  /\ watchdog = "alerting" /\ alert["watchdog"] = "off"
  /\ watchdog' = "idle"
  /\ UNCHANGED <<unit, due, restarts, age, num, since, alerted, alert, paged, repeated, down>>

(* mailwatch-alert has returned, whatever it did.                          *)
TouchesAlerted ==
  /\ watchdog = "alerting" /\ alert["watchdog"] = "off"
  /\ alerted' = TRUE
  /\ watchdog' = "idle"
  /\ UNCHANGED <<unit, due, restarts, age, num, since, alert, paged, repeated, down>>

AlertScript(c) == LooksUp(c) \/ Sleeps(c) \/ Pages(c)
WatchdogScript == Healthy \/ NotesDown \/ HoldsBack \/ CallsAlert \/ TouchesAlerted
Systemd == Restart \/ StartLimitHit \/ Tick

Next ==
  \/ Systemd \/ Fail
  \/ OperatorStarts \/ OperatorStops
  \/ WatchdogScript
  \/ \E c \in Callers : AlertScript(c)

Spec == Init /\ [][Next]_vars

(* Timers fire and scripts run to their end; nothing is asked of the daemon *)
(* or of the operator.                                                     *)
FairSpec ==
  /\ Spec
  /\ WF_vars(Systemd)
  /\ WF_vars(WatchdogScript)
  /\ \A c \in Callers : WF_vars(AlertScript(c))

-----------------------------------------------------------------------------
(* Properties.                                                             *)

(* What each variable holds; only the watchdog's own call sets ALERTED.    *)
TypeOK ==
  /\ unit \in {"active", "activating", "failed", "inactive"}
  /\ restarts \in 0..Steps
  /\ due >= 0 /\ \A n \in 1..Steps : restarts = n => due <= Delay[n]
  /\ age \in 0..Window /\ num \in 1..Burst
  /\ watchdog \in {"idle", "due", "alerting"}
  /\ since \in {Absent} \cup 0..Threshold
  /\ alerted \in BOOLEAN /\ (alerted => since = Threshold)
  /\ alert \in [Callers -> {"off", "look", "look again"}]
  /\ alert["watchdog"] # "off" => watchdog = "alerting"
  /\ down \in 0..Enough
  /\ paged \subseteq Callers /\ repeated \in BOOLEAN

(* mailwatch.service, OnFailure=: "Immediate alert if the daemon ultimately *)
(* fails".  A unit that gave up is paged, whatever state earlier outages    *)
(* left the scripts in, or the operator starts it first.                   *)
FailedIsPaged == unit = "failed" ~> (paged # {} \/ unit # "failed")

(* mailwatch-watchdog: "one alert per outage".                             *)
WatchdogPagesOnce == ~ repeated

(* README, Failure handling: the watchdog "also pages once the unit has     *)
(* been down for >= 1 h", meant for a unit that "usually keeps              *)
(* auto-restarting".  A unit that has waited that long for one restart, the *)
(* watchdog having run since, has been paged.                              *)
SustainedOutagePaged ==
  unit = "activating" /\ down = Enough /\ watchdog = "idle" => paged # {}

=============================================================================
