------------------------------ MODULE AlertEngine ------------------------------
(***************************************************************************)
(* The alert of one sensor in crates/hwall-app/src/alerts.rs.  The engine  *)
(* keeps one RuntimeAlert per sensor key and evaluates every key of a      *)
(* snapshot independently, so one key is modelled, with the rule the user  *)
(* may change at any time (which resets the entry) and the readings a      *)
(* snapshot may hold for it.                                               *)
(*                                                                         *)
(* Values, thresholds and hysteresis are integers: the code only compares, *)
(* adds and subtracts them.  Time is in the unit of the rule's durations.  *)
(***************************************************************************)
EXTENDS Integers

CONSTANTS
    Values,   \* readings of the sensor
    Rules,    \* rules the user may set
    MaxTime   \* bound on the clock

Normal == 0
Warning == 1
Critical == 2
Severity == {Normal, Warning, Critical}

(* An Option is the set of its value. *)
Some(option) == option # {}
Option(S) == { option \in SUBSET S : \A x, y \in option : x = y }
Threshold == Option(Int)

Rule == [warningBelow : Threshold, criticalBelow : Threshold,
         warningAbove : Threshold, criticalAbove : Threshold,
         duration : Nat, hysteresis : Nat, cooldown : Nat,
         notifications : BOOLEAN, recoveryNotifications : BOOLEAN]

ASSUME AlertAssumption ==
    /\ Values \subseteq Int
    /\ Rules \subseteq Rule
    /\ MaxTime \in Nat

-----------------------------------------------------------------------------
(* AlertRule *)

IsConfigured(rule) ==
    \/ Some(rule.warningBelow) \/ Some(rule.criticalBelow)
    \/ Some(rule.warningAbove) \/ Some(rule.criticalAbove)

Beyond(value, below, above) ==
    (\E t \in below : value <= t) \/ (\E t \in above : value >= t)

SeverityForValue(rule, value) ==
    IF Beyond(value, rule.criticalBelow, rule.criticalAbove) THEN Critical
    ELSE IF Beyond(value, rule.warningBelow, rule.warningAbove) THEN Warning
    ELSE Normal

ThresholdRetained(value, below, above, hysteresis) ==
    \/ \E t \in below : value <= t + hysteresis
    \/ \E t \in above : value >= t - hysteresis

(* A mutant: a critical alert that is over is normal. *)
RetainedOrNormal(rule, value, active) ==
    IF active = Critical
       /\ ThresholdRetained(value, rule.criticalBelow, rule.criticalAbove,
                            rule.hysteresis)
    THEN Critical
    ELSE IF active = Warning
            /\ ThresholdRetained(value, rule.warningBelow, rule.warningAbove,
                                 rule.hysteresis)
    THEN Warning
    ELSE Normal

RetainedSeverity(rule, value, active) ==
    IF active = Critical
       /\ ThresholdRetained(value, rule.criticalBelow, rule.criticalAbove,
                            rule.hysteresis)
    THEN Critical
    ELSE IF active # Normal
            /\ ThresholdRetained(value, rule.warningBelow, rule.warningAbove,
                                 rule.hysteresis)
    THEN Warning
    ELSE Normal

-----------------------------------------------------------------------------
(* AlertEngine *)

VARIABLES
    now,       \* the clock
    rule,      \* settings.sensor_alerts for the key
    tracked,   \* the engine has an entry for the key
    runtime,   \* the entry: struct RuntimeAlert
    event,     \* the AlertEvent of the last evaluation, if any
    readings,  \* what the properties remember of the readings
    notices    \* what they remember of the activation notices

vars == <<now, rule, tracked, runtime, event, readings, notices>>

At(time, severity) == [at |-> time, severity |-> severity]
Stamps == Option([at : Nat, severity : Severity])

Runtime == [active : Severity, candidate : Stamps, suspended : BOOLEAN,
            lastNotification : Stamps, episodeNotified : BOOLEAN]

Event == [severity : Severity, recovered : BOOLEAN, notify : BOOLEAN]

(* measured: severity of the last reading, none if it was suspect; since:  *)
(* when the readings began to measure it; beyond: since when every reading *)
(* was beyond some limit, if so.                                           *)
Readings == [measured : Option(Severity), since : Nat, beyond : Option(Nat)]
NoReadings == [measured |-> {}, since |-> 0, beyond |-> {}]

(* last: the last activation notice; announced: there was one since the    *)
(* alert was last normal.                                                  *)
Notices == [last : Stamps, announced : BOOLEAN]
NoNotices == [last |-> {}, announced |-> FALSE]

NewRuntime == [active |-> Normal, candidate |-> {}, suspended |-> FALSE,
               lastNotification |-> {}, episodeNotified |-> FALSE]

TypeOK ==
    /\ now \in Nat
    /\ rule \in Rules
    /\ tracked \in BOOLEAN
    /\ runtime \in Runtime
    /\ event \in Option(Event)
    /\ readings \in Readings
    /\ notices \in Notices

(* Mutants: an earlier candidate of another severity waits on beside the    *)
(* new one, or in its place.                                               *)
CandidateAdded(severity) ==
    IF \E c \in runtime.candidate : c.severity = severity
    THEN runtime.candidate ELSE runtime.candidate \cup {At(now, severity)}

CandidateKept(severity) ==
    IF runtime.candidate # {} THEN runtime.candidate ELSE {At(now, severity)}

(* A threshold of a higher severity restarts the wait. *)
Candidate(severity) ==
    IF \E c \in runtime.candidate : c.severity = severity
    THEN runtime.candidate ELSE {At(now, severity)}

Ready(candidate) ==
    rule.duration = 0 \/ \E c \in candidate : now - c.at >= rule.duration

(* active and candidate after a reading of severity s *)
Escalated(s) ==
    IF Ready(Candidate(s))
    THEN [runtime EXCEPT !.active = s, !.candidate = {}, !.suspended = FALSE]
    ELSE [runtime EXCEPT !.candidate = Candidate(s), !.suspended = FALSE]

Assessed(value) ==
    LET s == SeverityForValue(rule, value)
    IN IF s > runtime.active THEN Escalated(s)
       ELSE [runtime EXCEPT
                !.active = IF s < @ THEN RetainedSeverity(rule, value, @) ELSE @,
                !.candidate = {}, !.suspended = FALSE]

(* A mutant: the cooldown silences a higher severity too. *)
NotificationAllowedAfterCooldown(severity) ==
    \A last \in runtime.lastNotification : now - last.at >= rule.cooldown

NotificationAllowed(severity) ==
    \A last \in runtime.lastNotification :
        severity > last.severity \/ now - last.at >= rule.cooldown

Notifies(active) ==
    /\ rule.notifications
    /\ IF active < runtime.active
       THEN rule.recoveryNotifications /\ runtime.episodeNotified
       ELSE NotificationAllowed(active)

Notified(r, notify) ==
    IF r.active = Normal THEN [r EXCEPT !.episodeNotified = FALSE]
    ELSE IF notify THEN [r EXCEPT !.lastNotification = {At(now, r.active)},
                                  !.episodeNotified = TRUE]
    ELSE r

Remember(measured) ==
    readings' = [measured |-> measured,
                 since |-> IF measured = readings.measured THEN readings.since
                           ELSE now,
                 beyond |-> IF measured \in {{}, {Normal}} THEN {}
                            ELSE IF readings.beyond = {} THEN {now}
                            ELSE readings.beyond]

(* A current, finite reading. *)
EvaluateReading(value) ==
    /\ IsConfigured(rule)
    /\ tracked' = TRUE
    /\ LET assessed == Assessed(value)
           active == assessed.active
           recovered == active < runtime.active
           notify == Notifies(active)
       IN IF active = runtime.active
          THEN /\ runtime' = assessed
               /\ event' = {}
               /\ UNCHANGED notices
          ELSE /\ runtime' = Notified(assessed, notify)
               /\ event' = {[severity |-> active, recovered |-> recovered,
                             notify |-> notify]}
               /\ notices' =
                    IF active = Normal THEN [notices EXCEPT !.announced = FALSE]
                    ELSE IF recovered \/ ~notify THEN notices
                    ELSE [last |-> {At(now, active)}, announced |-> TRUE]
    /\ Remember({SeverityForValue(rule, value)})
    /\ UNCHANGED <<now, rule>>

(* A reading that is stale, faulty, unavailable or not finite suspends the *)
(* alert, as does a snapshot without the sensor for an alert it tracks.    *)
EvaluateSuspect(missing) ==
    /\ IsConfigured(rule)
    /\ tracked' = (tracked \/ ~missing)
    /\ runtime' = IF tracked'
                  THEN [runtime EXCEPT !.candidate = {}, !.suspended = TRUE]
                  ELSE runtime
    /\ event' = {}
    /\ Remember({})
    /\ UNCHANGED <<now, rule, notices>>

Forget ==
    /\ tracked' = FALSE
    /\ runtime' = NewRuntime
    /\ event' = {}
    /\ readings' = NoReadings
    /\ notices' = NoNotices
    /\ UNCHANGED now

(* No thresholds, or a sensor that cannot have an alert: the entry goes. *)
EvaluateUnsupported == Forget /\ UNCHANGED rule

(* The editor stores or removes a rule and resets the entry. *)
ApplyRule(r) == Forget /\ rule' = r

Elapse ==
    /\ now < MaxTime
    /\ now' = now + 1
    /\ event' = {}
    /\ UNCHANGED <<rule, tracked, runtime, readings, notices>>

Init ==
    /\ now = 0
    /\ rule \in Rules
    /\ tracked = FALSE
    /\ runtime = NewRuntime
    /\ event = {}
    /\ readings = NoReadings
    /\ notices = NoNotices

Next ==
    \/ \E value \in Values : EvaluateReading(value)
    \/ \E missing \in BOOLEAN : EvaluateSuspect(missing)
    \/ EvaluateUnsupported
    \/ \E r \in Rules : ApplyRule(r)
    \/ Elapse

Spec == Init /\ [][Next]_vars

(* AlertEngine::state, and the severity in whose color it is shown. *)
CandidateOf(severity) == \E c \in runtime.candidate : c.severity = severity

State ==
    IF runtime.suspended THEN "Suspended"
    ELSE IF CandidateOf(Critical) THEN "CriticalPending"
    ELSE IF CandidateOf(Warning) /\ runtime.active = Normal THEN "WarningPending"
    ELSE IF runtime.active = Normal THEN "Normal"
    ELSE IF runtime.active = Warning THEN "Warning"
    ELSE "Critical"

StateSeverity(state) ==
    IF state \in {"CriticalPending", "Critical"} THEN Critical
    ELSE IF state \in {"WarningPending", "Warning"} THEN Warning
    ELSE Normal

-----------------------------------------------------------------------------
(* Properties *)

(* A step that evaluates a snapshot, or re-reads the entry at most. *)
Evaluates == now' = now /\ rule' = rule

(* The shown state never understates the last reading: whatever hysteresis *)
(* and durations did on the way, an alert that is not suspended is shown   *)
(* as pending or active at the severity just measured, or a higher one.    *)
NeverUnderstates ==
    State # "Suspended" =>
        \A s \in readings.measured : s <= StateSeverity(State)

(* A reading above the active severity raises the alert exactly when every *)
(* reading of the rule's duration measured that severity, without a        *)
(* suspect one between; and it raises it to that severity and no other.    *)
RaisedExactlyWhenSustained ==
    [][ /\ runtime'.active > runtime.active
           => readings'.measured = {runtime'.active}
        /\ \A s \in readings'.measured :
              Evaluates /\ s > runtime.active
              => (runtime'.active = s
                    <=> now - readings'.since >= rule.duration) ]_vars

(* Under a rule that asks for both kinds of notices, the user hears of a   *)
(* recovery exactly when the alert was announced in the same episode.      *)
RecoveryFollowsNotice ==
    [][ \A e \in event' :
          e.recovered /\ rule.notifications /\ rule.recoveryNotifications
          => (e.notify <=> notices.announced) ]_vars

(* An alert that becomes critical is announced unless the user was told of *)
(* it becoming critical less than a cooldown ago: a notice of a warning, or *)
(* of a recovery to one, does not silence it.                              *)
CriticalAnnounced ==
    [][ \A e \in event' :
          e.severity = Critical /\ rule.notifications /\ ~e.notify
          => \E n \in notices.last :
                n.severity = Critical /\ now - n.at < rule.cooldown ]_vars

(* A recovery is only announced after what it recovers from, and a         *)
(* critical alert never goes unannounced.                                  *)
NoticesTrue == RecoveryFollowsNotice /\ CriticalAnnounced

(* What the alert editor says of the cooldown (alert_editor.rs:115): it    *)
(* "suppresses repeated activation notifications after an alert has        *)
(* already been reported".  Here: of the severity already reported.        *)
CooldownSuppressesRepeats ==
    [][ \A e \in event' : e.notify /\ ~e.recovered =>
          \A n \in notices.last :
              e.severity > n.severity \/ now - n.at >= rule.cooldown ]_vars

(* What it says of the duration (alert_editor.rs:93): the reading "must    *)
(* remain beyond a limit for this long before the alert activates".        *)
BeyondALimitActivates ==
    [][ Evaluates /\ (\E t \in readings'.beyond : now - t >= rule.duration)
        => runtime'.active # Normal ]_vars
=============================================================================
