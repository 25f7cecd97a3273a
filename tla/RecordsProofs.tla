------------------------------ MODULE RecordsProofs ------------------------------
(***************************************************************************)
(* Proofs about what the applications make of the readings of one sensor   *)
(* over time, its alert, its history and its running statistics, and about *)
(* all of them together as MCRecords composes them: for every set of       *)
(* readings and of rules, every retention and every bound of the clocks.   *)
(***************************************************************************)
EXTENDS MCRecords, NaturalsInduction, WellFoundedInduction, FiniteSetTheorems,
        FunctionTheorems, TLAPS

-----------------------------------------------------------------------------
(* AlertEngine *)

(* The last reading calls for s and the alert is below it: since when the  *)
(* readings have measured s is what the candidate has waited from.         *)
CandidateTracksReadings ==
    /\ \A s \in readings.measured :
          s > runtime.active => runtime.candidate = {At(readings.since, s)}
    /\ readings.measured = {} => runtime.candidate = {}
    /\ \A c \in runtime.candidate :
          readings.measured = {c.severity} /\ c.severity > runtime.active

(* The entry keeps its fields.                                             *)
RuntimeRecord ==
    runtime = [active |-> runtime.active, candidate |-> runtime.candidate,
               suspended |-> runtime.suspended,
               lastNotification |-> runtime.lastNotification,
               episodeNotified |-> runtime.episodeNotified]

(* The parts of the entry, the rule and the readings that decide whether   *)
(* the alert is raised, and that it is shown.                              *)
AlertInv ==
    /\ now \in Nat
    /\ rule \in Rule
    /\ RuntimeRecord /\ runtime.active \in Severity
    /\ readings.measured \in {{}} \cup { {s} : s \in Severity }
    /\ readings.since \in Nat /\ readings.since <= now
    /\ ~tracked => runtime = NewRuntime
    /\ CandidateTracksReadings

LEMMA SeverityIsOne ==
  ASSUME NEW r, NEW value
  PROVE  SeverityForValue(r, value) \in Severity
  BY DEF SeverityForValue, Severity

(* What retained_severity leaves is not below what the reading calls for.  *)
LEMMA RetainedCovers ==
  ASSUME NEW r \in Rule, NEW value \in Int, NEW active \in Severity,
         SeverityForValue(r, value) < active
  PROVE  /\ RetainedSeverity(r, value, active) \in Severity
         /\ RetainedSeverity(r, value, active) <= active
         /\ SeverityForValue(r, value) <= RetainedSeverity(r, value, active)
  <1>1. r.hysteresis \in Nat
    BY DEF Rule
  <1>2. /\ r.warningBelow \in SUBSET Int /\ r.warningAbove \in SUBSET Int
    BY DEF Rule, Threshold, Option
  <1>3. SeverityForValue(r, value) \in Severity
    BY DEF SeverityForValue, Severity
  <1>4. CASE SeverityForValue(r, value) = Normal
    BY <1>4 DEF RetainedSeverity, Severity, Normal, Warning, Critical
  <1>5. CASE SeverityForValue(r, value) = Warning
    <2>1. Beyond(value, r.warningBelow, r.warningAbove)
      BY <1>5 DEF SeverityForValue, Normal, Warning, Critical
    <2>2. ThresholdRetained(value, r.warningBelow, r.warningAbove, r.hysteresis)
      <3>1. ASSUME NEW t \in r.warningBelow, value <= t PROVE value <= t + r.hysteresis
        BY <1>1, <1>2, <3>1
      <3>2. ASSUME NEW t \in r.warningAbove, value >= t PROVE value >= t - r.hysteresis
        BY <1>1, <1>2, <3>2
      <3> QED BY <2>1, <3>1, <3>2 DEF Beyond, ThresholdRetained
    <2>3. active = Critical
      BY <1>5 DEF Severity, Normal, Warning, Critical
    <2> QED BY <1>5, <2>2, <2>3 DEF RetainedSeverity, Severity, Normal, Warning, Critical
  <1> QED BY <1>3, <1>4, <1>5 DEF Severity, Normal, Warning, Critical

LEMMA AlertStart == Init => AlertInv
  BY AlertAssumption DEF AlertAssumption, Init, AlertInv, NewRuntime, NoReadings, Severity,
     CandidateTracksReadings, RuntimeRecord

(* What the entry and the readings have become after a reading of severity *)
(* s that is above the active one ...                                      *)
LEMMA Escalates ==
  ASSUME AlertInv, NEW s \in Severity, s > runtime.active, Remember({s})
  PROVE  /\ Candidate(s) = {At(readings'.since, s)}
         /\ Ready(Candidate(s)) <=> now - readings'.since >= rule.duration
  <1>1. /\ now \in Nat /\ readings.since \in Nat /\ readings.since <= now
        /\ readings'.since = IF {s} = readings.measured THEN readings.since ELSE now
        /\ rule.duration \in Nat
    BY DEF AlertInv, Remember, Rule
  <1>2. Candidate(s) = {At(readings'.since, s)}
    <2>1. CASE readings.measured = {s}
      <3>1. runtime.candidate = {At(readings.since, s)}
        BY <2>1 DEF AlertInv, CandidateTracksReadings
      <3>2. At(readings.since, s).severity = s
        BY DEF At
      <3>3. Candidate(s) = runtime.candidate
        BY <3>1, <3>2 DEF Candidate
      <3> QED BY <1>1, <2>1, <3>1, <3>3
    <2>2. CASE readings.measured # {s}
      <3>1. \A c \in runtime.candidate : c.severity # s
        BY <2>2 DEF AlertInv, CandidateTracksReadings
      <3>2. Candidate(s) = {At(now, s)}
        BY <3>1 DEF Candidate
      <3> QED BY <1>1, <2>2, <3>2
    <2> QED BY <2>1, <2>2
  <1>3. Ready(Candidate(s)) <=> now - readings'.since >= rule.duration
    <2>1. Ready(Candidate(s)) <=> rule.duration = 0 \/ now - readings'.since >= rule.duration
      BY <1>2 DEF Ready, At
    <2>2. readings'.since \in Nat /\ readings'.since <= now
      BY <1>1
    <2> QED BY <1>1, <2>1, <2>2
  <1> QED BY <1>2, <1>3

(* ... and what any reading makes of the entry.                            *)
LEMMA Assesses ==
  ASSUME AlertInv, NEW value \in Values, NEW s \in Severity,
         s = SeverityForValue(rule, value), Remember({s}),
         NEW r, r = Assessed(value)
  PROVE  /\ r = [active |-> r.active, candidate |-> r.candidate, suspended |-> FALSE,
                 lastNotification |-> runtime.lastNotification,
                 episodeNotified |-> runtime.episodeNotified]
         /\ r.active \in Severity
         /\ s > runtime.active =>
               IF now - readings'.since >= rule.duration
               THEN r.active = s /\ r.candidate = {}
               ELSE /\ r.active = runtime.active
                    /\ r.candidate = {At(readings'.since, s)}
         /\ ~(s > runtime.active) =>
               s <= r.active /\ r.active <= runtime.active /\ r.candidate = {}
  <1>1. /\ value \in Int /\ rule \in Rule
        /\ runtime.active \in Severity /\ RuntimeRecord
    BY AlertAssumption DEF AlertAssumption, AlertInv
  <1>2. CASE s > runtime.active
    <2>1. r = Escalated(s)
      BY <1>2 DEF Assessed
    <2>2. /\ Candidate(s) = {At(readings'.since, s)}
          /\ Ready(Candidate(s)) <=> now - readings'.since >= rule.duration
      BY <1>2, Escalates
    <2>3. CASE Ready(Candidate(s))
      <3>1. r = [active |-> s, candidate |-> {}, suspended |-> FALSE,
                 lastNotification |-> runtime.lastNotification,
                 episodeNotified |-> runtime.episodeNotified]
        BY <1>1, <2>1, <2>3 DEF Escalated, RuntimeRecord
      <3> QED BY <1>2, <2>2, <2>3, <3>1
    <2>4. CASE ~Ready(Candidate(s))
      <3>1. r = [active |-> runtime.active, candidate |-> Candidate(s), suspended |-> FALSE,
                 lastNotification |-> runtime.lastNotification,
                 episodeNotified |-> runtime.episodeNotified]
        BY <1>1, <2>1, <2>4 DEF Escalated, RuntimeRecord
      <3> QED BY <1>1, <1>2, <2>2, <2>4, <3>1
    <2> QED BY <2>3, <2>4
  <1>3. CASE ~(s > runtime.active)
    <2> DEFINE active == IF s < runtime.active
                         THEN RetainedSeverity(rule, value, runtime.active)
                         ELSE runtime.active
    <2>1. r = [active |-> active, candidate |-> {}, suspended |-> FALSE,
               lastNotification |-> runtime.lastNotification,
               episodeNotified |-> runtime.episodeNotified]
      BY <1>1, <1>3 DEF Assessed, RuntimeRecord
    <2>2. active \in Severity /\ s <= active /\ active <= runtime.active
      <3>1. CASE s < runtime.active
        BY <1>1, <3>1, RetainedCovers
      <3>2. CASE ~(s < runtime.active)
        BY <1>1, <1>3, <3>2 DEF Severity, Normal, Warning, Critical
      <3> QED BY <3>1, <3>2
    <2> HIDE DEF active
    <2> QED BY <1>3, <2>1, <2>2
  <1> QED BY <1>2, <1>3

(* A notice changes nothing that the state or a later reading depends on.  *)
LEMMA NotifiedKeeps ==
  ASSUME NEW r, NEW notify, NEW n, n = Notified(r, notify),
         r = [active |-> r.active, candidate |-> r.candidate, suspended |-> r.suspended,
              lastNotification |-> r.lastNotification,
              episodeNotified |-> r.episodeNotified]
  PROVE  /\ n = [active |-> n.active, candidate |-> n.candidate, suspended |-> n.suspended,
                 lastNotification |-> n.lastNotification,
                 episodeNotified |-> n.episodeNotified]
         /\ n.active = r.active /\ n.candidate = r.candidate
         /\ n.suspended = r.suspended
  <1>1. CASE n = r
    BY <1>1
  <1>2. CASE n = [r EXCEPT !.episodeNotified = FALSE]
    BY <1>2
  <1>3. CASE n = [r EXCEPT !.lastNotification = {At(now, r.active)},
                           !.episodeNotified = TRUE]
    BY <1>3
  <1> QED BY <1>1, <1>2, <1>3 DEF Notified

LEMMA Evaluated ==
  ASSUME AlertInv, NEW value \in Values, EvaluateReading(value),
         NEW s, s = SeverityForValue(rule, value)
  PROVE  /\ s \in Severity /\ readings'.measured = {s}
         /\ readings'.since \in Nat /\ readings'.since <= now
         /\ RuntimeRecord' /\ runtime'.active \in Severity /\ ~runtime'.suspended
         /\ s > runtime.active =>
               IF now - readings'.since >= rule.duration
               THEN runtime'.active = s /\ runtime'.candidate = {}
               ELSE /\ runtime'.active = runtime.active
                    /\ runtime'.candidate = {At(readings'.since, s)}
         /\ ~(s > runtime.active) =>
               /\ s <= runtime'.active /\ runtime'.active <= runtime.active
               /\ runtime'.candidate = {}
  <1> DEFINE r == Assessed(value)
  <1>1. s \in Severity
    BY SeverityIsOne
  <1>2. Remember({s})
    BY DEF EvaluateReading
  <1>3. /\ readings'.measured = {s} /\ readings'.since \in Nat /\ readings'.since <= now
    BY <1>2 DEF AlertInv, Remember
  <1>4. runtime' = r \/ runtime' = Notified(r, Notifies(r.active))
    BY DEF EvaluateReading
  <1> HIDE DEF r
  <1>5. /\ r = [active |-> r.active, candidate |-> r.candidate, suspended |-> FALSE,
                lastNotification |-> runtime.lastNotification,
                episodeNotified |-> runtime.episodeNotified]
        /\ r.active \in Severity
        /\ s > runtime.active =>
              IF now - readings'.since >= rule.duration
              THEN r.active = s /\ r.candidate = {}
              ELSE /\ r.active = runtime.active
                   /\ r.candidate = {At(readings'.since, s)}
        /\ ~(s > runtime.active) =>
              s <= r.active /\ r.active <= runtime.active /\ r.candidate = {}
    BY <1>1, <1>2, Assesses DEF r
  <1>6. /\ RuntimeRecord' /\ ~runtime'.suspended
        /\ runtime'.active = r.active /\ runtime'.candidate = r.candidate
    <2>1. /\ r = [active |-> r.active, candidate |-> r.candidate,
                  suspended |-> r.suspended, lastNotification |-> r.lastNotification,
                  episodeNotified |-> r.episodeNotified]
          /\ ~r.suspended
      BY <1>5
    <2>2. CASE runtime' = r
      BY <2>1, <2>2 DEF RuntimeRecord
    <2>3. CASE runtime' = Notified(r, Notifies(r.active))
      BY <2>1, <2>3, NotifiedKeeps DEF RuntimeRecord
    <2> QED BY <1>4, <2>2, <2>3
  <1> QED BY <1>1, <1>3, <1>5, <1>6

LEMMA AlertInductive ==
  ASSUME AlertInv, [Next]_vars
  PROVE  AlertInv'
  <1>1. /\ now \in Nat /\ rule \in Rule /\ Rules \subseteq Rule
        /\ RuntimeRecord /\ runtime.active \in Severity
    BY AlertAssumption DEF AlertInv, AlertAssumption
  <1>2. ASSUME NEW value \in Values, EvaluateReading(value) PROVE AlertInv'
    <2> DEFINE s == SeverityForValue(rule, value)
    <2>1. tracked' = TRUE /\ UNCHANGED <<now, rule>>
      BY <1>2 DEF EvaluateReading
    <2> HIDE DEF s
    <2>2. /\ s \in Severity /\ readings'.measured = {s}
          /\ readings'.since \in Nat /\ readings'.since <= now
          /\ RuntimeRecord' /\ runtime'.active \in Severity
          /\ s > runtime.active =>
                IF now - readings'.since >= rule.duration
                THEN runtime'.active = s /\ runtime'.candidate = {}
                ELSE /\ runtime'.active = runtime.active
                     /\ runtime'.candidate = {At(readings'.since, s)}
          /\ ~(s > runtime.active) =>
                /\ s <= runtime'.active /\ runtime'.active <= runtime.active
                /\ runtime'.candidate = {}
      BY <1>2, Evaluated DEF s
    <2>3. CandidateTracksReadings'
      <3>1. CASE runtime'.candidate = {}
        BY <2>2, <3>1 DEF CandidateTracksReadings, Severity, Normal, Warning, Critical
      <3>2. CASE runtime'.candidate # {}
        <4>1. /\ runtime'.candidate = {At(readings'.since, s)}
              /\ runtime'.active = runtime.active /\ s > runtime.active
          BY <2>2, <3>2
        <4>2. At(readings'.since, s).severity = s
          BY DEF At
        <4> QED BY <2>2, <4>1, <4>2 DEF CandidateTracksReadings
      <3> QED BY <3>1, <3>2
    <2> QED BY <1>1, <2>1, <2>2, <2>3 DEF AlertInv
  <1>3. ASSUME NEW missing \in BOOLEAN, EvaluateSuspect(missing) PROVE AlertInv'
    <2>1. /\ readings'.measured = {} /\ readings'.since \in Nat /\ readings'.since <= now
          /\ UNCHANGED <<now, rule>>
      BY <1>3 DEF EvaluateSuspect, Remember, AlertInv
    <2>2. /\ RuntimeRecord' /\ runtime'.active = runtime.active /\ runtime'.candidate = {}
          /\ ~tracked' => runtime' = NewRuntime
      <3>1. CASE tracked'
        <4>1. runtime' = [runtime EXCEPT !.candidate = {}, !.suspended = TRUE]
          BY <1>3, <3>1 DEF EvaluateSuspect
        <4> QED BY <1>1, <3>1, <4>1 DEF RuntimeRecord
      <3>2. CASE ~tracked'
        <4>1. runtime' = runtime /\ ~tracked
          BY <1>3, <3>2 DEF EvaluateSuspect
        <4>2. runtime = NewRuntime
          BY <4>1 DEF AlertInv
        <4>3. runtime.candidate = {}
          BY <4>2 DEF NewRuntime
        <4> QED BY <1>1, <4>1, <4>2, <4>3 DEF RuntimeRecord
      <3> QED BY <3>1, <3>2
    <2> QED BY <1>1, <2>1, <2>2 DEF AlertInv, CandidateTracksReadings
  <1>4. ASSUME Forget, rule' \in Rule PROVE AlertInv'
    <2>1. /\ runtime' = NewRuntime /\ readings' = NoReadings /\ UNCHANGED now
      BY <1>4 DEF Forget
    <2> QED BY <1>1, <1>4, <2>1 DEF AlertInv, CandidateTracksReadings, NewRuntime, NoReadings,
               RuntimeRecord, Severity
  <1>5. CASE Elapse
    BY <1>1, <1>5 DEF Elapse, AlertInv, CandidateTracksReadings, RuntimeRecord
  <1>6. CASE UNCHANGED vars
    BY <1>6 DEF vars, AlertInv, CandidateTracksReadings, RuntimeRecord
  <1> QED BY <1>1, <1>2, <1>3, <1>4, <1>5, <1>6 DEF Next, EvaluateUnsupported, ApplyRule

(* alerts.rs raises an alert exactly when the readings have called for its *)
(* severity for the rule's duration, whatever rule the user sets, whatever *)
(* suspect readings come between and however often the snapshots come.     *)
THEOREM RaisedWhenSustained == Spec => RaisedExactlyWhenSustained
  <1> DEFINE Raised ==
        /\ runtime'.active > runtime.active
           => readings'.measured = {runtime'.active}
        /\ \A s \in readings'.measured :
              Evaluates /\ s > runtime.active
              => (runtime'.active = s
                    <=> now - readings'.since >= rule.duration)
  <1>1. AlertInv /\ [Next]_vars => (vars' # vars => Raised)
    <2> SUFFICES ASSUME AlertInv, Next PROVE Raised
      OBVIOUS
    <2>1. /\ now \in Nat /\ runtime.active \in Severity /\ RuntimeRecord
      BY DEF AlertInv
    <2>2. ASSUME NEW value \in Values, EvaluateReading(value) PROVE Raised
      <3> DEFINE s == SeverityForValue(rule, value)
      <3> HIDE DEF s
      <3>1. /\ s \in Severity /\ readings'.measured = {s}
            /\ runtime'.active \in Severity
            /\ s > runtime.active =>
                  IF now - readings'.since >= rule.duration
                  THEN runtime'.active = s
                  ELSE runtime'.active = runtime.active
            /\ ~(s > runtime.active) => runtime'.active <= runtime.active
        BY <2>2, Evaluated DEF s
      <3> QED BY <2>1, <3>1 DEF Severity, Normal, Warning, Critical
    <2>3. ASSUME NEW missing \in BOOLEAN, EvaluateSuspect(missing) PROVE Raised
      <3>1. readings'.measured = {} /\ runtime'.active = runtime.active
        BY <2>1, <2>3 DEF EvaluateSuspect, Remember, RuntimeRecord
      <3> QED BY <2>1, <3>1 DEF Severity, Normal, Warning, Critical
    <2>4. ASSUME Forget PROVE Raised
      <3>1. readings'.measured = {} /\ runtime'.active = Normal
        BY <2>4 DEF Forget, NewRuntime, NoReadings
      <3> QED BY <2>1, <3>1 DEF Severity, Normal, Warning, Critical
    <2>5. CASE Elapse
      <3>1. runtime'.active = runtime.active /\ ~Evaluates
        BY <2>1, <2>5 DEF Elapse, Evaluates
      <3> QED BY <2>1, <3>1 DEF Severity, Normal, Warning, Critical
    <2> QED BY <2>2, <2>3, <2>4, <2>5 DEF Next, EvaluateUnsupported, ApplyRule
  <1>2. AlertInv /\ [Next]_vars => [Raised]_vars
    BY <1>1
  <1> QED BY <1>2, AlertStart, AlertInductive, PTL DEF Spec, RaisedExactlyWhenSustained

LEMMA NeverBelow == AlertInv => NeverUnderstates
  <1> SUFFICES ASSUME AlertInv, State # "Suspended", NEW s \in readings.measured
               PROVE  s <= StateSeverity(State)
    BY DEF NeverUnderstates
  <1>1. /\ s \in Severity /\ runtime.active \in Severity
        /\ s > runtime.active => runtime.candidate = {At(readings.since, s)}
        /\ \A c \in runtime.candidate : c.severity = s /\ c.severity > runtime.active
    BY DEF AlertInv, CandidateTracksReadings
  <1>2. s > runtime.active => CandidateOf(s)
    BY <1>1 DEF CandidateOf, At
  <1> QED
    BY <1>1, <1>2 DEF State, StateSeverity, CandidateOf, Severity, Normal, Warning, Critical

(* What AlertEngine::state shows, whatever hysteresis and durations did on *)
(* the way, is not below what the last reading calls for.                  *)
THEOREM ShownNotBelow == Spec => []NeverUnderstates
  BY NeverBelow, AlertStart, AlertInductive, PTL DEF Spec

(* Notices *)

(* The entry remembers of its notices what the user has seen.              *)
NoticeInv ==
    /\ runtime.episodeNotified <=> notices.announced
    /\ \A l \in runtime.lastNotification :
          /\ l.at \in Nat /\ l.severity \in Severity
          /\ l.severity = Critical => l \in notices.last

LEMMA NoticeStart == Init => NoticeInv
  BY DEF Init, NoticeInv, NewRuntime, NoNotices

(* A reading that changes the alert to active, with a notice or without.   *)
Changes(active, notify) ==
    /\ active # runtime.active
    /\ event' = {[severity |-> active, recovered |-> active < runtime.active,
                  notify |-> notify]}
    /\ notices' = IF active = Normal THEN [notices EXCEPT !.announced = FALSE]
                  ELSE IF active < runtime.active \/ ~notify THEN notices
                  ELSE [last |-> {At(now, active)}, announced |-> TRUE]
    /\ runtime'.lastNotification =
          IF active # Normal /\ notify THEN {At(now, active)} ELSE runtime.lastNotification
    /\ runtime'.episodeNotified =
          IF active = Normal THEN FALSE
          ELSE IF notify THEN TRUE ELSE runtime.episodeNotified

LEMMA Announces ==
  ASSUME AlertInv, NEW value \in Values, EvaluateReading(value)
  PROVE  \/ /\ UNCHANGED notices /\ event' = {}
            /\ runtime'.lastNotification = runtime.lastNotification
            /\ runtime'.episodeNotified = runtime.episodeNotified
         \/ \E active \in Severity : Changes(active, Notifies(active))
  <1> DEFINE r == Assessed(value)
  <1>1. /\ r = [active |-> r.active, candidate |-> r.candidate, suspended |-> FALSE,
                lastNotification |-> runtime.lastNotification,
                episodeNotified |-> runtime.episodeNotified]
        /\ r.active \in Severity
    <2>1. SeverityForValue(rule, value) \in Severity
      BY SeverityIsOne
    <2>2. Remember({SeverityForValue(rule, value)})
      BY DEF EvaluateReading
    <2> QED BY <2>1, <2>2, Assesses
  <1>2. IF r.active = runtime.active
        THEN runtime' = r /\ event' = {} /\ UNCHANGED notices
        ELSE /\ runtime' = Notified(r, Notifies(r.active))
             /\ event' = {[severity |-> r.active, recovered |-> r.active < runtime.active,
                           notify |-> Notifies(r.active)]}
             /\ notices' =
                  IF r.active = Normal THEN [notices EXCEPT !.announced = FALSE]
                  ELSE IF r.active < runtime.active \/ ~Notifies(r.active) THEN notices
                  ELSE [last |-> {At(now, r.active)}, announced |-> TRUE]
    BY DEF EvaluateReading
  <1> HIDE DEF r
  <1>3. /\ r.lastNotification = runtime.lastNotification
        /\ r.episodeNotified = runtime.episodeNotified
    BY <1>1
  <1>4. CASE r.active = runtime.active
    BY <1>2, <1>3, <1>4
  <1>5. CASE r.active # runtime.active
    <2> DEFINE n == Notified(r, Notifies(r.active))
    <2>1. /\ n.lastNotification = IF r.active # Normal /\ Notifies(r.active)
                                  THEN {At(now, r.active)} ELSE runtime.lastNotification
          /\ n.episodeNotified = IF r.active = Normal THEN FALSE
                                 ELSE IF Notifies(r.active) THEN TRUE
                                 ELSE runtime.episodeNotified
      <3>1. /\ DOMAIN r = {"active", "candidate", "suspended", "lastNotification",
                           "episodeNotified"}
        BY <1>1
      <3> QED BY <1>3, <3>1 DEF Notified
    <2>2. runtime' = n
      BY <1>2, <1>5
    <2> HIDE DEF n
    <2>3. Changes(r.active, Notifies(r.active))
      BY <1>2, <1>5, <2>1, <2>2 DEF Changes
    <2> QED BY <1>1, <2>3
  <1> QED BY <1>4, <1>5

LEMMA NoticeInductive ==
  ASSUME AlertInv, NoticeInv, [Next]_vars
  PROVE  NoticeInv'
  <1>1. now \in Nat /\ RuntimeRecord /\ runtime.active \in Severity
    BY DEF AlertInv
  <1>2. ASSUME NEW value \in Values, EvaluateReading(value) PROVE NoticeInv'
    <2>1. CASE /\ UNCHANGED notices /\ event' = {}
               /\ runtime'.lastNotification = runtime.lastNotification
               /\ runtime'.episodeNotified = runtime.episodeNotified
      BY <2>1 DEF NoticeInv
    <2>2. ASSUME NEW active \in Severity, NEW notify, Changes(active, notify),
                 notify = Notifies(active)
          PROVE  NoticeInv'
      <3>1. active < runtime.active /\ notify => runtime.episodeNotified
        BY <2>2 DEF Notifies
      <3>2. CASE active = Normal
        BY <2>2, <3>2 DEF Changes, NoticeInv
      <3>3. CASE active # Normal /\ ~notify
        BY <2>2, <3>3 DEF Changes, NoticeInv
      <3>4. CASE active # Normal /\ notify /\ active < runtime.active
        <4>1. /\ UNCHANGED notices /\ runtime'.lastNotification = {At(now, active)}
              /\ runtime'.episodeNotified
          BY <2>2, <3>4 DEF Changes
        <4>2. active # Critical
          BY <1>1, <3>4 DEF Severity, Normal, Warning, Critical
        <4> QED BY <1>1, <3>1, <3>4, <4>1, <4>2 DEF NoticeInv, At
      <3>5. CASE active # Normal /\ notify /\ ~(active < runtime.active)
        <4>1. /\ notices' = [last |-> {At(now, active)}, announced |-> TRUE]
              /\ runtime'.lastNotification = {At(now, active)}
              /\ runtime'.episodeNotified
          BY <2>2, <3>5 DEF Changes
        <4> QED BY <1>1, <4>1 DEF NoticeInv, At
      <3> QED BY <3>2, <3>3, <3>4, <3>5
    <2> QED BY <1>2, <2>1, <2>2, Announces
  <1>3. ASSUME NEW missing \in BOOLEAN, EvaluateSuspect(missing) PROVE NoticeInv'
    <2>1. runtime' = runtime \/ runtime' = [runtime EXCEPT !.candidate = {}, !.suspended = TRUE]
      BY <1>3 DEF EvaluateSuspect
    <2>2. /\ runtime'.lastNotification = runtime.lastNotification
          /\ runtime'.episodeNotified = runtime.episodeNotified
      BY <1>1, <2>1 DEF RuntimeRecord
    <2> QED BY <1>3, <2>2 DEF EvaluateSuspect, NoticeInv
  <1>4. ASSUME Forget PROVE NoticeInv'
    BY <1>4 DEF Forget, NoticeInv, NewRuntime, NoNotices
  <1>5. CASE UNCHANGED <<runtime, notices>>
    BY <1>5 DEF NoticeInv
  <1> QED BY <1>2, <1>3, <1>4, <1>5 DEF Next, EvaluateUnsupported, ApplyRule, Elapse, vars

(* What the only event of a change holds.                                  *)
LEMMA OnlyEvent ==
  ASSUME NEW events, NEW s, NEW b, NEW n,
         events = {[severity |-> s, recovered |-> b, notify |-> n]},
         NEW e \in events
  PROVE  e.recovered = b /\ e.notify = n
  <1>1. e = [severity |-> s, recovered |-> b, notify |-> n]
    OBVIOUS
  <1> QED BY <1>1

(* alerts.rs tells of a recovery exactly when it told of the alert, and    *)
(* leaves no critical alert unannounced but for a notice of one within the *)
(* cooldown.                                                               *)
THEOREM NoticesAreTrue == Spec => NoticesTrue
  <1> DEFINE Follows == \A e \in event' :
                 e.recovered /\ rule.notifications /\ rule.recoveryNotifications
                 => (e.notify <=> notices.announced)
             Announced == \A e \in event' :
                 e.severity = Critical /\ rule.notifications /\ ~e.notify
                 => \E n \in notices.last :
                       n.severity = Critical /\ now - n.at < rule.cooldown
  <1>1. ASSUME AlertInv, NoticeInv, NEW active \in Severity, NEW notify,
               notify = Notifies(active), Changes(active, notify)
        PROVE  Follows /\ Announced
    <2>1. /\ now \in Nat /\ runtime.active \in Severity /\ rule.cooldown \in Nat
      BY <1>1 DEF AlertInv, Rule
    <2>2. event' = {[severity |-> active, recovered |-> active < runtime.active,
                     notify |-> notify]}
      BY <1>1 DEF Changes
    <2>3. Follows
      <3> SUFFICES ASSUME NEW e \in event', e.recovered, rule.notifications,
                          rule.recoveryNotifications
                   PROVE  e.notify <=> notices.announced
        OBVIOUS
      <3> DEFINE lower == active < runtime.active
      <3> HIDE DEF lower
      <3>0. event' = {[severity |-> active, recovered |-> lower, notify |-> notify]}
        BY <2>2 DEF lower
      <3>1. e.recovered = lower /\ e.notify = notify
        BY <3>0, OnlyEvent
      <3>2. active < runtime.active
        BY <3>1 DEF lower
      <3>3. notify <=> runtime.episodeNotified
        BY <1>1, <3>2 DEF Notifies
      <3>4. runtime.episodeNotified <=> notices.announced
        BY <1>1 DEF NoticeInv
      <3> HIDE DEF Follows, Announced
      <3> QED BY <3>1, <3>3, <3>4
    <2>4. ASSUME active = Critical, rule.notifications, ~notify
          PROVE  \E n \in notices.last : n.severity = Critical /\ now - n.at < rule.cooldown
      <3>1. ~(active < runtime.active)
        BY <2>1, <2>4 DEF Severity, Normal, Warning, Critical
      <3>2. ~NotificationAllowed(Critical)
        BY <1>1, <2>4, <3>1 DEF Notifies
      <3>3. PICK l \in runtime.lastNotification :
              ~(Critical > l.severity \/ now - l.at >= rule.cooldown)
        BY <3>2 DEF NotificationAllowed
      <3>4. l.at \in Nat /\ l.severity \in Severity
        BY <1>1 DEF NoticeInv
      <3>5. l.severity = Critical /\ now - l.at < rule.cooldown
        BY <2>1, <3>3, <3>4 DEF Severity, Normal, Warning, Critical
      <3>6. l \in notices.last
        BY <1>1, <3>5 DEF NoticeInv
      <3> QED BY <3>5, <3>6
    <2>5. Announced
      BY <2>2, <2>4
    <2> QED BY <2>3, <2>5
  <1>2. ASSUME AlertInv, NoticeInv, Next PROVE Follows /\ Announced
    <2>1. ASSUME NEW value \in Values, EvaluateReading(value) PROVE Follows /\ Announced
      BY <1>1, <1>2, <2>1, Announces
    <2>2. CASE event' = {}
      BY <2>2
    <2> QED BY <1>2, <2>1, <2>2
            DEF Next, EvaluateSuspect, EvaluateUnsupported, ApplyRule, Forget, Elapse
  <1>3. AlertInv /\ NoticeInv /\ [Next]_vars => [Follows]_vars /\ [Announced]_vars
    BY <1>2
  <1> HIDE DEF Follows, Announced
  <1>4. Spec => [][Follows]_vars /\ [][Announced]_vars
    BY <1>3, AlertStart, AlertInductive, NoticeStart, NoticeInductive, PTL DEF Spec
  <1> QED BY <1>4 DEF NoticesTrue, RecoveryFollowsNotice, CriticalAnnounced, Follows, Announced

(* The alert, its notices and what the properties remember stay in their   *)
(* types.                                                                  *)
LEMMA StampIsOne ==
  ASSUME NEW time \in Nat, NEW s \in Severity
  PROVE  {At(time, s)} \in Stamps
  BY DEF At, Stamps, Option

LEMMA RetainedIsSeverity ==
  ASSUME NEW r, NEW value, NEW active
  PROVE  RetainedSeverity(r, value, active) \in Severity
  BY DEF RetainedSeverity, Severity

LEMMA AssessedTyped ==
  ASSUME TypeOK, NEW value
  PROVE  Assessed(value) \in Runtime
  <1> DEFINE s == SeverityForValue(rule, value)
  <1>1. s \in Severity /\ runtime \in Runtime /\ now \in Nat
    BY SeverityIsOne DEF TypeOK
  <1>2. /\ runtime.candidate \in Stamps /\ {} \in Stamps /\ {At(now, s)} \in Stamps
        /\ RetainedSeverity(rule, value, runtime.active) \in Severity
        /\ runtime.active \in Severity
    BY <1>1, StampIsOne, RetainedIsSeverity DEF Runtime, Stamps, Option
  <1> HIDE DEF s
  <1>3. Candidate(s) \in Stamps
    BY <1>2 DEF Candidate
  <1>4. Escalated(s) \in Runtime
    BY <1>1, <1>2, <1>3 DEF Escalated, Runtime
  <1>5. [runtime EXCEPT !.active = IF s < @ THEN RetainedSeverity(rule, value, @) ELSE @,
                        !.candidate = {}, !.suspended = FALSE] \in Runtime
    BY <1>1, <1>2 DEF Runtime
  <1> QED
    BY <1>4, <1>5 DEF Assessed, s

LEMMA AlertTyped ==
  ASSUME TypeOK, [Next]_vars
  PROVE  TypeOK'
  <1>1. /\ now \in Nat /\ rule \in Rules /\ tracked \in BOOLEAN /\ runtime \in Runtime
        /\ event \in Option(Event) /\ readings \in Readings /\ notices \in Notices
        /\ {} \in Option(Event) /\ {} \in Option(Severity) /\ {} \in Option(Nat)
        /\ {} \in Stamps
    BY DEF TypeOK, Option, Stamps
  <1>2. ASSUME NEW measured \in Option(Severity), Remember(measured)
        PROVE  readings' \in Readings
    <2>1. {now} \in Option(Nat) /\ readings.since \in Nat /\ readings.beyond \in Option(Nat)
      BY <1>1 DEF Option, Readings
    <2> QED
      BY <1>1, <1>2, <2>1 DEF Remember, Readings
  <1>3. ASSUME NEW value, EvaluateReading(value) PROVE TypeOK'
    <2> DEFINE assessed == Assessed(value)
               notify == Notifies(assessed.active)
               s == SeverityForValue(rule, value)
    <2>1. assessed \in Runtime /\ {s} \in Option(Severity)
      BY AssessedTyped, SeverityIsOne DEF Option
    <2>2. readings' \in Readings
      BY <1>2, <1>3, <2>1 DEF EvaluateReading
    <2>3. assessed.active \in Severity /\ notify \in BOOLEAN
          /\ (assessed.active < runtime.active) \in BOOLEAN
      <3>1. rule.notifications \in BOOLEAN /\ rule.recoveryNotifications \in BOOLEAN
        BY <1>1, AlertAssumption DEF AlertAssumption, Rule
      <3> HIDE DEF assessed
      <3>2. notify \in BOOLEAN
        BY <1>1, <3>1 DEF Notifies, NotificationAllowed, Runtime
      <3> QED
        BY <2>1, <3>2 DEF Runtime
    <2>4. {At(now, assessed.active)} \in Stamps
      BY <1>1, <2>3, StampIsOne
    <2>5. /\ tracked' = TRUE /\ now' = now /\ rule' = rule
          /\ \/ runtime' = assessed /\ event' = {} /\ notices' = notices
             \/ /\ runtime' = Notified(assessed, notify)
                /\ event' = {[severity |-> assessed.active,
                              recovered |-> assessed.active < runtime.active,
                              notify |-> notify]}
                /\ notices' \in {[notices EXCEPT !.announced = FALSE], notices,
                                 [last |-> {At(now, assessed.active)}, announced |-> TRUE]}
      BY <1>3 DEF EvaluateReading
    <2> HIDE DEF assessed, notify, s
    <2>6. runtime' \in Runtime
      <3>1. Notified(assessed, notify) \in Runtime
        BY <2>1, <2>4 DEF Notified, Runtime
      <3> QED
        BY <2>1, <2>5, <3>1
    <2>7. event' \in Option(Event)
      <3> DEFINE e == [severity |-> assessed.active, recovered |-> assessed.active < runtime.active,
                       notify |-> notify]
      <3>1. e \in Event
        BY <2>3 DEF Event
      <3>2. event' = {} \/ event' = {e}
        BY <2>5
      <3> HIDE DEF e
      <3> QED
        BY <1>1, <3>1, <3>2 DEF Option
    <2>8. notices' \in Notices
      <3>1. [notices EXCEPT !.announced = FALSE] \in Notices
        BY <1>1 DEF Notices
      <3>2. [last |-> {At(now, assessed.active)}, announced |-> TRUE] \in Notices
        BY <2>4 DEF Notices
      <3> QED
        BY <1>1, <2>5, <3>1, <3>2
    <2> QED
      BY <1>1, <2>2, <2>5, <2>6, <2>7, <2>8 DEF TypeOK
  <1>4. ASSUME NEW missing \in BOOLEAN, EvaluateSuspect(missing) PROVE TypeOK'
    <2>1. readings' \in Readings /\ tracked' \in BOOLEAN
      BY <1>1, <1>2, <1>4 DEF EvaluateSuspect
    <2>2. runtime' \in Runtime
      BY <1>1, <1>4 DEF EvaluateSuspect, Runtime
    <2> QED
      BY <1>1, <1>4, <2>1, <2>2 DEF EvaluateSuspect, TypeOK
  <1>5. ASSUME Forget, rule' \in Rules PROVE TypeOK'
    <2>1. NewRuntime \in Runtime /\ NoReadings \in Readings /\ NoNotices \in Notices
      BY <1>1 DEF NewRuntime, Runtime, NoReadings, Readings, NoNotices, Notices, Severity
    <2> QED
      BY <1>1, <1>5, <2>1 DEF Forget, TypeOK
  <1>6. CASE Elapse
    BY <1>1, <1>6 DEF Elapse, TypeOK
  <1>7. CASE UNCHANGED vars
    BY <1>1, <1>7 DEF vars, TypeOK
  <1> QED
    BY <1>1, <1>3, <1>4, <1>5, <1>6, <1>7 DEF Next, EvaluateUnsupported, ApplyRule

LEMMA AlertStarts == Init => TypeOK
  <1> SUFFICES ASSUME Init PROVE TypeOK
    OBVIOUS
  <1>1. {} \in Stamps /\ {} \in Option(Event) /\ {} \in Option(Severity) /\ {} \in Option(Nat)
    BY DEF Stamps, Option
  <1>2. NewRuntime \in Runtime /\ NoReadings \in Readings /\ NoNotices \in Notices
    BY <1>1 DEF NewRuntime, Runtime, NoReadings, Readings, NoNotices, Notices, Severity
  <1>3. now \in Nat /\ tracked \in BOOLEAN
    BY DEF Init
  <1> QED
    BY <1>1, <1>2, <1>3 DEF Init, TypeOK

-----------------------------------------------------------------------------
(* HistoryStore *)

LEMMA StoreBounds ==
  /\ MinRetention \in Nat /\ MaxRetention \in Nat /\ MaxClock \in Nat
  /\ Retentions \subseteq Nat
  /\ \A r \in Nat : Clamp(r) \in Retentions
  /\ DurationChoices \subseteq Nat
  BY HistoryAssumption DEF HistoryAssumption, Retentions, Clamp

(* The longer of the global retention and that of the recording.           *)
LEMMA RetentionIsLonger ==
  ASSUME NEW one, one.recording \in Optional(ExtendedRecording), NEW globally \in Retentions
  PROVE  /\ Retention(one, globally) \in Retentions
         /\ Retention(one, globally) >= globally
         /\ \A x \in one.recording : Retention(one, globally) >= x.retention
  <1> DEFINE Longer(r) == /\ r = globally \/ \E x \in one.recording : r = x.retention
                          /\ r >= globally /\ \A x \in one.recording : r >= x.retention
  <1>1. \A x \in one.recording : x \in ExtendedRecording /\ x.retention \in Retentions
    BY DEF Optional, ExtendedRecording
  <1>2. \A x, y \in one.recording : x = y
    BY DEF Optional
  <1>3. \E r \in Retentions : Longer(r)
    <2>0. Retentions \subseteq Int
      BY StoreBounds
    <2>1. CASE \A x \in one.recording : globally >= x.retention
      <3>1. Longer(globally)
        BY <2>0, <2>1
      <3> QED
        BY <3>1
    <2>2. CASE \E x \in one.recording : ~ (globally >= x.retention)
      <3>1. PICK x \in one.recording : ~ (globally >= x.retention)
        BY <2>2
      <3>2. x.retention \in Retentions /\ x.retention \in Int /\ globally \in Int
        BY <1>1, <2>0, <3>1
      <3>3. x.retention >= globally /\ \A y \in one.recording : y = x
        BY <1>2, <3>1, <3>2
      <3>4. Longer(x.retention)
        BY <3>1, <3>2, <3>3
      <3> QED
        BY <3>2, <3>4
    <2> QED
      BY <2>1, <2>2
  <1>4. Retention(one, globally) = CHOOSE r \in Retentions : Longer(r)
    BY DEF Retention
  <1>5. Retention(one, globally) \in Retentions /\ Longer(Retention(one, globally))
    BY <1>3, <1>4
  <1> QED
    BY <1>5

(* What pruning leaves of one series; what it takes is older than the      *)
(* global retention and than that of the recording.                        *)
LEMMA PrunedOne ==
  ASSUME NEW one \in SeriesHistory, NEW globally \in Retentions, clock \in Nat
  PROVE  /\ Pruned(one, globally) \in SeriesHistory
         /\ Pruned(one, globally).recording = one.recording
         /\ Pruned(one, globally).samples \subseteq one.samples
         /\ \A s \in Pruned(one, globally).samples : s >= clock - Retention(one, globally)
         /\ \A s \in one.samples \ Pruned(one, globally).samples :
               s < clock - globally /\ \A x \in one.recording : s < clock - x.retention
         /\ clock \in one.samples => clock \in Pruned(one, globally).samples
  <1>1. one.samples \in SUBSET (0 .. MaxClock) /\ one.recording \in Optional(ExtendedRecording)
    BY DEF SeriesHistory
  <1> DEFINE least == clock - Retention(one, globally)
             left == { s \in one.samples : s >= least }
  <1>2. /\ Retention(one, globally) \in Nat /\ globally \in Nat
        /\ Retention(one, globally) >= globally
        /\ \A x \in one.recording : Retention(one, globally) >= x.retention /\ x.retention \in Nat
    <2>1. \A x \in one.recording : x.retention \in Retentions
      BY <1>1 DEF Optional, ExtendedRecording
    <2> QED
      BY <1>1, <2>1, StoreBounds, RetentionIsLonger
  <1>3. Pruned(one, globally) = [one EXCEPT !.samples = left]
    BY DEF Pruned
  <1>4. left \subseteq one.samples /\ least \in Int /\ least <= clock
    BY <1>2
  <1>5. \A s \in one.samples \ left :
               s < clock - globally /\ \A x \in one.recording : s < clock - x.retention
    BY <1>1, <1>2
  <1>6. (\A s \in left : s >= least) /\ (clock \in one.samples => clock \in left)
    BY <1>1, <1>4
  <1> HIDE DEF left
  <1>7. /\ Pruned(one, globally) \in SeriesHistory
        /\ Pruned(one, globally).recording = one.recording
        /\ Pruned(one, globally).samples = left
    BY <1>1, <1>3, <1>4 DEF SeriesHistory
  <1> QED
    BY <1>4, <1>5, <1>6, <1>7

AllSeries(all) == all \in [DOMAIN all -> SeriesHistory]

(* Empty series go, the others stay as they are.                           *)
LEMMA NonEmptyKeeps ==
  ASSUME NEW all, AllSeries(all)
  PROVE  /\ DOMAIN NonEmpty(all) = { k \in DOMAIN all : all[k].samples # {} }
         /\ AllSeries(NonEmpty(all))
         /\ \A k \in DOMAIN NonEmpty(all) : NonEmpty(all)[k] = all[k]
  BY DEF AllSeries, NonEmpty

LEMMA PrunedAllKeeps ==
  ASSUME NEW all, AllSeries(all), NEW globally \in Retentions, clock \in Nat
  PROVE  LET left == PrunedAll(all, globally)
         IN /\ DOMAIN left = { k \in DOMAIN all : Pruned(all[k], globally).samples # {} }
            /\ AllSeries(left)
            /\ \A k \in DOMAIN left : left[k] = Pruned(all[k], globally)
  <1> DEFINE pruned == [k \in DOMAIN all |-> Pruned(all[k], globally)]
  <1>1. \A k \in DOMAIN all : all[k] \in SeriesHistory
    BY DEF AllSeries
  <1>2. AllSeries(pruned) /\ DOMAIN pruned = DOMAIN all
    BY <1>1, PrunedOne DEF AllSeries
  <1>3. PrunedAll(all, globally) = NonEmpty(pruned)
    BY DEF PrunedAll
  <1>4. \A k \in DOMAIN all : pruned[k] = Pruned(all[k], globally)
    OBVIOUS
  <1> HIDE DEF pruned
  <1>5. /\ DOMAIN NonEmpty(pruned) = { k \in DOMAIN pruned : pruned[k].samples # {} }
        /\ AllSeries(NonEmpty(pruned))
        /\ \A k \in DOMAIN NonEmpty(pruned) : NonEmpty(pruned)[k] = pruned[k]
    BY <1>2, NonEmptyKeeps
  <1> QED
    BY <1>2, <1>3, <1>4, <1>5

(* What is lost of a series has expired, and what ends has nothing left.   *)
OnlyExpired(k) ==
    \A s \in Samples(k) \ Samples(k)' :
        s < clock' - global' /\ \A x \in Recording(k)' : s < clock' - x.retention
EndsEmpty(k) ==
    Recorded(k) /\ ~Recorded(k)' =>
        \A x \in Recording(k), s \in Samples(k) : s < clock - x.retention

NoneOlder(one, globally) == \A s \in one.samples : s >= clock - Retention(one, globally)

(* No sample is of the future.                                             *)
Past(all, time) == \A k \in DOMAIN all : \A s \in all[k].samples : s <= time

LEMMA StoreTypes ==
  ASSUME StoreTypeOK
  PROVE  /\ clock \in Nat /\ clock \in 0 .. MaxClock /\ current \subseteq Keys /\ global \in Retentions
         /\ AllSeries(series) /\ Past(series, clock) /\ DOMAIN series \subseteq Keys
         /\ DOMAIN windows \subseteq Keys /\ windows \in [DOMAIN windows -> Controls]
         /\ \A k : Recording(k) \in Optional(ExtendedRecording)
  <1>1. /\ clock \in 0 .. MaxClock /\ current \subseteq Keys /\ global \in Retentions
        /\ AllSeries(series) /\ Past(series, clock) /\ DOMAIN series \subseteq Keys
        /\ DOMAIN windows \subseteq Keys /\ windows \in [DOMAIN windows -> Controls]
    BY DEF StoreTypeOK, AllSeries, Past
  <1>2. \A k : Recording(k) \in Optional(ExtendedRecording)
    BY <1>1 DEF AllSeries, SeriesHistory, Recording, Optional
  <1> QED
    BY <1>1, <1>2, StoreBounds

LEMMA StoreTyped ==
  ASSUME clock' \in 0 .. MaxClock, current' \subseteq Keys, global' \in Retentions,
         AllSeries(series'), Past(series', clock'), DOMAIN series' \subseteq Keys,
         DOMAIN windows' \subseteq Keys, windows' \in [DOMAIN windows' -> Controls]
  PROVE  StoreTypeOK'
  BY DEF StoreTypeOK, AllSeries, Past

(* Everything is pruned, after samples were added or as it is.             *)
LEMMA PruningKeeps ==
  ASSUME StoreTypeOK, NEW all, AllSeries(all), Past(all, clock), NEW globally \in Retentions,
         series' = PrunedAll(all, globally)
  PROVE  /\ AllSeries(series') /\ Past(series', clock) /\ DOMAIN series' \subseteq DOMAIN all
         /\ \A k \in DOMAIN series' : NoneOlder(series'[k], globally)
  <1>1. /\ DOMAIN series' = { k \in DOMAIN all : Pruned(all[k], globally).samples # {} }
        /\ AllSeries(series')
        /\ \A k \in DOMAIN series' : series'[k] = Pruned(all[k], globally)
    BY PrunedAllKeeps, StoreTypes
  <1>2. ASSUME NEW k \in DOMAIN series'
        PROVE  /\ series'[k].samples \subseteq all[k].samples /\ series'[k].recording = all[k].recording
               /\ \A s \in series'[k].samples : s >= clock - Retention(all[k], globally)
    <2>1. all[k] \in SeriesHistory
      BY <1>1 DEF AllSeries
    <2> QED
      BY <1>1, <2>1, PrunedOne, StoreTypes
  <1>3. ASSUME NEW k \in DOMAIN series' PROVE NoneOlder(series'[k], globally)
    <2>1. Retention(series'[k], globally) = Retention(all[k], globally)
      BY <1>2 DEF Retention
    <2> QED
      BY <1>2, <2>1 DEF NoneOlder
  <1>4. Past(series', clock)
    BY <1>1, <1>2 DEF Past
  <1> QED
    BY <1>1, <1>3, <1>4

LEMMA PruningExpires ==
  ASSUME StoreTypeOK, NEW all, AllSeries(all), NEW globally \in Retentions,
         series' = PrunedAll(all, globally), global' = globally, clock' = clock,
         DOMAIN series \subseteq DOMAIN all,
         \A k \in DOMAIN series : /\ all[k].recording = series[k].recording
                                  /\ series[k].samples \subseteq all[k].samples
  PROVE  \A k : OnlyExpired(k) /\ EndsEmpty(k)
  <1>1. /\ DOMAIN series' = { k \in DOMAIN all : Pruned(all[k], globally).samples # {} }
        /\ \A k \in DOMAIN series' : series'[k] = Pruned(all[k], globally)
    BY PrunedAllKeeps, StoreTypes
  <1> SUFFICES ASSUME NEW k PROVE OnlyExpired(k) /\ EndsEmpty(k)
    OBVIOUS
  <1>2. CASE k \notin DOMAIN series
    BY <1>2 DEF OnlyExpired, EndsEmpty, Samples, Recorded, Recording
  <1>3. CASE k \in DOMAIN series
    <2> DEFINE p == Pruned(all[k], globally)
    <2>1. /\ k \in DOMAIN all /\ all[k] \in SeriesHistory
          /\ Samples(k) \subseteq all[k].samples /\ Recording(k) = all[k].recording
      BY <1>3 DEF AllSeries, Samples, Recording
    <2>2. /\ p.recording = Recording(k)
          /\ \A s \in Samples(k) \ p.samples :
               s < clock - globally /\ \A x \in Recording(k) : s < clock - x.retention
      BY <2>1, PrunedOne, StoreTypes
    <2>3. \/ Samples(k)' = p.samples /\ Recording(k)' = p.recording
          \/ Samples(k)' = {} /\ Recording(k)' = {} /\ p.samples = {}
      BY <1>1, <2>1 DEF Samples, Recording
    <2> HIDE DEF p
    <2> QED
      BY <2>2, <2>3 DEF OnlyExpired, EndsEmpty, Recorded
  <1> QED
    BY <1>2, <1>3

(* A recording starts, anew or again.                                      *)
LEMMA StartedKeeps ==
  ASSUME StoreTypeOK, NEW k \in Keys, NEW r \in Nat, NEW persistent \in BOOLEAN,
         series' = Started(k, r, persistent), global' = global, clock' = clock
  PROVE  /\ AllSeries(series') /\ Past(series', clock') /\ DOMAIN series' \subseteq Keys
         /\ \A j : OnlyExpired(j) /\ (Recorded(j) => Recorded(j)')
  <1> DEFINE x == [retention |-> Clamp(r), persistent |-> persistent]
             one == [Entry(series, k) EXCEPT !.recording = {x}]
             p == Pruned(one, global)
  <1>1. {x} \in Optional(ExtendedRecording)
    BY StoreBounds DEF Optional, ExtendedRecording
  <1>2. Entry(series, k) \in SeriesHistory /\ Entry(series, k).samples = Samples(k)
    BY StoreTypes DEF Entry, SeriesHistory, Samples, AllSeries, Optional
  <1> HIDE DEF x
  <1>3. one \in SeriesHistory /\ one.samples = Samples(k) /\ one.recording = {x}
    BY <1>1, <1>2 DEF SeriesHistory
  <1>4. series' = Put(series, k, p)
    BY DEF Started, x
  <1> HIDE DEF one
  <1>5. /\ p \in SeriesHistory /\ p.recording = {x} /\ p.samples \subseteq Samples(k)
        /\ \A s \in Samples(k) \ p.samples :
               s < clock - global /\ \A y \in p.recording : s < clock - y.retention
    BY <1>3, PrunedOne, StoreTypes
  <1> HIDE DEF p
  <1>6. /\ DOMAIN series' = DOMAIN series \cup {k} /\ series'[k] = p
        /\ \A j \in DOMAIN series' : j # k => j \in DOMAIN series /\ series'[j] = series[j]
        /\ series' \in [DOMAIN series \cup {k} -> SeriesHistory]
    BY <1>4, <1>5, StoreTypes DEF Put, AllSeries
  <1>7. AllSeries(series') /\ DOMAIN series' \subseteq Keys
    BY <1>6, StoreTypes DEF AllSeries
  <1>8. Past(series', clock')
    BY <1>5, <1>6, StoreTypes DEF Past, Samples
  <1>9. ASSUME NEW j PROVE OnlyExpired(j) /\ (Recorded(j) => Recorded(j)')
    <2>1. CASE j = k
      <3>1. Samples(k)' = p.samples /\ Recording(k)' = p.recording
        BY <1>6 DEF Samples, Recording
      <3> QED
        BY <1>5, <2>1, <3>1 DEF OnlyExpired, Recorded
    <2>2. CASE j # k
      <3>1. Samples(j)' = Samples(j) /\ Recording(j)' = Recording(j)
        BY <1>6, <2>2 DEF Samples, Recording
      <3> QED
        BY <3>1 DEF OnlyExpired, Recorded
    <2> QED
      BY <2>1, <2>2
  <1> QED
    BY <1>7, <1>8, <1>9

(* The recording of k stops; other series go only when they are empty.     *)
LEMMA StoppedKeeps ==
  ASSUME StoreTypeOK, NEW k \in Keys,
         series' = Stopped(k), global' = global, clock' = clock
  PROVE  /\ AllSeries(series') /\ Past(series', clock') /\ DOMAIN series' \subseteq Keys
         /\ \A j : OnlyExpired(j) /\ (j # k => EndsEmpty(j))
  <1> DEFINE One(j) == [series[j] EXCEPT !.recording = {}]
             all == [j \in DOMAIN series |->
                       IF j = k THEN Pruned(One(j), global) ELSE series[j]]
  <1>1. ASSUME NEW j \in DOMAIN series
        PROVE  /\ One(j) \in SeriesHistory /\ One(j).samples = series[j].samples
               /\ One(j).recording = {} /\ series[j] \in SeriesHistory
    BY StoreTypes DEF AllSeries, SeriesHistory, Optional
  <1>2. ASSUME NEW j \in DOMAIN series
        PROVE  /\ Pruned(One(j), global) \in SeriesHistory
               /\ Pruned(One(j), global).samples \subseteq series[j].samples
               /\ Pruned(One(j), global).recording = {}
               /\ \A s \in series[j].samples \ Pruned(One(j), global).samples : s < clock - global
    <2> HIDE DEF One
    <2> QED
      BY <1>1, PrunedOne, StoreTypes
  <1>3. /\ AllSeries(all) /\ DOMAIN all = DOMAIN series
        /\ \A j \in DOMAIN series : j # k => all[j] = series[j]
        /\ k \in DOMAIN series => all[k] = Pruned(One(k), global)
    <2> HIDE DEF One
    <2> QED
      BY <1>1, <1>2 DEF AllSeries
  <1>4. series' = NonEmpty(all)
    BY DEF Stopped
  <1>5. \A j \in DOMAIN series : /\ all[j].samples \subseteq series[j].samples
                                 /\ \A s \in series[j].samples \ all[j].samples : s < clock - global
    <2> HIDE DEF One, all
    <2> QED
      BY <1>2, <1>3
  <1>6. k \in DOMAIN series => all[k].recording = {}
    <2> HIDE DEF One, all
    <2> QED
      BY <1>2, <1>3
  <1> HIDE DEF all
  <1>7. /\ DOMAIN series' = { j \in DOMAIN all : all[j].samples # {} }
        /\ AllSeries(series')
        /\ \A j \in DOMAIN series' : series'[j] = all[j]
    BY <1>3, <1>4, NonEmptyKeeps
  <1>8. Past(series', clock') /\ DOMAIN series' \subseteq Keys
    BY <1>3, <1>5, <1>7, StoreTypes DEF Past
  <1>9. ASSUME NEW j PROVE OnlyExpired(j) /\ (j # k => EndsEmpty(j))
    <2>1. CASE j \notin DOMAIN series
      BY <2>1 DEF OnlyExpired, EndsEmpty, Samples, Recorded, Recording
    <2>2. CASE j \in DOMAIN series
      <3>1. \/ Samples(j)' = all[j].samples /\ Recording(j)' = all[j].recording
            \/ Samples(j)' = {} /\ Recording(j)' = {} /\ all[j].samples = {}
        BY <1>3, <1>7, <2>2 DEF Samples, Recording
      <3>2. Samples(j) = series[j].samples /\ Recording(j) = series[j].recording
        BY <2>2 DEF Samples, Recording
      <3>3. CASE j = k
        <4>1. Recording(j)' = {}
          BY <1>6, <2>2, <3>1, <3>3
        <4> QED
          BY <1>5, <2>2, <3>1, <3>2, <3>3, <4>1 DEF OnlyExpired
      <3>4. CASE j # k
        <4>1. all[j] = series[j]
          BY <1>3, <2>2, <3>4
        <4> QED
          BY <3>1, <3>2, <4>1 DEF OnlyExpired, EndsEmpty, Recorded
      <3> QED
        BY <3>3, <3>4
    <2> QED
      BY <2>1, <2>2
  <1> QED
    BY <1>7, <1>8, <1>9

(* Samples of what is read now are added.                                  *)
LEMMA Sampled ==
  ASSUME StoreTypeOK, NEW old, AllSeries(old), Past(old, clock), NEW fresh \in SUBSET Keys
  PROVE  LET all == [k \in DOMAIN old \cup fresh |->
                        IF k \in fresh
                        THEN [Entry(old, k) EXCEPT !.samples = @ \cup {clock}]
                        ELSE old[k]]
         IN /\ AllSeries(all) /\ Past(all, clock) /\ DOMAIN all = DOMAIN old \cup fresh
            /\ \A k \in DOMAIN old : /\ all[k].recording = old[k].recording
                                     /\ old[k].samples \subseteq all[k].samples
            /\ Observed(old, fresh) = PrunedAll(all, global)
  <1> DEFINE More(k) == [Entry(old, k) EXCEPT !.samples = @ \cup {clock}]
             all == [k \in DOMAIN old \cup fresh |-> IF k \in fresh THEN More(k) ELSE old[k]]
  <1>1. ASSUME NEW k
        PROVE  /\ Entry(old, k) \in SeriesHistory
               /\ \A s \in Entry(old, k).samples : s <= clock
               /\ k \in DOMAIN old => Entry(old, k) = old[k]
    BY DEF Entry, AllSeries, Past, SeriesHistory, Optional
  <1>2. ASSUME NEW k
        PROVE  /\ More(k) \in SeriesHistory
               /\ More(k).samples = Entry(old, k).samples \cup {clock}
               /\ More(k).recording = Entry(old, k).recording
    BY <1>1, StoreTypes DEF SeriesHistory
  <1>3. clock \in Nat
    BY StoreTypes
  <1>4. Observed(old, fresh) = PrunedAll(all, global)
    BY DEF Observed
  <1>5. /\ DOMAIN all = DOMAIN old \cup fresh
        /\ \A k \in DOMAIN all : all[k] = IF k \in fresh THEN More(k) ELSE old[k]
    OBVIOUS
  <1>6. AllSeries(all)
    <2> HIDE DEF More
    <2> QED
      BY <1>2 DEF AllSeries
  <1> HIDE DEF More, all
  <1>7. \A k \in DOMAIN all : \A s \in all[k].samples : s <= clock
    <2> SUFFICES ASSUME NEW k \in DOMAIN all, NEW s \in all[k].samples PROVE s <= clock
      OBVIOUS
    <2>1. CASE k \in fresh
      BY <1>1, <1>2, <1>3, <1>5, <2>1
    <2>2. CASE k \notin fresh
      BY <1>5, <2>2 DEF Past
    <2> QED
      BY <2>1, <2>2
  <1>8. \A k \in DOMAIN old : /\ all[k].recording = old[k].recording
                              /\ old[k].samples \subseteq all[k].samples
    BY <1>1, <1>2, <1>5
  <1> QED
    BY <1>4, <1>5, <1>6, <1>7, <1>8 DEF Past, all, More

(* What a step may do to the series of a sensor.                           *)
Kept ==
    /\ \A k \in Keys : OnlyExpired(k) \/ ResetStatistics
    /\ \A k \in Keys : EndsEmpty(k) \/ StopRecording(k) \/ CloseDetails(k) \/ ResetStatistics

LEMMA ObserveKeeps ==
  ASSUME StoreTypeOK, Observe
  PROVE  /\ StoreTypeOK' /\ Kept
         /\ \A k \in DOMAIN series' : \A s \in series'[k].samples :
               s >= clock' - Retention(series'[k], global')
  <1>1. PICK fresh \in SUBSET Keys : /\ current' = fresh
                                     /\ series' = Observed(series, fresh)
                                     /\ UNCHANGED <<clock, global, windows>>
    BY DEF Observe
  <1> DEFINE all == [k \in DOMAIN series \cup fresh |->
                        IF k \in fresh
                        THEN [Entry(series, k) EXCEPT !.samples = @ \cup {clock}]
                        ELSE series[k]]
  <1>2. /\ AllSeries(all) /\ Past(all, clock) /\ DOMAIN all = DOMAIN series \cup fresh
        /\ \A k \in DOMAIN series : /\ all[k].recording = series[k].recording
                                    /\ series[k].samples \subseteq all[k].samples
        /\ Observed(series, fresh) = PrunedAll(all, global)
    BY StoreTypes, Sampled
  <1> HIDE DEF all
  <1>3. /\ AllSeries(series') /\ Past(series', clock) /\ DOMAIN series' \subseteq DOMAIN all
        /\ \A k \in DOMAIN series' : NoneOlder(series'[k], global)
    BY <1>1, <1>2, PruningKeeps, StoreTypes
  <1>4. \A k : OnlyExpired(k) /\ EndsEmpty(k)
    BY <1>1, <1>2, PruningExpires, StoreTypes
  <1>5. StoreTypeOK'
    BY <1>1, <1>2, <1>3, StoreTypes, StoreTyped
  <1> QED
    BY <1>1, <1>3, <1>4, <1>5 DEF Kept, NoneOlder, Retention

LEMMA ResetKeeps == ASSUME StoreTypeOK, ResetStatistics PROVE StoreTypeOK'
  <1> DEFINE old == [k \in { j \in DOMAIN series : Recorded(j) } |->
                        [series[k] EXCEPT !.samples = {}]]
             all == [k \in DOMAIN old \cup current |->
                        IF k \in current
                        THEN [Entry(old, k) EXCEPT !.samples = @ \cup {clock}]
                        ELSE old[k]]
  <1>1. AllSeries(old) /\ Past(old, clock) /\ DOMAIN old \subseteq DOMAIN series
    <2>1. \A k \in DOMAIN series : [series[k] EXCEPT !.samples = {}] \in SeriesHistory
      BY StoreTypes DEF AllSeries, SeriesHistory
    <2>2. \A k \in DOMAIN old : old[k].samples = {}
      BY StoreTypes DEF AllSeries, SeriesHistory
    <2>3. AllSeries(old) /\ DOMAIN old \subseteq DOMAIN series
      BY <2>1 DEF AllSeries
    <2> QED
      BY <2>2, <2>3 DEF Past
  <1>2. series' = Observed(old, current) /\ UNCHANGED <<clock, current, global, windows>>
    BY DEF ResetStatistics
  <1> HIDE DEF old
  <1>3. /\ AllSeries(all) /\ Past(all, clock) /\ DOMAIN all = DOMAIN old \cup current
        /\ Observed(old, current) = PrunedAll(all, global)
    <2>1. current \in SUBSET Keys
      BY StoreTypes
    <2> QED
      BY <1>1, <2>1, Sampled
  <1> HIDE DEF all
  <1>4. AllSeries(series') /\ Past(series', clock) /\ DOMAIN series' \subseteq DOMAIN all
    BY <1>2, <1>3, PruningKeeps, StoreTypes
  <1> QED
    BY <1>1, <1>2, <1>3, <1>4, StoreTypes, StoreTyped

LEMMA RetentionKeeps == ASSUME StoreTypeOK, SetGlobalRetention PROVE StoreTypeOK' /\ Kept
  <1>1. PICK r \in DurationChoices : /\ global' = Clamp(r) /\ series' = PrunedAll(series, Clamp(r))
                                     /\ UNCHANGED <<clock, current, windows>>
    BY DEF SetGlobalRetention
  <1>2. Clamp(r) \in Retentions
    BY StoreBounds
  <1> HIDE DEF Clamp
  <1>3. /\ AllSeries(series') /\ Past(series', clock) /\ DOMAIN series' \subseteq DOMAIN series
        /\ \A k \in DOMAIN series' : NoneOlder(series'[k], Clamp(r))
    BY <1>1, <1>2, PruningKeeps, StoreTypes
  <1>4. \A k : OnlyExpired(k) /\ EndsEmpty(k)
    BY <1>1, <1>2, PruningExpires, StoreTypes
  <1>5. StoreTypeOK'
    BY <1>1, <1>2, <1>3, StoreTypes, StoreTyped
  <1> QED
    BY <1>1, <1>3, <1>4, <1>5 DEF Kept, NoneOlder, Retention

(* The windows stay records of their controls.                             *)
LEMMA WindowPut ==
  ASSUME StoreTypeOK, NEW k \in Keys, NEW c \in Controls
  PROVE  /\ DOMAIN Put(windows, k, c) \subseteq Keys
         /\ Put(windows, k, c) \in [DOMAIN Put(windows, k, c) -> Controls]
         /\ k \in DOMAIN windows => /\ DOMAIN [windows EXCEPT ![k] = c] \subseteq Keys
                                    /\ [windows EXCEPT ![k] = c]
                                         \in [DOMAIN [windows EXCEPT ![k] = c] -> Controls]
  BY StoreTypes DEF Put

LEMMA WindowWithout ==
  ASSUME StoreTypeOK, NEW k \in Keys
  PROVE  /\ DOMAIN Without(windows, k) \subseteq Keys
         /\ Without(windows, k) \in [DOMAIN Without(windows, k) -> Controls]
  BY StoreTypes DEF Without

(* A step that leaves the series, their retention and the clock alone.     *)
LEMMA SameKeeps ==
  ASSUME UNCHANGED series
  PROVE  \A j : OnlyExpired(j) /\ EndsEmpty(j)
  <1>1. \A j : Samples(j)' = Samples(j) /\ Recording(j)' = Recording(j)
    BY DEF Samples, Recording
  <1> QED
    BY <1>1 DEF OnlyExpired, EndsEmpty, Recorded

LEMMA OpenKeeps ==
  ASSUME StoreTypeOK, NEW k \in Keys, OpenDetails(k)
  PROVE  StoreTypeOK' /\ \A j : OnlyExpired(j) /\ EndsEmpty(j)
  <1>0. UNCHANGED <<clock, current, global>>
    BY DEF OpenDetails
  <1>1. CASE Recorded(k)
    <2> DEFINE x == CHOOSE x \in Recording(k) : TRUE
               c == [recording |-> TRUE, retention |-> x.retention, persistent |-> x.persistent]
    <2>1. x \in Recording(k)
      BY <1>1 DEF Recorded
    <2>2. x \in ExtendedRecording
      BY <2>1, StoreTypes DEF Optional
    <2>3. UNCHANGED series /\ windows' = Put(windows, k, c)
      BY <1>1 DEF OpenDetails
    <2> HIDE DEF x
    <2>4. c \in Controls
      BY <2>2 DEF Controls, ExtendedRecording
    <2> HIDE DEF c
    <2>5. StoreTypeOK'
      BY <1>0, <2>3, <2>4, WindowPut, StoreTypes, StoreTyped
    <2> QED
      BY <2>3, <2>5, SameKeeps
  <1>2. CASE ~ Recorded(k)
    <2> DEFINE c == [recording |-> TRUE, retention |-> global, persistent |-> FALSE]
    <2>1. series' = Started(k, global, FALSE) /\ windows' = Put(windows, k, c)
      BY <1>2 DEF OpenDetails
    <2>2. c \in Controls /\ global \in Nat
      BY StoreTypes, StoreBounds DEF Controls
    <2> HIDE DEF c
    <2>3. /\ AllSeries(series') /\ Past(series', clock') /\ DOMAIN series' \subseteq Keys
          /\ \A j : OnlyExpired(j) /\ (Recorded(j) => Recorded(j)')
      BY <1>0, <2>1, <2>2, StartedKeeps
    <2>4. StoreTypeOK'
      BY <1>0, <2>1, <2>2, <2>3, WindowPut, StoreTypes, StoreTyped
    <2> QED
      BY <2>3, <2>4 DEF EndsEmpty
  <1> QED
    BY <1>1, <1>2

LEMMA StartKeeps ==
  ASSUME StoreTypeOK, NEW k \in Keys, StartRecording(k) \/ SetRetention(k)
  PROVE  StoreTypeOK' /\ \A j : OnlyExpired(j) /\ EndsEmpty(j)
  <1>0. k \in DOMAIN windows /\ UNCHANGED <<clock, current, global>>
    BY DEF StartRecording, SetRetention
  <1>1. windows[k] \in Controls
    BY <1>0, StoreTypes
  <1>2. \E c \in Controls, r \in Nat, persistent \in BOOLEAN :
            windows' = [windows EXCEPT ![k] = c] /\ series' = Started(k, r, persistent)
    <2>1. CASE StartRecording(k)
      <3>1. [windows[k] EXCEPT !.recording = TRUE] \in Controls
        BY <1>1 DEF Controls
      <3>2. windows' = [windows EXCEPT ![k] = [windows[k] EXCEPT !.recording = TRUE]]
        BY <1>0, <2>1, StoreTypes DEF StartRecording
      <3>3. /\ windows[k].retention \in Nat /\ windows[k].persistent \in BOOLEAN
            /\ series' = Started(k, windows[k].retention, windows[k].persistent)
        BY <1>1, <2>1, StoreBounds DEF StartRecording, Controls
      <3> HIDE DEF Started
      <3> QED
        BY <3>1, <3>2, <3>3
    <2>2. CASE SetRetention(k)
      <3>1. PICK r \in DurationChoices :
              /\ windows' = [windows EXCEPT ![k].retention = Clamp(r)]
              /\ series' = Started(k, r, \E x \in Recording(k) : x.persistent)
        BY <2>2 DEF SetRetention
      <3>2. r \in Nat /\ Clamp(r) \in Retentions
        BY StoreBounds
      <3> HIDE DEF Clamp
      <3>3. [windows[k] EXCEPT !.retention = Clamp(r)] \in Controls
        BY <1>1, <3>2 DEF Controls
      <3>4. windows' = [windows EXCEPT ![k] = [windows[k] EXCEPT !.retention = Clamp(r)]]
        BY <1>0, <3>1, StoreTypes
      <3>5. (\E x \in Recording(k) : x.persistent) \in BOOLEAN
        OBVIOUS
      <3> QED
        BY <3>1, <3>2, <3>3, <3>4, <3>5
    <2> QED
      BY <2>1, <2>2
  <1>3. PICK c \in Controls, r \in Nat, persistent \in BOOLEAN :
            windows' = [windows EXCEPT ![k] = c] /\ series' = Started(k, r, persistent)
    BY <1>2
  <1>4. /\ AllSeries(series') /\ Past(series', clock') /\ DOMAIN series' \subseteq Keys
        /\ \A j : OnlyExpired(j) /\ (Recorded(j) => Recorded(j)')
    BY <1>0, <1>3, StartedKeeps
  <1>5. StoreTypeOK'
    BY <1>0, <1>3, <1>4, WindowPut, StoreTypes, StoreTyped
  <1> QED
    BY <1>4, <1>5 DEF EndsEmpty

LEMMA StopKeeps ==
  ASSUME StoreTypeOK, NEW k \in Keys, StopRecording(k) \/ CloseDetails(k)
  PROVE  /\ StoreTypeOK'
         /\ \A j : OnlyExpired(j) /\ (j # k => EndsEmpty(j))
  <1>0. k \in DOMAIN windows /\ UNCHANGED <<clock, current, global>>
    BY DEF StopRecording, CloseDetails
  <1>1. DOMAIN windows' \subseteq Keys /\ windows' \in [DOMAIN windows' -> Controls]
    <2>1. CASE StopRecording(k)
      <3>1. [windows[k] EXCEPT !.recording = FALSE] \in Controls
        BY <1>0, StoreTypes DEF Controls
      <3>2. windows' = [windows EXCEPT ![k] = [windows[k] EXCEPT !.recording = FALSE]]
        BY <1>0, <2>1, StoreTypes DEF StopRecording
      <3> QED
        BY <1>0, <3>1, <3>2, WindowPut
    <2>2. CASE CloseDetails(k)
      BY <2>2, WindowWithout DEF CloseDetails
    <2> QED
      BY <2>1, <2>2
  <1>2. CASE series' = Stopped(k)
    <2>1. /\ AllSeries(series') /\ Past(series', clock') /\ DOMAIN series' \subseteq Keys
          /\ \A j : OnlyExpired(j) /\ (j # k => EndsEmpty(j))
      BY <1>0, <1>2, StoppedKeeps
    <2> QED
      BY <1>0, <1>1, <2>1, StoreTypes, StoreTyped
  <1>3. CASE UNCHANGED series
    <2>1. StoreTypeOK'
      BY <1>0, <1>1, <1>3, StoreTypes, StoreTyped
    <2> QED
      BY <1>3, <2>1, SameKeeps
  <1> QED
    BY <1>2, <1>3 DEF StopRecording, CloseDetails

LEMMA ToggleKeeps ==
  ASSUME StoreTypeOK, NEW k \in Keys, TogglePersistent(k)
  PROVE  StoreTypeOK' /\ \A j : OnlyExpired(j) /\ EndsEmpty(j)
  <1> DEFINE turnedTo == ~ windows[k].persistent
             Turned(x) == [x EXCEPT !.persistent = turnedTo]
             turned == { Turned(x) : x \in Recording(k) }
  <1>0. k \in DOMAIN windows /\ UNCHANGED <<clock, current, global>>
    BY DEF TogglePersistent
  <1>1. windows[k] \in Controls
    BY <1>0, StoreTypes
  <1>2. DOMAIN windows' \subseteq Keys /\ windows' \in [DOMAIN windows' -> Controls]
    <2>1. [windows[k] EXCEPT !.persistent = turnedTo] \in Controls
      BY <1>1 DEF Controls
    <2>2. windows' = [windows EXCEPT ![k] = [windows[k] EXCEPT !.persistent = turnedTo]]
      BY <1>0, StoreTypes DEF TogglePersistent
    <2> QED
      BY <1>0, <2>1, <2>2, WindowPut
  <1>3. CASE ~ Recorded(k)
    <2>1. UNCHANGED series
      BY <1>3 DEF TogglePersistent
    <2>2. StoreTypeOK'
      BY <1>0, <1>2, <2>1, StoreTypes, StoreTyped
    <2> QED
      BY <2>1, <2>2, SameKeeps
  <1>4. CASE Recorded(k)
    <2>1. k \in DOMAIN series /\ Recording(k) = series[k].recording /\ Samples(k) = series[k].samples
      BY <1>4 DEF Recorded, Recording, Samples
    <2>2. turnedTo \in BOOLEAN
      BY <1>1 DEF Controls
    <2> HIDE DEF turnedTo
    <2>3. \A x \in Recording(k) : /\ x \in ExtendedRecording /\ Turned(x) \in ExtendedRecording
                                  /\ Turned(x).retention = x.retention
      BY <2>2, StoreTypes DEF Optional, ExtendedRecording
    <2>4. \A x, y \in Recording(k) : x = y
      BY StoreTypes DEF Optional
    <2> HIDE DEF Turned
    <2>5. turned \in Optional(ExtendedRecording)
      BY <2>3, <2>4 DEF Optional
    <2>6. series' = [series EXCEPT ![k].recording = turned]
      BY <1>4, <2>1 DEF TogglePersistent, Turned, turnedTo
    <2> HIDE DEF turned
    <2>7. series[k] \in SeriesHistory
      BY <2>1, StoreTypes DEF AllSeries
    <2>8. /\ DOMAIN series' = DOMAIN series /\ series'[k] \in SeriesHistory
          /\ series'[k].samples = Samples(k) /\ series'[k].recording = turned
          /\ \A j \in DOMAIN series : j # k => series'[j] = series[j]
          /\ series' \in [DOMAIN series' -> SeriesHistory]
      BY <2>1, <2>5, <2>6, <2>7, StoreTypes DEF AllSeries, SeriesHistory
    <2>9. Past(series', clock')
      BY <1>0, <2>1, <2>8, StoreTypes DEF Past
    <2>10. StoreTypeOK'
      BY <1>0, <1>2, <2>8, <2>9, StoreTypes, StoreTyped DEF AllSeries
    <2>11. ASSUME NEW j PROVE OnlyExpired(j) /\ EndsEmpty(j)
      <3>1. Samples(j)' = Samples(j)
        BY <2>1, <2>8 DEF Samples
      <3>2. Recorded(j) => Recorded(j)'
        <4>1. CASE j = k
          BY <2>1, <2>8, <4>1 DEF Recorded, Recording, turned
        <4>2. CASE j # k
          BY <2>8, <4>2 DEF Recorded, Recording
        <4> QED
          BY <4>1, <4>2
      <3> QED
        BY <3>1, <3>2 DEF OnlyExpired, EndsEmpty
    <2> QED
      BY <2>10, <2>11
  <1> QED
    BY <1>3, <1>4

LEMMA DetailsKeep == ASSUME StoreTypeOK, NEW k \in Keys, Details(k) PROVE StoreTypeOK' /\ Kept
  <1>1. CASE StopRecording(k) \/ CloseDetails(k)
    <2>1. StoreTypeOK' /\ \A j : OnlyExpired(j) /\ (j # k => EndsEmpty(j))
      BY <1>1, StopKeeps
    <2> QED
      BY <1>1, <2>1 DEF Kept
  <1>2. CASE ~ (StopRecording(k) \/ CloseDetails(k))
    <2>1. StoreTypeOK' /\ \A j : OnlyExpired(j) /\ EndsEmpty(j)
      BY <1>2, OpenKeeps, StartKeeps, ToggleKeeps DEF Details
    <2> QED
      BY <2>1 DEF Kept
  <1> QED
    BY <1>1, <1>2

(* Time passes, and a sample stays in the past.                            *)
LEMMA TickKeeps == ASSUME StoreTypeOK, ClockTicks PROVE StoreTypeOK' /\ Kept
  <1>1. /\ clock < MaxClock /\ clock' = clock + 1
        /\ UNCHANGED <<current, global, series, windows>>
    BY DEF ClockTicks
  <1>2. clock' \in 0 .. MaxClock
    BY <1>1, StoreTypes, StoreBounds
  <1>3. Past(series', clock')
    <2>1. ASSUME NEW k \in DOMAIN series, NEW s \in series[k].samples PROVE s <= clock + 1
      <3>1. s \in 0 .. MaxClock /\ s <= clock /\ clock \in Nat
        BY StoreTypes DEF AllSeries, SeriesHistory, Past
      <3> QED
        BY <3>1
    <2> QED
      BY <1>1, <2>1 DEF Past
  <1>4. StoreTypeOK'
    BY <1>1, <1>2, <1>3, StoreTypes, StoreTyped
  <1>5. Kept
    BY <1>1, SameKeeps DEF Kept
  <1> QED
    BY <1>4, <1>5

LEMMA StoreInductive ==
  ASSUME StoreTypeOK, [StoreNext]_storeVars
  PROVE  StoreTypeOK' /\ (storeVars' # storeVars => Kept)
  <1>1. CASE ClockTicks
    BY <1>1, TickKeeps
  <1>2. CASE Observe
    BY <1>2, ObserveKeeps
  <1>3. CASE ResetStatistics
    BY <1>3, ResetKeeps DEF Kept
  <1>4. CASE SetGlobalRetention
    BY <1>4, RetentionKeeps
  <1>5. ASSUME NEW k \in Keys, Details(k) PROVE StoreTypeOK' /\ Kept
    BY <1>5, DetailsKeep
  <1>6. CASE UNCHANGED storeVars
    <2>1. UNCHANGED <<clock, current, global, series, windows>>
      BY <1>6 DEF storeVars
    <2>2. StoreTypeOK'
      BY <2>1, StoreTypes, StoreTyped
    <2> QED
      BY <1>6, <2>2
  <1> QED
    BY <1>1, <1>2, <1>3, <1>4, <1>5, <1>6 DEF StoreNext

LEMMA StoreStarts == StoreInit => StoreTypeOK
  <1> SUFFICES ASSUME StoreInit PROVE StoreTypeOK
    OBVIOUS
  <1>1. clock = 0 /\ current = {} /\ series = <<>> /\ windows = <<>> /\ global \in Retentions
    BY StoreBounds DEF StoreInit
  <1>2. DOMAIN series = {} /\ DOMAIN windows = {}
    BY <1>1
  <1>3. series \in [DOMAIN series -> SeriesHistory] /\ windows \in [DOMAIN windows -> Controls]
    BY <1>1, <1>2
  <1>4. clock \in 0 .. MaxClock
    BY <1>1, StoreBounds
  <1> QED
    BY <1>1, <1>2, <1>3, <1>4 DEF StoreTypeOK

(* HistoryStore with any sensors and retentions: a sample is lost only by  *)
(* a reset or when it is older than every retention it is kept for,        *)
(* observing leaves nothing that is older, and a recording ends for no     *)
(* other reason than those of history.rs.                                  *)
THEOREM HistoryIsKept == StoreSpec => HistoryKept
  <1>1. StoreSpec => []StoreTypeOK
    <2>1. StoreTypeOK /\ [StoreNext]_storeVars => StoreTypeOK'
      BY StoreInductive
    <2> QED
      BY StoreStarts, <2>1, PTL DEF StoreSpec
  <1>2. StoreTypeOK /\ [StoreNext]_storeVars
          => [\A k \in Keys : \A s \in Samples(k) \ Samples(k)' :
                \/ ResetStatistics
                \/ /\ s < clock' - global'
                   /\ \A x \in Recording(k)' : s < clock' - x.retention ]_storeVars
    BY StoreInductive DEF Kept, OnlyExpired
  <1>3. StoreTypeOK /\ [StoreNext]_storeVars
          => [Observe => \A k \in DOMAIN series' : \A s \in series'[k].samples :
                s >= clock' - Retention(series'[k], global')]_storeVars
    BY ObserveKeeps
  <1>4. StoreTypeOK /\ [StoreNext]_storeVars
          => [\A k \in Keys : Recorded(k) /\ ~Recorded(k)' =>
                \/ StopRecording(k) \/ CloseDetails(k) \/ ResetStatistics
                \/ \A x \in Recording(k), s \in Samples(k) : s < clock - x.retention]_storeVars
    BY StoreInductive DEF Kept, EndsEmpty
  <1>5. StoreSpec => LostOnlyExpired
    BY <1>1, <1>2, PTL DEF StoreSpec, LostOnlyExpired
  <1>6. StoreSpec => NothingOlder
    BY <1>1, <1>3, PTL DEF StoreSpec, NothingOlder
  <1>7. StoreSpec => EndsForAReason
    BY <1>1, <1>4, PTL DEF StoreSpec, EndsForAReason
  <1> QED
    BY <1>5, <1>6, <1>7 DEF HistoryKept

-----------------------------------------------------------------------------
(* Statistics.  The readings are counted and summed in any sequence o of   *)
(* snapshots, to compare those before and after one more.                  *)

Snapshots == { {} } \cup { {s} : s \in Sensors }

CountedIn(o) == { i \in DOMAIN o : \E s \in o[i] : Counts(s) }
Of(o, i) == CHOOSE s \in o[i] : TRUE
SinceIn(o) ==
    { i \in CountedIn(o) : \A j \in CountedIn(o) : j >= i => Of(o, j).quantity = Of(o, i).quantity }
Weight(o, i) == IF i \in SinceIn(o) THEN Amount(Of(o, i)) ELSE 0

(* The sums of the first readings: the unrolled recursion of Sum.          *)
SumsOf(o) ==
    { f \in [0 .. Len(o) -> Int] :
        f[0] = 0 /\ \A i \in 1 .. Len(o) : f[i] = f[i - 1] + Weight(o, i) }

(* What the entry e says of the readings of o.                             *)
Tells(e, o) ==
    /\ SinceIn(o) # {}
    /\ \A i \in SinceIn(o) : Of(o, i).quantity = e.quantity
    /\ e.samples = Cardinality(SinceIn(o))
    /\ \E i \in SinceIn(o) : e.minimum = Amount(Of(o, i))
    /\ \E i \in SinceIn(o) : e.maximum = Amount(Of(o, i))
    /\ \A i \in SinceIn(o) : e.minimum <= Amount(Of(o, i)) /\ Amount(Of(o, i)) <= e.maximum
    /\ \E f \in SumsOf(o) : e.average[1] * e.samples = e.average[2] * f[Len(o)]

LEMMA CountsTyped ==
  ASSUME NEW s \in Sensors
  PROVE  /\ s.quantity \in Quantities
         /\ Counts(s) => Amount(s) \in Int
  <1>1. s.quantity \in Quantities /\ s.value \in SUBSET Int
    BY StatisticsAssumption DEF StatisticsAssumption
  <1>2. Counts(s) => Amount(s) \in s.value
    BY DEF Counts, Amount
  <1> QED
    BY <1>1, <1>2

LEMMA SnapshotIs ==
  ASSUME NEW s \in Snapshots
  PROVE  (\E x \in s : Counts(x)) => \E x \in Sensors : s = {x} /\ Counts(x)
  BY DEF Snapshots

(* Readings that count are numbers.                                        *)
LEMMA ReadingIs ==
  ASSUME NEW o \in Seq(Snapshots), NEW i \in CountedIn(o)
  PROVE  /\ i \in 1 .. Len(o) /\ i \in Nat
         /\ Of(o, i) \in Sensors /\ Counts(Of(o, i)) /\ Amount(Of(o, i)) \in Int
  <1>1. i \in 1 .. Len(o) /\ o[i] \in Snapshots /\ \E x \in o[i] : Counts(x)
    BY DEF CountedIn
  <1>2. PICK x \in Sensors : o[i] = {x} /\ Counts(x)
    BY <1>1, SnapshotIs
  <1>3. Of(o, i) = x
    BY <1>2 DEF Of
  <1> QED
    BY <1>1, <1>2, <1>3, CountsTyped

LEMMA SinceFinite ==
  ASSUME NEW o \in Seq(Snapshots)
  PROVE  IsFiniteSet(SinceIn(o)) /\ SinceIn(o) \subseteq CountedIn(o) /\ CountedIn(o) \subseteq 1 .. Len(o)
  <1>1. SinceIn(o) \subseteq CountedIn(o) /\ CountedIn(o) \subseteq 1 .. Len(o)
    BY DEF SinceIn, CountedIn
  <1>2. Len(o) \in Nat
    OBVIOUS
  <1>3. IsFiniteSet(1 .. Len(o))
    BY <1>2, FS_Interval
  <1> QED
    BY <1>1, <1>3, FS_Subset

(* What one more snapshot adds, if it has a reading that counts.           *)
LEMMA AppendOne ==
  ASSUME NEW o \in Seq(Snapshots), NEW s \in Snapshots
  PROVE  LET more == Append(o, s)
         IN /\ more \in Seq(Snapshots) /\ Len(more) = Len(o) + 1 /\ Len(o) \in Nat
            /\ CountedIn(more) = CountedIn(o) \cup (IF \E x \in s : Counts(x) THEN {Len(o) + 1} ELSE {})
            /\ \A i \in 1 .. Len(o) : Of(more, i) = Of(o, i)
            /\ \A x : s = {x} => Of(more, Len(o) + 1) = x
  <1> DEFINE more == Append(o, s)
  <1>1. /\ more \in Seq(Snapshots) /\ Len(more) = Len(o) + 1 /\ Len(o) \in Nat
        /\ DOMAIN more = 1 .. Len(o) + 1 /\ DOMAIN o = 1 .. Len(o)
        /\ \A i \in 1 .. Len(o) : more[i] = o[i]
        /\ more[Len(o) + 1] = s
    OBVIOUS
  <1> HIDE DEF more
  <1>2. \A i \in 1 .. Len(o) : Of(more, i) = Of(o, i)
    BY <1>1 DEF Of
  <1>3. \A x : s = {x} => Of(more, Len(o) + 1) = x
    BY <1>1 DEF Of
  <1>4. CountedIn(more) = CountedIn(o) \cup (IF \E x \in s : Counts(x) THEN {Len(o) + 1} ELSE {})
    <2>1. DOMAIN more = DOMAIN o \cup {Len(o) + 1}
      BY <1>1
    <2>2. \A i \in DOMAIN o : i # Len(o) + 1 /\ more[i] = o[i]
      BY <1>1
    <2> QED
      BY <1>1, <2>1, <2>2 DEF CountedIn
  <1> QED
    BY <1>1, <1>2, <1>3, <1>4 DEF more

(* The sums go on.                                                         *)
LEMMA SumGoesOn ==
  ASSUME NEW o \in Seq(Snapshots), NEW s \in Snapshots, NEW f \in SumsOf(o), NEW w \in Int,
         \A i \in 1 .. Len(o) : Weight(Append(o, s), i) = Weight(o, i),
         Weight(Append(o, s), Len(o) + 1) = w
  PROVE  \E g \in SumsOf(Append(o, s)) : g[Len(o) + 1] = f[Len(o)] + w
  <1> DEFINE more == Append(o, s)
             n == Len(o)
             g == [i \in 0 .. n + 1 |-> IF i = n + 1 THEN f[n] + w ELSE f[i]]
  <1>1. n \in Nat /\ Len(more) = n + 1 /\ f \in [0 .. n -> Int] /\ f[0] = 0
        /\ \A i \in 1 .. n : f[i] = f[i - 1] + Weight(o, i)
    BY DEF SumsOf
  <1>2. \A i \in 1 .. n : Weight(more, i) = Weight(o, i)
    OBVIOUS
  <1>3. Weight(more, n + 1) = w
    OBVIOUS
  <1> HIDE DEF more, n
  <1>4. g \in [0 .. n + 1 -> Int] /\ g[0] = 0 /\ g[n + 1] = f[n] + w
    BY <1>1
  <1>5. ASSUME NEW i \in 1 .. n + 1 PROVE g[i] = g[i - 1] + Weight(more, i)
    <2>1. CASE i = n + 1
      BY <1>1, <1>3, <2>1
    <2>2. CASE i # n + 1
      <3>1. i \in 1 .. n /\ i - 1 \in 0 .. n /\ i - 1 # n + 1
        BY <1>1, <2>2
      <3> QED
        BY <1>1, <1>2, <3>1
    <2> QED
      BY <2>1, <2>2
  <1>6. g \in SumsOf(more)
    BY <1>1, <1>4, <1>5 DEF SumsOf
  <1> QED
    BY <1>4, <1>6 DEF more, n

(* A snapshot without a reading that counts changes nothing.               *)
LEMMA Uncounted ==
  ASSUME NEW o \in Seq(Snapshots), NEW s \in Snapshots, ~ \E x \in s : Counts(x)
  PROVE  /\ CountedIn(Append(o, s)) = CountedIn(o)
         /\ \A e : Tells(e, o) => Tells(e, Append(o, s))
  <1> DEFINE more == Append(o, s)
  <1>1. /\ more \in Seq(Snapshots) /\ Len(more) = Len(o) + 1 /\ Len(o) \in Nat
        /\ CountedIn(more) = CountedIn(o)
        /\ \A i \in 1 .. Len(o) : Of(more, i) = Of(o, i)
    BY AppendOne
  <1>2. SinceIn(o) \subseteq CountedIn(o) /\ CountedIn(o) \subseteq 1 .. Len(o)
    BY SinceFinite
  <1> HIDE DEF more
  <1>3. SinceIn(more) = SinceIn(o)
    BY <1>1, <1>2 DEF SinceIn
  <1>4. \A i \in 1 .. Len(o) : Weight(more, i) = Weight(o, i)
    BY <1>1, <1>3 DEF Weight
  <1>5. Weight(more, Len(o) + 1) = 0
    BY <1>1, <1>2, <1>3 DEF Weight
  <1>6. ASSUME NEW e, Tells(e, o) PROVE Tells(e, more)
    <2>1. PICK f \in SumsOf(o) : e.average[1] * e.samples = e.average[2] * f[Len(o)]
      BY <1>6 DEF Tells
    <2>2. \E g \in SumsOf(more) : g[Len(o) + 1] = f[Len(o)] + 0
      BY <1>4, <1>5, SumGoesOn DEF more
    <2>3. f[Len(o)] \in Int
      BY <1>1 DEF SumsOf
    <2>4. \E g \in SumsOf(more) : e.average[1] * e.samples = e.average[2] * g[Len(more)]
      BY <1>1, <2>1, <2>2, <2>3
    <2>5. \A i \in SinceIn(o) : Of(more, i) = Of(o, i)
      BY <1>1, <1>2
    <2> QED
      BY <1>3, <1>6, <2>4, <2>5 DEF Tells
  <1> QED
    BY <1>1, <1>6 DEF more

(* The first reading of its quantity: the statistics start with it.        *)
LEMMA Restarts ==
  ASSUME NEW o \in Seq(Snapshots), NEW x \in Sensors, Counts(x),
         \A i \in SinceIn(o) : Of(o, i).quantity # x.quantity
  PROVE  Tells(First(x), Append(o, {x})) /\ First(x) \in RunningStatistics
  <1> DEFINE more == Append(o, {x})
             n == Len(o) + 1
  <1>0. {x} \in Snapshots
    BY DEF Snapshots
  <1>1. /\ more \in Seq(Snapshots) /\ Len(more) = n /\ Len(o) \in Nat /\ n \in Nat
        /\ CountedIn(more) = CountedIn(o) \cup {n}
        /\ \A i \in 1 .. Len(o) : Of(more, i) = Of(o, i)
        /\ Of(more, n) = x
    <2> DEFINE s == {x}
    <2>1. (\E y \in s : Counts(y)) /\ s = {x} /\ s \in Snapshots
      BY <1>0
    <2> HIDE DEF s
    <2>2. /\ Append(o, s) \in Seq(Snapshots) /\ Len(Append(o, s)) = Len(o) + 1 /\ Len(o) \in Nat
          /\ CountedIn(Append(o, s)) = CountedIn(o) \cup {Len(o) + 1}
          /\ \A i \in 1 .. Len(o) : Of(Append(o, s), i) = Of(o, i)
          /\ Of(Append(o, s), Len(o) + 1) = x
      BY <2>1, AppendOne
    <2>3. n \in Nat
      BY <2>2
    <2> QED
      BY <2>2, <2>3, Zenon DEF s
  <1>2. SinceIn(o) \subseteq CountedIn(o) /\ CountedIn(o) \subseteq 1 .. Len(o)
    BY SinceFinite
  <1>3. \A i \in CountedIn(o) : i \in Nat /\ n > i
    BY <1>1, <1>2
  <1> HIDE DEF more
  <1>4. SinceIn(more) = {n}
    <2>1. n \in SinceIn(more)
      BY <1>1, <1>3 DEF SinceIn
    <2>2. ASSUME NEW i \in SinceIn(more), i # n PROVE FALSE
      <3>1. /\ i \in CountedIn(o) /\ i \in 1 .. Len(o)
            /\ \A j \in CountedIn(more) : j >= i => Of(more, j).quantity = Of(more, i).quantity
        BY <1>1, <1>2, <2>2 DEF SinceIn
      <3>2. n \in CountedIn(more) /\ n >= i
        BY <1>1, <1>3, <3>1
      <3>3. x.quantity = Of(o, i).quantity
        BY <1>1, <3>1, <3>2
      <3>4. \A j \in CountedIn(o) : j >= i => Of(o, j).quantity = Of(o, i).quantity
        BY <1>1, <1>2, <3>1
      <3>5. i \in SinceIn(o)
        BY <3>1, <3>4 DEF SinceIn
      <3> QED
        BY <3>3, <3>5
    <2> QED
      BY <2>1, <2>2
  <1> DEFINE g == [i \in 0 .. n |-> IF i = n THEN Amount(x) ELSE 0]
  <1>5. Amount(x) \in Int /\ x.quantity \in Quantities
    BY CountsTyped
  <1>6. g \in SumsOf(more) /\ g[n] = Amount(x)
    <2>1. g \in [0 .. n -> Int] /\ g[0] = 0 /\ g[n] = Amount(x)
      BY <1>1, <1>5
    <2>2. ASSUME NEW i \in 1 .. n PROVE g[i] = g[i - 1] + Weight(more, i)
      <3>1. CASE i = n
        <4>1. Weight(more, n) = Amount(x) /\ g[n - 1] = 0
          BY <1>1, <1>4 DEF Weight
        <4> QED
          BY <1>5, <2>1, <3>1, <4>1
      <3>2. CASE i # n
        <4>1. Weight(more, i) = 0 /\ g[i] = 0 /\ g[i - 1] = 0
          BY <1>1, <1>4, <3>2 DEF Weight
        <4> QED
          BY <4>1
      <3> QED
        BY <3>1, <3>2
    <2> QED
      BY <1>1, <2>1, <2>2 DEF SumsOf
  <1> DEFINE e == First(x)
  <1>7. /\ e.samples = 1 /\ e.minimum = Amount(x) /\ e.maximum = Amount(x)
        /\ e.average[1] = Amount(x) /\ e.average[2] = 1 /\ e.quantity = x.quantity
        /\ e \in RunningStatistics
    BY <1>5 DEF First, RunningStatistics
  <1>8. Cardinality({n}) = 1
    BY FS_Singleton
  <1> HIDE DEF e, g
  <1>9. Tells(e, more)
    <2>1. e.average[1] * e.samples = e.average[2] * g[Len(more)]
      BY <1>1, <1>5, <1>6, <1>7
    <2> QED
      BY <1>1, <1>4, <1>5, <1>6, <1>7, <1>8, <2>1 DEF Tells
  <1> QED
    BY <1>7, <1>9 DEF e, more

(* A reading of the same quantity is counted once.                         *)
LEMMA GoesOn ==
  ASSUME NEW o \in Seq(Snapshots), NEW x \in Sensors, Counts(x),
         NEW e \in RunningStatistics, Tells(e, o), e.quantity = x.quantity
  PROVE  Tells(EntryAfter(e, x), Append(o, {x})) /\ EntryAfter(e, x) \in RunningStatistics
  <1> DEFINE more == Append(o, {x})
             n == Len(o) + 1
             v == Amount(x)
             k == e.samples
             a == EntryAfter(e, x)
  <1>0. {x} \in Snapshots
    BY DEF Snapshots
  <1>1. /\ more \in Seq(Snapshots) /\ Len(more) = n /\ Len(o) \in Nat /\ n \in Nat
        /\ CountedIn(more) = CountedIn(o) \cup {n}
        /\ \A i \in 1 .. Len(o) : Of(more, i) = Of(o, i)
        /\ Of(more, n) = x
    <2> DEFINE s == {x}
    <2>1. (\E y \in s : Counts(y)) /\ s = {x} /\ s \in Snapshots
      BY <1>0
    <2> HIDE DEF s
    <2>2. /\ Append(o, s) \in Seq(Snapshots) /\ Len(Append(o, s)) = Len(o) + 1 /\ Len(o) \in Nat
          /\ CountedIn(Append(o, s)) = CountedIn(o) \cup {Len(o) + 1}
          /\ \A i \in 1 .. Len(o) : Of(Append(o, s), i) = Of(o, i)
          /\ Of(Append(o, s), Len(o) + 1) = x
      BY <2>1, AppendOne
    <2>3. n \in Nat
      BY <2>2
    <2> QED
      BY <2>2, <2>3, Zenon DEF s
  <1>2. /\ SinceIn(o) \subseteq CountedIn(o) /\ CountedIn(o) \subseteq 1 .. Len(o)
        /\ IsFiniteSet(SinceIn(o))
    BY SinceFinite
  <1>3. \A i \in CountedIn(o) : i \in Nat /\ n > i /\ i # n
    BY <1>1, <1>2
  <1>4. v \in Int
    BY CountsTyped
  <1> HIDE DEF more
  <1>5. SinceIn(more) = SinceIn(o) \cup {n} /\ n \notin SinceIn(o)
    <2>1. n \in SinceIn(more)
      BY <1>1, <1>3 DEF SinceIn
    <2>2. ASSUME NEW i \in SinceIn(o) PROVE i \in SinceIn(more)
      <3>1. /\ i \in CountedIn(o) /\ i \in 1 .. Len(o) /\ Of(more, i) = Of(o, i)
            /\ Of(o, i).quantity = x.quantity
            /\ \A j \in CountedIn(o) : j >= i => Of(o, j).quantity = Of(o, i).quantity
        BY <1>1, <1>2 DEF SinceIn, Tells
      <3>2. \A j \in CountedIn(o) : Of(more, j) = Of(o, j)
        BY <1>1, <1>2
      <3> QED
        BY <1>1, <3>1, <3>2 DEF SinceIn
    <2>3. ASSUME NEW i \in SinceIn(more), i # n PROVE i \in SinceIn(o)
      <3>1. /\ i \in CountedIn(o) /\ Of(more, i) = Of(o, i)
            /\ \A j \in CountedIn(more) : j >= i => Of(more, j).quantity = Of(more, i).quantity
        BY <1>1, <1>2, <2>3 DEF SinceIn
      <3>2. \A j \in CountedIn(o) : Of(more, j) = Of(o, j) /\ j \in CountedIn(more)
        BY <1>1, <1>2
      <3> QED
        BY <3>1, <3>2 DEF SinceIn
    <2> QED
      BY <1>2, <1>3, <2>1, <2>2, <2>3
  <1>6. /\ k \in Nat /\ k # 0 /\ e.minimum \in Int /\ e.maximum \in Int /\ e.quantity \in Quantities
        /\ e.average \in Int \X (Nat \ {0})
    BY DEF RunningStatistics
  <1>7. e.average[1] \in Int /\ e.average[2] \in Nat /\ e.average[2] # 0
        /\ e.average = <<e.average[1], e.average[2]>>
    BY <1>6
  <1>8. /\ a = [e EXCEPT !.samples = k + 1,
                         !.minimum = Min({e.minimum, v}), !.maximum = Max({e.maximum, v}),
                         !.average = Moved(e.average, v, k + 1)]
    BY DEF EntryAfter
  <1>9. /\ Min({e.minimum, v}) \in {e.minimum, v}
        /\ Min({e.minimum, v}) <= e.minimum /\ Min({e.minimum, v}) <= v
    <2>1. \E y \in {e.minimum, v} : \A z \in {e.minimum, v} : y <= z
      BY <1>4, <1>6
    <2> QED
      BY <2>1 DEF Min
  <1>10. /\ Max({e.maximum, v}) \in {e.maximum, v}
         /\ Max({e.maximum, v}) >= e.maximum /\ Max({e.maximum, v}) >= v
    <2>1. \E y \in {e.maximum, v} : \A z \in {e.maximum, v} : y >= z
      BY <1>4, <1>6
    <2> QED
      BY <2>1 DEF Max
  <1>11. Moved(e.average, v, k + 1) = <<e.average[1] * k + v * e.average[2], e.average[2] * (k + 1)>>
    BY <1>4, <1>6, <1>7 DEF Moved
  <1> DEFINE lowest == Min({e.minimum, v})
             highest == Max({e.maximum, v})
             p == e.average[1] * k + v * e.average[2]
             q == e.average[2] * (k + 1)
  <1>12. p \in Int /\ q \in Nat /\ q # 0
    <2>1. e.average[1] * k \in Int /\ v * e.average[2] \in Int
      BY <1>4, <1>6, <1>7
    <2>2. q \in Nat /\ q # 0
      BY <1>6, <1>7
    <2> QED
      BY <2>1, <2>2
  <1>13. lowest \in Int /\ highest \in Int
    BY <1>4, <1>6, <1>9, <1>10
  <1> HIDE DEF lowest, highest, p, q, a
  <1>14. a = [e EXCEPT !.samples = k + 1, !.minimum = lowest, !.maximum = highest,
                       !.average = <<p, q>>]
    BY <1>8, <1>11 DEF lowest, highest, p, q
  <1>15. /\ a \in RunningStatistics /\ a.samples = k + 1 /\ a.minimum = lowest
         /\ a.maximum = highest /\ a.average = <<p, q>> /\ a.quantity = e.quantity
    <2>1. <<p, q>> \in Int \X (Nat \ {0}) /\ k + 1 \in Nat \ {0}
      BY <1>6, <1>12
    <2> DEFINE pair == <<p, q>>
    <2> HIDE DEF pair
    <2>2. a = [e EXCEPT !.samples = k + 1, !.minimum = lowest, !.maximum = highest,
                        !.average = pair]
      BY <1>14 DEF pair
    <2>3. /\ a \in RunningStatistics /\ a.samples = k + 1 /\ a.minimum = lowest
          /\ a.maximum = highest /\ a.average = pair /\ a.quantity = e.quantity
      BY <1>6, <1>13, <2>1, <2>2 DEF RunningStatistics, pair
    <2> QED
      BY <2>3 DEF pair
  <1>16. Cardinality(SinceIn(more)) = k + 1
    <2>1. Cardinality(SinceIn(o)) = k
      BY DEF Tells
    <2> DEFINE since == SinceIn(o)
    <2> HIDE DEF since
    <2>2. Cardinality(since \cup {n}) = Cardinality(since) + 1
      BY <1>2, <1>5, FS_AddElement DEF since
    <2> QED
      BY <1>5, <2>1, <2>2 DEF since
  <1>17. \E g \in SumsOf(more) : p * (k + 1) = q * g[n]
    <2>1. PICK f \in SumsOf(o) : e.average[1] * k = e.average[2] * f[Len(o)]
      BY DEF Tells
    <2>2. f[Len(o)] \in Int
      BY <1>1 DEF SumsOf
    <2>3. \A i \in 1 .. Len(o) : Weight(more, i) = Weight(o, i)
      BY <1>1, <1>5 DEF Weight
    <2>4. Weight(more, n) = v
      BY <1>1, <1>5 DEF Weight
    <2>5. PICK g \in SumsOf(more) : g[n] = f[Len(o)] + v
      BY <1>0, <1>4, <2>3, <2>4, SumGoesOn DEF more
    <2>6. p = e.average[2] * (f[Len(o)] + v)
      BY <1>4, <1>7, <2>1, <2>2 DEF p
    <2>7. \A b, c, d \in Int : (b * c) * d = (b * d) * c
      OBVIOUS
    <2>8. p * (k + 1) = q * g[n]
      <3>1. f[Len(o)] + v \in Int /\ k + 1 \in Int /\ e.average[2] \in Int
        BY <1>4, <1>6, <1>7, <2>2
      <3> QED
        BY <2>5, <2>6, <2>7, <3>1 DEF q
    <2> QED
      BY <2>8
  <1>18. \A i \in SinceIn(o) : Of(more, i) = Of(o, i) /\ Amount(Of(o, i)) \in Int
    BY <1>1, <1>2, ReadingIs
  <1>19. Tells(a, more)
    <2>1. \A i \in SinceIn(more) : Of(more, i).quantity = a.quantity
      BY <1>1, <1>5, <1>15, <1>18 DEF Tells
    <2>2. \E i \in SinceIn(more) : a.minimum = Amount(Of(more, i))
      <3>1. PICK i \in SinceIn(o) : e.minimum = Amount(Of(o, i))
        BY DEF Tells
      <3> QED
        BY <1>1, <1>5, <1>9, <1>15, <1>18, <3>1 DEF lowest
    <2>3. \E i \in SinceIn(more) : a.maximum = Amount(Of(more, i))
      <3>1. PICK i \in SinceIn(o) : e.maximum = Amount(Of(o, i))
        BY DEF Tells
      <3> QED
        BY <1>1, <1>5, <1>10, <1>15, <1>18, <3>1 DEF highest
    <2>4. \A i \in SinceIn(more) : a.minimum <= Amount(Of(more, i)) /\ Amount(Of(more, i)) <= a.maximum
      <3>1. \A i \in SinceIn(o) : e.minimum <= Amount(Of(o, i)) /\ Amount(Of(o, i)) <= e.maximum
        BY DEF Tells
      <3>2. lowest <= e.minimum /\ lowest <= v /\ highest >= e.maximum /\ highest >= v
        BY <1>9, <1>10 DEF lowest, highest
      <3>3. ASSUME NEW i \in SinceIn(o)
            PROVE lowest <= Amount(Of(o, i)) /\ Amount(Of(o, i)) <= highest
        BY <1>6, <1>13, <1>18, <3>1, <3>2
      <3> QED
        BY <1>1, <1>4, <1>5, <1>13, <1>15, <1>18, <3>2, <3>3
    <2>5. \E g \in SumsOf(more) : a.average[1] * a.samples = a.average[2] * g[Len(more)]
      BY <1>1, <1>15, <1>17
    <2> QED
      BY <1>5, <1>15, <1>16, <2>1, <2>2, <2>3, <2>4, <2>5 DEF Tells
  <1> QED
    BY <1>15, <1>19 DEF a, more

(* A set of numbers has a least element: the induction of what follows.    *)
LEMMA LeastOf ==
  ASSUME NEW T \in SUBSET Nat, T # {}
  PROVE  \E x \in T : \A y \in T : x <= y
  <1>1. IsWellFoundedOn(OpToRel(<, Nat), Nat)
    BY NatLessThanWellFounded
  <1> DEFINE R == OpToRel(<, Nat)
  <1>2. PICK x \in T : \A y \in T : ~ (<<y, x>> \in R)
    <2> HIDE DEF R
    <2> QED
      BY <1>1, WFMin DEF R
  <1>3. \A y \in T : x \in Nat /\ y \in Nat /\ ~ (y < x)
    BY <1>2 DEF OpToRel
  <1> QED
    BY <1>3

(* Sum is the last of the sums of the first readings.                      *)
LEMMA SumIs ==
  ASSUME NEW n \in Nat, NEW values \in [1 .. n -> Int], NEW f \in [0 .. n -> Int],
         f[0] = 0, \A i \in 1 .. n : f[i] = f[i - 1] + values[i]
  PROVE  Sum(values, n) = f[n]
  <1> DEFINE Unrolls(g) == g = [i \in 0 .. n |-> IF i = 0 THEN 0 ELSE g[i - 1] + values[i]]
             h == CHOOSE g : Unrolls(g)
  <1>1. Unrolls(f)
    <2> DEFINE g == [i \in 0 .. n |-> IF i = 0 THEN 0 ELSE f[i - 1] + values[i]]
    <2>1. \A i \in 0 .. n : g[i] = f[i]
      <3> SUFFICES ASSUME NEW i \in 0 .. n PROVE g[i] = f[i]
        OBVIOUS
      <3>1. CASE i = 0
        BY <3>1
      <3>2. CASE i # 0
        <4>1. i \in 1 .. n
          BY <3>2
        <4> QED
          BY <3>2, <4>1
      <3> QED
        BY <3>1, <3>2
    <2>2. g = f
      BY <2>1
    <2> QED
      BY <2>2
  <1>2. Unrolls(h)
    <2> HIDE DEF Unrolls
    <2> QED
      BY <1>1
  <1>3. Sum(values, n) = h[n]
    BY DEF Sum
  <1> HIDE DEF h
  <1>4. h[0] = 0 /\ \A i \in 1 .. n : h[i] = h[i - 1] + values[i]
    BY <1>2
  <1> DEFINE T == { i \in 0 .. n : h[i] # f[i] }
  <1>5. T = {}
    <2> SUFFICES ASSUME T # {} PROVE FALSE
      OBVIOUS
    <2>1. T \in SUBSET Nat
      OBVIOUS
    <2>2. PICK i \in T : \A j \in T : i <= j
      <3> HIDE DEF T
      <3> QED
        BY <2>1, LeastOf
    <2>3. i \in 1 .. n /\ i - 1 \in 0 .. n
      BY <1>4, <2>2
    <2>4. i - 1 \notin T
      BY <2>2, <2>3
    <2>5. h[i - 1] = f[i - 1]
      BY <2>3, <2>4
    <2> QED
      BY <1>4, <2>2, <2>3, <2>5
  <1>6. h[n] = f[n]
    <2>1. n \in 0 .. n
      OBVIOUS
    <2>2. n \notin T
      BY <1>5
    <2> QED
      BY <2>1, <2>2
  <1> QED
    BY <1>3, <1>6

(* The running statistics, of the sequence of what was observed.           *)
StatInv ==
    /\ displayed \in Snapshots
    /\ observed \in Seq(Snapshots) /\ rounds = Len(observed)
    /\ entry = {} <=> CountedIn(observed) = {}
    /\ \A e \in entry : e \in RunningStatistics /\ Tells(e, observed)
    /\ \A e, f \in entry : e = f

LEMMA Observation ==
  ASSUME NEW o \in Seq(Snapshots), NEW s \in Snapshots, NEW option,
         option = {} <=> CountedIn(o) = {},
         \A e \in option : e \in RunningStatistics /\ Tells(e, o),
         \A e, f \in option : e = f
  PROVE  LET next == Observing(option, s)
         IN /\ next = {} <=> CountedIn(Append(o, s)) = {}
            /\ \A e \in next : e \in RunningStatistics /\ Tells(e, Append(o, s))
            /\ \A e, f \in next : e = f
  <1>1. CASE ~ \E x \in s : Counts(x)
    <2>1. Observing(option, s) = option
      BY <1>1 DEF Observing
    <2> QED
      BY <1>1, <2>1, Uncounted
  <1>2. CASE \E x \in s : Counts(x)
    <2>1. PICK x \in Sensors : s = {x} /\ Counts(x)
      BY <1>2, SnapshotIs
    <2> DEFINE more == Append(o, {x})
               e == CHOOSE e \in option : TRUE
               a == IF option = {} THEN First(x) ELSE EntryAfter(e, x)
    <2>2. Observing(option, {x}) = {a}
      BY <2>1 DEF Observing
    <2>3. CountedIn(more) # {}
      <3> DEFINE one == {x}
      <3>1. (\E y \in one : Counts(y)) /\ one \in Snapshots
        BY <2>1 DEF Snapshots
      <3> HIDE DEF one
      <3>2. CountedIn(Append(o, one)) = CountedIn(o) \cup {Len(o) + 1}
        BY <3>1, AppendOne
      <3>3. CountedIn(Append(o, one)) # {}
        BY <3>2
      <3> QED
        BY <3>3 DEF one
    <2> HIDE DEF more
    <2>4. Tells(a, more) /\ a \in RunningStatistics
      <3>1. CASE option = {}
        <4>1. SinceIn(o) = {}
          BY <3>1, SinceFinite
        <4>2. Tells(First(x), more) /\ First(x) \in RunningStatistics
          BY <2>1, <4>1, Restarts DEF more
        <4> QED
          BY <3>1, <4>2
      <3>2. CASE option # {}
        <4>1. e \in option
          BY <3>2
        <4> HIDE DEF e
        <4>2. e \in RunningStatistics /\ Tells(e, o)
          BY <4>1
        <4>3. CASE e.quantity = x.quantity
          <5>1. Tells(EntryAfter(e, x), more) /\ EntryAfter(e, x) \in RunningStatistics
            BY <2>1, <4>2, <4>3, GoesOn DEF more
          <5> QED
            BY <3>2, <5>1
        <4>4. CASE e.quantity # x.quantity
          <5>1. \A i \in SinceIn(o) : Of(o, i).quantity # x.quantity
            BY <4>2, <4>4 DEF Tells
          <5>2. Tells(First(x), more) /\ First(x) \in RunningStatistics
            BY <2>1, <5>1, Restarts DEF more
          <5>3. EntryAfter(e, x) = First(x)
            BY <4>4 DEF EntryAfter
          <5> QED
            BY <3>2, <5>2, <5>3
        <4> QED
          BY <4>3, <4>4
      <3> QED
        BY <3>1, <3>2
    <2> HIDE DEF a
    <2>5. \A t : t = {a} => t # {} /\ (\A g \in t : g = a) /\ \A g, h \in t : g = h
      OBVIOUS
    <2> DEFINE next == Observing(option, {x})
    <2> HIDE DEF next
    <2>6. next # {} /\ (\A g \in next : g = a) /\ \A g, h \in next : g = h
      BY <2>2, <2>5 DEF next
    <2>7. s = {x}
      BY <2>1
    <2>8. /\ next = {} <=> CountedIn(more) = {}
          /\ \A g \in next : g \in RunningStatistics /\ Tells(g, more)
          /\ \A g, h \in next : g = h
      BY <2>3, <2>4, <2>6
    <2> QED
      BY <2>7, <2>8, Zenon DEF next, more
  <1> QED
    BY <1>1, <1>2

LEMMA StatStarts == StatisticsInit => StatInv
  <1> SUFFICES ASSUME StatisticsInit PROVE StatInv
    OBVIOUS
  <1>1. displayed = {} /\ entry = {} /\ rounds = 0 /\ observed = <<>>
    BY DEF StatisticsInit
  <1>2. DOMAIN observed = {} /\ observed \in Seq(Snapshots) /\ Len(observed) = 0
    BY <1>1
  <1>3. CountedIn(observed) = {}
    BY <1>2 DEF CountedIn
  <1> QED
    BY <1>1, <1>2, <1>3 DEF StatInv, Snapshots

LEMMA StatInductive == ASSUME StatInv, [StatisticsNext]_statisticsVars PROVE StatInv'
  <1>0. /\ displayed \in Snapshots
        /\ observed \in Seq(Snapshots) /\ rounds = Len(observed)
        /\ entry = {} <=> CountedIn(observed) = {}
        /\ \A e \in entry : e \in RunningStatistics /\ Tells(e, observed)
        /\ \A e, f \in entry : e = f
    BY DEF StatInv
  <1>1. ASSUME NEW s \in Snapshots, ObserveStatistics(s) PROVE StatInv'
    <2>1. /\ displayed' = s /\ entry' = Observing(entry, s) /\ rounds' = rounds + 1
          /\ observed' = Append(observed, s)
      BY <1>1 DEF ObserveStatistics
    <2>2. /\ entry' = {} <=> CountedIn(observed') = {}
          /\ \A e \in entry' : e \in RunningStatistics /\ Tells(e, observed')
          /\ \A e, f \in entry' : e = f
      BY <1>0, <2>1, Observation
    <2>3. observed' \in Seq(Snapshots) /\ rounds' = Len(observed')
      BY <1>0, <2>1, AppendOne
    <2> QED
      BY <2>1, <2>2, <2>3 DEF StatInv
  <1>2. ASSUME NEW s \in Snapshots, DisplayAdministrative(s) PROVE StatInv'
    BY <1>0, <1>2 DEF DisplayAdministrative, StatInv
  <1>3. CASE ResetWith
    <2> DEFINE o == <<>>
    <2>1. /\ displayed' = displayed /\ entry' = Observing({}, displayed) /\ rounds' = 1
          /\ observed' = Append(o, displayed)
      BY <1>3 DEF ResetWith
    <2>2. o \in Seq(Snapshots) /\ CountedIn(o) = {} /\ Len(o) = 0
      BY DEF CountedIn
    <2> HIDE DEF o
    <2>3. /\ entry' = {} <=> CountedIn(observed') = {}
          /\ \A e \in entry' : e \in RunningStatistics /\ Tells(e, observed')
          /\ \A e, f \in entry' : e = f
      <3> DEFINE none == {}
      <3>1. /\ none = {} <=> CountedIn(o) = {}
            /\ \A e \in none : e \in RunningStatistics /\ Tells(e, o)
            /\ \A e, f \in none : e = f
        BY <2>2
      <3>2. entry' = Observing(none, displayed)
        BY <2>1
      <3> HIDE DEF none
      <3> QED
        BY <1>0, <2>1, <2>2, <3>1, <3>2, Observation
    <2>4. observed' \in Seq(Snapshots) /\ rounds' = Len(observed')
      BY <1>0, <2>1, <2>2, AppendOne
    <2> QED
      BY <1>0, <2>1, <2>3, <2>4 DEF StatInv
  <1>4. CASE UNCHANGED statisticsVars
    BY <1>0, <1>4 DEF statisticsVars, StatInv
  <1> QED
    BY <1>1, <1>2, <1>3, <1>4 DEF StatisticsNext, Snapshots

(* The statistics by their definition are those of the invariant.          *)
LEMMA StatExact == StatInv => StatisticsTypeOK /\ StatisticsExact
  <1> SUFFICES ASSUME StatInv PROVE StatisticsTypeOK /\ StatisticsExact
    OBVIOUS
  <1>0. /\ displayed \in Snapshots
        /\ observed \in Seq(Snapshots) /\ rounds = Len(observed)
        /\ entry = {} <=> CountedIn(observed) = {}
        /\ \A e \in entry : e \in RunningStatistics /\ Tells(e, observed)
    BY DEF StatInv
  <1>1. Counting = CountedIn(observed) /\ Since = SinceIn(observed)
        /\ \A i : Reading(i) = Of(observed, i)
    <2>1. Counting = CountedIn(observed) /\ \A i : Reading(i) = Of(observed, i)
      BY DEF Counting, CountedIn, Reading, Of
    <2> QED
      BY <2>1 DEF Since, SinceIn
  <1>2. StatisticsTypeOK
    BY <1>0 DEF StatisticsTypeOK, Snapshots
  <1> DEFINE values == { Amount(Reading(i)) : i \in Since }
  <1>3. ASSUME NEW e \in entry
        PROVE  /\ e.samples = Cardinality(Since)
               /\ e.minimum = Min(values) /\ e.maximum = Max(values)
               /\ e.average[1] * Cardinality(Since) = e.average[2] * Total
    <2>1. /\ e.samples = Cardinality(Since)
          /\ \E i \in Since : e.minimum = Amount(Reading(i))
          /\ \E i \in Since : e.maximum = Amount(Reading(i))
          /\ \A i \in Since : e.minimum <= Amount(Reading(i)) /\ Amount(Reading(i)) <= e.maximum
      BY <1>0, <1>1, <1>3 DEF Tells
    <2>2. \A i \in Since : Amount(Reading(i)) \in Int
      BY <1>0, <1>1, SinceFinite, ReadingIs
    <2>3. /\ e.minimum \in values /\ \A y \in values : e.minimum <= y
          /\ e.maximum \in values /\ \A y \in values : e.maximum >= y
          /\ \A y \in values : y \in Int
      BY <2>1, <2>2
    <2> HIDE DEF values
    <2>4. e.minimum = Min(values)
      <3>1. Min(values) \in values /\ \A y \in values : Min(values) <= y
        BY <2>3 DEF Min
      <3> QED
        BY <2>3, <3>1
    <2>5. e.maximum = Max(values)
      <3>1. Max(values) \in values /\ \A y \in values : Max(values) >= y
        BY <2>3 DEF Max
      <3> QED
        BY <2>3, <3>1
    <2>6. PICK f \in SumsOf(observed) : e.average[1] * e.samples = e.average[2] * f[Len(observed)]
      BY <1>0, <1>3 DEF Tells
    <2> DEFINE n == Len(observed)
               weights == [i \in DOMAIN observed |-> IF i \in Since THEN Amount(Reading(i)) ELSE 0]
    <2>7. n \in Nat /\ DOMAIN observed = 1 .. n
      BY <1>0
    <2>8. weights \in [1 .. n -> Int] /\ \A i \in 1 .. n : weights[i] = Weight(observed, i)
      BY <1>1, <2>2, <2>7 DEF Weight
    <2>9. Total = Sum(weights, n)
      BY DEF Total
    <2> HIDE DEF n, weights
    <2>10. /\ f \in [0 .. n -> Int] /\ f[0] = 0
           /\ \A i \in 1 .. n : f[i] = f[i - 1] + weights[i]
      BY <2>6, <2>8 DEF SumsOf, n
    <2>11. Total = f[n]
      BY <2>7, <2>8, <2>9, <2>10, SumIs
    <2> QED
      BY <2>1, <2>4, <2>5, <2>6, <2>11 DEF n
  <1>4. StatisticsExact
    BY <1>0, <1>1, <1>3 DEF StatisticsExact
  <1> QED
    BY <1>2, <1>4

-----------------------------------------------------------------------------
(* HistoryChart: the buckets *)

LEMMA Divided ==
  ASSUME NEW a \in Int, NEW d \in Int, d > 0
  PROVE  \E q, r \in Int :
            /\ q = a \div d /\ r = a % d
            /\ a = d * q + r /\ 0 <= r /\ r < d
  <1>1. a \div d \in Int /\ a % d \in Int
    OBVIOUS
  <1>2. ASSUME NEW q \in Int, q = a \div d, NEW r \in Int, r = a % d
        PROVE  a = d * q + r /\ 0 <= r /\ r < d
    BY <1>2
  <1> QED
    BY <1>1, <1>2, Zenon

(* The multiples of every, although a whole one may come out just below,   *)
(* are apart by one at least: every is more than one.                      *)
LEMMA FloorsApart ==
  ASSUME NEW n \in Nat, NEW threshold \in Nat, threshold >= 3, n > threshold,
         NEW k \in Nat, NEW short
  PROVE  /\ Floor(k, n, threshold, short) \in Int
         /\ Floor(k, n, threshold, short) < Floor(k + 1, n, threshold, short)
  <1> DEFINE d == threshold - 2
             e == n - 2
             a == k * e
             b == (k + 1) * e
  <1>1. /\ d \in Nat /\ d > 0 /\ e \in Nat /\ e >= d + 1
        /\ a \in Nat /\ b \in Nat /\ b = a + e
    OBVIOUS
  <1>2. /\ Floor(k, n, threshold, short) =
             IF k \in short /\ a % d = 0 THEN a \div d - 1 ELSE a \div d
        /\ Floor(k + 1, n, threshold, short) =
             IF k + 1 \in short /\ b % d = 0 THEN b \div d - 1 ELSE b \div d
    BY DEF Floor
  <1> HIDE DEF d, e, a, b
  <1>3. PICK q, r \in Int : /\ q = a \div d /\ r = a % d
                            /\ a = d * q + r /\ 0 <= r /\ r < d
    BY <1>1, Divided
  <1>4. PICK s, t \in Int : /\ s = b \div d /\ t = b % d
                            /\ b = d * s + t /\ 0 <= t /\ t < d
    BY <1>1, Divided
  <1>5. d * s + t >= d * q + d + 1
    BY <1>1, <1>3, <1>4
  <1>6. s >= q + 1
    <2>1. ASSUME s <= q PROVE FALSE
      <3>1. d * s <= d * q
        BY <1>1, <1>3, <1>4, <2>1
      <3> QED
        BY <1>1, <1>3, <1>4, <1>5, <3>1
    <2> QED
      BY <1>3, <1>4, <2>1
  <1>7. t = 0 => s >= q + 2
    <2>1. ASSUME t = 0, s = q + 1 PROVE FALSE
      <3>1. d * s = d * q + d
        BY <1>1, <1>3, <2>1
      <3> QED
        BY <1>1, <1>3, <1>4, <1>5, <2>1, <3>1
    <2> QED
      BY <1>3, <1>4, <1>6, <2>1
  <1> QED
    BY <1>2, <1>3, <1>4, <1>6, <1>7

(* From the first sample to the last but one, or, if the last whole        *)
(* multiple comes out short, to the one before it.                         *)
LEMMA FloorEnds ==
  ASSUME NEW n \in Nat, NEW threshold \in Nat, threshold >= 3, n > threshold,
         NEW short, 0 \notin short
  PROVE  /\ Floor(0, n, threshold, short) = 0
         /\ Floor(threshold - 2, n, threshold, short) =
              IF threshold - 2 \in short THEN n - 3 ELSE n - 2
  <1> DEFINE d == threshold - 2
             e == n - 2
  <1>1. d \in Nat /\ d > 0 /\ e \in Nat
    OBVIOUS
  <1>2. Floor(0, n, threshold, short) = (0 * e) \div d
    BY DEF Floor
  <1>3. Floor(d, n, threshold, short) =
          IF d \in short /\ (d * e) % d = 0 THEN (d * e) \div d - 1 ELSE (d * e) \div d
    BY DEF Floor
  <1> HIDE DEF d, e
  <1>4. (0 * e) \div d = 0
    <2>1. 0 * e = 0
      BY <1>1
    <2>2. PICK q, r \in Int : q = 0 \div d /\ r = 0 % d /\ 0 = d * q + r /\ 0 <= r /\ r < d
      BY <1>1, Divided
    <2>3. d * q <= 0 /\ d * q > -d
      BY <1>1, <2>2
    <2>4. q = 0
      <3>1. ASSUME q >= 1 PROVE FALSE
        <4>1. d * q >= d
          BY <1>1, <2>2, <3>1
        <4> QED
          BY <1>1, <2>2, <2>3, <4>1
      <3>2. ASSUME q <= -1 PROVE FALSE
        <4>1. d * q <= -d
          BY <1>1, <2>2, <3>2
        <4> QED
          BY <1>1, <2>2, <2>3, <4>1
      <3> QED
        BY <2>2, <3>1, <3>2
    <2> QED
      BY <2>1, <2>2, <2>4
  <1>5. (d * e) \div d = e /\ (d * e) % d = 0
    <2> DEFINE a == d * e
    <2>1. a \in Nat /\ a = d * e
      BY <1>1
    <2> HIDE DEF a
    <2>2. PICK q, r \in Int : q = a \div d /\ r = a % d /\ a = d * q + r /\ 0 <= r /\ r < d
      BY <1>1, <2>1, Divided
    <2>4. q = e
      <3>1. ASSUME q >= e + 1 PROVE FALSE
        <4>1. d * q >= d * e + d
          BY <1>1, <2>2, <3>1
        <4> QED
          BY <1>1, <2>2, <2>1, <4>1
      <3>2. ASSUME q <= e - 1 PROVE FALSE
        <4>1. d * q <= d * e - d
          BY <1>1, <2>2, <3>2
        <4> QED
          BY <1>1, <2>2, <2>1, <4>1
      <3> QED
        BY <1>1, <2>2, <3>1, <3>2
    <2>5. r = 0
      BY <1>1, <2>2, <2>1, <2>4
    <2> QED
      BY <2>1, <2>2, <2>4, <2>5
  <1> QED
    BY <1>1, <1>2, <1>3, <1>4, <1>5 DEF d, e

(* From each number of an interval to the next. *)
LEMMA Onwards ==
  ASSUME NEW lo \in Int, NEW hi \in Int, NEW T, lo \in T,
         \A j \in lo + 1 .. hi : j - 1 \in T => j \in T
  PROVE  \A j \in lo .. hi : j \in T
  <1> DEFINE U == { x \in Nat : lo + x \in lo .. hi /\ lo + x \notin T }
  <1>1. ASSUME NEW j \in lo .. hi, j \notin T PROVE FALSE
    <2>1. j - lo \in Nat /\ lo + (j - lo) = j
      OBVIOUS
    <2>2. j - lo \in U
      BY <1>1, <2>1
    <2>3. PICK x \in U : \A y \in U : x <= y
      <3> HIDE DEF U
      <3>1. U \in SUBSET Nat
        BY DEF U
      <3> QED
        BY <2>2, <3>1, LeastOf
    <2>4. x \in Nat /\ lo + x \in lo .. hi /\ lo + x \notin T
      BY <2>3
    <2>5. x # 0
      BY <2>4
    <2>6. x - 1 \in Nat /\ lo + (x - 1) \in lo .. hi /\ lo + (x - 1) = (lo + x) - 1
      BY <2>4, <2>5
    <2>7. lo + (x - 1) \in T
      <3>1. x - 1 \notin U
        BY <2>3, <2>4
      <3> QED
        BY <2>6, <3>1
    <2>8. lo + x \in lo + 1 .. hi
      BY <2>4, <2>5
    <2> QED
      BY <2>4, <2>6, <2>7, <2>8
  <1> QED
    BY <1>1

(* A function that is defined step by step is there.                       *)
Follows(g, lo, hi, V, v, h) ==
    /\ g \in [lo .. hi -> V]
    /\ g[lo] = v
    /\ \A j \in lo + 1 .. hi : g[j] = h[j, g[j - 1]]

LEMMA Recursively ==
  ASSUME NEW lo \in Int, NEW hi \in Int, lo <= hi, NEW V, NEW v \in V,
         NEW h \in [(lo + 1 .. hi) \X V -> V]
  PROVE  \E g : Follows(g, lo, hi, V, v, h)
  <1> DEFINE Upto(m, g) == /\ g[lo] = v
                           /\ \A j \in lo + 1 .. m : g[j] = h[j, g[j - 1]]
             T == { m \in lo .. hi : \E g \in [lo .. m -> V] : Upto(m, g) }
  <1>1. lo \in T
    <2> DEFINE g == [j \in lo .. lo |-> v]
    <2>1. lo \in lo .. lo /\ lo \in lo .. hi /\ lo + 1 .. lo = {}
      OBVIOUS
    <2>2. g \in [lo .. lo -> V] /\ g[lo] = v
      BY <2>1
    <2> HIDE DEF g
    <2>3. Upto(lo, g)
      BY <2>1, <2>2
    <2> QED
      BY <2>1, <2>2, <2>3
  <1>2. ASSUME NEW m \in lo + 1 .. hi, m - 1 \in T PROVE m \in T
    <2>1. PICK g \in [lo .. m - 1 -> V] : Upto(m - 1, g)
      BY <1>2
    <2>2. m - 1 \in lo .. m - 1 /\ g[m - 1] \in V
      OBVIOUS
    <2> DEFINE k == [j \in lo .. m |-> IF j = m THEN h[m, g[m - 1]] ELSE g[j]]
    <2>3. k \in [lo .. m -> V]
      <3>1. h[m, g[m - 1]] \in V
        BY <2>2
      <3>2. \A j \in lo .. m : j # m => g[j] \in V
        OBVIOUS
      <3> QED
        BY <3>1, <3>2
    <2>4. Upto(m, k)
      <3>1. k[lo] = v
        <4>1. lo \in lo .. m /\ lo # m
          OBVIOUS
        <4> QED
          BY <2>1, <4>1
      <3>2. ASSUME NEW j \in lo + 1 .. m PROVE k[j] = h[j, k[j - 1]]
        <4>1. j \in lo .. m /\ j - 1 \in lo .. m /\ j - 1 # m
          OBVIOUS
        <4>2. k[j - 1] = g[j - 1]
          BY <4>1
        <4>3. CASE j = m
          <5>1. k[j] = h[m, g[m - 1]]
            BY <4>1, <4>3
          <5> HIDE DEF k
          <5> QED
            BY <4>2, <4>3, <5>1
        <4>4. CASE j # m
          <5>1. k[j] = g[j] /\ j \in lo + 1 .. m - 1
            BY <4>1, <4>4
          <5>2. g[j] = h[j, g[j - 1]]
            BY <2>1, <5>1
          <5> HIDE DEF k
          <5> QED
            BY <4>2, <5>1, <5>2
        <4> QED
          BY <4>3, <4>4
      <3> HIDE DEF k
      <3> QED
        BY <3>1, <3>2
    <2> HIDE DEF k, Upto
    <2> QED
      BY <2>3, <2>4
  <1>3. \A m \in lo .. hi : m \in T
    <2> HIDE DEF T
    <2> QED
      BY <1>1, <1>2, Onwards
  <1>4. hi \in lo .. hi
    OBVIOUS
  <1>5. PICK g \in [lo .. hi -> V] : Upto(hi, g)
    BY <1>3, <1>4
  <1>6. Follows(g, lo, hi, V, v, h)
    BY <1>5 DEF Follows
  <1> QED
    BY <1>6

(* Sums of numbers that are all the same, or all above one.                *)
LEMMA SumBetweenIs ==
  ASSUME NEW first \in Int, NEW last \in Int, first <= last,
         NEW f, \A j \in first .. last : f[j] \in Int
  PROVE  /\ SumBetween(f, first, last) \in Int
         /\ \A c \in Int :
              /\ (\A j \in first .. last : f[j] = c)
                   => SumBetween(f, first, last) = c * (last - first + 1)
              /\ (\A j \in first .. last : f[j] > c)
                   => SumBetween(f, first, last) > c * (last - first + 1)
  <1> DEFINE lo == first - 1
             Goes(s) == s = [j \in lo .. last |-> IF j < first THEN 0 ELSE s[j - 1] + f[j]]
             h == [p \in (lo + 1 .. last) \X Int |-> p[2] + f[p[1]]]
  <1>0. lo \in Int /\ lo <= last /\ lo + 1 = first /\ lo < first
    OBVIOUS
  <1>1. \E s : Goes(s)
    <2>1. h \in [(lo + 1 .. last) \X Int -> Int]
      <3>1. ASSUME NEW p \in (lo + 1 .. last) \X Int PROVE p[2] + f[p[1]] \in Int
        <4>1. p[1] \in first .. last /\ p[2] \in Int
          BY <1>0
        <4>2. f[p[1]] \in Int
          BY <4>1
        <4> QED
          BY <4>1, <4>2
      <3> QED
        BY <3>1
    <2>2. \A j \in lo + 1 .. last, x \in Int : h[j, x] = x + f[j]
      OBVIOUS
    <2> HIDE DEF h, lo
    <2>3. PICK s \in [lo .. last -> Int] : s[lo] = 0 /\ \A j \in lo + 1 .. last : s[j] = h[j, s[j - 1]]
      <3> DEFINE V == Int
      <3>1. 0 \in V /\ h \in [(lo + 1 .. last) \X V -> V] /\ last \in Int
        BY <2>1
      <3> HIDE DEF V
      <3>2. PICK s : Follows(s, lo, last, V, 0, h)
        BY <1>0, <3>1, Recursively
      <3> QED
        BY <3>2 DEF V, Follows
    <2>4. ASSUME NEW j \in lo .. last
          PROVE  s[j] = IF j < first THEN 0 ELSE s[j - 1] + f[j]
      <3>1. CASE j < first
        <4>1. j = lo
          BY <1>0, <3>1
        <4> QED
          BY <2>3, <3>1, <4>1
      <3>2. CASE ~(j < first)
        <4>1. j \in lo + 1 .. last /\ j - 1 \in lo .. last
          BY <1>0, <3>2
        <4>2. s[j - 1] \in Int
          BY <4>1
        <4> QED
          BY <2>2, <2>3, <3>2, <4>1, <4>2
      <3> QED
        BY <3>1, <3>2
    <2>5. s = [j \in lo .. last |-> s[j]]
      OBVIOUS
    <2> QED
      BY <2>4, <2>5
  <1> DEFINE s == CHOOSE g : Goes(g)
  <1>2. Goes(s)
    <2> HIDE DEF Goes
    <2> QED
      BY <1>1
  <1>3. SumBetween(f, first, last) = s[last]
    BY DEF SumBetween
  <1>4. /\ s[lo] = 0
        /\ \A j \in lo + 1 .. last : s[j] = s[j - 1] + f[j]
    <2> HIDE DEF s, lo
    <2>1. lo \in lo .. last
      BY <1>0
    <2>2. ASSUME NEW j \in lo + 1 .. last PROVE j \in lo .. last /\ ~(j < first)
      BY <1>0
    <2> QED
      BY <1>0, <1>2, <2>1, <2>2
  <1> HIDE DEF s, lo, Goes
  <1>5. ASSUME NEW j \in lo + 1 .. last
        PROVE j \in first .. last /\ j - 1 \in Int /\ j - lo = (j - 1 - lo) + 1
    BY <1>0
  <1>6. s[last] \in Int
    <2> DEFINE T == { j \in lo .. last : s[j] \in Int }
    <2>1. lo \in T
      BY <1>0, <1>4
    <2>2. ASSUME NEW j \in lo + 1 .. last, j - 1 \in T PROVE j \in T
      <3>1. j \in lo .. last /\ f[j] \in Int /\ s[j - 1] \in Int
        BY <1>0, <1>5, <2>2
      <3>2. s[j] \in Int
        BY <1>4, <3>1
      <3> QED
        BY <3>1, <3>2
    <2> HIDE DEF T
    <2>3. last \in T
      <3>1. \A j \in lo .. last : j \in T
        BY <1>0, <2>1, <2>2, Onwards
      <3> QED
        BY <1>0, <3>1
    <2> QED
      BY <2>3 DEF T
  <1>7. ASSUME NEW c \in Int, \A j \in first .. last : f[j] = c
        PROVE  s[last] = c * (last - first + 1)
    <2> DEFINE T == { j \in lo .. last : s[j] \in Int /\ s[j] = c * (j - lo) }
    <2>1. lo \in T
      <3>1. c * (lo - lo) = 0
        BY <1>0
      <3> QED
        BY <1>0, <1>4, <3>1
    <2>2. ASSUME NEW j \in lo + 1 .. last, j - 1 \in T PROVE j \in T
      <3>1. j \in lo .. last /\ f[j] = c /\ s[j - 1] \in Int /\ s[j - 1] = c * ((j - 1) - lo)
        BY <1>0, <1>5, <1>7, <2>2
      <3>2. s[j] = s[j - 1] + c
        BY <1>4, <3>1
      <3>3. c * (j - lo) = c * ((j - 1) - lo) + c
        BY <1>0, <1>5
      <3> QED
        BY <3>1, <3>2, <3>3
    <2> HIDE DEF T
    <2>3. last \in T
      <3>1. \A j \in lo .. last : j \in T
        BY <1>0, <2>1, <2>2, Onwards
      <3> QED
        BY <1>0, <3>1
    <2>4. last - lo = last - first + 1
      BY <1>0
    <2> QED
      BY <2>3, <2>4 DEF T
  <1>8. ASSUME NEW c \in Int, \A j \in first .. last : f[j] > c
        PROVE  s[last] > c * (last - first + 1)
    <2> DEFINE T == { j \in lo .. last : s[j] \in Int /\ (j > lo => s[j] > c * (j - lo))
                                         /\ s[j] >= c * (j - lo) }
    <2>1. lo \in T
      <3>1. c * (lo - lo) = 0
        BY <1>0
      <3> QED
        BY <1>0, <1>4, <3>1
    <2>2. ASSUME NEW j \in lo + 1 .. last, j - 1 \in T PROVE j \in T
      <3>1. /\ j \in lo .. last /\ f[j] > c /\ f[j] \in Int
            /\ s[j - 1] \in Int /\ s[j - 1] >= c * ((j - 1) - lo)
        BY <1>0, <1>5, <1>8, <2>2
      <3>2. s[j] = s[j - 1] + f[j]
        BY <1>4
      <3>3. c * (j - lo) = c * ((j - 1) - lo) + c
        BY <1>0, <1>5
      <3> DEFINE u == c * (j - lo)
                 w == c * ((j - 1) - lo)
      <3>4. u \in Int /\ w \in Int /\ u = w + c
        BY <1>0, <3>3
      <3>5. s[j - 1] >= w
        BY <3>1
      <3> HIDE DEF u, w
      <3>6. s[j] \in Int /\ s[j] > u
        BY <3>1, <3>2, <3>4, <3>5
      <3> QED
        <4>1. s[j] > c * (j - lo) /\ s[j] >= c * (j - lo)
          BY <3>4, <3>6 DEF u
        <4> QED
          BY <3>1, <3>6, <4>1
    <2> HIDE DEF T
    <2>3. last \in T
      <3>1. \A j \in lo .. last : j \in T
        BY <1>0, <2>1, <2>2, Onwards
      <3> QED
        BY <1>0, <3>1
    <2>4. last - lo = last - first + 1 /\ last > lo
      BY <1>0
    <2> QED
      BY <2>3, <2>4 DEF T
  <1> QED
    BY <1>3, <1>6, <1>7, <1>8

LEMMA FloorsRise ==
  ASSUME NEW n \in Nat, NEW threshold \in Nat, threshold >= 3, n > threshold, NEW short,
         NEW i \in Nat, NEW j \in Nat, i < j
  PROVE  Floor(i, n, threshold, short) < Floor(j, n, threshold, short)
  <1> DEFINE F(k) == Floor(k, n, threshold, short)
             T == { k \in i + 1 .. j : F(i) < F(k) }
  <1>1. \A k \in Nat : F(k) \in Int /\ F(k) < F(k + 1)
    BY FloorsApart
  <1> HIDE DEF F
  <1>2. i + 1 \in T
    BY <1>1
  <1>3. ASSUME NEW k \in (i + 1) + 1 .. j, k - 1 \in T PROVE k \in T
    <2>1. k - 1 \in Nat /\ (k - 1) + 1 = k /\ k \in i + 1 .. j /\ F(i) < F(k - 1)
      BY <1>3
    <2>2. F(i) \in Int /\ F(k - 1) \in Int /\ F(k) \in Int /\ F(k - 1) < F(k)
      <3>1. F(k - 1) \in Int /\ F(k - 1) < F((k - 1) + 1)
        BY <1>1, <2>1
      <3> QED
        BY <1>1, <2>1, <3>1
    <2>3. F(i) < F(k)
      BY <2>1, <2>2
    <2> QED
      BY <2>1, <2>3
  <1>4. \A k \in i + 1 .. j : k \in T
    <2> HIDE DEF T
    <2>1. i + 1 \in Int /\ j \in Int
      OBVIOUS
    <2> QED
      BY <1>2, <1>3, <2>1, Onwards
  <1>5. j \in T
    BY <1>4
  <1> QED
    BY <1>5 DEF F

(* The buckets of a run that is too long, one after the other: none is     *)
(* empty, and neither is what is compared.                                 *)
LEMMA Buckets ==
  ASSUME NEW n \in Nat, NEW threshold \in Nat, threshold >= 3, n > threshold,
         NEW short, 0 \notin short, NEW b \in 0 .. threshold - 3
  PROVE  LET first == Floor(b, n, threshold, short) + 1
             last == Floor(b + 1, n, threshold, short)
             next == NextBucket(b, n, threshold, short)
         IN /\ first \in 1 .. n - 2 /\ last \in first .. n - 2
            /\ Bucket(b, n, threshold, short) = first .. last
            /\ next.first = last + 1 /\ next.last \in next.first .. n - 1
  <1> DEFINE F(k) == Floor(k, n, threshold, short)
  <1>1. \A k \in Nat : F(k) \in Int
    BY FloorsApart
  <1>2. F(0) = 0 /\ F(threshold - 2) \in n - 3 .. n - 2
    <2>1. F(threshold - 2) = IF threshold - 2 \in short THEN n - 3 ELSE n - 2
      BY FloorEnds
    <2>2. n - 3 \in n - 3 .. n - 2 /\ n - 2 \in n - 3 .. n - 2
      OBVIOUS
    <2>3. F(0) = 0
      BY FloorEnds
    <2> QED
      BY <2>1, <2>2, <2>3
  <1>3. \A i, j \in Nat : i < j => F(i) < F(j)
    BY FloorsRise
  <1>4. /\ Bucket(b, n, threshold, short) =
             AtMost(F(b) + 1, n - 1)
               .. AtLeast(AtMost(F(b + 1) + 1, n - 1), AtMost(F(b) + 1, n - 1) + 1) - 1
        /\ NextBucket(b, n, threshold, short) =
             IF AtMost(F(b + 1) + 1, n - 1) = AtMost(F(b + 2) + 1, n)
             THEN [first |-> n - 1, last |-> n - 1]
             ELSE [first |-> AtMost(F(b + 1) + 1, n - 1), last |-> AtMost(F(b + 2) + 1, n) - 1]
    BY DEF Bucket, NextBucket
  <1> HIDE DEF F
  <1>5. b \in Nat /\ b + 1 \in Nat /\ b + 2 \in Nat /\ threshold - 2 \in Nat
    OBVIOUS
  <1>6. F(b) >= 0 /\ F(b) < F(b + 1) /\ F(b + 1) < F(b + 2) /\ F(b + 1) <= n - 2
    <2>1. b = 0 \/ 0 < b
      OBVIOUS
    <2>2. b + 1 = threshold - 2 \/ b + 1 < threshold - 2
      OBVIOUS
    <2>3. F(b) >= 0
      BY <1>1, <1>2, <1>3, <1>5, <2>1
    <2>4. F(b + 1) <= n - 2
      BY <1>1, <1>2, <1>3, <1>5, <2>2
    <2> QED
      BY <1>3, <1>5, <2>3, <2>4
  <1>7. F(b) \in Int /\ F(b + 1) \in Int /\ F(b + 2) \in Int
    BY <1>1, <1>5
  <1> DEFINE p == F(b)
             q == F(b + 1)
             r == F(b + 2)
  <1> HIDE DEF p, q, r
  <1>8. p \in Int /\ q \in Int /\ r \in Int /\ 0 <= p /\ p < q /\ q < r /\ q <= n - 2
    BY <1>6, <1>7 DEF p, q, r
  <1>9. /\ AtMost(p + 1, n - 1) = p + 1 /\ AtMost(q + 1, n - 1) = q + 1
        /\ AtLeast(q + 1, p + 2) = q + 1
        /\ AtMost(r + 1, n) \in q + 2 .. n
    BY <1>8 DEF AtMost, AtLeast
  <1>10. Bucket(b, n, threshold, short) = p + 1 .. q
    <2>1. Bucket(b, n, threshold, short) = p + 1 .. AtLeast(q + 1, (p + 1) + 1) - 1
      BY <1>4, <1>9 DEF p, q
    <2>2. (p + 1) + 1 = p + 2 /\ (q + 1) - 1 = q
      BY <1>8
    <2> QED
      BY <1>9, <2>1, <2>2
  <1>11. NextBucket(b, n, threshold, short) = [first |-> q + 1, last |-> AtMost(r + 1, n) - 1]
    <2>1. AtMost(q + 1, n - 1) # AtMost(r + 1, n)
      BY <1>8, <1>9
    <2> QED
      BY <1>4, <1>9, <2>1 DEF q, r
  <1> DEFINE next == NextBucket(b, n, threshold, short)
  <1>12. next.first = q + 1 /\ next.last = AtMost(r + 1, n) - 1
    BY <1>11
  <1> HIDE DEF next
  <1>13. next.last \in q + 1 .. n - 1
    BY <1>8, <1>9, <1>12
  <1>14. p + 1 \in 1 .. n - 2 /\ q \in p + 1 .. n - 2
    BY <1>8
  <1> QED
    BY <1>10, <1>12, <1>13, <1>14 DEF p, q, F, next

-----------------------------------------------------------------------------
(* HistoryChart: the areas *)

ChartSamples == [at : Nat, interval : Nat \ {0}, value : SampleValues]
Valued == { s \in ChartSamples : s.value # {} }
Ascending(run) == \A i, j \in DOMAIN run : i < j => run[i].at < run[j].at

LEMMA ValueIs ==
  ASSUME NEW s \in Valued
  PROVE  s.value = {Y(s)} /\ Y(s) \in Int
  <1>1. s.value \in SampleValues /\ s.value # {}
    BY DEF Valued, ChartSamples
  <1>2. s.value \in SUBSET Int /\ \A x, y \in s.value : x = y
    BY <1>1, ChartAssumption DEF ChartAssumption
  <1>3. Y(s) \in s.value
    BY <1>1 DEF Y
  <1> QED
    BY <1>2, <1>3

(* The triangle of three points of the same value is flat, and that of one *)
(* with another value is not, as time goes on between them.                *)
LEMMA AreaIs ==
  ASSUME NEW run \in Seq(Valued), Ascending(run), NEW i \in 0 .. Len(run) - 1,
         NEW anchor \in 0 .. Len(run) - 1, NEW next,
         next.first \in 0 .. Len(run) - 1, next.last \in next.first .. Len(run) - 1
  PROVE  /\ Area(run, anchor, i, next) \in Int
         /\ (/\ anchor < i /\ i < next.first
             /\ \A j \in next.first .. next.last : Y(run[j + 1]) = Y(run[anchor + 1]))
            => /\ Y(run[i + 1]) = Y(run[anchor + 1]) => Area(run, anchor, i, next) = 0
               /\ Y(run[i + 1]) # Y(run[anchor + 1]) => Area(run, anchor, i, next) > 0
  <1> DEFINE n == Len(run)
             x == [j \in 0 .. n - 1 |-> run[j + 1].at - run[1].at]
             y == [j \in 0 .. n - 1 |-> Y(run[j + 1])]
             f == next.first
             l == next.last
             size == l - f + 1
             sx == SumBetween(x, f, l)
             sy == SumBetween(y, f, l)
             product == (x[anchor] * size - sx) * (y[i] - y[anchor])
                          - (x[anchor] - x[i]) * (sy - y[anchor] * size)
  <1>1. Area(run, anchor, i, next) = Magnitude(product)
    BY DEF Area
  <1>2. /\ n \in Nat /\ f \in 0 .. n - 1 /\ l \in f .. n - 1
        /\ i \in 0 .. n - 1 /\ anchor \in 0 .. n - 1
    OBVIOUS
  <1>3. ASSUME NEW j \in 0 .. n - 1
        PROVE  /\ run[j + 1] \in Valued /\ run[j + 1].at \in Nat /\ run[1].at \in Nat
               /\ x[j] = run[j + 1].at - run[1].at /\ x[j] \in Int
               /\ y[j] = Y(run[j + 1]) /\ y[j] \in Int
    <2>1. j + 1 \in 1 .. n /\ 1 \in 1 .. n
      BY <1>2, <1>3
    <2>2. run[j + 1] \in Valued /\ run[1] \in Valued
      BY <2>1
    <2>3. run[j + 1].at \in Nat /\ run[1].at \in Nat /\ Y(run[j + 1]) \in Int
      BY <2>2, ValueIs DEF Valued, ChartSamples
    <2> QED
      BY <2>2, <2>3
  <1>4. ASSUME NEW j \in 0 .. n - 1, NEW k \in 0 .. n - 1, j < k
        PROVE  x[j] < x[k]
    <2>1. j + 1 \in DOMAIN run /\ k + 1 \in DOMAIN run /\ j + 1 < k + 1
      BY <1>2, <1>4
    <2>2. run[j + 1].at < run[k + 1].at
      BY <2>1 DEF Ascending
    <2>3. /\ run[j + 1].at \in Nat /\ run[k + 1].at \in Nat /\ run[1].at \in Nat
          /\ x[j] = run[j + 1].at - run[1].at /\ x[k] = run[k + 1].at - run[1].at
      BY <1>3
    <2> DEFINE a == run[j + 1].at
               b == run[k + 1].at
               o == run[1].at
               xj == x[j]
               xk == x[k]
    <2>4. a \in Nat /\ b \in Nat /\ o \in Nat /\ a < b /\ xj = a - o /\ xk = b - o
      BY <2>2, <2>3
    <2> HIDE DEF a, b, o, xj, xk
    <2>5. xj < xk
      BY <2>4
    <2> QED
      BY <2>5 DEF xj, xk
  <1>5. \A j \in f .. l : j \in 0 .. n - 1
    BY <1>2
  <1> HIDE DEF x, y, f, l, n
  <1>6. /\ f \in Int /\ l \in Int /\ f <= l /\ size \in Int /\ size >= 1
        /\ x[i] \in Int /\ y[i] \in Int /\ x[anchor] \in Int /\ y[anchor] \in Int
    BY <1>2, <1>3
  <1>7. (\A j \in f .. l : x[j] \in Int) /\ (\A j \in f .. l : y[j] \in Int)
    BY <1>3, <1>5
  <1>8. /\ sx \in Int
        /\ \A c \in Int : (\A j \in f .. l : x[j] > c) => sx > c * (l - f + 1)
    BY <1>6, <1>7, SumBetweenIs
  <1>9. /\ sy \in Int
        /\ \A c \in Int : (\A j \in f .. l : y[j] = c) => sy = c * (l - f + 1)
    BY <1>6, <1>7, SumBetweenIs
  <1> HIDE DEF sx, sy
  <1> DEFINE p == x[anchor] * size - sx
             q == y[i] - y[anchor]
             u == x[anchor] - x[i]
             w == sy - y[anchor] * size
  <1>10. p \in Int /\ q \in Int /\ u \in Int /\ w \in Int
    <2> HIDE DEF size
    <2>1. x[anchor] * size \in Int /\ y[anchor] * size \in Int
      BY <1>6
    <2>2. p \in Int
      BY <1>8, <2>1
    <2>3. w \in Int
      BY <1>9, <2>1
    <2>4. q \in Int /\ u \in Int
      BY <1>6
    <2> QED
      BY <2>2, <2>3, <2>4
  <1>11. product = p * q - u * w
    OBVIOUS
  <1>12. product \in Int
    <2> HIDE DEF p, q, u, w, product
    <2> QED
      BY <1>10, <1>11
  <1>13. Magnitude(product) \in Int
    <2> HIDE DEF product
    <2> QED
      BY <1>12 DEF Magnitude
  <1>14. ASSUME anchor < i, i < f, \A j \in f .. l : Y(run[j + 1]) = Y(run[anchor + 1])
         PROVE  /\ Y(run[i + 1]) = Y(run[anchor + 1]) => Magnitude(product) = 0
                /\ Y(run[i + 1]) # Y(run[anchor + 1]) => Magnitude(product) > 0
    <2>1. w = 0
      <3>1. \A j \in f .. l : y[j] = y[anchor]
        BY <1>2, <1>3, <1>5, <1>14
      <3>2. sy = y[anchor] * (l - f + 1)
        BY <1>6, <1>9, <3>1
      <3> QED
        BY <1>6, <1>9, <3>2
    <2>2. p < 0
      <3>1. \A j \in f .. l : x[j] > x[anchor]
        <4>1. ASSUME NEW j \in f .. l PROVE x[j] > x[anchor]
          <5>1. j \in 0 .. n - 1 /\ anchor < j
            BY <1>2, <1>5, <1>14
          <5>2. x[anchor] < x[j] /\ x[j] \in Int
            BY <1>2, <1>3, <1>4, <5>1
          <5> QED
            BY <1>6, <5>2
        <4> QED
          BY <4>1
      <3>2. sx > x[anchor] * (l - f + 1)
        BY <1>6, <1>8, <3>1
      <3> QED
        BY <1>6, <1>8, <3>2
    <2>3. q = 0 <=> Y(run[i + 1]) = Y(run[anchor + 1])
      <3>1. y[i] = Y(run[i + 1]) /\ y[anchor] = Y(run[anchor + 1])
        BY <1>2, <1>3
      <3> QED
        BY <1>6, <3>1
    <2> HIDE DEF p, q, u, w
    <2>4. product = p * q
      BY <1>10, <1>11, <2>1
    <2> HIDE DEF product
    <2>5. q = 0 => product = 0
      BY <1>10, <2>4
    <2>6. q # 0 => product # 0
      <3>1. ASSUME q > 0 PROVE p * q < 0
        BY <1>10, <2>2, <3>1
      <3>2. ASSUME q < 0 PROVE p * q > 0
        BY <1>10, <2>2, <3>2
      <3> QED
        BY <1>10, <2>4, <3>1, <3>2
    <2> QED
      BY <1>12, <2>3, <2>5, <2>6 DEF Magnitude
  <1> HIDE DEF product
  <1> QED
    BY <1>1, <1>13, <1>14 DEF f, l

(* The largest of finitely many numbers, and the first of those.           *)
LEMMA BestOf ==
  ASSUME NEW lo \in Int, NEW hi \in Int, lo <= hi,
         NEW f, \A j \in lo .. hi : f[j] \in Int
  PROVE  \E i \in lo .. hi : \A j \in lo .. hi : f[i] > f[j] \/ (f[i] = f[j] /\ i <= j)
  <1> DEFINE Best(i, m) == \A j \in lo .. m : f[i] > f[j] \/ (f[i] = f[j] /\ i <= j)
             T == { m \in lo .. hi : \E i \in lo .. m : Best(i, m) }
  <1>1. lo \in T
    <2>1. lo \in lo .. lo /\ lo \in lo .. hi /\ \A j \in lo .. lo : j = lo
      OBVIOUS
    <2>2. Best(lo, lo)
      BY <2>1
    <2> QED
      BY <2>1, <2>2
  <1>2. ASSUME NEW m \in lo + 1 .. hi, m - 1 \in T PROVE m \in T
    <2>1. PICK i \in lo .. m - 1 : Best(i, m - 1)
      BY <1>2
    <2>2. /\ m \in lo .. hi /\ i \in lo .. m /\ i <= m /\ m \in lo .. m
          /\ f[i] \in Int /\ f[m] \in Int
      OBVIOUS
    <2>3. ASSUME NEW j \in lo .. m, j # m
          PROVE  j \in lo .. m - 1 /\ j < m /\ f[j] \in Int
      BY <2>3
    <2>4. CASE f[m] > f[i]
      <3>1. Best(m, m)
        <4>1. ASSUME NEW j \in lo .. m PROVE f[m] > f[j] \/ (f[m] = f[j] /\ m <= j)
          <5>1. CASE j = m
            BY <2>2, <5>1
          <5>2. CASE j # m
            <6>1. f[i] >= f[j] /\ f[j] \in Int
              BY <2>1, <2>2, <2>3, <5>2
            <6> QED
              BY <2>2, <2>4, <6>1
          <5> QED
            BY <5>1, <5>2
        <4> QED
          BY <4>1
      <3> QED
        BY <2>2, <3>1
    <2>5. CASE ~(f[m] > f[i])
      <3>1. Best(i, m)
        <4>1. ASSUME NEW j \in lo .. m PROVE f[i] > f[j] \/ (f[i] = f[j] /\ i <= j)
          <5>1. CASE j = m
            BY <2>2, <2>5, <5>1
          <5>2. CASE j # m
            BY <2>1, <2>3, <5>2
          <5> QED
            BY <5>1, <5>2
        <4> QED
          BY <4>1
      <3> QED
        BY <2>2, <3>1
    <2> QED
      BY <2>4, <2>5
  <1>3. \A m \in lo .. hi : m \in T
    <2> HIDE DEF T
    <2> QED
      BY <1>1, <1>2, Onwards
  <1>4. hi \in lo .. hi
    OBVIOUS
  <1>5. \E i \in lo .. hi : Best(i, hi)
    BY <1>3, <1>4
  <1> QED
    BY <1>5

LEMMA FarthestIs ==
  ASSUME NEW run \in Seq(Valued), Ascending(run), NEW anchor \in 0 .. Len(run) - 1,
         NEW lo \in 0 .. Len(run) - 1, NEW hi \in lo .. Len(run) - 1, NEW next,
         next.first \in 0 .. Len(run) - 1, next.last \in next.first .. Len(run) - 1
  PROVE  LET i == Farthest(run, anchor, lo .. hi, next)
         IN /\ i \in lo .. hi
            /\ \A j \in lo .. hi : Area(run, anchor, j, next) <= Area(run, anchor, i, next)
  <1> DEFINE A(i) == Area(run, anchor, i, next)
             f == [j \in lo .. hi |-> A(j)]
             Wins(i) == \A j \in lo .. hi : A(i) > A(j) \/ (A(i) = A(j) /\ i <= j)
  <1>1. /\ Len(run) \in Nat /\ lo \in Int /\ hi \in Int /\ lo <= hi
        /\ \A j \in lo .. hi : j \in 0 .. Len(run) - 1
    OBVIOUS
  <1>2. \A j \in lo .. hi : A(j) \in Int
    BY <1>1, AreaIs
  <1> HIDE DEF A
  <1>3. \A j \in lo .. hi : f[j] = A(j) /\ f[j] \in Int
    BY <1>2
  <1> HIDE DEF f
  <1>4. \E i \in lo .. hi : \A j \in lo .. hi : f[i] > f[j] \/ (f[i] = f[j] /\ i <= j)
    BY <1>1, <1>3, BestOf
  <1>5. \E i \in lo .. hi : Wins(i)
    BY <1>3, <1>4
  <1>6. Farthest(run, anchor, lo .. hi, next) = CHOOSE i \in lo .. hi : Wins(i)
    BY DEF Farthest, A
  <1> DEFINE i == Farthest(run, anchor, lo .. hi, next)
  <1>7. i \in lo .. hi /\ Wins(i)
    <2> HIDE DEF Wins
    <2> QED
      BY <1>5, <1>6
  <1> HIDE DEF i
  <1>8. \A j \in lo .. hi : A(j) <= A(i)
    BY <1>2, <1>7
  <1> QED
    BY <1>7, <1>8 DEF A, i

(* What is left of a run, by the indices of what is taken of it: it goes   *)
(* from the first to the last in no more points than there may be, is the  *)
(* whole run if that is short enough, and takes the one value that stands  *)
(* out, unless that is the last but one and floats round down.             *)
StandsOut(run, i) ==
    \A j, k \in DOMAIN run \ {i} : run[j].value = run[k].value /\ run[i].value # run[j].value

Takes(taken, run, indices, m, threshold, short) ==
    /\ m \in Nat /\ m <= threshold
    /\ taken = [x \in 1 .. m |-> run[indices[x]]]
    /\ \A x \in 1 .. m : indices[x] \in DOMAIN run
    /\ \A x, y \in 1 .. m : x < y => indices[x] < indices[y]
    /\ run # <<>> => m > 0 /\ indices[1] = 1 /\ indices[m] = Len(run)
    /\ Len(run) <= threshold => \A i \in DOMAIN run : \E x \in 1 .. m : indices[x] = i
    /\ \A i \in DOMAIN run :
          StandsOut(run, i) => \/ \E x \in 1 .. m : indices[x] = i
                               \/ short # {} /\ i = Len(run) - 1

LEMMA WholeTaken ==
  ASSUME NEW run \in Seq(Valued), NEW threshold \in Nat, Len(run) <= threshold, NEW short
  PROVE  \E indices, m : Takes(Downsampled(run, threshold, short), run, indices, m,
                               threshold, short)
  <1> DEFINE n == Len(run)
             indices == [x \in 1 .. n |-> x]
  <1>1. n \in Nat /\ DOMAIN run = 1 .. n /\ n <= threshold /\ (run # <<>> => n > 0)
    OBVIOUS
  <1>2. Downsampled(run, threshold, short) = run
    BY DEF Downsampled
  <1>3. \A x \in 1 .. n : indices[x] = x
    OBVIOUS
  <1>4. run = [x \in 1 .. n |-> run[indices[x]]]
    <2>1. run = [x \in 1 .. n |-> run[x]]
      BY <1>1
    <2> HIDE DEF n, indices
    <2> QED
      BY <1>3, <2>1
  <1>5. run # <<>> => indices[1] = 1 /\ indices[n] = n
    BY <1>1
  <1> HIDE DEF n, indices
  <1>6. Takes(run, run, indices, n, threshold, short)
    <2>1. \A i \in DOMAIN run : \E x \in 1 .. n : indices[x] = i
      BY <1>1, <1>3
    <2>2. \A x \in 1 .. n : indices[x] \in DOMAIN run
      BY <1>1, <1>3
    <2>3. \A x, y \in 1 .. n : x < y => indices[x] < indices[y]
      BY <1>3
    <2> QED
      BY <1>1, <1>4, <1>5, <2>1, <2>2, <2>3 DEF Takes, n
  <1> QED
    BY <1>2, <1>6

(* The points selected of a run that is too long, one of each bucket.      *)
Selects(s, run, threshold, short) ==
    /\ s[0] = 0
    /\ \A b \in 1 .. threshold - 2 :
          s[b] = Farthest(run, s[b - 1], Bucket(b - 1, Len(run), threshold, short),
                          NextBucket(b - 1, Len(run), threshold, short))

LEMMA SelectedAre ==
  ASSUME NEW run \in Seq(Valued), Ascending(run), NEW threshold \in Nat, threshold >= 3,
         Len(run) > threshold, NEW short, 0 \notin short
  PROVE  \E s : /\ Selects(s, run, threshold, short)
                /\ Downsampled(run, threshold, short) =
                     [i \in 1 .. threshold |->
                        IF i = threshold THEN run[Len(run)] ELSE run[s[i - 1] + 1]]
  <1> DEFINE n == Len(run)
             top == threshold - 2
             V == 0 .. n - 1
             Step(b, v) == Farthest(run, v, Bucket(b - 1, n, threshold, short),
                                    NextBucket(b - 1, n, threshold, short))
             h == [p \in (0 + 1 .. top) \X V |-> Step(p[1], p[2])]
             Goes(s) == s = [b \in 0 .. top |-> IF b = 0 THEN 0 ELSE Step(b, s[b - 1])]
  <1>1. n \in Nat /\ n > threshold /\ top \in Int /\ 0 <= top
    OBVIOUS
  <1>2. ASSUME NEW b \in 1 .. top, NEW v \in V PROVE Step(b, v) \in V
    <2>1. b - 1 \in 0 .. threshold - 3 /\ b - 1 \in Int
      BY <1>2
    <2> DEFINE first == Floor(b - 1, n, threshold, short) + 1
               last == Floor(b - 1 + 1, n, threshold, short)
               next == NextBucket(b - 1, n, threshold, short)
    <2>2. /\ first \in 1 .. n - 2 /\ last \in first .. n - 2
          /\ Bucket(b - 1, n, threshold, short) = first .. last
          /\ next.first = last + 1 /\ next.last \in next.first .. n - 1
      <3> HIDE DEF n
      <3> QED
        BY <1>1, <2>1, Buckets
    <2> HIDE DEF first, last, next
    <2>3. /\ first \in 0 .. n - 1 /\ last \in first .. n - 1
          /\ next.first \in 0 .. n - 1 /\ next.last \in next.first .. n - 1
      BY <1>1, <2>2
    <2>4. Farthest(run, v, first .. last, next) \in first .. last
      BY <1>2, <2>3, FarthestIs
    <2>5. Step(b, v) \in first .. last
      BY <2>2, <2>4 DEF next
    <2> QED
      BY <2>3, <2>5
  <1>3. h \in [(0 + 1 .. top) \X V -> V]
    <2>1. ASSUME NEW p \in (0 + 1 .. top) \X V PROVE Step(p[1], p[2]) \in V
      <3>1. p[1] \in 1 .. top /\ p[2] \in V
        OBVIOUS
      <3> HIDE DEF Step, V, top
      <3> QED
        BY <1>2, <3>1
    <2> HIDE DEF Step, V, top
    <2> QED
      BY <2>1
  <1>4. \A b \in 0 + 1 .. top, v \in V : h[b, v] = Step(b, v)
    <2> HIDE DEF Step, V, top
    <2> QED
      OBVIOUS
  <1>5. 0 \in V
    BY <1>1
  <1>6. \E s : Goes(s)
    <2> HIDE DEF h, V, Step, top, n
    <2>1. PICK s : Follows(s, 0, top, V, 0, h)
      <3> DEFINE lo == 0
      <3>1. lo \in Int /\ top \in Int /\ lo <= top /\ lo \in V /\ h \in [(lo + 1 .. top) \X V -> V]
        BY <1>1, <1>3, <1>5
      <3> HIDE DEF lo
      <3>2. \E s : Follows(s, lo, top, V, lo, h)
        BY <3>1, Recursively
      <3> QED
        BY <3>2 DEF lo
    <2>2. /\ s \in [0 .. top -> V] /\ s[0] = 0
          /\ \A b \in 0 + 1 .. top : s[b] = h[b, s[b - 1]]
      BY <2>1 DEF Follows
    <2>3. ASSUME NEW b \in 0 .. top PROVE s[b] = IF b = 0 THEN 0 ELSE Step(b, s[b - 1])
      <3>1. CASE b = 0
        BY <2>2, <3>1
      <3>2. CASE b # 0
        <4>1. b \in 0 + 1 .. top /\ b - 1 \in 0 .. top
          BY <1>1, <3>2
        <4>2. s[b - 1] \in V
          BY <2>2, <4>1
        <4>3. s[b] = h[b, s[b - 1]] /\ h[b, s[b - 1]] = Step(b, s[b - 1])
          BY <1>4, <2>2, <4>1, <4>2
        <4> QED
          BY <3>2, <4>3
      <3> QED
        BY <3>1, <3>2
    <2>4. s = [b \in 0 .. top |-> s[b]]
      BY <2>2
    <2>5. Goes(s)
      BY <2>3, <2>4
    <2> QED
      BY <2>5
  <1> DEFINE s == CHOOSE g : Goes(g)
  <1>7. Goes(s)
    <2> HIDE DEF Goes
    <2> QED
      BY <1>6
  <1>8. Downsampled(run, threshold, short) =
          [i \in 1 .. threshold |-> IF i = threshold THEN run[n] ELSE run[s[i - 1] + 1]]
    BY <1>1 DEF Downsampled
  <1> HIDE DEF s
  <1>9. Selects(s, run, threshold, short)
    <2>1. s[0] = 0
      <3>1. 0 \in 0 .. top
        BY <1>1
      <3> HIDE DEF Step, top
      <3> QED
        BY <1>7, <3>1
    <2>2. ASSUME NEW b \in 1 .. top PROVE s[b] = Step(b, s[b - 1])
      <3>1. b \in 0 .. top /\ b # 0
        BY <1>1
      <3> HIDE DEF Step, top
      <3> QED
        BY <1>7, <3>1
    <2> QED
      BY <2>1, <2>2 DEF Selects
  <1> QED
    BY <1>8, <1>9

(* One point of each bucket, and that bucket's is one of the largest area. *)
LEMMA SelectedOf ==
  ASSUME NEW run \in Seq(Valued), Ascending(run), NEW threshold \in Nat, threshold >= 3,
         Len(run) > threshold, NEW short, 0 \notin short,
         NEW s, Selects(s, run, threshold, short)
  PROVE  \A b \in 1 .. threshold - 2 :
            LET first == Floor(b - 1, Len(run), threshold, short) + 1
                last == Floor(b, Len(run), threshold, short)
                next == NextBucket(b - 1, Len(run), threshold, short)
            IN /\ first \in 1 .. Len(run) - 2 /\ last \in first .. Len(run) - 2
               /\ next.first = last + 1 /\ next.last \in next.first .. Len(run) - 1
               /\ s[b - 1] \in 0 .. first - 1
               /\ s[b] \in first .. last
               /\ \A j \in first .. last :
                     Area(run, s[b - 1], j, next) <= Area(run, s[b - 1], s[b], next)
  <1> DEFINE n == Len(run)
             top == threshold - 2
             F(k) == Floor(k, n, threshold, short)
             Following(b) == NextBucket(b - 1, n, threshold, short)
             Largest(b) ==
               \A j \in F(b - 1) + 1 .. F(b) :
                  Area(run, s[b - 1], j, Following(b)) <= Area(run, s[b - 1], s[b], Following(b))
             Is(b) == /\ s[b - 1] \in 0 .. F(b - 1)
                      /\ s[b] \in F(b - 1) + 1 .. F(b)
                      /\ Largest(b)
  <1>1. n \in Nat /\ n > threshold /\ top \in Nat /\ 1 <= top
    OBVIOUS
  <1>2. ASSUME NEW b \in 1 .. top
        PROVE  /\ F(b - 1) \in Int /\ F(b) \in Int
               /\ F(b - 1) + 1 \in 1 .. n - 2 /\ F(b) \in F(b - 1) + 1 .. n - 2
               /\ Bucket(b - 1, n, threshold, short) = F(b - 1) + 1 .. F(b)
               /\ Following(b).first = F(b) + 1 /\ Following(b).last \in F(b) + 1 .. n - 1
    <2>1. b - 1 \in 0 .. threshold - 3 /\ b - 1 + 1 = b /\ b - 1 \in Nat /\ b \in Nat
      OBVIOUS
    <2> HIDE DEF n
    <2> DEFINE c == b - 1
               first == Floor(c, n, threshold, short) + 1
               last == Floor(c + 1, n, threshold, short)
               next == NextBucket(c, n, threshold, short)
    <2>2. /\ first \in 1 .. n - 2 /\ last \in first .. n - 2
          /\ Bucket(c, n, threshold, short) = first .. last
          /\ next.first = last + 1 /\ next.last \in next.first .. n - 1
      <3>1. c \in 0 .. threshold - 3
        BY <2>1
      <3> HIDE DEF c
      <3> QED
        BY <1>1, <3>1, Buckets
    <2>3. F(b - 1) \in Int /\ F(b) \in Int
      BY <1>1, <2>1, FloorsApart
    <2>4. c + 1 = b
      BY <2>1
    <2>5. F(b - 1) + 1 = first /\ F(b) = last /\ Following(b) = next
      BY <2>4
    <2> HIDE DEF F, Following, first, last, next
    <2> QED
      BY <2>2, <2>3, <2>5 DEF c
  <1>3. F(0) = 0
    BY <1>1, FloorEnds
  <1>4. ASSUME NEW b \in 1 .. top, s[b - 1] \in 0 .. F(b - 1)
        PROVE  Is(b)
    <2> DEFINE lo == F(b - 1) + 1
               hi == F(b)
               next == Following(b)
               v == s[b - 1]
    <2>1. /\ lo \in 0 .. n - 1 /\ hi \in lo .. n - 1 /\ v \in 0 .. n - 1
          /\ next.first \in 0 .. n - 1 /\ next.last \in next.first .. n - 1
      <3> HIDE DEF F, Following, n
      <3>1. /\ F(b - 1) \in Int /\ F(b) \in Int
            /\ F(b - 1) + 1 \in 1 .. n - 2 /\ F(b) \in F(b - 1) + 1 .. n - 2
            /\ Following(b).first = F(b) + 1 /\ Following(b).last \in F(b) + 1 .. n - 1
        BY <1>2
      <3>2. v \in 0 .. F(b - 1)
        BY <1>4
      <3> HIDE DEF v
      <3> QED
        BY <1>1, <3>1, <3>2
    <2>2. s[b] = Farthest(run, v, lo .. hi, next)
      <3>1. s[b] = Farthest(run, v, Bucket(b - 1, n, threshold, short), next)
        BY DEF Selects
      <3>2. Bucket(b - 1, n, threshold, short) = lo .. hi
        BY <1>2
      <3> HIDE DEF lo, hi, next, v, n
      <3> QED
        BY <3>1, <3>2
    <2> HIDE DEF lo, hi, next, v
    <2> DEFINE i == Farthest(run, v, lo .. hi, next)
    <2>3. /\ i \in lo .. hi
          /\ \A j \in lo .. hi : Area(run, v, j, next) <= Area(run, v, i, next)
      BY <2>1, FarthestIs
    <2>4. i = s[b]
      BY <2>2
    <2> HIDE DEF i, F, Next
    <2>5. s[b] \in lo .. hi
      BY <2>3, <2>4
    <2>6. \A j \in lo .. hi : Area(run, v, j, next) <= Area(run, v, s[b], next)
      BY <2>3, <2>4
    <2> QED
      BY <1>4, <2>5, <2>6 DEF lo, hi, next, v
  <1> HIDE DEF F, Following, Largest
  <1> DEFINE T == { b \in 1 .. top : Is(b) }
  <1>5. 1 \in T
    <2>1. 1 \in 1 .. top /\ 1 - 1 = 0
      BY <1>1
    <2>2. s[0] = 0
      BY DEF Selects
    <2>3. s[1 - 1] \in 0 .. F(1 - 1)
      BY <1>3, <2>1, <2>2
    <2> QED
      BY <1>4, <2>1, <2>3
  <1>6. ASSUME NEW b \in 1 + 1 .. top, b - 1 \in T PROVE b \in T
    <2>1. b \in 1 .. top /\ b - 1 \in 1 .. top /\ (b - 1) - 1 = b - 2 /\ b - 2 \in Int
      OBVIOUS
    <2>2. s[b - 1] \in F((b - 1) - 1) + 1 .. F(b - 1)
      BY <1>6
    <2>3. F((b - 1) - 1) + 1 \in 1 .. n - 2 /\ F(b - 1) \in Int
      BY <1>2, <2>1
    <2>4. s[b - 1] \in 0 .. F(b - 1)
      BY <2>2, <2>3
    <2> QED
      BY <1>4, <2>1, <2>4
  <1>7. \A b \in 1 .. top : b \in T
    <2> DEFINE lo == 1
    <2>1. lo \in Int /\ top \in Int /\ lo \in T
      BY <1>1, <1>5
    <2>2. \A b \in lo + 1 .. top : b - 1 \in T => b \in T
      BY <1>6
    <2> HIDE DEF T, lo
    <2>3. \A b \in lo .. top : b \in T
      BY <2>1, <2>2, Onwards
    <2> QED
      BY <2>3 DEF lo
  <1>8. ASSUME NEW b \in 1 .. top
        PROVE  LET first == F(b - 1) + 1
                   last == F(b)
                   next == Following(b)
               IN /\ first \in 1 .. n - 2 /\ last \in first .. n - 2
                  /\ next.first = last + 1 /\ next.last \in next.first .. n - 1
                  /\ s[b - 1] \in 0 .. first - 1
                  /\ s[b] \in first .. last
                  /\ \A j \in first .. last :
                        Area(run, s[b - 1], j, next) <= Area(run, s[b - 1], s[b], next)
    <2>1. Is(b)
      BY <1>7
    <2>2. /\ F(b - 1) \in Int /\ F(b) \in Int
          /\ F(b - 1) + 1 \in 1 .. n - 2 /\ F(b) \in F(b - 1) + 1 .. n - 2
          /\ Following(b).first = F(b) + 1 /\ Following(b).last \in F(b) + 1 .. n - 1
      BY <1>2
    <2>3. (F(b - 1) + 1) - 1 = F(b - 1)
      BY <2>2
    <2> QED
      BY <2>1, <2>2, <2>3 DEF Largest
  <1> QED
    BY <1>8 DEF F, Following

LEMMA TooLongTaken ==
  ASSUME NEW run \in Seq(Valued), Ascending(run), NEW threshold \in Nat, threshold >= 3,
         Len(run) > threshold, NEW short, 0 \notin short
  PROVE  \E indices, m : Takes(Downsampled(run, threshold, short), run, indices, m,
                               threshold, short)
  <1> DEFINE n == Len(run)
             top == threshold - 2
             F(k) == Floor(k, n, threshold, short)
             Following(b) == NextBucket(b - 1, n, threshold, short)
  <1>1. PICK s : /\ Selects(s, run, threshold, short)
                 /\ Downsampled(run, threshold, short) =
                      [i \in 1 .. threshold |->
                         IF i = threshold THEN run[Len(run)] ELSE run[s[i - 1] + 1]]
    BY SelectedAre
  <1>2. n \in Nat /\ DOMAIN run = 1 .. n /\ n > threshold /\ top \in Nat /\ 1 <= top
        /\ threshold = top + 2
    OBVIOUS
  <1>3. ASSUME NEW b \in 1 .. top
        PROVE  /\ F(b - 1) + 1 \in 1 .. n - 2 /\ F(b) \in F(b - 1) + 1 .. n - 2
               /\ Following(b).first = F(b) + 1 /\ Following(b).last \in Following(b).first .. n - 1
               /\ s[b - 1] \in 0 .. (F(b - 1) + 1) - 1
               /\ s[b] \in F(b - 1) + 1 .. F(b)
               /\ \A j \in F(b - 1) + 1 .. F(b) :
                     Area(run, s[b - 1], j, Following(b)) <= Area(run, s[b - 1], s[b], Following(b))
    <2>1. LET first == Floor(b - 1, Len(run), threshold, short) + 1
              last == Floor(b, Len(run), threshold, short)
              next == NextBucket(b - 1, Len(run), threshold, short)
          IN /\ first \in 1 .. Len(run) - 2 /\ last \in first .. Len(run) - 2
             /\ next.first = last + 1 /\ next.last \in next.first .. Len(run) - 1
             /\ s[b - 1] \in 0 .. first - 1
             /\ s[b] \in first .. last
             /\ \A j \in first .. last :
                   Area(run, s[b - 1], j, next) <= Area(run, s[b - 1], s[b], next)
      BY <1>1, SelectedOf
    <2> QED
      BY <2>1
  <1>4. s[0] = 0
    BY <1>1 DEF Selects
  <1>5. F(0) = 0 /\ F(top) = IF top \in short THEN n - 3 ELSE n - 2
    BY FloorEnds
  <1>6. \A i, j \in Nat : i < j => F(i) < F(j)
    BY FloorsRise
  <1>7. \A k \in Nat : F(k) \in Int
    BY FloorsApart
  <1> HIDE DEF F, Following, n, top
  <1> DEFINE indices == [x \in 1 .. threshold |-> IF x = threshold THEN n ELSE s[x - 1] + 1]
  <1>8. /\ indices[threshold] = n
        /\ \A x \in 1 .. threshold - 1 : indices[x] = s[x - 1] + 1
    OBVIOUS
  <1>9. Downsampled(run, threshold, short) = [x \in 1 .. threshold |-> run[indices[x]]]
    <2>1. \A x \in 1 .. threshold :
             run[indices[x]] = IF x = threshold THEN run[n] ELSE run[s[x - 1] + 1]
      OBVIOUS
    <2> HIDE DEF indices
    <2> QED
      BY <1>1, <2>1 DEF n
  <1> HIDE DEF indices
  (* One after the other. *)
  <1>10. \A b \in 0 .. top : s[b] \in 0 .. n - 2 /\ s[b] <= F(b)
    <2> SUFFICES ASSUME NEW b \in 0 .. top PROVE s[b] \in 0 .. n - 2 /\ s[b] <= F(b)
      OBVIOUS
    <2>1. CASE b = 0
      BY <1>2, <1>4, <1>5, <2>1
    <2>2. CASE b # 0
      <3>1. b \in 1 .. top
        BY <1>2, <2>2
      <3>2. F(b - 1) + 1 \in 1 .. n - 2 /\ F(b) \in F(b - 1) + 1 .. n - 2
            /\ s[b] \in F(b - 1) + 1 .. F(b)
        BY <1>3, <3>1
      <3>3. F(b) \in Int /\ b - 1 \in Nat /\ F(b - 1) \in Int
        BY <1>7, <3>1
      <3> QED
        BY <1>2, <3>2, <3>3
    <2> QED
      BY <2>1, <2>2
  <1>11. ASSUME NEW b \in 0 .. top, NEW c \in 0 .. top, b < c PROVE s[b] < s[c]
    <2>1. c \in 1 .. top /\ c - 1 \in Nat /\ b \in Nat /\ (b = c - 1 \/ b < c - 1)
      BY <1>2, <1>11
    <2>2. F(c - 1) + 1 \in 1 .. n - 2 /\ s[c] \in F(c - 1) + 1 .. F(c)
      BY <1>3, <2>1
    <2>3. F(b) \in Int /\ F(c - 1) \in Int /\ F(c) \in Int /\ F(b) <= F(c - 1)
      BY <1>6, <1>7, <2>1
    <2>4. s[b] \in Int /\ s[b] <= F(b)
      BY <1>10
    <2> QED
      BY <2>2, <2>3, <2>4
  <1>12. \A x \in 1 .. threshold : indices[x] \in 1 .. n
    <2> SUFFICES ASSUME NEW x \in 1 .. threshold PROVE indices[x] \in 1 .. n
      OBVIOUS
    <2>1. CASE x = threshold
      BY <1>2, <1>8, <2>1
    <2>2. CASE x # threshold
      <3>1. x \in 1 .. threshold - 1 /\ x - 1 \in 0 .. top
        BY <1>2, <2>2
      <3>2. s[x - 1] \in 0 .. n - 2
        BY <1>10, <3>1
      <3> QED
        BY <1>2, <1>8, <3>1, <3>2
    <2> QED
      BY <2>1, <2>2
  <1>13. \A x, y \in 1 .. threshold : x < y => indices[x] < indices[y]
    <2> SUFFICES ASSUME NEW x \in 1 .. threshold, NEW y \in 1 .. threshold, x < y
                 PROVE  indices[x] < indices[y]
      OBVIOUS
    <2>1. x \in 1 .. threshold - 1 /\ x - 1 \in 0 .. top
      BY <1>2
    <2>2. s[x - 1] \in 0 .. n - 2 /\ indices[x] = s[x - 1] + 1
      BY <1>8, <1>10, <2>1
    <2>3. CASE y = threshold
      BY <1>2, <1>8, <2>2, <2>3
    <2>4. CASE y # threshold
      <3>1. y \in 1 .. threshold - 1 /\ y - 1 \in 0 .. top /\ x - 1 < y - 1
        BY <1>2, <2>4
      <3>2. s[y - 1] \in 0 .. n - 2 /\ indices[y] = s[y - 1] + 1 /\ s[x - 1] < s[y - 1]
        BY <1>8, <1>10, <1>11, <2>1, <3>1
      <3> QED
        BY <1>2, <2>2, <3>2
    <2> QED
      BY <2>3, <2>4
  <1>14. indices[1] = 1
    <2>1. 1 \in 1 .. threshold - 1 /\ 1 - 1 = 0
      OBVIOUS
    <2> QED
      BY <1>4, <1>8, <2>1
  (* The value that stands out. *)
  <1>15. ASSUME NEW i \in 1 .. n, StandsOut(run, i), ~ (short # {} /\ i = n - 1)
         PROVE  \E x \in 1 .. threshold : indices[x] = i
    <2>1. CASE i = 1
      BY <1>14, <2>1
    <2>2. CASE i = n
      <3>1. threshold \in 1 .. threshold
        OBVIOUS
      <3> QED
        BY <1>8, <2>2, <3>1
    <2>3. CASE i # 1 /\ i # n
      <3> DEFINE z == i - 1
                 T == { k \in Nat : z <= F(k) }
      <3>1. z \in 1 .. n - 2 /\ z + 1 = i
        BY <1>2, <2>3
      <3> HIDE DEF z
      <3>2. z <= F(top)
        <4>1. CASE top \in short
          <5>1. i # n - 1
            BY <1>15, <4>1
          <5>2. F(top) = n - 3
            BY <1>5, <4>1
          <5> QED
            BY <1>2, <3>1, <5>1, <5>2
        <4>2. CASE top \notin short
          BY <1>2, <1>5, <3>1, <4>2
        <4> QED
          BY <4>1, <4>2
      <3>3. T \in SUBSET Nat /\ top \in T
        BY <1>2, <3>2
      <3>4. PICK k \in T : \A j \in T : k <= j
        <4> HIDE DEF T
        <4> QED
          BY <3>3, LeastOf
      <3>5. k \in Nat /\ z <= F(k) /\ k <= top
        BY <3>3, <3>4
      <3>6. k \in 1 .. top
        <4>1. k # 0
          BY <1>5, <3>1, <3>5
        <4> QED
          BY <1>2, <3>5, <4>1
      <3>7. F(k - 1) < z
        <4>1. k - 1 \in Nat /\ ~ (k <= k - 1)
          BY <3>6
        <4>2. k - 1 \notin T
          BY <3>4, <4>1
        <4> QED
          BY <1>7, <3>1, <4>1, <4>2
      <3> HIDE DEF T
      <3> DEFINE next == Following(k)
                 anchor == s[k - 1]
                 first == F(k - 1) + 1
                 last == F(k)
                 j == s[k]
      <3>8. /\ first \in 1 .. n - 2 /\ last \in first .. n - 2
            /\ next.first = last + 1 /\ next.last \in next.first .. n - 1
            /\ anchor \in 0 .. first - 1
            /\ j \in first .. last
            /\ \A l \in first .. last : Area(run, anchor, l, next) <= Area(run, anchor, j, next)
        <4>1. /\ F(k - 1) + 1 \in 1 .. n - 2 /\ F(k) \in F(k - 1) + 1 .. n - 2
              /\ Following(k).first = F(k) + 1 /\ Following(k).last \in Following(k).first .. n - 1
              /\ s[k - 1] \in 0 .. (F(k - 1) + 1) - 1
              /\ s[k] \in F(k - 1) + 1 .. F(k)
          BY <1>3, <3>6
        <4>2. \A l \in F(k - 1) + 1 .. F(k) :
                 Area(run, s[k - 1], l, Following(k)) <= Area(run, s[k - 1], s[k], Following(k))
          BY <1>3, <3>6
        <4> QED
          BY <4>1, <4>2
      <3>9. z \in first .. last
        <4>1. F(k - 1) \in Int /\ F(k) \in Int
          <5>1. k - 1 \in Nat
            BY <3>6
          <5> QED
            BY <1>7, <3>5, <5>1
        <4> QED
          BY <3>1, <3>5, <3>7, <4>1
      <3> HIDE DEF next, anchor, first, last, j
      <3>10. /\ anchor \in 0 .. n - 1 /\ j \in 0 .. n - 1 /\ z \in 0 .. n - 1
             /\ next.first \in 0 .. n - 1 /\ next.last \in next.first .. n - 1
             /\ anchor < z /\ anchor < j /\ z < next.first /\ j < next.first
             /\ \A l \in next.first .. next.last : l \in 0 .. n - 1 /\ l # z
        BY <1>2, <3>8, <3>9
      <3>11. ASSUME NEW l \in 0 .. n - 1, l # z
             PROVE  Y(run[l + 1]) = Y(run[anchor + 1]) /\ Y(run[z + 1]) # Y(run[l + 1])
        <4>1. /\ l + 1 \in DOMAIN run \ {i} /\ anchor + 1 \in DOMAIN run \ {i}
              /\ z + 1 = i /\ i \in DOMAIN run
          BY <1>2, <3>1, <3>10, <3>11
        <4>2. /\ run[l + 1].value = run[anchor + 1].value
              /\ run[i].value # run[l + 1].value
          BY <1>15, <4>1 DEF StandsOut
        <4>3. run[l + 1] \in Valued /\ run[anchor + 1] \in Valued /\ run[i] \in Valued
          BY <4>1
        <4>4. /\ run[l + 1].value = {Y(run[l + 1])} /\ run[i].value = {Y(run[i])}
              /\ run[anchor + 1].value = {Y(run[anchor + 1])}
          BY <4>3, ValueIs
        <4>5. Y(run[l + 1]) = Y(run[anchor + 1])
          <5>1. {Y(run[l + 1])} = {Y(run[anchor + 1])}
            BY <4>2, <4>4
          <5> QED
            BY ONLY <5>1, Zenon
        <4>6. Y(run[i]) # Y(run[l + 1])
          BY <4>2, <4>4
        <4> QED
          BY <4>1, <4>5, <4>6
      <3>12. \A l \in next.first .. next.last : Y(run[l + 1]) = Y(run[anchor + 1])
        BY <3>10, <3>11
      <3>13. Y(run[z + 1]) # Y(run[anchor + 1])
        <4>1. anchor # z
          BY <3>10
        <4> QED
          BY <3>10, <3>11, <4>1
      <3>14. Area(run, anchor, z, next) \in Int /\ Area(run, anchor, z, next) > 0
        BY <3>10, <3>12, <3>13, AreaIs DEF n
      <3>15. j = z
        <4>1. ASSUME j # z PROVE FALSE
          <5>1. Y(run[j + 1]) = Y(run[anchor + 1])
            BY <3>10, <3>11, <4>1
          <5>2. Area(run, anchor, j, next) = 0
            BY <3>10, <3>12, <5>1, AreaIs DEF n
          <5>3. Area(run, anchor, z, next) <= Area(run, anchor, j, next)
            BY <3>8, <3>9
          <5> QED
            BY <3>14, <5>2, <5>3
        <4> QED
          BY <4>1
      <3>16. k + 1 \in 1 .. threshold - 1 /\ (k + 1) - 1 = k /\ k + 1 \in 1 .. threshold
        BY <1>2, <3>6
      <3>17. indices[k + 1] = i
        <4>1. indices[k + 1] = s[(k + 1) - 1] + 1
          <5> DEFINE x == k + 1
          <5>1. x \in 1 .. threshold - 1
            BY <3>16
          <5> HIDE DEF x
          <5>2. indices[x] = s[x - 1] + 1
            BY <1>8, <5>1
          <5> QED
            BY <5>2 DEF x
        <4> QED
          BY <3>1, <3>15, <3>16, <4>1 DEF j
      <3> QED
        BY <3>16, <3>17
    <2> QED
      BY <2>1, <2>2, <2>3
  <1>16. Takes(Downsampled(run, threshold, short), run, indices, threshold, threshold, short)
    <2>1. run # <<>> => threshold > 0 /\ indices[1] = 1 /\ indices[threshold] = Len(run)
      BY <1>8, <1>14 DEF n
    <2>2. ~ (Len(run) <= threshold)
      BY <1>2 DEF n
    <2>3. \A i \in DOMAIN run :
             StandsOut(run, i) => \/ \E x \in 1 .. threshold : indices[x] = i
                                  \/ short # {} /\ i = Len(run) - 1
      BY <1>2, <1>15 DEF n
    <2>4. \A x \in 1 .. threshold : indices[x] \in DOMAIN run
      BY <1>2, <1>12
    <2> QED
      BY <1>9, <1>13, <2>1, <2>2, <2>3, <2>4 DEF Takes
  <1> QED
    BY <1>16

(* What is left of a run. *)
LEMMA Taken ==
  ASSUME NEW run \in Seq(Valued), Ascending(run), NEW threshold \in Nat, threshold >= 3,
         NEW short, 0 \notin short
  PROVE  \E indices, m : Takes(Downsampled(run, threshold, short), run, indices, m,
                               threshold, short)
  <1>1. Len(run) <= threshold \/ Len(run) > threshold
    OBVIOUS
  <1> QED
    BY <1>1, WholeTaken, TooLongTaken

-----------------------------------------------------------------------------
(* HistoryChart: what is drawn of the first samples *)

ChartInv == samples \in Seq(ChartSamples) /\ Ascending(samples)

Shown(window, i) == i \in DOMAIN samples /\ samples[i].at >= Now - window

(* Nothing is missing between the samples from a to b, and nothing that is *)
(* shown goes on beyond them.                                              *)
Whole(window, a, b) ==
    /\ \A i \in a .. b : Shown(window, i) /\ samples[i].value # {}
    /\ \A i \in a + 1 .. b : ~ Hole(i - 1, i)

(* A run does not go on from p. *)
Cut(window, p) ==
    ~ Shown(window, p) \/ samples[p].value = {} \/ Hole(p, p + 1)

Maximal(window, a, b) ==
    /\ a \in Nat /\ b \in Nat /\ a <= b
    /\ Whole(window, a, b) /\ Cut(window, a - 1)
    /\ Shown(window, b + 1) => Hole(b, b + 1)

Shows(T, a, b, most, short) ==
    /\ a \in T /\ b \in T
    /\ Cardinality(T) <= most
    /\ Cardinality(a .. b) <= most => T = a .. b
    /\ \A i \in a .. b :
          (\A j, k \in (a .. b) \ {i} : samples[j].value = samples[k].value
                                        /\ samples[i].value # samples[j].value)
            => i \in T \/ (short # {} /\ i = b - 1)

ChartPoint == [at : Nat, value : SampleValues \cup {{}}]

(* The samples up to p are drawn: the points are samples of the window,    *)
(* given by their indices, or breaks, ...                                  *)
Along(output, source, window, p) ==
    \A x \in DOMAIN output :
       /\ Shown(window, source[x]) /\ output[x].at = samples[source[x]].at
       /\ output[x].value # {} => source[x] <= p /\ output[x] = Point(samples[source[x]])
       /\ output[x].value = {} => source[x] <= p + 1

(* ... they go forward, ...                                                *)
Onward(output, source) ==
    \A x, y \in DOMAIN output :
       x < y => /\ source[x] <= source[y]
                /\ output[x].value # {} /\ output[y].value # {} => source[x] < source[y]

(* ... are connected when nothing is missing between them, ...             *)
Connected(output, source) ==
    \A x, y \in Drawn(output) :
       x < y /\ (x + 1 .. y - 1) \cap Drawn(output) = {}
       => (y = x + 1 <=> ~ Hole(source[x], source[y]))

(* ... and show the runs.                                                  *)
DrawnOf(output, source, a, b) == { k \in a .. b : \E x \in Drawn(output) : source[x] = k }

RunsShown(output, source, window, p, most, short) ==
    \A a, b \in Nat :
       Maximal(window, a, b) /\ b <= p
       => Shows(DrawnOf(output, source, a, b), a, b, most, short)

Draws(output, source, window, p, most, short) ==
    /\ output \in Seq(ChartPoint)
    /\ Along(output, source, window, p)
    /\ Onward(output, source)
    /\ Connected(output, source)
    /\ RunsShown(output, source, window, p, most, short)

LEMMA SampleIs ==
  ASSUME ChartInv, NEW i \in DOMAIN samples
  PROVE  /\ i \in 1 .. Len(samples) /\ Len(samples) \in Nat
         /\ samples[i] \in ChartSamples /\ samples[i].at \in Nat /\ samples[i].value \in SampleValues
         /\ samples[i].interval \in Nat /\ samples[i].at <= Now /\ Now \in Nat
         /\ Point(samples[i]) \in ChartPoint
  <1>1. /\ samples[i] \in ChartSamples /\ i \in 1 .. Len(samples) /\ Len(samples) \in Nat
        /\ samples # <<>> /\ Len(samples) \in DOMAIN samples
    BY DEF ChartInv
  <1>2. /\ samples[i].at \in Nat /\ samples[i].value \in SampleValues
        /\ samples[i].interval \in Nat
    BY <1>1 DEF ChartSamples
  <1>3. Now = samples[Len(samples)].at
    BY <1>1 DEF Now, Last
  <1>4. samples[Len(samples)].at \in Nat
    <2>1. samples[Len(samples)] \in ChartSamples
      BY <1>1 DEF ChartInv
    <2> QED
      BY <2>1 DEF ChartSamples
  <1>5. samples[i].at <= Now
    <2>1. i = Len(samples) \/ i < Len(samples)
      BY <1>1
    <2> QED
      BY <1>1, <1>2, <1>3, <1>4, <2>1 DEF ChartInv, Ascending
  <1>6. Point(samples[i]) \in ChartPoint
    BY <1>2 DEF Point, ChartPoint
  <1> QED
    BY <1>1, <1>2, <1>3, <1>4, <1>5, <1>6

LEMMA Later ==
  ASSUME ChartInv, NEW i \in DOMAIN samples, NEW j \in DOMAIN samples
  PROVE  /\ i < j <=> samples[i].at < samples[j].at
         /\ i <= j <=> samples[i].at <= samples[j].at
         /\ i = j <=> samples[i].at = samples[j].at
  <1>1. /\ i \in Int /\ j \in Int /\ samples[i].at \in Int /\ samples[j].at \in Int
    BY SampleIs
  <1>2. /\ i < j => samples[i].at < samples[j].at
        /\ j < i => samples[j].at < samples[i].at
    BY DEF ChartInv, Ascending
  <1> QED
    BY <1>1, <1>2

LEMMA ShownOn ==
  ASSUME ChartInv, NEW window \in Nat, NEW i, Shown(window, i), NEW j \in DOMAIN samples, i <= j
  PROVE  Shown(window, j)
  <1>1. i \in DOMAIN samples /\ samples[i].at >= Now - window
    BY DEF Shown
  <1>2. samples[i].at <= samples[j].at
    BY <1>1, Later
  <1>3. samples[i].at \in Nat /\ samples[j].at \in Nat /\ Now \in Nat
    BY <1>1, SampleIs
  <1> QED
    BY <1>1, <1>2, <1>3 DEF Shown

LEMMA HoleStays ==
  ASSUME NEW a \in Int, NEW b \in Int, NEW c \in Int, NEW d \in Int, a <= c, d <= b, Hole(c, d)
  PROVE  Hole(a, b)
  <1>1. \A i \in c + 1 .. d : i \in a + 1 .. b
    OBVIOUS
  <1> QED
    BY <1>1 DEF Hole

LEMMA HoleIsBetween ==
  ASSUME NEW a \in Int, NEW b \in Int, Hole(a, b)
  PROVE  \E i \in a + 1 .. b : Hole(i - 1, i)
  <1>1. PICK i \in a + 1 .. b :
           \/ samples[i].value = {}
           \/ \A j \in {i - 1, i} : samples[i].at - samples[i - 1].at > 3 * samples[j].interval
    BY DEF Hole
  <1>2. i \in (i - 1) + 1 .. i
    OBVIOUS
  <1>3. Hole(i - 1, i)
    BY <1>1, <1>2 DEF Hole
  <1> QED
    BY <1>3

LEMMA NoHole ==
  ASSUME NEW window, NEW p \in Int, NEW i \in Int, Whole(window, p, i),
         NEW a \in p .. i, NEW b \in p .. i
  PROVE  ~ Hole(a, b)
  <1>1. \A j \in a + 1 .. b : j \in p + 1 .. i
    OBVIOUS
  <1> QED
    BY <1>1, HoleIsBetween DEF Whole

(* GapBetween is a hole between two samples that follow each other. *)
LEMMA HoleIs ==
  ASSUME ChartInv, NEW i \in DOMAIN samples, i + 1 \in DOMAIN samples
  PROVE  Hole(i, i + 1) <=> \/ samples[i + 1].value = {}
                            \/ GapBetween(samples[i], samples[i + 1])
  <1>1. i \in Int /\ i + 1 .. i + 1 = {i + 1} /\ (i + 1) - 1 = i
    BY SampleIs
  <1>2. /\ samples[i].interval \in Nat /\ samples[i + 1].interval \in Nat
        /\ samples[i].at \in Nat /\ samples[i + 1].at \in Nat
    BY SampleIs
  <1>3. Hole(i, i + 1) <=>
          \/ samples[i + 1].value = {}
          \/ \A j \in {i, i + 1} :
                samples[i + 1].at - samples[i].at > 3 * samples[j].interval
    BY <1>1 DEF Hole
  <1>4. GapBetween(samples[i], samples[i + 1]) <=>
          /\ samples[i + 1].at - samples[i].at > 3 * samples[i].interval
          /\ samples[i + 1].at - samples[i].at > 3 * samples[i + 1].interval
    BY <1>2 DEF GapBetween, AtLeast
  <1>5. (\A j \in {i, i + 1} : samples[i + 1].at - samples[i].at > 3 * samples[j].interval)
        <=> /\ samples[i + 1].at - samples[i].at > 3 * samples[i].interval
            /\ samples[i + 1].at - samples[i].at > 3 * samples[i + 1].interval
    OBVIOUS
  <1> QED
    BY <1>3, <1>4, <1>5

(* A run that ends within what follows a cut is all of it. *)
LEMMA MaximalIs ==
  ASSUME ChartInv, NEW window \in Nat, NEW p \in Nat, NEW i \in Nat,
         i \in DOMAIN samples, Whole(window, p + 1, i), Cut(window, p),
         NEW a \in Nat, NEW b \in Nat, Maximal(window, a, b), p < b, b <= i
  PROVE  a = p + 1 /\ b = i
  <1>1. /\ a <= b /\ Whole(window, a, b) /\ Cut(window, a - 1)
        /\ Shown(window, b + 1) => Hole(b, b + 1)
    BY DEF Maximal
  <1>2. ASSUME a <= p PROVE FALSE
    <2>1. p \in a .. b /\ p + 1 \in a + 1 .. b /\ (p + 1) - 1 = p
      BY <1>2
    <2>2. Shown(window, p) /\ samples[p].value # {} /\ ~ Hole(p, p + 1)
      BY <1>1, <2>1 DEF Whole
    <2> QED
      BY <2>2 DEF Cut
  <1>3. ASSUME a > p + 1 PROVE FALSE
    <2>1. a - 1 \in p + 1 .. i /\ a \in (p + 1) + 1 .. i /\ (a - 1) + 1 = a
      BY <1>1, <1>3
    <2>2. Shown(window, a - 1) /\ samples[a - 1].value # {} /\ ~ Hole(a - 1, a)
      BY <2>1 DEF Whole
    <2> QED
      BY <1>1, <2>1, <2>2 DEF Cut
  <1>4. ASSUME b < i PROVE FALSE
    <2>1. b + 1 \in p + 1 .. i /\ b + 1 \in (p + 1) + 1 .. i /\ (b + 1) - 1 = b
      BY <1>4
    <2>2. Shown(window, b + 1) /\ ~ Hole(b, b + 1)
      BY <2>1 DEF Whole
    <2> QED
      BY <1>1, <2>2
  <1> QED
    BY <1>2, <1>3, <1>4

LEMMA Joined ==
  ASSUME NEW S, NEW s \in Seq(S), NEW t \in Seq(S)
  PROVE  /\ s \o t \in Seq(S) /\ Len(s \o t) = Len(s) + Len(t)
         /\ \A x \in 1 .. Len(s) : x \in 1 .. Len(s) + Len(t) /\ (s \o t)[x] = s[x]
         /\ \A x \in 1 .. Len(t) : /\ x + Len(s) \in 1 .. Len(s) + Len(t)
                                   /\ (s \o t)[x + Len(s)] = t[x]
         /\ \A x \in 1 .. Len(s) + Len(t) :
               x \in 1 .. Len(s) \/ (x - Len(s) \in 1 .. Len(t) /\ x = (x - Len(s)) + Len(s))
  <1>1. Len(s) \in Nat /\ Len(t) \in Nat /\ DOMAIN s = 1 .. Len(s) /\ DOMAIN t = 1 .. Len(t)
    OBVIOUS
  <1>2. s \o t \in Seq(S) /\ Len(s \o t) = Len(s) + Len(t)
    OBVIOUS
  <1>3. ASSUME NEW x \in 1 .. Len(s)
        PROVE  x \in 1 .. Len(s) + Len(t) /\ (s \o t)[x] = s[x]
    BY <1>1
  <1>4. ASSUME NEW x \in 1 .. Len(t)
        PROVE  x + Len(s) \in 1 .. Len(s) + Len(t) /\ (s \o t)[x + Len(s)] = t[x]
    <2>1. x + Len(s) \in 1 .. Len(s) + Len(t) /\ x + Len(s) > Len(s)
          /\ (x + Len(s)) - Len(s) = x
      BY <1>1
    <2> QED
      BY <1>1, <2>1
  <1>5. \A x \in 1 .. Len(s) + Len(t) :
           x \in 1 .. Len(s) \/ (x - Len(s) \in 1 .. Len(t) /\ x = (x - Len(s)) + Len(s))
    BY <1>1
  <1> QED
    BY <1>2, <1>3, <1>4, <1>5

(* The samples from p + 1 to i. *)
Segment(p, i) == [x \in 1 .. i - p |-> samples[p + x]]

LEMMA SegmentIs ==
  ASSUME ChartInv, NEW window \in Nat, NEW p \in Nat, NEW i \in DOMAIN samples, p <= i,
         Whole(window, p + 1, i)
  PROVE  /\ Segment(p, i) \in Seq(Valued) /\ Len(Segment(p, i)) = i - p
         /\ Ascending(Segment(p, i))
         /\ \A x \in 1 .. i - p : /\ p + x \in p + 1 .. i /\ p + x \in DOMAIN samples
                                  /\ Segment(p, i)[x] = samples[p + x]
         /\ \A j \in p + 1 .. i : j - p \in 1 .. i - p /\ j = p + (j - p)
  <1>1. i \in Nat /\ i - p \in Nat /\ i <= Len(samples) /\ Len(samples) \in Nat
        /\ DOMAIN samples = 1 .. Len(samples)
    BY SampleIs DEF ChartInv
  <1>2. ASSUME NEW x \in 1 .. i - p
        PROVE  /\ p + x \in p + 1 .. i /\ p + x \in DOMAIN samples
               /\ samples[p + x] \in Valued
    <2>1. p + x \in p + 1 .. i /\ p + x \in DOMAIN samples
      BY <1>1
    <2>2. samples[p + x] \in ChartSamples /\ samples[p + x].value # {}
      BY <2>1, SampleIs DEF Whole
    <2> QED
      BY <2>1, <2>2 DEF Valued
  <1>3. \A j \in p + 1 .. i : j - p \in 1 .. i - p /\ j = p + (j - p)
    BY <1>1
  <1>4. Segment(p, i) \in Seq(Valued) /\ Len(Segment(p, i)) = i - p
    BY <1>1, <1>2 DEF Segment
  <1>5. \A x \in 1 .. i - p : Segment(p, i)[x] = samples[p + x]
    BY DEF Segment
  <1>6. Ascending(Segment(p, i))
    <2> SUFFICES ASSUME NEW x \in 1 .. i - p, NEW y \in 1 .. i - p, x < y
                 PROVE  Segment(p, i)[x].at < Segment(p, i)[y].at
      BY <1>4 DEF Ascending
    <2>1. p + x \in DOMAIN samples /\ p + y \in DOMAIN samples /\ p + x < p + y
      BY <1>2
    <2>2. samples[p + x].at < samples[p + y].at
      BY <2>1 DEF ChartInv, Ascending
    <2> QED
      BY <1>5, <2>2
  <1> QED
    BY <1>2, <1>3, <1>4, <1>5, <1>6

LEMMA SegmentShows ==
  ASSUME ChartInv, NEW window \in Nat, NEW p \in Nat, NEW i \in DOMAIN samples, p < i,
         Whole(window, p + 1, i), NEW most \in Nat, NEW short,
         NEW taken, NEW indices, NEW m, Takes(taken, Segment(p, i), indices, m, most, short),
         NEW T, T = { j \in p + 1 .. i : \E x \in 1 .. m : p + indices[x] = j }
  PROVE  Shows(T, p + 1, i, most, short)
  <1> DEFINE seg == Segment(p, i)
             n == i - p
  <1>1. /\ seg \in Seq(Valued) /\ Len(seg) = n
        /\ \A x \in 1 .. n : /\ p + x \in p + 1 .. i /\ p + x \in DOMAIN samples
                             /\ seg[x] = samples[p + x]
        /\ \A j \in p + 1 .. i : j - p \in 1 .. n /\ j = p + (j - p)
    <2>1. p <= i
      BY SampleIs
    <2> QED
      BY <2>1, SegmentIs
  <1>2. n \in Nat /\ n >= 1 /\ i \in Nat
    BY SampleIs
  <1> HIDE DEF seg
  <1>3. DOMAIN seg = 1 .. n /\ seg # <<>>
    BY <1>1, <1>2
  <1>4. /\ m \in Nat /\ m <= most /\ m > 0
        /\ \A x \in 1 .. m : indices[x] \in 1 .. n
        /\ indices[1] = 1 /\ indices[m] = n
        /\ n <= most => \A k \in 1 .. n : \E x \in 1 .. m : indices[x] = k
    BY <1>1, <1>3 DEF Takes, seg
  <1>5. \A k \in 1 .. n :
           StandsOut(seg, k) => \/ \E x \in 1 .. m : indices[x] = k
                                \/ short # {} /\ k = n - 1
    BY <1>1, <1>3 DEF Takes, seg
  <1>6. p + 1 \in T /\ i \in T
    <2>1. 1 \in 1 .. m /\ m \in 1 .. m
      BY <1>4
    <2>2. p + indices[1] = p + 1 /\ p + indices[m] = i
      BY <1>2, <1>4
    <2>3. p + 1 \in p + 1 .. i /\ i \in p + 1 .. i
      BY <1>2
    <2> QED
      BY <2>1, <2>2, <2>3
  <1>7. Cardinality(T) <= most
    <2> DEFINE f == [x \in 1 .. m |-> p + indices[x]]
    <2>1. f \in Surjection(1 .. m, T)
      <3>1. \A x \in 1 .. m : f[x] \in T
        <4> SUFFICES ASSUME NEW x \in 1 .. m PROVE p + indices[x] \in T
          OBVIOUS
        <4>1. p + indices[x] \in p + 1 .. i
          BY <1>1, <1>4
        <4> QED
          BY <4>1
      <3>2. \A j \in T : \E x \in 1 .. m : f[x] = j
        OBVIOUS
      <3>3. f \in [1 .. m -> T]
        BY <3>1
      <3> HIDE DEF f
      <3> QED
        BY <3>2, <3>3, Fun_IsSurj
    <2> HIDE DEF f
    <2>2. IsFiniteSet(1 .. m) /\ Cardinality(1 .. m) = m
      <3>1. 1 \in Int /\ m \in Int /\ ~ (1 > m) /\ m - 1 + 1 = m
        BY <1>4
      <3> QED
        BY <3>1, FS_Interval
    <2>3. Cardinality(T) <= Cardinality(1 .. m) /\ IsFiniteSet(T)
      BY <2>1, <2>2, FS_Surjection
    <2>4. Cardinality(T) \in Nat
      BY <2>3, FS_CardinalityType
    <2> QED
      BY <1>4, <2>2, <2>3, <2>4
  <1>8. ASSUME Cardinality(p + 1 .. i) <= most PROVE T = p + 1 .. i
    <2>1. Cardinality(p + 1 .. i) = i - (p + 1) + 1
      <3>1. p + 1 \in Int /\ i \in Int /\ ~ (p + 1 > i)
        BY <1>2
      <3> QED
        BY <3>1, FS_Interval
    <2>2. n <= most
      BY <1>2, <1>8, <2>1
    <2>3. ASSUME NEW j \in p + 1 .. i PROVE j \in T
      <3>1. j - p \in 1 .. n /\ j = p + (j - p)
        BY <1>1
      <3>2. PICK x \in 1 .. m : indices[x] = j - p
        BY <1>4, <2>2, <3>1
      <3>3. p + indices[x] = j
        BY <3>1, <3>2
      <3> QED
        BY <3>3
    <2> QED
      BY <2>3
  <1>9. ASSUME NEW j \in p + 1 .. i,
               \A k, l \in (p + 1 .. i) \ {j} : samples[k].value = samples[l].value
                                                /\ samples[j].value # samples[k].value
        PROVE  j \in T \/ (short # {} /\ j = i - 1)
    <2> DEFINE q == j - p
    <2>1. q \in 1 .. n /\ j = p + q
      BY <1>1
    <2> HIDE DEF q
    <2>2. StandsOut(seg, q)
      <3> SUFFICES ASSUME NEW k \in (1 .. n) \ {q}, NEW l \in (1 .. n) \ {q}
                   PROVE  seg[k].value = seg[l].value /\ seg[q].value # seg[k].value
        BY <1>3 DEF StandsOut
      <3>1. k \in 1 .. n /\ k # q /\ l \in 1 .. n /\ l # q
        OBVIOUS
      <3>2. p + k \in (p + 1 .. i) \ {j} /\ seg[k] = samples[p + k]
        <4>1. p + k \in p + 1 .. i /\ seg[k] = samples[p + k]
          BY <1>1, <3>1
        <4>2. p + k # j
          BY <1>2, <2>1, <3>1
        <4> QED
          BY <4>1, <4>2
      <3>3. p + l \in (p + 1 .. i) \ {j} /\ seg[l] = samples[p + l]
        <4>1. p + l \in p + 1 .. i /\ seg[l] = samples[p + l]
          BY <1>1, <3>1
        <4>2. p + l # j
          BY <1>2, <2>1, <3>1
        <4> QED
          BY <4>1, <4>2
      <3>4. seg[q] = samples[j]
        BY <1>1, <2>1
      <3> QED
        BY <1>9, <3>2, <3>3, <3>4
    <2>3. CASE short # {} /\ q = n - 1
      <3>1. j = i - 1
        BY <1>2, <2>1, <2>3
      <3> QED
        BY <2>3, <3>1
    <2>4. CASE \E x \in 1 .. m : indices[x] = q
      BY <2>1, <2>4
    <2> QED
      BY <1>5, <2>1, <2>2, <2>3, <2>4
  <1> QED
    BY <1>6, <1>7, <1>8, <1>9 DEF Shows

(* The last point that is drawn breaks the line. *)
Ends(output) == output # <<>> => output[Len(output)].value = {}

(* What is drawn of a segment comes after what is drawn before it. *)
LEMMA Extended ==
  ASSUME ChartInv, NEW window \in Nat, NEW p \in Nat, NEW i \in DOMAIN samples, p < i,
         Whole(window, p + 1, i), Cut(window, p), NEW most \in Nat, NEW short,
         NEW output, NEW source, Draws(output, source, window, p, most, short), Ends(output),
         NEW taken, NEW indices, NEW m, Takes(taken, Segment(p, i), indices, m, most, short)
  PROVE  \E more : Draws(output \o DrawnPoints(taken), more, window, i, most, short)
  <1> DEFINE l == Len(output)
             n == i - p
             seg == Segment(p, i)
             points == DrawnPoints(taken)
             joined == output \o points
             more == [x \in 1 .. l + m |-> IF x <= l THEN source[x] ELSE p + indices[x - l]]
  <1>1. /\ seg \in Seq(Valued) /\ Len(seg) = n
        /\ \A x \in 1 .. n : /\ p + x \in p + 1 .. i /\ p + x \in DOMAIN samples
                             /\ seg[x] = samples[p + x]
    <2>1. p <= i
      BY SampleIs
    <2> QED
      BY <2>1, SegmentIs
  <1>2. n \in Nat /\ n >= 1 /\ i \in Nat
    BY SampleIs
  <1>3. DOMAIN seg = 1 .. n /\ seg # <<>>
    BY <1>1, <1>2
  <1>4. /\ m \in Nat /\ m > 0
        /\ taken = [x \in 1 .. m |-> seg[indices[x]]]
        /\ \A x \in 1 .. m : indices[x] \in 1 .. n
        /\ \A x, y \in 1 .. m : x < y => indices[x] < indices[y]
        /\ indices[1] = 1
    BY <1>3 DEF Takes
  <1> HIDE DEF seg
  <1>5. ASSUME NEW x \in 1 .. m
        PROVE  /\ p + indices[x] \in p + 1 .. i /\ p + indices[x] \in DOMAIN samples
               /\ Shown(window, p + indices[x]) /\ samples[p + indices[x]].value # {}
               /\ points[x] = Point(samples[p + indices[x]])
               /\ points[x] \in ChartPoint /\ points[x].value # {}
               /\ points[x].at = samples[p + indices[x]].at
    <2>1. indices[x] \in 1 .. n /\ taken[x] = seg[indices[x]]
      BY <1>4
    <2>2. /\ p + indices[x] \in p + 1 .. i /\ p + indices[x] \in DOMAIN samples
          /\ taken[x] = samples[p + indices[x]]
      BY <1>1, <2>1
    <2>3. Shown(window, p + indices[x]) /\ samples[p + indices[x]].value # {}
      BY <2>2 DEF Whole
    <2>4. points[x] = Point(samples[p + indices[x]])
      BY <1>4, <2>2 DEF DrawnPoints
    <2>5. points[x] \in ChartPoint
      BY <2>2, <2>4, SampleIs
    <2> HIDE DEF points
    <2>6. points[x].value = samples[p + indices[x]].value
          /\ points[x].at = samples[p + indices[x]].at
      BY <2>4 DEF Point
    <2> QED
      BY <2>2, <2>3, <2>4, <2>5, <2>6
  <1>6. points \in Seq(ChartPoint) /\ Len(points) = m
    <2>1. points = [x \in 1 .. m |-> points[x]]
      BY <1>4 DEF DrawnPoints
    <2> HIDE DEF points
    <2> QED
      BY <1>4, <1>5, <2>1
  <1>7. /\ output \in Seq(ChartPoint) /\ l \in Nat /\ DOMAIN output = 1 .. l
        /\ Along(output, source, window, p) /\ Onward(output, source)
        /\ Connected(output, source) /\ RunsShown(output, source, window, p, most, short)
    BY DEF Draws
  <1> HIDE DEF points, l, n
  <1>8. /\ joined \in Seq(ChartPoint) /\ Len(joined) = l + m
        /\ \A x \in 1 .. l : x \in 1 .. l + m /\ joined[x] = output[x]
        /\ \A x \in 1 .. m : x + l \in 1 .. l + m /\ joined[x + l] = points[x]
        /\ \A x \in 1 .. l + m :
              x \in 1 .. l \/ (x - l \in 1 .. m /\ x = (x - l) + l)
    <2>1. /\ joined \in Seq(ChartPoint) /\ Len(joined) = Len(output) + Len(points)
          /\ \A x \in 1 .. Len(output) :
                x \in 1 .. Len(output) + Len(points) /\ joined[x] = output[x]
          /\ \A x \in 1 .. Len(points) : /\ x + Len(output) \in 1 .. Len(output) + Len(points)
                                         /\ joined[x + Len(output)] = points[x]
          /\ \A x \in 1 .. Len(output) + Len(points) :
                \/ x \in 1 .. Len(output)
                \/ x - Len(output) \in 1 .. Len(points) /\ x = (x - Len(output)) + Len(output)
      BY <1>6, <1>7, Joined
    <2> HIDE DEF joined
    <2> QED
      BY <1>6, <2>1 DEF l
  <1>9. DOMAIN joined = 1 .. l + m
    BY <1>8
  <1> HIDE DEF joined
  <1>10. /\ \A x \in 1 .. l : more[x] = source[x]
         /\ \A x \in 1 .. m : more[x + l] = p + indices[x]
    <2>1. \A x \in 1 .. l : x \in 1 .. l + m /\ x <= l
      BY <1>4, <1>7
    <2>2. \A x \in 1 .. m : x + l \in 1 .. l + m /\ ~ (x + l <= l) /\ (x + l) - l = x
      BY <1>4, <1>7
    <2> QED
      BY <2>1, <2>2
  <1> HIDE DEF more
  (* A point of before, and one of the segment. *)
  <1>11. ASSUME NEW x \in 1 .. l
         PROVE  /\ joined[x] = output[x] /\ more[x] = source[x]
                /\ Shown(window, source[x]) /\ source[x] \in DOMAIN samples
                /\ source[x] \in Nat /\ source[x] <= p + 1
                /\ output[x].at = samples[source[x]].at
                /\ output[x].value # {} => /\ source[x] <= p /\ samples[source[x]].value # {}
                                           /\ output[x] = Point(samples[source[x]])
    <2>1. /\ Shown(window, source[x]) /\ output[x].at = samples[source[x]].at
          /\ output[x].value # {} => source[x] <= p /\ output[x] = Point(samples[source[x]])
          /\ output[x].value = {} => source[x] <= p + 1
      BY <1>7 DEF Along
    <2>2. source[x] \in DOMAIN samples /\ source[x] \in Nat
      BY <2>1, SampleIs DEF Shown
    <2>3. source[x] <= p + 1
      BY <2>1, <2>2
    <2>4. output[x].value # {} => samples[source[x]].value # {}
      BY <2>1 DEF Point
    <2> QED
      BY <1>8, <1>10, <2>1, <2>2, <2>3, <2>4
  <1>12. ASSUME NEW x \in 1 .. l + m, x \notin 1 .. l
         PROVE  /\ x - l \in 1 .. m /\ x = (x - l) + l /\ joined[x] = points[x - l]
                /\ more[x] = p + indices[x - l] /\ more[x] \in p + 1 .. i
                /\ Shown(window, more[x]) /\ joined[x].at = samples[more[x]].at
                /\ joined[x].value # {} /\ joined[x] = Point(samples[more[x]])
    <2> DEFINE y == x - l
    <2>1. y \in 1 .. m /\ x = y + l
      BY <1>8, <1>12
    <2> HIDE DEF y
    <2>2. joined[y + l] = points[y] /\ more[y + l] = p + indices[y]
      BY <1>8, <1>10, <2>1
    <2>3. joined[x] = points[y] /\ more[x] = p + indices[y]
      BY <2>1, <2>2
    <2>4. /\ more[x] \in p + 1 .. i /\ Shown(window, more[x])
          /\ joined[x].at = samples[more[x]].at
          /\ joined[x].value # {} /\ joined[x] = Point(samples[more[x]])
      BY <1>5, <2>1, <2>3
    <2> QED
      BY <2>1, <2>3, <2>4 DEF y
  <1>13. Along(joined, more, window, i)
    <2> SUFFICES ASSUME NEW x \in 1 .. l + m
                 PROVE  /\ Shown(window, more[x]) /\ joined[x].at = samples[more[x]].at
                        /\ joined[x].value # {} =>
                              more[x] <= i /\ joined[x] = Point(samples[more[x]])
                        /\ joined[x].value = {} => more[x] <= i + 1
      BY <1>9 DEF Along
    <2>1. CASE x \in 1 .. l
      BY <1>2, <1>11, <2>1
    <2>2. CASE x \notin 1 .. l
      BY <1>2, <1>12, <2>2
    <2> QED
      BY <2>1, <2>2
  <1>14. Onward(joined, more)
    <2> SUFFICES ASSUME NEW x \in 1 .. l + m, NEW y \in 1 .. l + m, x < y
                 PROVE  /\ more[x] <= more[y]
                        /\ joined[x].value # {} /\ joined[y].value # {} => more[x] < more[y]
      BY <1>9 DEF Onward
    <2>1. CASE y \in 1 .. l
      <3>1. x \in 1 .. l
        BY <1>7, <2>1
      <3>2. /\ source[x] <= source[y]
            /\ output[x].value # {} /\ output[y].value # {} => source[x] < source[y]
        BY <1>7, <2>1, <3>1 DEF Onward
      <3> QED
        BY <1>11, <2>1, <3>1, <3>2
    <2>2. CASE x \in 1 .. l /\ y \notin 1 .. l
      <3>1. more[y] \in p + 1 .. i
        BY <1>12, <2>2
      <3>2. /\ more[x] \in Nat /\ more[x] <= p + 1
            /\ joined[x].value # {} => more[x] <= p
        BY <1>11, <2>2
      <3> QED
        BY <1>2, <3>1, <3>2
    <2>3. CASE x \notin 1 .. l /\ y \notin 1 .. l
      <3>1. /\ x - l \in 1 .. m /\ y - l \in 1 .. m /\ x - l < y - l
            /\ more[x] = p + indices[x - l] /\ more[y] = p + indices[y - l]
        <4>1. x - l < y - l
          BY <1>7
        <4> QED
          BY <1>12, <2>3, <4>1
      <3> DEFINE a == x - l
                 b == y - l
      <3>2. a \in 1 .. m /\ b \in 1 .. m /\ a < b
        BY <3>1
      <3> HIDE DEF a, b
      <3>3. indices[a] < indices[b] /\ indices[a] \in 1 .. n /\ indices[b] \in 1 .. n
        BY <1>4, <3>2
      <3>4. p + indices[a] < p + indices[b]
        BY <1>2, <3>3
      <3>5. more[x] < more[y] /\ more[x] \in Nat /\ more[y] \in Nat
        BY <1>12, <2>3, <3>1, <3>4 DEF a, b
      <3> QED
        BY <3>5
    <2> QED
      BY <1>7, <2>1, <2>2, <2>3
  <1>15. Connected(joined, more)
    <2> SUFFICES ASSUME NEW x \in 1 .. l + m, NEW y \in 1 .. l + m, x < y,
                        joined[x].value # {}, joined[y].value # {},
                        (x + 1 .. y - 1) \cap Drawn(joined) = {}
                 PROVE  y = x + 1 <=> ~ Hole(more[x], more[y])
      BY <1>9 DEF Connected, Drawn
    <2>1. CASE y \in 1 .. l
      <3>1. x \in 1 .. l
        BY <1>7, <2>1
      <3>2. (x + 1 .. y - 1) \cap Drawn(output) = {}
        <4> SUFFICES ASSUME NEW z \in x + 1 .. y - 1, z \in Drawn(output) PROVE FALSE
          OBVIOUS
        <4>1. z \in 1 .. l /\ z \in 1 .. l + m
          BY <1>4, <1>7, <2>1, <3>1
        <4>2. joined[z].value # {}
          BY <1>11, <4>1 DEF Drawn
        <4>3. z \in Drawn(joined)
          BY <1>9, <4>1, <4>2 DEF Drawn
        <4> QED
          BY <4>3
      <3>3. x \in Drawn(output) /\ y \in Drawn(output)
        BY <1>7, <1>11, <2>1, <3>1 DEF Drawn
      <3>4. y = x + 1 <=> ~ Hole(source[x], source[y])
        BY <1>7, <3>2, <3>3 DEF Connected
      <3> QED
        BY <1>11, <2>1, <3>1, <3>4
    <2>2. CASE x \in 1 .. l /\ y \notin 1 .. l
      <3>1. y = l + 1
        <4>1. ASSUME y # l + 1 PROVE FALSE
          <5>1. l + 1 \in x + 1 .. y - 1 /\ l + 1 \in 1 .. l + m /\ l + 1 \notin 1 .. l
            BY <1>4, <1>7, <2>2, <4>1
          <5>2. joined[l + 1].value # {}
            BY <1>12, <5>1
          <5>3. l + 1 \in Drawn(joined)
            BY <1>9, <5>1, <5>2 DEF Drawn
          <5> QED
            BY <5>1, <5>3
        <4> QED
          BY <4>1
      <3>2. x # l
        <4>1. ASSUME x = l PROVE FALSE
          <5>1. output # <<>> /\ output[l].value # {}
            BY <1>7, <1>11, <2>2, <4>1
          <5> QED
            BY <5>1 DEF Ends, l
        <4> QED
          BY <4>1
      <3>3. y # x + 1
        BY <1>7, <2>2, <3>1, <3>2
      <3>4. more[y] = p + 1
        <4>1. y - l = 1 /\ more[y] = p + indices[y - l]
          BY <1>7, <1>12, <2>2, <3>1
        <4>2. more[y] = p + indices[1]
          BY <4>1
        <4> QED
          BY <1>4, <4>2
      <3>5. /\ source[x] \in DOMAIN samples /\ source[x] \in Nat /\ source[x] <= p
            /\ Shown(window, source[x]) /\ samples[source[x]].value # {}
            /\ more[x] = source[x]
        BY <1>11, <2>2
      <3>6. p \in DOMAIN samples
        <4>1. source[x] \in 1 .. Len(samples) /\ i \in 1 .. Len(samples) /\ Len(samples) \in Nat
              /\ DOMAIN samples = 1 .. Len(samples)
          BY <3>5, SampleIs DEF ChartInv
        <4> QED
          BY <3>5, <4>1
      <3>7. Shown(window, p)
        BY <3>5, <3>6, ShownOn
      <3>8. Hole(source[x], p + 1)
        <4>1. CASE samples[p].value = {}
          <5>1. source[x] # p
            BY <3>5, <4>1
          <5>2. p \in source[x] + 1 .. p + 1
            BY <3>5, <5>1
          <5> QED
            BY <4>1, <5>2 DEF Hole
        <4>2. CASE Hole(p, p + 1)
          <5>1. p \in Int /\ p + 1 \in Int /\ source[x] \in Int /\ p + 1 <= p + 1
            BY <3>5
          <5> QED
            BY <3>5, <4>2, <5>1, HoleStays
        <4> QED
          BY <3>7, <4>1, <4>2 DEF Cut
      <3> QED
        BY <3>3, <3>4, <3>5, <3>8
    <2>3. CASE x \notin 1 .. l /\ y \notin 1 .. l
      <3>1. y = x + 1
        <4>1. ASSUME y # x + 1 PROVE FALSE
          <5>1. x + 1 \in x + 1 .. y - 1 /\ x + 1 \in 1 .. l + m /\ x + 1 \notin 1 .. l
            BY <1>4, <1>7, <2>3, <4>1
          <5>2. joined[x + 1].value # {}
            BY <1>12, <5>1
          <5>3. x + 1 \in Drawn(joined)
            BY <1>9, <5>1, <5>2 DEF Drawn
          <5> QED
            BY <5>1, <5>3
        <4> QED
          BY <4>1
      <3>2. more[x] \in p + 1 .. i /\ more[y] \in p + 1 .. i
        BY <1>12, <2>3
      <3>3. p + 1 \in Int /\ i \in Int
        BY <1>2
      <3>4. ~ Hole(more[x], more[y])
        BY <3>2, <3>3, NoHole
      <3> QED
        BY <3>1, <3>4
    <2> QED
      BY <1>7, <2>1, <2>2, <2>3
  <1>16. RunsShown(joined, more, window, i, most, short)
    <2> SUFFICES ASSUME NEW a \in Nat, NEW b \in Nat, Maximal(window, a, b), b <= i
                 PROVE  Shows(DrawnOf(joined, more, a, b), a, b, most, short)
      BY DEF RunsShown
    <2>1. CASE b <= p
      <3>1. ASSUME NEW k \in a .. b
            PROVE  (\E x \in Drawn(joined) : more[x] = k)
                     <=> (\E x \in Drawn(output) : source[x] = k)
        <4>1. ASSUME NEW x \in Drawn(joined), more[x] = k
              PROVE  \E z \in Drawn(output) : source[z] = k
          <5>1. x \in 1 .. l + m /\ joined[x].value # {}
            BY <1>9 DEF Drawn
          <5>2. x \in 1 .. l
            <6>1. ASSUME x \notin 1 .. l PROVE FALSE
              <7>1. more[x] \in p + 1 .. i
                BY <1>12, <5>1, <6>1
              <7> QED
                BY <2>1, <4>1, <7>1
            <6> QED
              BY <6>1
          <5>3. source[x] = k /\ x \in Drawn(output)
            BY <1>7, <1>11, <4>1, <5>1, <5>2 DEF Drawn
          <5> QED
            BY <5>3
        <4>2. ASSUME NEW x \in Drawn(output), source[x] = k
              PROVE  \E z \in Drawn(joined) : more[z] = k
          <5>1. x \in 1 .. l /\ output[x].value # {}
            BY <1>7 DEF Drawn
          <5>2. x \in 1 .. l + m /\ joined[x].value # {} /\ more[x] = k
            BY <1>8, <1>11, <4>2, <5>1
          <5>3. x \in Drawn(joined)
            BY <1>9, <5>2 DEF Drawn
          <5> QED
            BY <5>2, <5>3
        <4> QED
          BY <4>1, <4>2
      <3>2. DrawnOf(joined, more, a, b) = DrawnOf(output, source, a, b)
        BY <3>1 DEF DrawnOf
      <3> QED
        BY <1>7, <2>1, <3>2 DEF RunsShown
    <2>2. CASE p < b
      <3>1. a = p + 1 /\ b = i
        BY <1>2, <2>2, MaximalIs
      <3> DEFINE T == DrawnOf(joined, more, p + 1, i)
      <3>2. T = { j \in p + 1 .. i : \E x \in 1 .. m : p + indices[x] = j }
        <4>1. ASSUME NEW j \in p + 1 .. i
              PROVE  (\E x \in Drawn(joined) : more[x] = j)
                       <=> (\E x \in 1 .. m : p + indices[x] = j)
          <5>1. ASSUME NEW x \in Drawn(joined), more[x] = j
                PROVE  \E z \in 1 .. m : p + indices[z] = j
            <6>1. x \in 1 .. l + m /\ joined[x].value # {}
              BY <1>9 DEF Drawn
            <6>2. x \notin 1 .. l
              <7>1. ASSUME x \in 1 .. l PROVE FALSE
                <8>1. more[x] \in Nat /\ more[x] <= p
                  BY <1>11, <6>1, <7>1
                <8> QED
                  BY <5>1, <8>1
              <7> QED
                BY <7>1
            <6>3. x - l \in 1 .. m /\ more[x] = p + indices[x - l]
              BY <1>12, <6>1, <6>2
            <6> QED
              BY <5>1, <6>3
          <5>2. ASSUME NEW x \in 1 .. m, p + indices[x] = j
                PROVE  \E z \in Drawn(joined) : more[z] = j
            <6>1. x + l \in 1 .. l + m /\ more[x + l] = j /\ joined[x + l] = points[x]
              BY <1>8, <1>10, <5>2
            <6>2. joined[x + l].value # {}
              BY <1>5, <6>1
            <6>3. x + l \in Drawn(joined)
              BY <1>9, <6>1, <6>2 DEF Drawn
            <6> QED
              BY <6>1, <6>3
          <5> QED
            BY <5>1, <5>2
        <4> QED
          BY <4>1 DEF DrawnOf
      <3> HIDE DEF T
      <3>3. Shows(T, p + 1, i, most, short)
        BY <3>2, SegmentShows
      <3> QED
        BY <3>1, <3>3 DEF T
    <2> QED
      BY <2>1, <2>2
  <1>17. Draws(joined, more, window, i, most, short)
    BY <1>8, <1>13, <1>14, <1>15, <1>16 DEF Draws
  <1> QED
    BY <1>17 DEF joined, points

(* What is drawn of the samples before i, broken there. *)
LEMMA Broken ==
  ASSUME ChartInv, NEW window \in Nat, NEW i \in DOMAIN samples, Shown(window, i),
         NEW q \in {i - 1, i}, q = i => samples[i].value = {},
         NEW most, NEW short,
         NEW output, NEW source, Draws(output, source, window, i - 1, most, short)
  PROVE  /\ Ends(Break(output, samples[i]))
         /\ \E more : Draws(Break(output, samples[i]), more, window, q, most, short)
  <1> DEFINE l == Len(output)
             mark == [at |-> samples[i].at, value |-> {}]
             broken == Append(output, mark)
             more == [x \in 1 .. l + 1 |-> IF x <= l THEN source[x] ELSE i]
  <1>1. i \in Nat /\ i >= 1 /\ q \in Nat /\ i - 1 <= q /\ i <= q + 1 /\ (i - 1) + 1 = i
    BY SampleIs
  <1>2. /\ output \in Seq(ChartPoint) /\ l \in Nat /\ DOMAIN output = 1 .. l
        /\ Along(output, source, window, i - 1) /\ Onward(output, source)
        /\ Connected(output, source) /\ RunsShown(output, source, window, i - 1, most, short)
    BY DEF Draws
  <1>3. mark \in ChartPoint
    BY SampleIs DEF ChartPoint
  <1>4. ASSUME NEW a \in Nat, NEW b \in Nat, Maximal(window, a, b), b <= q
        PROVE  b <= i - 1 /\ Shows(DrawnOf(output, source, a, b), a, b, most, short)
    <2>1. ASSUME b > i - 1 PROVE FALSE
      <3>1. b = i /\ q = i
        BY <1>1, <1>4, <2>1
      <3>2. b \in a .. b
        BY <1>4 DEF Maximal
      <3> QED
        BY <1>4, <3>1, <3>2 DEF Maximal, Whole
    <2>2. b <= i - 1
      BY <1>1, <2>1
    <2> QED
      BY <1>2, <1>4, <2>2 DEF RunsShown
  <1>5. ASSUME NEW x \in 1 .. l
        PROVE  /\ Shown(window, source[x]) /\ output[x].at = samples[source[x]].at
               /\ source[x] \in Nat /\ source[x] <= i
               /\ output[x].value # {} => source[x] <= q /\ output[x] = Point(samples[source[x]])
    <2>1. /\ Shown(window, source[x]) /\ output[x].at = samples[source[x]].at
          /\ output[x].value # {} => source[x] <= i - 1 /\ output[x] = Point(samples[source[x]])
          /\ output[x].value = {} => source[x] <= (i - 1) + 1
      BY <1>2 DEF Along
    <2>2. source[x] \in Nat
      BY <2>1, SampleIs DEF Shown
    <2> QED
      BY <1>1, <2>1, <2>2
  <1>6. CASE output = <<>> \/ output[l].value = {}
    <2>1. Break(output, samples[i]) = output
      BY <1>6 DEF Break, Last
    <2>2. Along(output, source, window, q)
      BY <1>1, <1>2, <1>5 DEF Along
    <2>3. RunsShown(output, source, window, q, most, short)
      BY <1>4 DEF RunsShown
    <2>4. Draws(output, source, window, q, most, short)
      BY <1>2, <2>2, <2>3 DEF Draws
    <2> QED
      BY <1>6, <2>1, <2>4 DEF Ends
  <1>7. CASE output # <<>> /\ output[l].value # {}
    <2>1. Break(output, samples[i]) = broken
      BY <1>7 DEF Break, Last
    <2>2. /\ broken \in Seq(ChartPoint) /\ Len(broken) = l + 1
          /\ \A x \in 1 .. l : broken[x] = output[x]
          /\ broken[l + 1] = mark
      BY <1>2, <1>3
    <2>3. DOMAIN broken = 1 .. l + 1 /\ mark.value = {} /\ mark.at = samples[i].at
      BY <2>2
    <2> HIDE DEF broken, mark, l
    <2>4. /\ \A x \in 1 .. l : more[x] = source[x]
          /\ more[l + 1] = i
      <3>1. \A x \in 1 .. l : x \in 1 .. l + 1 /\ x <= l
        BY <1>2
      <3>2. l + 1 \in 1 .. l + 1 /\ ~ (l + 1 <= l)
        BY <1>2
      <3> QED
        BY <3>1, <3>2
    <2> HIDE DEF more
    <2>5. \A x \in 1 .. l + 1 : x \in 1 .. l \/ x = l + 1
      BY <1>2
    <2>6. Along(broken, more, window, q)
      <3> SUFFICES ASSUME NEW x \in 1 .. l + 1
                   PROVE  /\ Shown(window, more[x]) /\ broken[x].at = samples[more[x]].at
                          /\ broken[x].value # {} =>
                                more[x] <= q /\ broken[x] = Point(samples[more[x]])
                          /\ broken[x].value = {} => more[x] <= q + 1
        BY <2>3 DEF Along
      <3>1. CASE x \in 1 .. l
        BY <1>1, <1>5, <2>2, <2>4, <3>1
      <3>2. CASE x = l + 1
        BY <1>1, <2>2, <2>3, <2>4, <3>2
      <3> QED
        BY <2>5, <3>1, <3>2
    <2>7. Drawn(broken) = Drawn(output)
      <3>1. ASSUME NEW x \in 1 .. l + 1
            PROVE  broken[x].value # {} <=> x \in 1 .. l /\ output[x].value # {}
        <4>1. CASE x \in 1 .. l
          BY <2>2, <4>1
        <4>2. CASE x = l + 1
          BY <1>2, <2>2, <2>3, <4>2
        <4> QED
          BY <2>5, <4>1, <4>2
      <3>2. \A x \in 1 .. l : x \in 1 .. l + 1
        BY <1>2
      <3>3. Drawn(broken) = { x \in 1 .. l + 1 : broken[x].value # {} }
        BY <2>3 DEF Drawn
      <3>4. Drawn(output) = { x \in 1 .. l : output[x].value # {} }
        BY <1>2 DEF Drawn
      <3> QED
        BY <3>1, <3>2, <3>3, <3>4
    <2>8. \A x \in Drawn(output) : x \in 1 .. l /\ more[x] = source[x]
      BY <1>2, <2>4 DEF Drawn
    <2>9. Onward(broken, more)
      <3> SUFFICES ASSUME NEW x \in 1 .. l + 1, NEW y \in 1 .. l + 1, x < y
                   PROVE  /\ more[x] <= more[y]
                          /\ broken[x].value # {} /\ broken[y].value # {} => more[x] < more[y]
        BY <2>3 DEF Onward
      <3>1. x \in 1 .. l /\ more[x] = source[x] /\ broken[x] = output[x]
        BY <1>2, <2>2, <2>4
      <3>2. CASE y \in 1 .. l
        <4>1. more[y] = source[y] /\ broken[y] = output[y]
          BY <2>2, <2>4, <3>2
        <4> QED
          BY <1>2, <3>1, <3>2, <4>1 DEF Onward
      <3>3. CASE y = l + 1
        BY <1>5, <2>2, <2>3, <2>4, <3>1, <3>3
      <3> QED
        BY <2>5, <3>2, <3>3
    <2>10. Connected(broken, more)
      BY <1>2, <2>7, <2>8 DEF Connected
    <2>11. \A a, b : DrawnOf(broken, more, a, b) = DrawnOf(output, source, a, b)
      BY <2>7, <2>8 DEF DrawnOf
    <2>12. RunsShown(broken, more, window, q, most, short)
      BY <1>4, <2>11 DEF RunsShown
    <2>13. Draws(broken, more, window, q, most, short)
      BY <2>2, <2>6, <2>9, <2>10, <2>12 DEF Draws
    <2>14. Ends(broken)
      BY <2>2, <2>3 DEF Ends
    <2> QED
      BY <2>1, <2>13, <2>14
  <1> QED
    BY <1>6, <1>7 DEF l

LEMMA EmptySegment ==
  ASSUME NEW p \in Nat
  PROVE  Segment(p, p) = <<>>
  <1>1. 1 .. p - p = {}
    OBVIOUS
  <1> QED
    BY <1>1 DEF Segment

(* What is drawn of the samples up to p, and the run from there to j. *)
LEMMA Appended ==
  ASSUME ChartInv, NEW window \in Nat, NEW j \in 0 .. Len(samples), NEW p \in 0 .. j,
         Whole(window, p + 1, j), Cut(window, p), NEW max \in Nat, NEW short, 0 \notin short,
         NEW output, NEW source, Ends(output),
         Draws(output, source, window, p, AtLeast(max, MinPoints), short)
  PROVE  \E more : Draws(AppendSegment(output, Segment(p, j), max, short), more, window, j,
                         AtLeast(max, MinPoints), short)
  <1> DEFINE most == AtLeast(max, MinPoints)
             seg == Segment(p, j)
             taken == Downsampled(seg, most, short)
  <1>1. most \in Nat /\ most >= 3
    BY ChartAssumption DEF ChartAssumption, AtLeast
  <1>2. AppendSegment(output, seg, max, short) = output \o DrawnPoints(taken)
    BY DEF AppendSegment
  <1>3. Len(samples) \in Nat /\ j \in Nat /\ p \in Nat /\ DOMAIN samples = 1 .. Len(samples)
    BY DEF ChartInv
  <1>4. output \in Seq(ChartPoint)
    BY DEF Draws
  <1>5. CASE p = j
    <2>1. seg = <<>>
      BY <1>3, <1>5, EmptySegment
    <2>2. Len(seg) <= most
      BY <1>1, <2>1
    <2>3. taken = <<>>
      BY <2>1, <2>2 DEF Downsampled
    <2>4. DrawnPoints(taken) = <<>>
      BY <2>3 DEF DrawnPoints
    <2>5. output \o <<>> = output
      BY <1>4
    <2>6. AppendSegment(output, seg, max, short) = output
      BY <1>2, <2>4, <2>5
    <2> QED
      BY <1>5, <2>6
  <1>6. CASE p < j
    <2>1. j \in DOMAIN samples /\ p <= j
      BY <1>3, <1>6
    <2>2. seg \in Seq(Valued) /\ Ascending(seg)
      BY <1>3, <2>1, SegmentIs
    <2> HIDE DEF most, seg, taken
    <2>3. PICK indices, m : Takes(Downsampled(seg, most, short), seg, indices, m, most, short)
      BY <1>1, <2>2, Taken
    <2>4. Takes(taken, Segment(p, j), indices, m, most, short)
      BY <2>3 DEF taken, seg
    <2>5. Draws(output, source, window, p, most, short)
      BY DEF most
    <2>6. \E more : Draws(output \o DrawnPoints(taken), more, window, j, most, short)
      BY <1>1, <1>3, <1>6, <2>1, <2>4, <2>5, Extended
    <2> QED
      BY <1>2, <2>6 DEF seg, most
  <1> QED
    BY <1>3, <1>5, <1>6

(* What the loop has made of the samples up to i. *)
DrawInv(drawn, window, i, most, short) ==
    /\ \E p \in 0 .. i :
          /\ drawn.run = Segment(p, i)
          /\ Whole(window, p + 1, i) /\ Cut(window, p) /\ Ends(drawn.output)
          /\ \E source : Draws(drawn.output, source, window, p, most, short)
    /\ Shown(window, i) => drawn.previous = {samples[i]}
    /\ ~ Shown(window, i) => drawn = NothingDrawn

LEMMA NothingYet ==
  ASSUME ChartInv, NEW window \in Nat, NEW i \in 0 .. Len(samples), ~ Shown(window, i),
         NEW most, NEW short
  PROVE  DrawInv(NothingDrawn, window, i, most, short)
  <1> DEFINE nothing == NothingDrawn
  <1>1. /\ nothing.output = <<>> /\ nothing.run = <<>>
    BY DEF NothingDrawn
  <1>2. Len(samples) \in Nat /\ i \in Nat /\ DOMAIN samples = 1 .. Len(samples)
    BY DEF ChartInv
  <1> HIDE DEF nothing
  <1>3. Segment(i, i) = <<>>
    BY <1>2, EmptySegment
  <1>4. Whole(window, i + 1, i)
    <2>1. i + 1 .. i = {} /\ (i + 1) + 1 .. i = {}
      BY <1>2
    <2> QED
      BY <2>1 DEF Whole
  <1>5. Cut(window, i) /\ Ends(<<>>)
    BY DEF Cut, Ends
  <1>6. Draws(<<>>, <<>>, window, i, most, short)
    <2>1. DOMAIN <<>> = {} /\ <<>> \in Seq(ChartPoint)
      OBVIOUS
    <2>2. Drawn(<<>>) = {}
      BY <2>1 DEF Drawn
    <2>3. ASSUME NEW a \in Nat, NEW b \in Nat, Maximal(window, a, b), b <= i PROVE FALSE
      <3>1. b \in a .. b
        BY <2>3 DEF Maximal
      <3>2. Shown(window, b)
        BY <2>3, <3>1 DEF Maximal, Whole
      <3>3. b \in 1 .. Len(samples)
        BY <1>2, <3>2 DEF Shown
      <3>4. i \in DOMAIN samples
        BY <1>2, <2>3, <3>3
      <3>5. Shown(window, i)
        BY <2>3, <3>2, <3>4, ShownOn
      <3> QED
        BY <3>5
    <2>4. Along(<<>>, <<>>, window, i) /\ Onward(<<>>, <<>>)
      BY <2>1 DEF Along, Onward
    <2>5. Connected(<<>>, <<>>)
      BY <2>2 DEF Connected
    <2>6. RunsShown(<<>>, <<>>, window, i, most, short)
      BY <2>3 DEF RunsShown
    <2> QED
      BY <2>1, <2>4, <2>5, <2>6 DEF Draws
  <1>7. i \in 0 .. i
    BY <1>2
  <1>8. DrawInv(nothing, window, i, most, short)
    BY <1>1, <1>3, <1>4, <1>5, <1>6, <1>7 DEF DrawInv, nothing
  <1> QED
    BY <1>8 DEF nothing

LEMMA DrawKeeps ==
  ASSUME ChartInv, NEW window \in Nat, NEW i \in DOMAIN samples, Shown(window, i),
         NEW max \in Nat, NEW short, 0 \notin short, NEW drawn,
         DrawInv(drawn, window, i - 1, AtLeast(max, MinPoints), short)
  PROVE  DrawInv(Draw(drawn, samples[i], max, short), window, i,
                 AtLeast(max, MinPoints), short)
  <1> DEFINE most == AtLeast(max, MinPoints)
             s == samples[i]
             hole == s.value = {} \/ \E q \in drawn.previous : GapBetween(q, s)
             r == Draw(drawn, s, max, short)
             added == IF s.value = {} THEN <<>> ELSE <<s>>
             appended == AppendSegment(drawn.output, drawn.run, max, short)
  <1>1. /\ i \in 1 .. Len(samples) /\ Len(samples) \in Nat /\ DOMAIN samples = 1 .. Len(samples)
        /\ i \in Nat /\ i - 1 \in 0 .. Len(samples) /\ (i - 1) + 1 = i /\ i >= 1
    BY SampleIs DEF ChartInv
  <1>2. PICK p \in 0 .. i - 1 :
          /\ drawn.run = Segment(p, i - 1)
          /\ Whole(window, p + 1, i - 1) /\ Cut(window, p) /\ Ends(drawn.output)
          /\ \E source : Draws(drawn.output, source, window, p, most, short)
    BY DEF DrawInv
  <1>3. PICK source : Draws(drawn.output, source, window, p, most, short)
    BY <1>2
  <1>4. /\ r.output = IF hole THEN Break(appended, s) ELSE drawn.output
        /\ r.run = (IF hole THEN <<>> ELSE drawn.run) \o added
        /\ r.previous = {s}
    BY DEF Draw
  <1>5. hole <=> s.value = {} \/ (Shown(window, i - 1) /\ Hole(i - 1, i))
    <2>1. CASE Shown(window, i - 1)
      <3>1. drawn.previous = {samples[i - 1]}
        BY <2>1 DEF DrawInv
      <3>2. i - 1 \in DOMAIN samples
        BY <2>1 DEF Shown
      <3> DEFINE j == i - 1
      <3>3. j \in DOMAIN samples /\ j + 1 \in DOMAIN samples /\ j + 1 = i
        BY <1>1, <3>2
      <3> HIDE DEF j
      <3>4. Hole(j, j + 1) <=> samples[j + 1].value = {} \/ GapBetween(samples[j], samples[j + 1])
        BY <3>3, HoleIs
      <3>5. Hole(i - 1, i) <=> s.value = {} \/ GapBetween(samples[i - 1], s)
        BY <3>3, <3>4 DEF j
      <3>6. (\E q \in drawn.previous : GapBetween(q, s)) <=> GapBetween(samples[i - 1], s)
        BY <3>1
      <3> QED
        BY <2>1, <3>5, <3>6
    <2>2. CASE ~ Shown(window, i - 1)
      <3>1. drawn.previous = {}
        BY <2>2 DEF DrawInv, NothingDrawn
      <3> QED
        BY <2>2, <3>1
    <2> QED
      BY <2>1, <2>2
  <1> HIDE DEF r, hole
  <1>6. SUFFICES \E q \in 0 .. i :
                   /\ r.run = Segment(q, i)
                   /\ Whole(window, q + 1, i) /\ Cut(window, q) /\ Ends(r.output)
                   /\ \E more : Draws(r.output, more, window, q, most, short)
    BY <1>4, <1>6 DEF DrawInv, r
  <1>7. CASE ~ hole
    <2>1. s.value # {} /\ (Shown(window, i - 1) => ~ Hole(i - 1, i))
      BY <1>5, <1>7
    <2>2. Whole(window, p + 1, i)
      <3>1. ASSUME NEW j \in p + 1 .. i PROVE Shown(window, j) /\ samples[j].value # {}
        <4>1. j = i \/ j \in p + 1 .. i - 1
          BY <1>1
        <4> QED
          BY <1>2, <2>1, <4>1 DEF Whole
      <3>2. ASSUME NEW j \in (p + 1) + 1 .. i PROVE ~ Hole(j - 1, j)
        <4>1. CASE j = i
          <5>1. i - 1 \in p + 1 .. i - 1
            BY <1>1, <4>1
          <5>2. Shown(window, i - 1)
            BY <1>2, <5>1 DEF Whole
          <5> QED
            BY <2>1, <4>1, <5>2
        <4>2. CASE j # i
          <5>1. j \in (p + 1) + 1 .. i - 1
            BY <1>1, <4>2
          <5> QED
            BY <1>2, <5>1 DEF Whole
        <4> QED
          BY <4>1, <4>2
      <3> QED
        BY <3>1, <3>2 DEF Whole
    <2>3. r.run = Segment(p, i) /\ r.output = drawn.output
      <3>1. r.run = Segment(p, i - 1) \o <<s>> /\ r.output = drawn.output
        BY <1>2, <1>4, <1>7, <2>1
      <3> DEFINE n == i - p
                 m == (i - 1) - p
                 a == Segment(p, i - 1)
      <3>2. n \in Nat /\ m \in Nat /\ n = m + 1 /\ p \in Nat
        BY <1>1
      <3>3. /\ a \in Seq(ChartSamples) /\ Len(a) = m /\ s \in ChartSamples
            /\ \A x \in 1 .. m : a[x] = samples[p + x]
        <4>1. s \in ChartSamples
          BY SampleIs
        <4>2. \A x \in 1 .. m : samples[p + x] \in ChartSamples
          <5> SUFFICES ASSUME NEW x \in 1 .. m PROVE samples[p + x] \in ChartSamples
            OBVIOUS
          <5>1. p + x \in DOMAIN samples
            BY <1>1, <3>2
          <5> QED
            BY <5>1, SampleIs
        <4>3. a = [x \in 1 .. m |-> samples[p + x]]
          BY DEF Segment
        <4> HIDE DEF a, m
        <4> QED
          BY <3>2, <4>1, <4>2, <4>3
      <3> HIDE DEF a, m, n
      <3>4. /\ Len(a \o <<s>>) = n /\ a \o <<s>> \in Seq(ChartSamples)
            /\ \A x \in 1 .. m : (a \o <<s>>)[x] = a[x]
            /\ (a \o <<s>>)[n] = s
        BY <3>2, <3>3
      <3>5. p + n = i
        BY <1>1 DEF n
      <3>6. ASSUME NEW x \in 1 .. n PROVE (a \o <<s>>)[x] = samples[p + x]
        <4>1. x \in 1 .. m \/ x = n
          BY <3>2
        <4> QED
          BY <3>3, <3>4, <3>5, <4>1
      <3>7. a \o <<s>> = [x \in 1 .. n |-> (a \o <<s>>)[x]]
        BY <3>4
      <3>8. Segment(p, i) = [x \in 1 .. n |-> samples[p + x]]
        BY DEF Segment, n
      <3>9. a \o <<s>> = Segment(p, i)
        BY <3>6, <3>7, <3>8
      <3> QED
        BY <3>1, <3>9 DEF a
    <2>4. p \in 0 .. i
      BY <1>1
    <2> QED
      BY <1>2, <1>3, <2>2, <2>3, <2>4
  <1>8. CASE hole
    <2>1. r.output = Break(appended, s) /\ r.run = <<>> \o added
      BY <1>4, <1>8
    <2>2. PICK more : Draws(appended, more, window, i - 1, most, short)
      BY <1>1, <1>2, <1>3, Appended
    <2> HIDE DEF appended
    <2>3. ASSUME NEW q \in {i - 1, i}, q = i => samples[i].value = {}
          PROVE  /\ Ends(r.output)
                 /\ \E m : Draws(r.output, m, window, q, most, short)
      BY <2>1, <2>2, <2>3, Broken
    <2>4. CASE s.value = {}
      <3>1. r.run = Segment(i, i)
        BY <1>1, <2>1, <2>4, EmptySegment
      <3>2. Whole(window, i + 1, i)
        <4>1. i + 1 .. i = {} /\ (i + 1) + 1 .. i = {}
          BY <1>1
        <4> QED
          BY <4>1 DEF Whole
      <3>3. Cut(window, i)
        BY <2>4 DEF Cut
      <3>4. i \in {i - 1, i} /\ i \in 0 .. i
        BY <1>1
      <3> QED
        BY <2>3, <2>4, <3>1, <3>2, <3>3, <3>4
    <2>5. CASE s.value # {}
      <3>1. r.run = Segment(i - 1, i)
        <4>1. r.run = <<s>>
          BY <2>1, <2>5
        <4>2. i - (i - 1) = 1 /\ (i - 1) + 1 = i
          BY <1>1
        <4>3. Segment(i - 1, i) = [x \in 1 .. 1 |-> samples[(i - 1) + x]]
          BY <4>2 DEF Segment
        <4>4. \A x \in 1 .. 1 : (i - 1) + x = i
          BY <1>1
        <4>5. Segment(i - 1, i) = [x \in 1 .. 1 |-> s]
          BY <4>3, <4>4
        <4>6. <<s>> = [x \in 1 .. 1 |-> s]
          OBVIOUS
        <4> QED
          BY <4>1, <4>5, <4>6
      <3>2. Whole(window, (i - 1) + 1, i)
        <4>1. (i - 1) + 1 .. i = {i} /\ ((i - 1) + 1) + 1 .. i = {}
          BY <1>1
        <4> QED
          BY <2>5, <4>1 DEF Whole
      <3>3. Cut(window, i - 1)
        BY <1>1, <1>5, <1>8, <2>5 DEF Cut
      <3>4. i - 1 \in {i - 1, i} /\ i - 1 \in 0 .. i /\ i - 1 # i
        BY <1>1
      <3>5. Ends(r.output) /\ \E m : Draws(r.output, m, window, i - 1, most, short)
        BY <2>3, <3>4
      <3> QED
        BY <3>1, <3>2, <3>3, <3>4, <3>5
    <2> QED
      BY <2>4, <2>5
  <1> QED
    BY <1>7, <1>8

LEMMA LoopIs ==
  ASSUME ChartInv, NEW window, NEW end, NEW max, NEW short
  PROVE  \E f : /\ f[0] = NothingDrawn
                /\ \A i \in 1 .. Len(samples) :
                      f[i] = IF Visible(samples[i], window, end)
                             THEN Draw(f[i - 1], samples[i], max, short)
                             ELSE f[i - 1]
                /\ ChartPoints(window, end, max, short) =
                     AppendSegment(f[Len(samples)].output, f[Len(samples)].run, max, short)
  <1> DEFINE n == Len(samples)
             Step(v, i) == IF Visible(samples[i], window, end)
                           THEN Draw(v, samples[i], max, short) ELSE v
             Goes(f, m) == f = [i \in 0 .. m |-> IF i = 0 THEN NothingDrawn
                                                ELSE Step(f[i - 1], i)]
             T == { m \in 0 .. n : \E f : Goes(f, m) }
  <1>1. n \in Nat
    BY DEF ChartInv
  <1> HIDE DEF n, Step
  <1>2. 0 \in T
    <2> DEFINE f == [i \in 0 .. 0 |-> NothingDrawn]
    <2>1. \A i \in 0 .. 0 : i = 0
      OBVIOUS
    <2>2. Goes(f, 0)
      BY <2>1
    <2>3. 0 \in 0 .. n
      BY <1>1
    <2> HIDE DEF Goes
    <2> QED
      BY <2>2, <2>3
  <1>3. ASSUME NEW m \in 0 + 1 .. n, m - 1 \in T PROVE m \in T
    <2>0. m \in Nat /\ m >= 1 /\ m \in 0 .. n
      BY <1>1
    <2>1. PICK f : Goes(f, m - 1)
      BY <1>3
    <2> DEFINE g == [i \in 0 .. m |-> IF i = m THEN Step(f[m - 1], m) ELSE f[i]]
    <2>2. ASSUME NEW i \in 0 .. m
          PROVE  g[i] = IF i = 0 THEN NothingDrawn ELSE Step(g[i - 1], i)
      <3>1. i # 0 => i - 1 \in 0 .. m /\ i - 1 # m /\ g[i - 1] = f[i - 1]
        BY <2>0
      <3>2. CASE i = m
        <4>1. g[i] = Step(f[m - 1], m) /\ i # 0
          BY <2>0, <3>2
        <4> HIDE DEF g
        <4> QED
          BY <3>1, <3>2, <4>1
      <3>3. CASE i # m
        <4>1. g[i] = f[i] /\ i \in 0 .. m - 1
          BY <2>0, <3>3
        <4>2. f[i] = IF i = 0 THEN NothingDrawn ELSE Step(f[i - 1], i)
          BY <2>1, <4>1
        <4> HIDE DEF g
        <4> QED
          BY <3>1, <4>1, <4>2
      <3> QED
        BY <3>2, <3>3
    <2>3. g = [i \in 0 .. m |-> g[i]]
      OBVIOUS
    <2> HIDE DEF g
    <2>4. Goes(g, m)
      BY <2>2, <2>3
    <2> HIDE DEF Goes
    <2> QED
      BY <2>0, <2>4
  <1>4. n \in T
    <2> DEFINE lo == 0
    <2>1. lo \in Int /\ n \in Int /\ lo \in T
      BY <1>1, <1>2
    <2>2. \A m \in lo + 1 .. n : m - 1 \in T => m \in T
      BY <1>3
    <2> HIDE DEF T, lo
    <2>3. \A m \in lo .. n : m \in T
      BY <2>1, <2>2, Onwards
    <2> QED
      BY <1>1, <2>3 DEF lo
  <1> DEFINE f == CHOOSE g : Goes(g, n)
  <1>5. Goes(f, n)
    <2>1. \E g : Goes(g, n)
      BY <1>4
    <2> HIDE DEF Goes
    <2> QED
      BY <2>1
  <1>6. ChartPoints(window, end, max, short) =
          AppendSegment(f[n].output, f[n].run, max, short)
    BY DEF ChartPoints, Step, n
  <1> HIDE DEF f
  <1>7. f[0] = NothingDrawn
    <2>1. 0 \in 0 .. n
      BY <1>1
    <2> QED
      BY <1>5, <2>1
  <1>8. ASSUME NEW i \in 1 .. n PROVE f[i] = Step(f[i - 1], i)
    <2>1. i \in 0 .. n /\ i # 0
      BY <1>1
    <2> QED
      BY <1>5, <2>1
  <1> QED
    BY <1>6, <1>7, <1>8 DEF n, Step

(* Every chart is drawn along the samples of its window. *)
LEMMA ChartDraws ==
  ASSUME ChartInv, NEW window \in Nat, NEW max \in Nat, NEW short, 0 \notin short
  PROVE  \E source : Draws(ChartPoints(window, Now, max, short), source, window, Len(samples),
                           AtLeast(max, MinPoints), short)
  <1> DEFINE n == Len(samples)
             most == AtLeast(max, MinPoints)
  <1>1. n \in Nat /\ DOMAIN samples = 1 .. n
    BY DEF ChartInv
  <1>2. PICK f : /\ f[0] = NothingDrawn
                 /\ \A i \in 1 .. n :
                       f[i] = IF Visible(samples[i], window, Now)
                              THEN Draw(f[i - 1], samples[i], max, short)
                              ELSE f[i - 1]
                 /\ ChartPoints(window, Now, max, short) =
                      AppendSegment(f[n].output, f[n].run, max, short)
    BY LoopIs
  <1>3. ASSUME NEW i \in 1 .. n PROVE Visible(samples[i], window, Now) <=> Shown(window, i)
    <2>1. samples[i].at <= Now /\ i \in DOMAIN samples
      BY <1>1, SampleIs
    <2> QED
      BY <2>1 DEF Visible, Shown
  <1> DEFINE T == { i \in 0 .. n : DrawInv(f[i], window, i, most, short) }
  <1>4. 0 \in T
    <2>1. 0 \in 0 .. n /\ ~ Shown(window, 0)
      BY <1>1 DEF Shown
    <2>2. DrawInv(NothingDrawn, window, 0, most, short)
      BY <2>1, NothingYet
    <2> QED
      BY <1>2, <2>1, <2>2
  <1>5. ASSUME NEW i \in 0 + 1 .. n, i - 1 \in T PROVE i \in T
    <2>1. i \in 1 .. n /\ i \in 0 .. n /\ i \in DOMAIN samples /\ i \in Nat
      BY <1>1
    <2>2. DrawInv(f[i - 1], window, i - 1, most, short)
      BY <1>5
    <2>3. CASE Shown(window, i)
      <3>1. f[i] = Draw(f[i - 1], samples[i], max, short)
        BY <1>2, <1>3, <2>1, <2>3
      <3>2. DrawInv(Draw(f[i - 1], samples[i], max, short), window, i, most, short)
        BY <2>1, <2>2, <2>3, DrawKeeps
      <3> QED
        BY <2>1, <3>1, <3>2
    <2>4. CASE ~ Shown(window, i)
      <3>1. f[i] = f[i - 1]
        BY <1>2, <1>3, <2>1, <2>4
      <3>2. ~ Shown(window, i - 1)
        <4>1. ASSUME Shown(window, i - 1) PROVE FALSE
          <5> DEFINE j == i - 1
          <5>1. Shown(window, j) /\ j <= i
            BY <2>1, <4>1
          <5> HIDE DEF j
          <5> QED
            BY <2>1, <2>4, <5>1, ShownOn
        <4> QED
          BY <4>1
      <3>3. f[i] = NothingDrawn
        BY <2>2, <3>1, <3>2 DEF DrawInv
      <3>4. DrawInv(NothingDrawn, window, i, most, short)
        BY <2>1, <2>4, NothingYet
      <3> QED
        BY <2>1, <3>3, <3>4
    <2> QED
      BY <2>3, <2>4
  <1>6. n \in T
    <2> DEFINE lo == 0
    <2>1. lo \in Int /\ n \in Int /\ lo \in T
      BY <1>1, <1>4
    <2>2. \A i \in lo + 1 .. n : i - 1 \in T => i \in T
      BY <1>5
    <2> HIDE DEF T, lo
    <2>3. \A i \in lo .. n : i \in T
      BY <2>1, <2>2, Onwards
    <2> QED
      BY <1>1, <2>3 DEF lo
  <1>7. PICK p \in 0 .. n :
          /\ f[n].run = Segment(p, n)
          /\ Whole(window, p + 1, n) /\ Cut(window, p) /\ Ends(f[n].output)
          /\ \E source : Draws(f[n].output, source, window, p, most, short)
    BY <1>6 DEF DrawInv
  <1>8. n \in 0 .. Len(samples)
    BY <1>1
  <1>9. \E more : Draws(AppendSegment(f[n].output, Segment(p, n), max, short), more, window, n,
                        most, short)
    BY <1>7, <1>8, Appended
  <1> QED
    BY <1>2, <1>7, <1>9

LEMMA SampleAtIs ==
  ASSUME ChartInv, NEW i \in DOMAIN samples
  PROVE  SampleAt(samples[i].at) = i
  BY Later DEF SampleAt

(* A chart that is drawn along the samples breaks at the holes, ...        *)
LEMMA BreaksThere ==
  ASSUME ChartInv, NEW window, NEW most, NEW short,
         NEW chart, NEW source, Draws(chart, source, window, Len(samples), most, short)
  PROVE  /\ Forward(chart)
         /\ \A i, j \in Drawn(chart) :
              i < j /\ (i + 1 .. j - 1) \cap Drawn(chart) = {}
              => (j = i + 1 <=> ~Hole(SampleAt(chart[i].at), SampleAt(chart[j].at)))
  <1>1. /\ Along(chart, source, window, Len(samples)) /\ Onward(chart, source)
        /\ Connected(chart, source)
    BY DEF Draws
  <1>2. ASSUME NEW x \in DOMAIN chart
        PROVE  /\ source[x] \in DOMAIN samples /\ chart[x].at = samples[source[x]].at
               /\ chart[x].value # {} => chart[x] = Point(samples[source[x]])
               /\ SampleAt(chart[x].at) = source[x]
    <2>1. /\ source[x] \in DOMAIN samples /\ chart[x].at = samples[source[x]].at
          /\ chart[x].value # {} => chart[x] = Point(samples[source[x]])
      BY <1>1 DEF Along, Shown
    <2> QED
      BY <2>1, SampleAtIs
  <1>3. ASSUME NEW i \in DOMAIN chart, NEW j \in DOMAIN chart, i < j
        PROVE  /\ chart[i].at <= chart[j].at
               /\ chart[i].value # {} /\ chart[j].value # {} => chart[i].at < chart[j].at
    <2>1. /\ source[i] <= source[j]
          /\ chart[i].value # {} /\ chart[j].value # {} => source[i] < source[j]
      BY <1>1, <1>3 DEF Onward
    <2>2. /\ source[i] \in DOMAIN samples /\ source[j] \in DOMAIN samples
          /\ chart[i].at = samples[source[i]].at /\ chart[j].at = samples[source[j]].at
      BY <1>2
    <2> QED
      BY <2>1, <2>2, Later
  <1>4. Forward(chart)
    BY <1>2, <1>3 DEF Forward, Drawn
  <1>5. ASSUME NEW i \in Drawn(chart), NEW j \in Drawn(chart), i < j,
               (i + 1 .. j - 1) \cap Drawn(chart) = {}
        PROVE  j = i + 1 <=> ~Hole(SampleAt(chart[i].at), SampleAt(chart[j].at))
    <2>1. i \in DOMAIN chart /\ j \in DOMAIN chart
      BY DEF Drawn
    <2>2. j = i + 1 <=> ~ Hole(source[i], source[j])
      BY <1>1, <1>5 DEF Connected
    <2> QED
      BY <1>2, <2>1, <2>2
  <1> QED
    BY <1>4, <1>5

LEMMA RunIs ==
  ASSUME ChartInv, NEW window \in Nat, NEW S \in Run(window)
  PROVE  \E a, b \in Nat : /\ S = a .. b /\ Maximal(window, a, b) /\ b <= Len(samples)
                           /\ Min(S) = a /\ Max(S) = b
  <1> DEFINE shown == { i \in DOMAIN samples : samples[i].at >= Now - window }
  <1>1. PICK a \in shown, b \in shown : S = a .. b
    BY DEF Run
  <1>2. /\ S # {} /\ \A i \in S : samples[i].value # {}
        /\ \A i \in S : ~Hole(Min(S), i)
        /\ Min(S) - 1 \in shown =>
              samples[Min(S) - 1].value = {} \/ Hole(Min(S) - 1, Min(S))
        /\ Max(S) + 1 \in shown => Hole(Max(S), Max(S) + 1)
    BY DEF Run
  <1>3. /\ a \in Nat /\ b \in Nat /\ b <= Len(samples) /\ a >= 1
        /\ DOMAIN samples = 1 .. Len(samples) /\ Len(samples) \in Nat
    BY SampleIs DEF ChartInv
  <1>4. a <= b
    BY <1>1, <1>2, <1>3
  <1>5. Min(S) = a
    <2>1. a \in S /\ \A y \in S : a <= y /\ y \in Int
      BY <1>1, <1>3, <1>4
    <2> DEFINE m == Min(S)
    <2>2. m \in S /\ \A y \in S : m <= y
      BY <2>1 DEF Min
    <2> HIDE DEF m
    <2>3. m = a
      BY <1>3, <2>1, <2>2
    <2> QED
      BY <2>3 DEF m
  <1>6. Max(S) = b
    <2>1. b \in S /\ \A y \in S : b >= y /\ y \in Int
      BY <1>1, <1>3, <1>4
    <2> DEFINE m == Max(S)
    <2>2. m \in S /\ \A y \in S : m >= y
      BY <2>1 DEF Max
    <2> HIDE DEF m
    <2>3. m = b
      BY <1>3, <2>1, <2>2
    <2> QED
      BY <2>3 DEF m
  <1>7. \A i \in a .. b : Shown(window, i)
    <2> SUFFICES ASSUME NEW i \in a .. b PROVE Shown(window, i)
      OBVIOUS
    <2>1. i \in DOMAIN samples /\ a \in DOMAIN samples /\ a <= i
      BY <1>3
    <2>2. samples[a].at <= samples[i].at
      BY <2>1, Later
    <2> DEFINE u == samples[a].at
               v == samples[i].at
               t == Now
    <2>3. /\ u \in Nat /\ v \in Nat /\ t \in Nat /\ u <= v /\ u >= t - window
      BY <2>1, <2>2, SampleIs
    <2> HIDE DEF u, v, t
    <2>4. v >= t - window
      BY <2>3
    <2> QED
      BY <2>1, <2>4 DEF Shown, v, t
  <1>8. \A i \in a + 1 .. b : ~ Hole(i - 1, i)
    <2> SUFFICES ASSUME NEW i \in a + 1 .. b, Hole(i - 1, i) PROVE FALSE
      OBVIOUS
    <2>1. i \in S /\ i - 1 \in Int /\ i \in Int /\ a <= i - 1 /\ i <= i
      BY <1>1, <1>3
    <2>2. Hole(a, i)
      BY <1>3, <2>1, HoleStays
    <2> QED
      BY <1>2, <1>5, <2>1, <2>2
  <1>9. Cut(window, a - 1)
    <2>1. CASE a - 1 \in shown
      <3>1. samples[a - 1].value = {} \/ Hole(a - 1, a)
        BY <1>2, <1>5, <2>1
      <3>2. (a - 1) + 1 = a
        BY <1>3
      <3> QED
        BY <3>1, <3>2 DEF Cut
    <2>2. CASE a - 1 \notin shown
      BY <2>2 DEF Cut, Shown
    <2> QED
      BY <2>1, <2>2
  <1>10. Shown(window, b + 1) => Hole(b, b + 1)
    BY <1>2, <1>6 DEF Shown
  <1>11. \A i \in a .. b : samples[i].value # {}
    BY <1>1, <1>2
  <1>12. Maximal(window, a, b)
    BY <1>3, <1>4, <1>7, <1>8, <1>9, <1>10, <1>11 DEF Maximal, Whole
  <1> QED
    BY <1>1, <1>3, <1>5, <1>6, <1>12

(* ... and shows the runs.                                                 *)
ShowsRun(chart, S, most, short) ==
    LET times == { chart[i].at : i \in Drawn(chart) }
        T == { i \in S : samples[i].at \in times }
    IN /\ {Min(S), Max(S)} \subseteq T
       /\ Cardinality(T) <= most
       /\ Cardinality(S) <= most => T = S
       /\ \A i \in S :
             (\A j, k \in S \ {i} : samples[j].value = samples[k].value
                                    /\ samples[i].value # samples[j].value)
               => i \in T \/ (short # {} /\ i = Max(S) - 1)

LEMMA RunShows ==
  ASSUME ChartInv, NEW window \in Nat, NEW most, NEW short,
         NEW chart, NEW source, Draws(chart, source, window, Len(samples), most, short),
         NEW S \in Run(window)
  PROVE  ShowsRun(chart, S, most, short)
  <1> DEFINE times == { chart[i].at : i \in Drawn(chart) }
             T == { i \in S : samples[i].at \in times }
  <1>1. PICK a \in Nat, b \in Nat : /\ S = a .. b /\ Maximal(window, a, b)
                                   /\ b <= Len(samples) /\ Min(S) = a /\ Max(S) = b
    BY RunIs
  <1>2. Shows(DrawnOf(chart, source, a, b), a, b, most, short)
    BY <1>1 DEF Draws, RunsShown
  <1>3. T = DrawnOf(chart, source, a, b)
    <2>1. ASSUME NEW k \in a .. b
          PROVE  samples[k].at \in times <=> \E x \in Drawn(chart) : source[x] = k
      <3>1. k \in DOMAIN samples
        BY <1>1 DEF Maximal, Whole, Shown
      <3>2. ASSUME NEW x \in Drawn(chart)
            PROVE  samples[k].at = chart[x].at <=> source[x] = k
        <4>1. x \in DOMAIN chart
          BY DEF Drawn
        <4>2. source[x] \in DOMAIN samples /\ chart[x].at = samples[source[x]].at
          BY <4>1 DEF Draws, Along, Shown
        <4> QED
          BY <3>1, <4>2, Later
      <3> QED
        BY <3>2
    <2> QED
      BY <1>1, <2>1 DEF DrawnOf
  <1> HIDE DEF T
  <1>4. /\ a \in T /\ b \in T /\ Cardinality(T) <= most
        /\ Cardinality(a .. b) <= most => T = a .. b
        /\ \A i \in a .. b :
              (\A j, k \in (a .. b) \ {i} : samples[j].value = samples[k].value
                                            /\ samples[i].value # samples[j].value)
                => i \in T \/ (short # {} /\ i = b - 1)
    BY <1>2, <1>3 DEF Shows
  <1>5. {Min(S), Max(S)} \subseteq T
    BY <1>1, <1>4
  <1>6. \A i \in S :
           (\A j, k \in S \ {i} : samples[j].value = samples[k].value
                                  /\ samples[i].value # samples[j].value)
             => i \in T \/ (short # {} /\ i = Max(S) - 1)
    BY <1>1, <1>4
  <1>7. Cardinality(S) <= most => T = S
    BY <1>1, <1>4
  <1> QED
    BY <1>4, <1>5, <1>6, <1>7 DEF T, ShowsRun

LEMMA ChartHolds == ChartInv => BreaksAtHoles /\ ShowsRuns
  <1> SUFFICES ASSUME ChartInv PROVE BreaksAtHoles /\ ShowsRuns
    OBVIOUS
  <1>1. Windows \subseteq Nat /\ Points \subseteq Nat /\ \A short \in Roundings : 0 \notin short
    BY ChartAssumption DEF ChartAssumption
  <1>2. ASSUME NEW w \in Windows, NEW m \in Points, NEW short \in Roundings
        PROVE  \E source : Draws(ChartPoints(w, Now, m, short), source, w, Len(samples),
                                 AtLeast(m, MinPoints), short)
    BY <1>1, ChartDraws
  <1>3. BreaksAtHoles
    <2> SUFFICES ASSUME NEW w \in Windows, NEW m \in Points, NEW short \in Roundings,
                        NEW chart, chart = ChartPoints(w, Now, m, short)
                 PROVE  /\ Forward(chart)
                        /\ \A i, j \in Drawn(chart) :
                             i < j /\ (i + 1 .. j - 1) \cap Drawn(chart) = {}
                             => (j = i + 1
                                  <=> ~Hole(SampleAt(chart[i].at), SampleAt(chart[j].at)))
      BY DEF BreaksAtHoles, Charts
    <2>1. PICK source : Draws(chart, source, w, Len(samples), AtLeast(m, MinPoints), short)
      BY <1>2
    <2> QED
      BY <2>1, BreaksThere
  <1>4. ShowsRuns
    <2> SUFFICES ASSUME NEW w \in Windows, NEW m \in Points, NEW short \in Roundings,
                        NEW chart, chart = ChartPoints(w, Now, m, short),
                        NEW S \in Run(w)
                 PROVE  LET times == { chart[i].at : i \in Drawn(chart) }
                            T == { i \in S : samples[i].at \in times }
                        IN /\ {Min(S), Max(S)} \subseteq T
                           /\ Cardinality(T) <= AtLeast(m, MinPoints)
                           /\ Cardinality(S) <= AtLeast(m, MinPoints) => T = S
                           /\ \A i \in S :
                                 (\A j, k \in S \ {i} :
                                     samples[j].value = samples[k].value
                                     /\ samples[i].value # samples[j].value)
                                   => i \in T \/ (short # {} /\ i = Max(S) - 1)
      BY DEF ShowsRuns
    <2>1. PICK source : Draws(chart, source, w, Len(samples), AtLeast(m, MinPoints), short)
      BY <1>2
    <2>2. w \in Nat
      BY <1>1
    <2> DEFINE most == AtLeast(m, MinPoints)
    <2>3. Draws(chart, source, w, Len(samples), most, short)
      BY <2>1
    <2> HIDE DEF most
    <2>4. ShowsRun(chart, S, most, short)
      BY <2>2, <2>3, RunShows
    <2> QED
      BY <2>4 DEF most, ShowsRun
  <1> QED
    BY <1>3, <1>4

LEMMA ChartStarts == ChartInit => ChartInv
  BY DEF ChartInit, ChartInv, Ascending

(* The samples go forward in time. *)
LEMMA ChartInductive == ASSUME ChartInv, [ChartNext]_samples PROVE ChartInv'
  <1>1. CASE TakeSample
    <2>1. PICK value \in SampleValues, step \in Steps :
             samples' = Append(samples, [at |-> Now + step.gap,
                                         interval |-> step.interval, value |-> value])
      BY <1>1 DEF TakeSample
    <2> DEFINE s == [at |-> Now + step.gap, interval |-> step.interval, value |-> value]
               n == Len(samples)
    <2>2. step.gap \in Nat /\ step.gap > 0 /\ step.interval \in Nat \ {0}
      <3>1. step \in [gap : Nat \ {0}, interval : Nat \ {0}]
        BY ChartAssumption DEF ChartAssumption
      <3> QED
        BY <3>1
    <2>3. n \in Nat /\ DOMAIN samples = 1 .. n
      BY DEF ChartInv
    <2>4. Now \in Nat
      <3>1. CASE samples = <<>>
        BY <3>1 DEF Now
      <3>2. CASE samples # <<>>
        <4>1. n \in DOMAIN samples
          BY <2>3, <3>2
        <4> QED
          BY <4>1, SampleIs
      <3> QED
        BY <3>1, <3>2
    <2>5. s \in ChartSamples /\ s.at = Now + step.gap
      BY <2>2, <2>4 DEF ChartSamples
    <2> HIDE DEF s, n
    <2>6. /\ samples' \in Seq(ChartSamples) /\ DOMAIN samples' = 1 .. n + 1
          /\ \A i \in 1 .. n : samples'[i] = samples[i]
          /\ samples'[n + 1] = s
      <3>1. samples' = Append(samples, s) /\ samples \in Seq(ChartSamples)
        BY <2>1 DEF s, ChartInv
      <3>2. Append(samples, s) \in Seq(ChartSamples) /\ Len(Append(samples, s)) = n + 1
        BY <2>5, <3>1 DEF n
      <3>3. \A i \in 1 .. n : Append(samples, s)[i] = samples[i]
        BY <3>1 DEF n
      <3>4. Append(samples, s)[n + 1] = s
        BY <3>1 DEF n
      <3>5. DOMAIN Append(samples, s) = 1 .. n + 1
        BY <3>2
      <3> QED
        BY <3>1, <3>2, <3>3, <3>4, <3>5
    <2>7. Ascending(samples')
      <3> SUFFICES ASSUME NEW i \in 1 .. n + 1, NEW j \in 1 .. n + 1, i < j
                   PROVE  samples'[i].at < samples'[j].at
        BY <2>6 DEF Ascending
      <3>1. i \in 1 .. n /\ (j \in 1 .. n \/ j = n + 1)
        BY <2>3
      <3>2. CASE j \in 1 .. n
        BY <2>3, <2>6, <3>1, <3>2 DEF ChartInv, Ascending
      <3>3. CASE j = n + 1
        <4>1. samples[i].at <= Now /\ samples[i].at \in Nat
          BY <2>3, <3>1, SampleIs
        <4>2. samples'[i].at = samples[i].at /\ samples'[j].at = Now + step.gap
          BY <2>5, <2>6, <3>1, <3>3
        <4> QED
          BY <2>2, <2>4, <4>1, <4>2
      <3> QED
        BY <3>1, <3>2, <3>3
    <2> QED
      BY <2>6, <2>7 DEF ChartInv
  <1>2. CASE UNCHANGED samples
    BY <1>2 DEF ChartInv, Ascending
  <1> QED
    BY <1>1, <1>2 DEF ChartNext

-----------------------------------------------------------------------------
(* The parts together *)

RecordsInv == AlertInv /\ TypeOK /\ StoreTypeOK /\ StatInv /\ ChartInv

LEMMA RecordsInductive == ASSUME RecordsInv, [RecordsNext]_allVars PROVE RecordsInv'
  <1>0. AlertInv /\ TypeOK /\ StoreTypeOK /\ StatInv /\ ChartInv
    BY DEF RecordsInv
  <1>1. /\ [Next]_vars /\ [StoreNext]_storeVars /\ [StatisticsNext]_statisticsVars
        /\ [ChartNext]_samples
    <2>1. CASE RecordsNext
      BY <2>1 DEF RecordsNext
    <2>2. CASE UNCHANGED allVars
      BY <2>2 DEF allVars
    <2> QED
      BY <2>1, <2>2
  <1>2. AlertInv' /\ TypeOK'
    BY <1>0, <1>1, AlertInductive, AlertTyped
  <1>3. StoreTypeOK'
    BY <1>0, <1>1, StoreInductive
  <1>4. StatInv'
    BY <1>0, <1>1, StatInductive
  <1>5. ChartInv'
    BY <1>0, <1>1, ChartInductive
  <1> QED
    BY <1>2, <1>3, <1>4, <1>5 DEF RecordsInv

LEMMA RecordsStart == RecordsInit => RecordsInv
  BY AlertStart, AlertStarts, StoreStarts, StatStarts, ChartStarts DEF RecordsInit, RecordsInv

(* What is kept of the readings of a sensor, for any of them: every record *)
(* is well formed, an active alert never claims less than the reading      *)
(* calls for, and the running statistics are those of the readings that    *)
(* count since the reset or the change of the unit, although they are only *)
(* updated in place.                                                       *)
THEOREM RecordsAreConsistent == RecordsSpec => []RecordsConsistent
  <1>1. RecordsInit => RecordsInv
    BY RecordsStart
  <1>2. RecordsInv /\ [RecordsNext]_allVars => RecordsInv'
    BY RecordsInductive
  <1>3. RecordsInv => RecordsConsistent
    BY NeverBelow, StatExact DEF RecordsInv, RecordsConsistent
  <1> QED
    BY <1>1, <1>2, <1>3, PTL DEF RecordsSpec

(* Whatever has been sampled, every chart of it that may be drawn, for any *)
(* window, width and rounding, goes forward through real samples, breaks   *)
(* exactly where a reading has no value or a pause is not explained, and   *)
(* shows each run between two breaks from its first to its last sample, in *)
(* no more points than fit and with the value that stands out.             *)
THEOREM ChartsAreTrue == RecordsSpec => []ChartTrue
  <1>1. RecordsInit => RecordsInv
    BY RecordsStart
  <1>2. RecordsInv /\ [RecordsNext]_allVars => RecordsInv'
    BY RecordsInductive
  <1>3. RecordsInv => ChartTrue
    BY ChartHolds DEF RecordsInv, ChartTrue
  <1> QED
    BY <1>1, <1>2, <1>3, PTL DEF RecordsSpec

(* What the alerts and the history promise, in the composition as well:    *)
(* a behaviour of the records is one of each of them.                      *)
THEOREM RecordsKeepPromises ==
  RecordsSpec => RaisedExactlyWhenSustained /\ NoticesTrue /\ HistoryKept
  <1>1. RecordsInit => Init /\ StoreInit
    BY DEF RecordsInit
  <1>2. [RecordsNext]_allVars => [Next]_vars /\ [StoreNext]_storeVars
    <2>1. CASE RecordsNext
      BY <2>1 DEF RecordsNext
    <2>2. CASE UNCHANGED allVars
      BY <2>2 DEF allVars
    <2> QED
      BY <2>1, <2>2
  <1>3. RecordsSpec => Spec /\ StoreSpec
    BY <1>1, <1>2, PTL DEF RecordsSpec, Spec, StoreSpec
  <1> QED
    BY <1>3, RaisedWhenSustained, NoticesAreTrue, HistoryIsKept
=============================================================================
