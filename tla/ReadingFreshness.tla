---------------------------- MODULE ReadingFreshness ----------------------------
(***************************************************************************)
(* How MonitorCollector (crates/hwall-core/src/monitor.rs) carries live    *)
(* readings from one collection to the next: what a sensor shows when its  *)
(* collector fails, when the sensor disappears, and when a full discovery  *)
(* confirms that it is gone.  Values, labels and devices are left out: a   *)
(* device is listed while a reading of it is.                              *)
(*                                                                         *)
(* Every sensor here has a collector and is not intermittent; storage      *)
(* health caches and derived telemetry follow other paths.                 *)
(***************************************************************************)
EXTENDS Naturals

CONSTANTS
    Sensors,     \* live sensors that may exist
    CollectorOf, \* CollectorId of each sensor
    Files,       \* sensors whose source is a file of sysfs
    Enrichable,  \* those of them that lm-sensors may label and scale
    Clocks,      \* effective clocks: their collector reports their freshness
    MayFail,     \* collectors that can fail, "LibSensors" perhaps among them
    MaxTime      \* bound on captured_at_unix_ms

Collectors == { CollectorOf[s] : s \in Sensors } \cup {"LibSensors"}

ASSUME FreshnessAssumption ==
    /\ CollectorOf \in [Sensors -> STRING]
    /\ Files \subseteq Sensors
    /\ Enrichable \subseteq Files
    /\ Clocks \subseteq Sensors \ Files
    /\ MayFail \subseteq Collectors
    /\ MaxTime \in Nat \ {0}

Freshness == {"Current", "Stale", "Unavailable", "Offline"}

Never == 0   \* last_updated_unix_ms is None

(* Sensor: freshness, last_updated_unix_ms, and whether the reading        *)
(* depends on lm-sensors (depends_on_libsensors).                          *)
Reading == [freshness : Freshness, updated : 0..MaxTime, enriched : BOOLEAN]

VARIABLES
    captured,  \* captured_at_unix_ms of the base snapshot
    base,      \* readings of the base snapshot, a function on some sensors
    lastGood,  \* when each sensor was last read, as its collector remembers
    last       \* the collection that made this snapshot, for the properties

vars == <<captured, base, lastGood, last>>

Listed == DOMAIN base

(* What a run of the collectors delivers: which collectors failed, which   *)
(* sensors they found and in what state, which of those lm-sensors         *)
(* labelled, which sensors' sysfs files exist, and which effective clocks  *)
(* were forgotten with their CPU.  A collector that fails delivers         *)
(* nothing; hwmon works on without lm-sensors.                             *)
Outcome ==
    [failed : SUBSET MayFail, found : SUBSET Sensors, files : SUBSET Files,
     enriched : SUBSET Enrichable, reported : [Clocks -> Freshness],
     forgotten : SUBSET Clocks]

Possible(o) ==
    /\ \A s \in o.found \cup o.forgotten : CollectorOf[s] \notin o.failed
    /\ o.enriched \subseteq (IF "LibSensors" \in o.failed THEN {} ELSE o.found)
    /\ o.found \cap Files \subseteq o.files
    /\ o.found \cap o.forgotten = {}
    /\ \A s \in Clocks \ o.found : o.reported[s] = "Unavailable"

Outcomes == { o \in Outcome : Possible(o) }

(* discard_degraded_libsensors_readings *)
Degraded(o) ==
    IF "LibSensors" \in o.failed THEN {s \in Listed : base[s].enriched} ELSE {}

Observed(o) == o.found \ Degraded(o)

Reported(o, s) == IF s \in Clocks THEN o.reported[s] ELSE "Current"

(* missing_freshness: unavailable only when its collector succeeded and    *)
(* the source is gone.  That the PMU still lists the event of an effective *)
(* clock does not count, so Files has no clocks.                           *)
MissingFreshness(o, s) ==
    IF /\ CollectorOf[s] \notin o.failed
       /\ s \notin Degraded(o)
       /\ s \notin o.files
    THEN "Unavailable" ELSE "Stale"

(* A reading of this collection.  In a fast one the overlay keeps the      *)
(* identification that lm-sensors once gave, when there is no better one.  *)
Fresh(o, s, full, sticky) ==
    [freshness |-> Reported(o, s),
     updated |-> IF Reported(o, s) = "Current" THEN captured' ELSE lastGood[s],
     enriched |-> s \in o.enriched
                  \/ (~full /\ s \in Listed /\ s \in sticky /\ base[s].enriched)]

(* Mutants: the reading stays as it was; its time is that of this snapshot; *)
(* a missing time stays missing.                                           *)
RetainedAsIs(o, s) == base[s]

RetainedStamped(o, s) ==
    [base[s] EXCEPT !.freshness = MissingFreshness(o, s), !.updated = captured']

RetainedTimeless(o, s) ==
    [base[s] EXCEPT !.freshness = MissingFreshness(o, s)]

(* A reading that was not observed.  A missing time becomes that of the    *)
(* previous snapshot.                                                      *)
Retained(o, s) ==
    [base[s] EXCEPT !.freshness = MissingFreshness(o, s),
                    !.updated = IF @ = Never THEN captured ELSE @]

(* A mutant: a full discovery keeps nothing that it did not observe. *)
KeptByFast(o, full) == { s \in Listed \ Observed(o) : ~full }

(* reconcile_missing_readings: a full discovery lets unavailable ones go. *)
Kept(o, full) ==
    { s \in Listed \ Observed(o) :
        full => MissingFreshness(o, s) # "Unavailable" }

(* snapshot_telemetry, forced or on the interval (full), or fast. *)
Collect(o, full, sticky) ==
    /\ \A s \in Clocks : o.reported[s] = "Stale" => lastGood[s] # Never
    /\ captured' \in {captured, captured + 1} \cap 0..MaxTime
    /\ base' = [s \in Observed(o) \cup Kept(o, full) |->
                  IF s \in Observed(o) THEN Fresh(o, s, full, sticky)
                  ELSE Retained(o, s)]
    /\ lastGood' = [s \in Sensors |->
                      IF s \in Observed(o) /\ Reported(o, s) = "Current"
                      THEN captured'
                      ELSE IF s \in o.forgotten THEN Never ELSE lastGood[s]]
    /\ last' = [full |-> full, observed |-> Observed(o),
                succeeded |-> { s \in Sensors : CollectorOf[s] \notin o.failed
                                                /\ s \notin Degraded(o) }]

(* MonitorCollector::new *)
Init ==
    /\ captured = 1
    /\ \E found \in SUBSET Sensors :
          /\ base \in [found -> Reading]
          /\ last = [full |-> TRUE, observed |-> found, succeeded |-> Sensors]
    /\ \A s \in Listed :
          /\ s \notin Enrichable => ~base[s].enriched
          /\ base[s].freshness \in (IF s \in Clocks
                                    THEN {"Unavailable", "Offline"} ELSE {"Current"})
          /\ base[s].updated = IF base[s].freshness = "Current"
                               THEN captured ELSE Never
    /\ lastGood = [s \in Sensors |-> IF s \in Listed THEN base[s].updated ELSE Never]

Next ==
    \E o \in Outcomes :
        \/ Collect(o, TRUE, {})
        \/ \E sticky \in SUBSET (Enrichable \cap o.found) : Collect(o, FALSE, sticky)

Spec == Init /\ [][Next]_vars

TypeOK ==
    /\ captured \in 1..MaxTime
    /\ Listed \subseteq Sensors
    /\ base \in [Listed -> Reading]
    /\ \A s \in Listed : base[s].freshness = "Stale" => base[s].updated # Never
    /\ lastGood \in [Sensors -> 0..MaxTime]
    /\ last \in [full : BOOLEAN, observed : SUBSET Sensors,
                 succeeded : SUBSET Sensors]

-----------------------------------------------------------------------------
(* Properties *)

(* What is shown as current was read by the collection just made: neither  *)
(* the overlay on the previous snapshot nor a degraded lm-sensors run lets *)
(* an old value pass for a new one.                                        *)
CurrentIsNew ==
    \A s \in Listed :
        base[s].freshness = "Current"
        => s \in last.observed /\ base[s].updated = captured

(* A reading that is not current carries the time at which it was last     *)
(* read, through any number of failures, omissions and discoveries.        *)
DimmedKeepsItsTime ==
    \A s \in Listed : lastGood[s] # Never => base[s].updated = lastGood[s]

(* No failure loses a reading: a sensor leaves the snapshot only in a full *)
(* discovery in which its collector succeeded and did not find it.         *)
OnlyConfirmedRemovals ==
    [][ \A s \in Listed \ DOMAIN base' :
          last'.full /\ s \in last'.succeeded \ last'.observed ]_vars
=============================================================================
