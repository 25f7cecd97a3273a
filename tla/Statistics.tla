------------------------------- MODULE Statistics -------------------------------
(***************************************************************************)
(* The running statistics of one sensor, crates/hwall-core/src/            *)
(* statistics.rs, as the session of the graphical front end feeds them:    *)
(* from every snapshot it samples, and from the displayed one at a reset;  *)
(* an answer to an administrative request is displayed without entering    *)
(* them.  The counts are far from u64::MAX, where they would saturate.     *)
(***************************************************************************)
EXTENDS Integers, Sequences, FiniteSetsExt

CONSTANTS
    Quantities,  \* pairs of a kind and a unit
    Sensors,     \* what a snapshot may hold of the sensor
    MaxRounds    \* bound of the snapshots observed between two resets

(* value is an option, empty if it is not finite. *)
ASSUME StatisticsAssumption ==
    /\ \A s \in Sensors :
          /\ s \in [quantity : Quantities, value : SUBSET Int,
                    status : {"Ok", "Alarm", "Fault", "Unavailable"},
                    current : BOOLEAN]
          /\ \A x, y \in s.value : x = y
    /\ MaxRounds \in Nat

VARIABLES
    displayed,  \* the sensor in the displayed snapshot, an option
    entry,      \* its RunningStatistics, an option
    rounds,     \* sample_rounds
    observed    \* for the properties: the sensors observed since the reset

statisticsVars == <<displayed, entry, rounds, observed>>

(* The average is a fraction: a value and what it is to be divided by.     *)
RunningStatistics == [samples : Nat \ {0}, minimum : Int, maximum : Int,
                      average : Int \X (Nat \ {0}), quantity : Quantities]

StatisticsTypeOK ==
    /\ \A s \in displayed : s \in Sensors
    /\ \A e \in entry : e \in RunningStatistics
    /\ rounds = Len(observed)

-----------------------------------------------------------------------------
(* Intermittent sensors are left out: they never have an entry. *)
Counts(sensor) ==
    /\ sensor.current
    /\ sensor.status \notin {"Fault", "Unavailable"}
    /\ sensor.value # {}

Amount(sensor) == CHOOSE a \in sensor.value : TRUE

First(sensor) ==
    [samples |-> 1, minimum |-> Amount(sensor), maximum |-> Amount(sensor),
     average |-> <<Amount(sensor), 1>>, quantity |-> sensor.quantity]

(* average + (value - average) / samples *)
Moved(average, value, samples) ==
    <<average[1] * (samples - 1) + value * average[2], average[2] * samples>>

(* A mutant: a new unit does not restart the statistics. *)
EntryMixed(e, sensor) ==
    LET value == Amount(sensor)
    IN [e EXCEPT !.samples = @ + 1,
                 !.minimum = Min({@, value}), !.maximum = Max({@, value}),
                 !.average = Moved(@, value, e.samples + 1)]

EntryAfter(e, sensor) ==
    LET value == Amount(sensor)
    IN IF e.quantity # sensor.quantity THEN First(sensor)
       ELSE [e EXCEPT !.samples = @ + 1,
                      !.minimum = Min({@, value}), !.maximum = Max({@, value}),
                      !.average = Moved(@, value, e.samples + 1)]

(* observe, of an entry and the sensor of a snapshot *)
Observing(option, sensors) ==
    IF \E s \in sensors : Counts(s)
    THEN { IF option = {} THEN First(s) ELSE EntryAfter(CHOOSE e \in option : TRUE, s) :
             s \in sensors }
    ELSE option

(* A sample: the update of a refresh, or the first snapshot. *)
ObserveStatistics(sensors) ==
    /\ rounds < MaxRounds
    /\ displayed' = sensors
    /\ entry' = Observing(entry, sensors)
    /\ rounds' = rounds + 1
    /\ observed' = Append(observed, sensors)

(* The answer to a request for storage health or identifying information.  *)
DisplayAdministrative(sensors) ==
    /\ displayed' = sensors
    /\ UNCHANGED <<entry, rounds, observed>>

(* reset_with the displayed snapshot *)
ResetWith ==
    /\ entry' = Observing({}, displayed)
    /\ rounds' = 1
    /\ observed' = <<displayed>>
    /\ UNCHANGED displayed

StatisticsInit ==
    displayed = {} /\ entry = {} /\ rounds = 0 /\ observed = <<>>

StatisticsNext ==
    \/ \E sensors \in {{}} \cup { {s} : s \in Sensors } :
          ObserveStatistics(sensors) \/ DisplayAdministrative(sensors)
    \/ ResetWith

StatisticsSpec == StatisticsInit /\ [][StatisticsNext]_statisticsVars

-----------------------------------------------------------------------------
(* Properties *)

Counting == { i \in DOMAIN observed : \E s \in observed[i] : Counts(s) }
Reading(i) == CHOOSE s \in observed[i] : TRUE

(* Those since the later of the reset and the last change of the unit.     *)
Since ==
    { i \in Counting : \A j \in Counting :
          j >= i => Reading(j).quantity = Reading(i).quantity }

Sum(values, n) ==
    LET sum[i \in 0 .. n] == IF i = 0 THEN 0 ELSE sum[i - 1] + values[i]
    IN sum[n]

Total == Sum([i \in DOMAIN observed |-> IF i \in Since THEN Amount(Reading(i)) ELSE 0],
             Len(observed))

(* The statistics are those of every reading since the later of the reset  *)
(* and the last change of the unit, by their definition: no reading twice, *)
(* none that was missing, stale or invalid, and an average that the update *)
(* in place has not moved away from theirs.                                *)
StatisticsExact ==
    LET values == { Amount(Reading(i)) : i \in Since }
    IN /\ entry = {} <=> Counting = {}
       /\ \A e \in entry :
             /\ e.samples = Cardinality(Since)
             /\ e.minimum = Min(values) /\ e.maximum = Max(values)
             /\ e.average[1] * Cardinality(Since) = e.average[2] * Total
=============================================================================
