------------------------------ MODULE HistoryStore ------------------------------
(***************************************************************************)
(* The history of readings kept by the graphical front end,                *)
(* crates/hwall-gui/src/history.rs, with the recording controls of the     *)
(* sensor details windows, history_chart.rs and dialogs/sensor.rs.         *)
(* Everything here runs on the GTK main loop: a step is a callback.        *)
(* A sample is the time of its capture; its value and status are left out. *)
(***************************************************************************)
EXTENDS Integers, FiniteSets

CONSTANTS
    Keys,         \* sensors
    DurationChoices,      \* retentions that can be asked for
    MinRetention, \* MIN_HISTORY_RETENTION
    MaxRetention, \* MAX_HISTORY_RETENTION
    MaxClock       \* bound of the clock

ASSUME HistoryAssumption ==
    /\ {MinRetention, MaxRetention, MaxClock} \subseteq Nat
    /\ MinRetention <= MaxRetention
    /\ DurationChoices \subseteq Nat /\ DurationChoices # {}

Retentions == MinRetention .. MaxRetention
ExtendedRecording == [retention : Retentions, persistent : BOOLEAN]

(* An Optional is the set of its value. *)
Optional(S) == { option \in SUBSET S : \A x, y \in option : x = y }

SeriesHistory == [samples : SUBSET (0 .. MaxClock), recording : Optional(ExtendedRecording)]

VARIABLES
    clock,       \* the clock
    current,   \* sensors with a current reading in the displayed snapshot
    global,    \* global_retention
    series,    \* SeriesHistory of the sensors that have one
    windows    \* the controls of the open details windows

storeVars == <<clock, current, global, series, windows>>

(* recording, retention, persistent: the check buttons and the selector.   *)
Controls == [recording : BOOLEAN, retention : Retentions, persistent : BOOLEAN]

StoreTypeOK ==
    /\ clock \in 0 .. MaxClock
    /\ current \subseteq Keys
    /\ global \in Retentions
    /\ DOMAIN series \subseteq Keys
    /\ series \in [DOMAIN series -> SeriesHistory]
    /\ \A k \in DOMAIN series : \A s \in series[k].samples : s <= clock
    /\ DOMAIN windows \subseteq Keys
    /\ windows \in [DOMAIN windows -> Controls]

-----------------------------------------------------------------------------
(* Helpers *)

Clamp(r) ==
    IF r < MinRetention THEN MinRetention
    ELSE IF r > MaxRetention THEN MaxRetention ELSE r

Put(f, k, x) == [j \in DOMAIN f \cup {k} |-> IF j = k THEN x ELSE f[j]]
Without(f, k) == [j \in DOMAIN f \ {k} |-> f[j]]

(* The series of a sensor, a new one if it has none. *)
Entry(all, k) ==
    IF k \in DOMAIN all THEN all[k] ELSE [samples |-> {}, recording |-> {}]

Recording(k) == IF k \in DOMAIN series THEN series[k].recording ELSE {}
Recorded(k) == Recording(k) # {}
Samples(k) == IF k \in DOMAIN series THEN series[k].samples ELSE {}

Retention(one, globally) ==
    CHOOSE r \in Retentions :
        /\ r = globally \/ \E x \in one.recording : r = x.retention
        /\ r >= globally /\ \A x \in one.recording : r >= x.retention

(* A mutant: recordings do not keep anything longer. *)
PrunedGlobally(one, globally) ==
    [one EXCEPT !.samples = { s \in @ : s >= clock - globally }]

Pruned(one, globally) ==
    [one EXCEPT !.samples = { s \in @ : s >= clock - Retention(one, globally) }]

NonEmpty(all) ==
    [k \in { j \in DOMAIN all : all[j].samples # {} } |-> all[k]]

PrunedAll(all, globally) ==
    NonEmpty([k \in DOMAIN all |-> Pruned(all[k], globally)])

(* observe_at: a sample of every current reading, then everything is       *)
(* pruned, also sensors that are no longer read.                           *)
Observed(all, fresh) ==
    PrunedAll([k \in DOMAIN all \cup fresh |->
                  IF k \in fresh
                  THEN [Entry(all, k) EXCEPT !.samples = @ \cup {clock}]
                  ELSE all[k]],
              global)

(* start_extended: an empty series may be left, until something is pruned. *)
Started(k, retention, persistent) ==
    Put(series, k,
        Pruned([Entry(series, k) EXCEPT
                   !.recording = {[retention |-> Clamp(retention),
                                   persistent |-> persistent]}],
               global))

(* stop_extended: every empty series goes, not only this one. *)
Stopped(k) ==
    NonEmpty([j \in DOMAIN series |->
                 IF j = k THEN Pruned([series[j] EXCEPT !.recording = {}], global)
                 ELSE series[j]])

-----------------------------------------------------------------------------
(* Initially nothing has been read. *)
StoreInit ==
    /\ clock = 0
    /\ current = {}
    /\ global \in { Clamp(r) : r \in DurationChoices }
    /\ series = <<>>
    /\ windows = <<>>

ClockTicks ==
    /\ clock < MaxClock
    /\ clock' = clock + 1
    /\ UNCHANGED <<current, global, series, windows>>

(* Session::receive_update: a new sample. *)
Observe ==
    \E fresh \in SUBSET Keys :
        /\ current' = fresh
        /\ series' = Observed(series, fresh)
        /\ UNCHANGED <<clock, global, windows>>

(* Session::reset_statistics: everything is cleared, recordings go on, and *)
(* the displayed snapshot is observed again.                               *)
ResetStatistics ==
    /\ series' =
         Observed([k \in { j \in DOMAIN series : Recorded(j) } |->
                      [series[k] EXCEPT !.samples = {}]],
                  current)
    /\ UNCHANGED <<clock, current, global, windows>>

SetGlobalRetention ==
    \E r \in DurationChoices :
        /\ global' = Clamp(r)
        /\ series' = PrunedAll(series, Clamp(r))
        /\ UNCHANGED <<clock, current, windows>>

(* A details window shows the recording there is, or starts one. *)
OpenDetails(k) ==
    /\ k \notin DOMAIN windows
    /\ IF Recorded(k)
       THEN /\ windows' = Put(windows, k,
                  LET x == CHOOSE x \in Recording(k) : TRUE
                  IN [recording |-> TRUE, retention |-> x.retention,
                      persistent |-> x.persistent])
            /\ UNCHANGED series
       ELSE /\ windows' = Put(windows, k, [recording |-> TRUE,
                                           retention |-> global,
                                           persistent |-> FALSE])
            /\ series' = Started(k, global, FALSE)
    /\ UNCHANGED <<clock, current, global>>

StartRecording(k) ==
    /\ k \in DOMAIN windows /\ ~windows[k].recording
    /\ windows' = [windows EXCEPT ![k].recording = TRUE]
    /\ series' = Started(k, windows[k].retention, windows[k].persistent)
    /\ UNCHANGED <<clock, current, global>>

StopRecording(k) ==
    /\ k \in DOMAIN windows /\ windows[k].recording
    /\ windows' = [windows EXCEPT ![k].recording = FALSE]
    /\ series' = Stopped(k)
    /\ UNCHANGED <<clock, current, global>>

(* The selector and the second check button work only while the first is   *)
(* checked.  A new retention starts the recording anew, as persistent as   *)
(* the one that is found.                                                  *)
SetRetention(k) ==
    /\ k \in DOMAIN windows /\ windows[k].recording
    /\ \E r \in DurationChoices :
          /\ windows' = [windows EXCEPT ![k].retention = Clamp(r)]
          /\ series' = Started(k, r, \E x \in Recording(k) : x.persistent)
    /\ UNCHANGED <<clock, current, global>>

TogglePersistent(k) ==
    /\ k \in DOMAIN windows /\ windows[k].recording
    /\ windows' = [windows EXCEPT ![k].persistent = ~@]
    /\ series' = IF Recorded(k)
                 THEN [series EXCEPT ![k].recording =
                          { [x EXCEPT !.persistent = ~windows[k].persistent] : x \in @ }]
                 ELSE series
    /\ UNCHANGED <<clock, current, global>>

(* A recording that is not persistent ends with its window. *)
CloseDetails(k) ==
    /\ k \in DOMAIN windows
    /\ windows' = Without(windows, k)
    /\ series' = IF \E x \in Recording(k) : ~x.persistent THEN Stopped(k)
                 ELSE series
    /\ UNCHANGED <<clock, current, global>>

Details(k) ==
    \/ OpenDetails(k)
    \/ StartRecording(k)
    \/ StopRecording(k)
    \/ SetRetention(k)
    \/ TogglePersistent(k)
    \/ CloseDetails(k)

StoreNext ==
    \/ ClockTicks
    \/ Observe
    \/ ResetStatistics
    \/ SetGlobalRetention
    \/ \E k \in Keys : Details(k)

StoreSpec == StoreInit /\ [][StoreNext]_storeVars

-----------------------------------------------------------------------------
(* Properties *)

(* What the user is promised to find in a chart is there: a sample is only *)
(* lost by a reset, or when it is older than the global retention and than *)
(* that of a recording that goes on.                                       *)
LostOnlyExpired ==
    [][ \A k \in Keys : \A s \in Samples(k) \ Samples(k)' :
          \/ ResetStatistics
          \/ /\ s < clock' - global'
             /\ \A x \in Recording(k)' : s < clock' - x.retention ]_storeVars

(* Memory is bounded: after a sample, nothing older than its retention is  *)
(* left, not even of sensors that are no longer read.                      *)
NothingOlder ==
    [][ Observe => \A k \in DOMAIN series' : \A s \in series'[k].samples :
            s >= clock' - Retention(series'[k], global') ]_storeVars

(* A recording ends when the user stops it, closes the window of one that  *)
(* is not persistent, or resets, or when nothing is left in its retention, *)
(* and never by what is done to another sensor.                            *)
EndsForAReason ==
    [][ \A k \in Keys : Recorded(k) /\ ~Recorded(k)' =>
          \/ StopRecording(k) \/ CloseDetails(k) \/ ResetStatistics
          \/ \A x \in Recording(k), s \in Samples(k) : s < clock - x.retention ]_storeVars

(* history_chart.rs:393: the check button "Continue recording after        *)
(* closing" tells whether a sensor that is read goes on being recorded.    *)
ContinuesAfterClosing ==
    [][ \A k \in Keys :
          /\ CloseDetails(k) /\ windows[k].recording /\ windows[k].persistent
          /\ Samples(k) # {}
          => Recorded(k)' ]_storeVars
=============================================================================
