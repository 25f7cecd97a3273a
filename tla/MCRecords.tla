------------------------------- MODULE MCRecords -------------------------------
(***************************************************************************)
(* What the applications make of the readings of one sensor over time, on  *)
(* small instances: its alert, its history, the chart of that and its      *)
(* running statistics.  They do not interact, so a behaviour is of the one *)
(* that part says and the others stay where they are.                      *)
(***************************************************************************)
EXTENDS MCAlertEngine, MCHistoryStore, MCHistoryChart, Statistics

Counted(quantity, value) ==
    [quantity |-> quantity, value |-> {value}, status |-> "Ok", current |-> TRUE]

MCQuantities == {"celsius", "volt"}
MCSensors ==
    { Counted("celsius", v) : v \in {0, 1, 3} } \cup { Counted("volt", 1) }
    \cup { [Counted("celsius", 5) EXCEPT !.current = FALSE],
           [Counted("celsius", 5) EXCEPT !.status = "Fault"],
           [Counted("celsius", 5) EXCEPT !.value = {}],
           [Counted("volt", -1) EXCEPT !.status = "Alarm"] }

(* Nothing tells the sensors of the history apart. *)
KeySymmetry == Permutations(Keys)

VARIABLE part

allVars == <<part, vars, storeVars, samples, statisticsVars>>

RecordsInit ==
    /\ part \in {"alert", "history", "chart", "statistics"}
    /\ part # "alert" => rule = NoLimits
    /\ part # "history" => global = MinRetention
    /\ Init /\ StoreInit /\ ChartInit /\ StatisticsInit

RecordsNext ==
    /\ UNCHANGED part
    /\ \/ part = "alert" /\ Next /\ UNCHANGED <<storeVars, samples, statisticsVars>>
       \/ part = "history" /\ StoreNext /\ UNCHANGED <<vars, samples, statisticsVars>>
       \/ part = "chart" /\ ChartNext /\ UNCHANGED <<vars, storeVars, statisticsVars>>
       \/ part = "statistics" /\ StatisticsNext /\ UNCHANGED <<vars, storeVars, samples>>

RecordsSpec == RecordsInit /\ [][RecordsNext]_allVars

-----------------------------------------------------------------------------
(* Properties of the parts, together where they are about the same thing   *)

(* Every record is well formed; an active alert never claims less than     *)
(* what the reading calls for; and the running statistics are those of the *)
(* readings.                                                               *)
RecordsConsistent ==
    /\ TypeOK /\ StoreTypeOK /\ StatisticsTypeOK
    /\ NeverUnderstates
    /\ StatisticsExact

(* The chart shows runs of samples whole and breaks them where samples are *)
(* missing.                                                                *)
ChartTrue == BreaksAtHoles /\ ShowsRuns

(* Samples and extended recordings only end when they may.                 *)
HistoryKept == LostOnlyExpired /\ NothingOlder /\ EndsForAReason
=============================================================================
