------------------------------ MODULE MonitorData ------------------------------
(***************************************************************************)
(* What the threads of crates/hwall-core/src/monitor.rs say to each other, *)
(* and the MonitorCollector whose operations they run.  Of a snapshot only *)
(* the storage devices it lists are kept, and which of them carry          *)
(* identifying values (the properties "serial" and "wwid").                *)
(***************************************************************************)
EXTENDS Naturals, Sequences, FiniteSets

CONSTANTS
    Devices,         \* storage devices that may be plugged in
    PeriodicHealth   \* storage_health_enabled of the MonitorCollector

ASSUME DataAssumption == PeriodicHealth \in BOOLEAN

Operation == {"Refresh", "StorageHealth", "SetSensitive"}

(* MonitorCommand: flag is force_rediscovery or include_sensitive.  The    *)
(* elevated flag of StorageHealth only selects how a helper is started.    *)
Command == [op : Operation, flag : BOOLEAN, ids : SUBSET Devices]

Refresh(force) == [op |-> "Refresh", flag |-> force, ids |-> {}]
StorageHealth(ids) == [op |-> "StorageHealth", flag |-> FALSE, ids |-> ids]
SetSensitive(include) == [op |-> "SetSensitive", flag |-> include, ids |-> {}]

(* MonitorUpdate: the command it answers (a periodic health job answers a  *)
(* StorageHealth nobody sent), and whether its snapshot identifies a device *)
Update == [op : Operation, flag : BOOLEAN, ids : SUBSET Devices,
           identified : BOOLEAN]

(* StorageHealthJob; its result names the same devices and settings. *)
Job == [ids : SUBSET Devices, targets : SUBSET Devices, sensitive : BOOLEAN]

(* MonitorCollector: devices of the base snapshot, those among them that   *)
(* carry identifying values, include_sensitive, last_health.is_some().     *)
Collector == [devices : SUBSET Devices, identified : SUBSET Devices,
              sensitive : BOOLEAN, checked : BOOLEAN]

NoCommand == Refresh(FALSE)
NoJob == [ids |-> {}, targets |-> {}, sensitive |-> FALSE]
NoUpdate == [op |-> "Refresh", flag |-> FALSE, ids |-> {}, identified |-> FALSE]

(* MonitorCollector::new: the first full discovery. *)
NewCollectors ==
    { c \in Collector :
        /\ c.identified \subseteq (IF c.sensitive THEN c.devices ELSE {})
        /\ ~c.checked }

Answer(cmd, collector) ==
    [op |-> cmd.op, flag |-> cmd.flag, ids |-> cmd.ids,
     identified |-> collector.identified # {}]

(* A full discovery: the devices found, with identifying values if those   *)
(* are collected, and devices no longer found that keep a stale reading    *)
(* and with it their old properties (device_shell).                        *)
FullDiscovery(c, include) ==
    { [c EXCEPT !.devices = t[1] \cup t[2],
                !.identified = t[3] \cup (c.identified \cap t[2]),
                !.sensitive = include] :
        t \in { u \in (SUBSET Devices) \X (SUBSET c.devices) \X (SUBSET Devices) :
                  /\ u[1] \cap u[2] = {}
                  /\ u[3] \subseteq (IF include THEN u[1] ELSE {}) } }

(* snapshot_telemetry: a full discovery when forced or when the            *)
(* rediscovery interval has elapsed; otherwise the storage devices stay.   *)
Refreshed(c, force) ==
    FullDiscovery(c, c.sensitive) \cup (IF force THEN {} ELSE {c})

(* set_include_sensitive_telemetry: full discovery under the new setting;  *)
(* hiding also strips what stale device shells still carry.                *)
SensitiveSet(c, include) ==
    IF include
    THEN FullDiscovery(c, TRUE)
    ELSE { [d EXCEPT !.identified = {}] : d \in FullDiscovery(c, FALSE) }

(* A mutant: what the helpers reported is applied unfiltered. *)
HealthAppliedUnfiltered(c, job, wanted) ==
    { [c EXCEPT !.devices = @ \cup job.targets,
                !.identified = @ \cup named,
                !.checked = TRUE] :
        named \in SUBSET (IF job.sensitive THEN job.targets ELSE {}) }

(* Applying a health result.  Identifying values the helpers reported are  *)
(* dropped when the client no longer wants them; apply_storage_health then *)
(* overlays the devices on the base, those meanwhile unplugged included.   *)
HealthApplied(c, job, wanted) ==
    { [c EXCEPT !.devices = @ \cup job.targets,
                !.identified = @ \cup named,
                !.checked = TRUE] :
        named \in SUBSET (IF job.sensitive /\ wanted THEN job.targets ELSE {}) }

(* storage_health_due: nothing when disabled; always when forced or when   *)
(* there was no result yet; otherwise when the interval has elapsed.       *)
HealthDue(c, force) ==
    IF ~PeriodicHealth THEN {FALSE}
    ELSE IF force \/ ~c.checked THEN {TRUE} ELSE BOOLEAN

(* storage_health_targets and all_storage_health_targets as jobs. *)
JobFor(c, ids) == [ids |-> ids, targets |-> ids \cap c.devices,
                   sensitive |-> c.sensitive]
PeriodicJob(c) == JobFor(c, c.devices)
=============================================================================
