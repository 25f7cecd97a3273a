----------------------------- MODULE StorageHealth -----------------------------
(***************************************************************************)
(* The health of the drives: what smartctl and nvme-cli are asked           *)
(* (crates/hwall-core/src/collect/storage_health.rs) and how their answers *)
(* are kept over discoveries and failed attempts (crates/hwall-core/src/   *)
(* monitor.rs).  A job asks about some drives; discoveries and collections *)
(* go on meanwhile, and drives come and go.                                *)
(*                                                                         *)
(* The values of a read are given as its time and the status it found;     *)
(* messages and other properties of a drive are left out.                  *)
(***************************************************************************)
EXTENDS Naturals, FiniteSets, Sequences

CONSTANTS
    Drives,     \* storage devices that a health target can be made of
    Nvme,       \* the NVMe controllers among them
    Rotational, \* drives that may be asleep
    Problems,   \* sets of what can be wrong when a helper is run
    MaxReads    \* bound of the times

ASSUME StorageHealthAssumption ==
    /\ Nvme \subseteq Drives
    /\ Rotational \subseteq Drives \ Nvme
    /\ MaxReads \in Nat

Maybe(S) == { {} } \cup { {x} : x \in S }

Statuses == {"Passed", "Warning", "Failed", "Unknown"}
Availabilities == {"Current", "DriveAsleep", "PermissionDenied", "HelperMissing",
                   "Unsupported", "Error"}

(* What one read of a drive found: properties and a temperature of its     *)
(* own, or only one of them, or neither.                                   *)
ReadValues == [at : 1 .. MaxReads, status : Statuses]

HealthRecord == [status : Statuses, availability : Availabilities,
                 success : Maybe(1 .. MaxReads)]

(* What the base snapshot has of a drive; live: it has a temperature of    *)
(* hwmon, besides the one of the health read.                              *)
DriveRecord == [health : Maybe(HealthRecord), data : Maybe(ReadValues),
                temperature : Maybe(ReadValues), live : BOOLEAN]

VARIABLES
    storage, \* the drives of the base snapshot
    job,     \* the drives a job asks about, an option
    clock    \* the time of the last job

storageVars == <<storage, job, clock>>

StorageTypeOK ==
    /\ DOMAIN storage \subseteq Drives
    /\ \A d \in DOMAIN storage : storage[d] \in DriveRecord
    /\ job \in Maybe([asked : SUBSET Drives, elevated : BOOLEAN])
    /\ clock \in 0 .. MaxReads

-----------------------------------------------------------------------------
(* What a helper run comes to: the first check that fails decides.         *)

(* What can be wrong, in the order in which it is found, and what that     *)
(* makes of the health.                                                    *)
Checks == <<"helper", "pkexec", "start", "permission", "standby", "support", "status",
            "json", "fields">>

Failure ==
    [helper |-> "HelperMissing", pkexec |-> "HelperMissing", start |-> "Error",
     permission |-> "PermissionDenied", standby |-> "DriveAsleep", support |-> "Unsupported",
     status |-> "Error", json |-> "Error", fields |-> "Error"]

(* collect_smartctl and collect_nvme: smartctl looks at drives asleep, but *)
(* not at its exit status, nvme-cli the other way round; pkexec is wanted  *)
(* only for an elevated run.                                               *)
Checked(d, elevated, check) ==
    /\ check = "pkexec" => elevated
    /\ check = "standby" => d \in Rotational
    /\ check = "status" => d \in Nvme

Attempt(d, elevated, problems) ==
    LET failed == { i \in DOMAIN Checks :
                      Checks[i] \in problems /\ Checked(d, elevated, Checks[i]) }
    IN IF failed = {} THEN "Current"
       ELSE Failure[Checks[CHOOSE i \in failed : \A j \in failed : i <= j]]

(* collect_target; nvme-cli finds a warning, smartctl a failure.           *)
Result(availability, status) ==
    IF availability = "Current"
    THEN [status |-> status, availability |-> availability, success |-> {clock}]
    ELSE [status |-> "Unknown", availability |-> availability, success |-> {}]

StatusesOf(d) ==
    IF d \in Nvme THEN {"Passed", "Warning", "Unknown"} ELSE {"Passed", "Failed", "Unknown"}

-----------------------------------------------------------------------------
(* How the base snapshot is kept *)

NewDrive(live) == [health |-> {}, data |-> {}, temperature |-> {}, live |-> live]

(* preserve_failed_health *)
PreserveFailed(new, old) ==
    IF new.availability # "Current" /\ \E h \in old.health : h.success # {}
    THEN LET known == CHOOSE h \in old.health : TRUE
         IN [new EXCEPT !.status = known.status, !.success = known.success]
    ELSE new

(* A mutant: what a newer read does not find is kept.                      *)
KeepReplaced(old, new) == old

(* clear_replaced_health: a successful read replaces all the values of the *)
(* one before, those too that it does not find itself.                     *)
ClearReplaced(old, new) ==
    IF new.availability = "Current" THEN [old EXCEPT !.data = {}, !.temperature = {}] ELSE old

(* remove_duplicate_intermittent_temperatures, and the same of             *)
(* deduplicate_storage_temperatures                                        *)
WithoutDuplicate(record) ==
    IF record.live THEN [record EXCEPT !.temperature = {}] ELSE record

(* apply_storage_health: a drive that the base does not have is added.     *)
ApplyResult(d, new, data, temperature) ==
    LET old == IF d \in DOMAIN storage THEN storage[d] ELSE NewDrive(FALSE)
        cleared == ClearReplaced(old, new)
        values == {[at |-> clock, status |-> new.status]}
        merged == [cleared EXCEPT
                     !.health = {PreserveFailed(new, old)},
                     !.data = IF new.availability = "Current" /\ data THEN values ELSE @,
                     !.temperature =
                        IF new.availability = "Current" /\ temperature THEN values ELSE @]
    IN WithoutDuplicate(merged)

(* merge_storage_health_cache: a full discovery does not read the health.  *)
MergeCache(d, live) ==
    WithoutDuplicate(IF d \in DOMAIN storage THEN [storage[d] EXCEPT !.live = live]
                     ELSE NewDrive(live))

-----------------------------------------------------------------------------
(* Actions *)

(* Periodic, for all drives, or asked for, perhaps with administrator      *)
(* rights, for some of them.  The claim on the storage thread is modelled  *)
(* in MonitorWorker.                                                       *)
StartHealthJob ==
    /\ job = {} /\ clock < MaxReads
    /\ clock' = clock + 1
    /\ \E asked \in SUBSET DOMAIN storage \ {{}}, elevated \in BOOLEAN :
          job' = {[asked |-> asked, elevated |-> elevated]}
    /\ UNCHANGED storage

(* What is wrong is wrong with all drives of a job. *)
FinishHealthJob ==
    /\ job # {}
    /\ \E j \in job, problems \in Problems, data, temperature \in BOOLEAN :
          \E status \in [j.asked -> Statuses] :
             /\ \A d \in j.asked : status[d] \in StatusesOf(d)
             /\ storage' =
                  [d \in DOMAIN storage \cup j.asked |->
                     IF d \in j.asked
                     THEN ApplyResult(d, Result(Attempt(d, j.elevated, problems), status[d]),
                                      data, temperature)
                     ELSE storage[d]]
    /\ job' = {}
    /\ UNCHANGED clock

(* snapshot_telemetry, full and fast: a discovery finds what drives there  *)
(* are by then, and which have a live temperature; a live temperature that *)
(* a fast collection misses stays, dimmed.                                 *)
DiscoverDrives ==
    /\ \E found \in SUBSET Drives : \E live \in SUBSET found :
          storage' = [d \in found |-> MergeCache(d, d \in live)]
    /\ UNCHANGED <<job, clock>>

CollectDrives ==
    /\ \E live \in SUBSET DOMAIN storage :
          storage' = [d \in DOMAIN storage |->
                        WithoutDuplicate([storage[d] EXCEPT !.live = @ \/ d \in live])]
    /\ UNCHANGED <<job, clock>>

StorageInit ==
    /\ \E found \in SUBSET Drives : storage = [d \in found |-> NewDrive(FALSE)]
    /\ job = {} /\ clock = 0

StorageNext ==
    StartHealthJob \/ FinishHealthJob \/ DiscoverDrives \/ CollectDrives

StorageSpec == StorageInit /\ [][StorageNext]_storageVars

-----------------------------------------------------------------------------
(* Properties *)

(* What is shown of a drive is of one read: status, values and the time of *)
(* the last success go together, through failed attempts, discoveries and  *)
(* reads that find less than the one before; and a temperature of that     *)
(* read is not shown besides a live one.                                   *)
HealthOfOneRead ==
    \A d \in DOMAIN storage :
        LET record == storage[d]
        IN /\ \A v \in record.data \cup record.temperature :
                 \E h \in record.health : h.success = {v.at} /\ h.status = v.status
           /\ record.temperature = {} \/ ~record.live

(* Nothing that was read is forgotten while the drive stays: the last      *)
(* success is never an older one.                                          *)
SuccessKept ==
    \A d \in DOMAIN storage \cap DOMAIN storage' :
        \A h \in storage[d].health : \A t \in h.success :
            \E new \in storage'[d].health : \E s \in new.success : t <= s
=============================================================================
