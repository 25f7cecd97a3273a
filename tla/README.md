# HWall: models, checks and proofs

HWall is a hardware monitor for Linux: a library that discovers sensors and
reads them (`crates/hwall-core`), an application layer shared by the front ends
(`crates/hwall-app`), a GTK front end (`crates/hwall-gui`) and a command line
with a terminal UI and a small HTTP server (`crates/hwall-cli`). Reading a
sensor is easy; what is hard is everything around it: a collector thread and a
storage-health thread that must never hold up telemetry, five channels and two
atomic flags between them, a front end that pauses, rediscovers, hides
identifying values and asks for storage health while earlier requests are still
under way, readings whose collectors fail and recover, and alerts whose
durations, hysteresis, cooldowns and recoveries interact.

This directory models these parts of the program in TLA+, what they show and
what they leave on disk included, checks them with TLC on small instances and
proves nearly all of their safety properties with TLAPS for every instance. Line numbers below are lines of
the files under `src/`; paths are relative to `src/crates/` where it is clear.

## 1. Inventory

### 1.1 The monitor: `hwall-core/src/monitor.rs`

Three threads.

| party | state | operations |
|---|---|---|
| client handle `MonitorWorker` | ends of the channels, `desired_sensitive` | `request`, `request_sensitive`, `request_storage_health`, `poll`, `Drop` |
| collector thread (`hwall-collector`) | `MonitorCollector` (base snapshot, last full discovery, storage-health cache, collectors) | wake up; drain storage results; drain commands; refresh; periodic health; set sensitive; send an update |
| storage thread (`hwall-storage-health`) | the job it runs | take a job, run helper commands, send the result, wake the collector |

They share `sync_channel(1)` for commands and for updates, unbounded channels
for wake-ups, jobs and results, and the atomics `storage_busy` (a claim taken
with `compare_exchange`) and `desired_sensitive`.

*Hard here*: the claim is taken by one thread, travels through two channels and
is given back by another, on six different paths; the collector sleeps on one
channel while its work arrives on two others; both front-facing channels have
room for one message, and the send of an update blocks; a storage job can
outlive the setting it was started under; either thread may panic; the handle
may be dropped at any moment.

*Correct when*: there is never a second job and no path loses the claim; no
wake-up is lost; a command that was accepted is answered even while a helper
hangs; hidden identifying values stay hidden; dropping the handle ends both
threads.

### 1.2 The collector's data: `monitor.rs`, `model.rs`, `collect/`

A telemetry collection reads the fast collectors and overlays the previous
snapshot; a full discovery runs every collector and reconciles what it no
longer finds. State: the base snapshot, the time it was captured, a cache of
storage health, what each collector remembers (last good times, counters).
*Hard here*: what a missing reading means depends on whether its collector
failed, whether lm-sensors failed, whether its sysfs file still exists and
whether the collection was a full discovery; and readings move between devices when
reconciliation learns whose they are. *Correct when*: nothing old is
shown as current, a dimmed reading keeps the time at which it was read, and no
failure makes a sensor disappear.

### 1.3 Stateful collectors: `collect/*.rs`, `telemetry.rs`

| component | state | hard behaviour |
|---|---|---|
| energy (`collect/energy.rs`) | an open source per domain with its last counter and time | counters wrap at a range that cannot always be read; sources fail, come and go with CPUs and discoveries; totals of a package want all its cores |
| rates (`telemetry.rs`, with `collect/block.rs`, `nvme.rs`, `reconcile.rs`) | the counters of the snapshot before | counters restart, collections miss some; an NVMe drive changes its name with the number of its namespaces |
| effective clock (`collect/effective_clock.rs`) | perf groups and a retry policy per CPU | hotplug, the limit of open files, failures of one CPU or of all |
| storage health (`collect/storage_health.rs`, cache in `monitor.rs`) | the last health record of each drive | helpers fail, are not authorized, find drives asleep; results arrive after discoveries |
| helper commands (`collect/util.rs`) | a child, two reader threads | timeouts, output beyond the limit, grandchildren that hold the pipes |

*Correct when*: power is the energy of the interval it is given for, a rate is
of one device and one interval, a clock is never computed over a gap, what is
shown of a drive's health is of one read, and a helper neither hangs because
nobody reads its pipes nor stays a zombie.

### 1.4 The GUI session: `hwall-gui/src/session.rs`

Runs on the GTK main loop: a tick finishes the initial discovery, receives all
waiting updates and makes at most one request; between ticks the user pauses,
resumes, rediscovers, changes the interval or the identifying-information
setting and asks for storage health. State: what is in flight, what is pending,
`paused`, `discard_in_flight_refresh`, the current snapshot, statistics,
history, the logger. *Hard here*: every answer arrives some ticks later, mixed
with health updates, perhaps after a pause, a resume or another wish. *Correct
when*: its in-flight flags agree with what the monitor has outstanding, no
request starves another, no sample of before a pause is counted after it, and
the display never identifies a device once it has been told to hide it.

### 1.5 Alerts: `hwall-app/src/alerts.rs`

One runtime entry per sensor: active severity, candidate severity with the time
it began, suspension, last notification, whether the episode was notified.
*Hard here*: duration, hysteresis with limits in both directions, inverted
limits, cooldown and recovery are evaluated over arbitrary sequences of
readings, suspect readings and rule changes. *Correct when*: an alert is raised
exactly when its severity was sustained, never understates what was measured,
recoveries are announced for announced alerts, and a critical alert is not
silenced by a lesser notice.

### 1.6 What is kept and what leaves the program

| component | state | hard behaviour |
|---|---|---|
| history (`hwall-gui/src/history.rs`) | series per sensor, extended recordings, chart selection | retention, recordings of silent sensors, decimation between holes |
| statistics (`hwall-core/src/statistics.rs`) | minimum, maximum, mean, kept up to date in place | unit change, pauses, administrative updates, resets |
| log (`hwall-app/src/logging.rs`) | writer thread, queue of four, error slot | dropped samples, write errors, join on the GUI thread |
| settings (`hwall-app/src/settings.rs`) | the file, a temporary one, the copy in memory | a crash at any step, a reset against the save at closing |
| window rule (`hwall-app/src/plasma.rs`) | kwinrulesrc, changed by helper programs entry by entry | a failure or a kill after any of them, programs that are missing, other programs' rules |
| terminal UI (`hwall-cli/src/tui/`) | its own session; report, search, scroll | pause and discard by one flag; scroll limits of the last drawing |
| `watch`, `serve` (`hwall-cli/src`) | a polling loop; a cache with a refresh thread | a monitor or a thread that dies, clients that drip bytes or fall silent |

### 1.7 What the graphical program shows: `hwall-gui`, `hwall-app`

| component | state | hard behaviour |
|---|---|---|
| main window (`main.rs`) | mapped or in the tray, view, two queries, notices, open details windows | everything is one callback at a time, but snapshots are consumed while the window is hidden and only the active view is brought up to date |
| rows (`rows.rs`, `visibility.rs`, `dialogs/preferences.rs`) | order, hidden, collapsed and favourite keys; the copy in the organizer | readings come and go while the order is arranged; the log has a scope of its own |
| table (`table.rs`) | row states, bound labels, selection | GTK recycles labels; new rows take over the selection |
| hardware page (`hardware.rs` of both) | inventory, query, selected and rendered device | labels updated in place, widgets only when a comparison says so |

*Correct when*: what is seen is what there is now, under whatever was hidden,
searched, switched or arranged before.

The list with every component, its files and its status is `components` in
`PROJECT.json`; everything in the code that a test would hardly reach is in
`hazards`, each at its line, with the properties that cover it or the reason
why none does yet.

### 1.8 How the parts interact

```
 user -> Session (GTK main loop) --request--> MonitorWorker ==requests,wake==> collector thread
              |  ^                               |  ^                            |      ^
              |  +-----------poll----------------+  +=========updates============+    results,wake
              v                                                                jobs     |
   statistics, history, logger, AlertEngine                                      v      |
                                                                             storage thread -> helpers
```

The terminal UI and `watch` take the place of the session; `serve` calls the
collector in a thread of its own. The main window reads the session's snapshot,
statistics and alert states whenever it brings a view up to date, and writes
settings and alert rules. The log is given rows by the main loop.

## 2. The modules

| module | models | state and actions |
|---|---|---|
| `MonitorData` | what the threads exchange, and the operations of `MonitorCollector` as relations on its data | no variables; `Refreshed`, `SensitiveSet`, `HealthApplied`, `HealthDue`, `JobFor` are each the set of possible results of one method |
| `MonitorWorker` | `monitor.rs`: handle, both threads, all channels and atomics | one action per access to shared state, see 2.1 |
| `MonitorContract` | what a worker promises its client, without threads | `Submit`, `Wish`, `Receive`, `Close`; `Take`, `DoRefresh`, `DoSetSensitive`, `DoStorageHealth`, `StartPeriodic`, `CollectHealth`, `ReportHealth`, `Stop` |
| `MCMonitorWorker` | the refinement mapping from `MonitorWorker` to `MonitorContract` | |
| `MonitorDataProofs`, `MonitorWorkerProofs`, `SessionProofs` | lemmas about the operations of `MonitorData` and about counting messages, and the theorems of section 4 about the worker, its contract and the session | |
| `Session` | `session.rs`, on top of `MonitorContract` | tick in three parts, one action per user action, see 2.2 |
| `ReadingFreshness` | the merge, overlay and reconciliation of live readings in `monitor.rs` | `Collect(o, full, sticky)` is `snapshot_telemetry` with everything it calls |
| `MemoryTelemetry` | `reconcile_memory_telemetry` in `collect/reconcile.rs`, within `snapshot_telemetry` | `Discovered` and `Polled` are the results of a full and of a fast collection |
| `Energy` | `collect/energy.rs` | `HotplugCpu`, `FastEnergy`, `FullEnergy` |
| `Telemetry` | `telemetry.rs` and the names of NVMe counters in `collect/` | `TelemetryNext`: the hardware advances, then a full or a fast collection with one incident |
| `StorageHealth` | `collect/storage_health.rs` and its cache in `monitor.rs` | `StartHealthJob`, `FinishHealthJob`, `DiscoverDrives`, `CollectDrives` |
| `HelperCommand` | `run_command_configured` of `collect/util.rs` | the caller, the two readers, the child and what it leaves behind |
| `AlertEngine` | `alerts.rs` for one sensor key, and the rule change of the alert editor | `EvaluateReading`, `EvaluateSuspect`, `EvaluateUnsupported`, `ApplyRule`, `Elapse` |
| `EffectiveClock` | `collect/effective_clock.rs`: perf counters per CPU | `FullDiscovery`, `FastCollection`, each a sample without events, without CPU masks, blocked, or of the CPUs |
| `HistoryStore` | `history.rs` and the recording controls of the details windows | `Observe`, `ResetStatistics`, `SetGlobalRetention`, `Elapse`, and for each window `OpenDetails`, `StartRecording`, `StopRecording`, `SetRetention`, `TogglePersistent`, `CloseDetails` |
| `HistoryChart` | `chart_points` and `largest_triangle_three_buckets` in `history.rs` | `ChartPoints` is the chart; `Draw` is one turn of its loop, `Downsampled` the decimation of a run; `TakeSample` brings the samples they are applied to |
| `Statistics` | `statistics.rs` for one sensor, as `session.rs` feeds it | `ObserveStatistics`, `DisplayAdministrative`, `ResetWith` |
| `LogWorker` | `logging.rs` and its use by the main loop | `StartLogging`, `LogSample`, `FindLogError`, `StopLogging`, `SendLogStop`, `JoinLogThread`; the thread's `OpenLog`, `WriteSample`, `EndLog` |
| `SettingsStore` | `settings.rs` and its callers | `Launch`, `ChangeSettings`, `WriteTemporary`, `RenameTemporary`, `CloseRequest`, `TrayQuits`, `LoopEnds`, `BeginReset`, `RemoveTemporary`, `RemoveFile`; `Killed`, `EditedByHand` |
| `PlasmaRule` | `plasma.rs` and when `main.rs` calls it | one action per helper command; `SyncFails` or `Relaunch` after any; `RemovalSkipped`, `ResetSettings` |
| `Tui`, `Watch` | `tui.rs`, `tui/app.rs` and `watch.rs` as clients, on top of `MonitorContract` | the turns of their loops and the keys |
| `Serve` | `serve.rs` | `CollectSnapshot`, `PublishSnapshot`; `AcceptConnection`, `ReadBytes`, `ReadEndOfFile`, `ConnectionFails`, `Respond` |
| `TuiView` | report, search, views and scrolling of `tui/app.rs` | `TickView`, `DrawView`, one action per key or group of keys |
| `SensorRows` | `rows.rs`, `visibility.rs`, the organizer, and the commands of `main.rs` that change either | `BuildRows` is the projection; `Organize`, `MoveSelected`, `ApplyOrder`, `HideRow`, `ToggleCollapsed`, `SetFavorite`, `ShowHiddenItems`, `ChangeOptions`, `ReadingsChange` |
| `SensorTable` | `table.rs` | `Bind` and `Unbind` by GTK, `SyncRows`, `Select`, `ContextClick`, `ClearSelection` |
| `HardwarePage` | `hwall-gui/src/hardware.rs` | `SyncInventory`, `SetPageQuery`, `SelectDevice` |
| `HardwareInventory` | `hwall-app/src/hardware.rs` | `BuildInventory` is the projection; `DevicesChange` brings what it is applied to |
| `MainWindow` | `hwall-gui/src/main.rs` | one action per callback, each the composition of operators named for the functions it calls |
| `MCMonitorWorker`, `MCSession`, `MCRecords` (over `MCAlertEngine`, `MCHistoryStore`, `MCHistoryChart`), `MCReadings`, `MCEffectiveClock`, `MCClients`, `MCViews` | instances | |
| `ClientsProofs`, `ReadingsProofs`, `EffectiveClockProofs`, `RecordsProofs`, `ViewsProofs` | the theorems of section 4 about the components that `MCClients`, `MCReadings`, `MCEffectiveClock`, `MCRecords` and `MCViews` compose | |

Definitions that begin with a comment "Mutant:" or "A mutant:" are not part of any
specification: each is a plausible mistake in the definition after it, kept to
show that a property notices it (`mutants` in `PROJECT.json`).

### 2.1 MonitorWorker

`client.pc`, `collector.pc` and `storage.pc` are places in the code between two
accesses to shared state, so that TLC interleaves exactly where threads can.

* `request_*` are `RequestRefresh`, `RequestSensitive`, `RequestStorageHealth`
  (up to the compare-exchange or the store), then `TrySend`, `SendWake` and, for
  a refused storage request, `ReleaseClaim`.
* The closure of the collector thread is `Wakeup`, `TakeResult`,
  `ResultsDrained`, `ApplyHealth`, `TakeCommand`, `CommandsDrained`, the three
  `Execute...` actions, `ClaimPeriodic`, `DispatchPeriodic` and `SendUpdate`.
  `CollectorPanics` may happen wherever a collector runs.
* The storage thread is `TakeJob`, `FinishJob`, `WakeCollector`, `JobsClosed`
  and `StoragePanics`.
* `Drop` sends the shutdown message and then drops the fields in their order of
  declaration. A closed channel end is a predicate on the program counter of
  the thread that owns it (`RequestsOpen`, `UpdatesOpen`, `CollectorAlive`,
  `StorageAlive`); every send and receive in the model has the branch the code
  takes when the other end is gone.

Of a snapshot only the storage devices it lists are kept, and which of those
carry identifying values, because this is all the control flow of the threads
and the hiding of identifying values depend on. Refreshes may find any devices.

### 2.2 Session

A tick is `Tick` (or `FinishInitialization`), `ReceiveUpdate` for each waiting
update and `PollEnds`, then one of `WishSensitive`/`RequestSensitive`,
`RequestHealth`, `RequestRefresh`, `RequestNothing`. The monitor's actions
interleave with these steps, the user's only with whole ticks: both run on the
GTK main loop. `RequestSensitive` is two steps because `request_sensitive`
publishes the wish before it sends, and a storage result may be applied between.
`shown`, `sampled` and `tainted` are what the properties remember: whether the
display identifies a device, whether the last step counted a sample, and whether
the user paused since the open refresh was requested.

Because the session builds its collector without `include_storage_health`,
`Session` assumes `~PeriodicHealth`. The periodic path is checked in
`MonitorWorker`, where it is enabled.

### 2.3 ReadingFreshness

An *outcome* says which collectors failed, what the others found, which sysfs
files exist, which readings lm-sensors labelled and what the effective-clock
collector reported; TLC tries all of them in every collection. `captured` may
stay the same over two collections: the clock has milliseconds. `lastGood` is
what each collector remembers (and what the properties compare with).

`MemoryTelemetry` follows one kind of reading through the same collections: the
temperature of a memory chip, which hwmon reports on a device of its own and
reconciliation moves to the module that dmidecode described. `machine` is the
hardware and its firmware: which slot each chip is in, whether sysfs names it,
which labels agree. TLC starts from every machine in which firmware is not wrong
and addresses ascend with the slots. dmidecode describes all modules or, when it
fails, none. In between, after a failure, the snapshot can describe some of them
only, those kept for a stale reading; a chip may then be paired with a wrong
module, since the one left is taken for its own. `RightModule` therefore speaks
of snapshots that describe all modules.

### 2.4 AlertEngine

Keys are independent in `evaluate`, so one key is modelled. `readings` and
`notices` are history variables: since when the readings measure the same
severity, since when all were beyond some limit, and the last activation notice.
Values and limits are integers, since the code only compares and adds them.

### 2.5 EffectiveClock

One step is one `sample`, which the collector thread runs to its end. The
environment chooses the CPU masks, the number of other open files and what
becomes of each CPU's counters (`Outcome`). `CpuState` keeps whether the
counters are open, whether an earlier read is there to compare with, whether a
value was ever measured, and the `RetryPolicy`. `last` is what the properties
remember of the last sample.

The average counts an offline CPU as 0 Hz (`aggregate_readings`), so with one CPU
offline it has a dimmed 0 before any CPU is measured; the model does the same.

### 2.6 HistoryStore and HistoryChart

All callbacks of the store run on the GTK main loop, so a step is a callback,
with the handlers of the check buttons and of the retention selector. `windows`
is what the controls of an open details window show, `series` the map of the
store; a series is removed as soon as pruning finds it empty, which several
operations do for all sensors at once. A sample is the time of its capture here.

In `HistoryChart` a sample has its interval and its value too, and a chart is a
function of the samples. The code computes bucket bounds in floating point:
`every` times an integer may come out just below a whole number it should be
(for about 4% of all lengths and thresholds, 63 samples to 9 points for one).
`short` is the set of multiples for which it does, and any may be in it.

### 2.7 The collectors' counters

In `Energy` the environment chooses which CPUs are online, which counters can be
read, how long the interval was and how much each core used; `wrapAt` lets a
counter wrap at its range or one beyond, since the code cannot know which
(`max_energy_range_uj` is inclusive for some drivers). In `Telemetry` the
hardware has true counters, `sampled` remembers what a correct rate would be,
and an `Incident` is what may go wrong in one collection: a counter that restarts
or cannot be read, an interval without length, names that do not resolve. An
NVMe drive is there under its namespaces, its controller, or coalesced.

`StorageHealth` runs jobs concurrently with discoveries: `StartHealthJob` fixes
the targets, `FinishHealthJob` brings what each helper found (`Problems`), and
the drives may have changed between. A value is the time of its read and the
status found then, so that "of one read" can be said.

### 2.8 The other clients and what leaves the program

`Tui` and `Watch` extend `MonitorContract` as `Session` does. `Serve` has the
collecting thread and the one that answers; a client may send bytes slowly, close
or fall silent at any byte. `LogWorker` numbers the samples and keeps the accepted
ones in a history variable. `HelperCommand` counts output in pieces; a child that
is killed may leave a process that holds the pipes open. `SettingsStore` gives
every save two steps, any of which may fail or be the last of the program.
`PlasmaRule` follows a synchronization command by command: list of rules, count,
entries, position, reconfigure; `kwin` is what KWin has read, `call` what was asked
and which programs were there. These are chosen anew by every call: `"plasma"` is
`PlasmaTools::discover` (a Plasma session and all programs), `"kconfig"` is
`kconfig_tools_available`, looked up apart. Installing fails without the first. A
removal returns Ok in any case: without the second it removes nothing
(`RemovalSkipped`), without the first it removes the rule and KWin is not told
(`RemovePosition`). So `RuleAsWanted` says that a rule is gone only of a removal that
had its programs, and `untold` notes every change that KWin was not told of. A call
may be cut short by the end of the program (`Relaunch`), which also changes the
setting behind its back; a reset of the settings removes the rule and may then fail,
with the setting still on. Of KWin it is assumed that it reads kwinrulesrc only when
told to, and that all it writes there is the position of a rule that is listed, at
any time while a window with that rule is mapped. HWall is assumed to be the only
writer otherwise, while it runs: a rule of an earlier version, or one edited by hand,
is there at the start.

### 2.9 The views

These modules are about one main loop each, in which callbacks do not interleave;
what can go wrong is the order of callbacks, and what a callback leaves out.

`MainWindow` has a ghost `behind`: the parts of the window that do not show the
model as it is. A handler marks what it changed and clears what it renders, so that
`WindowTrue` says that no order of ticks, mapping, switching and typing leaves
something unrendered in sight. GTK delays `search-changed`, except for an emptied
entry (`SetText`); a view that is switched in between takes its own text back, and
text typed within that delay is lost. `SensorRows` describes a sensor by the path
to it, and a search text by the keys it matches. `SensorTable` has one column for
the six; the labels are GTK's, `item` is the row GTK has a label at. In
`HardwarePage` a device is what the comparisons of the code distinguish: title,
structure, value and the button. `HardwareInventory` tells apart the properties that
the code treats differently and leaves values alone. In `TuiView` a line of the
report is the set of texts it contains.

## 3. What is checked

| run | what it shows | bounds | states |
|---|---|---|---|
| `monitor_worker` | the claim has one owner, no lost wake-up, storage jobs find their thread, hidden values stay hidden and appear in no update; every behaviour of the threads is one of the contract | 1 device, 2 wake-ups queued, either thread may panic, either wish | 2.3 million |
| `monitor_live` | an accepted refresh is answered and a drop ends the collector thread, **even when no helper command ever ends**; if helpers end, the claim is released and a drop ends the storage thread | 1 device, no panic | 0.15 million |
| `session` | in-flight flags are accurate, storage health is free when the session is idle, the display is hidden once settled, no sample of before a pause is counted; the identifying-information setting settles and sampling goes on while a storage helper hangs; if helpers end, no health request waits for ever | 1 device, 4 user actions, discovery and monitor may die | 0.7 million |
| `records` | alerts raised exactly when sustained, never understated, recoveries follow notices, critical ones announced; a sample of the history is lost only when no retention in force covers it, recordings end for a reason; charts draw real samples once and break at holes (`ChartTrue`); statistics are those of their definition | readings 0..5, four rules, clock to 7; 2 sensors, retentions 1 and 2, clock to 3; charts of up to 8 samples, runs cut to 4 or 5 points; 4 snapshots of two units | 0.21 million |
| `readings` | current readings are new, dimmed ones keep their time, only confirmed removals; a memory chip's reading goes to its own module; power and rates are of their interval and device; storage health is of one read and outlives failed ones | one sensor each of hwmon, nvidia-smi and effective clock, time to 2; three modules, two chips; three CPUs, two zones, one event; two namespaces or one other device, counters to 2; two drives, times to 2 | 82,353 |
| `effective_clock` | no clock computed across a gap, two tries at most, headroom of open files left; all CPUs are measured again once failures end | 2 CPUs, 133 files of which 0 or 2 are others (or uncounted), one PMU description or none | 3.7 thousand |
| `clients` | the terminal monitor and watch take each answer for what it is, pauses hold, and both go on; serve gives no client an older snapshot than one before, and no client blocks it for ever; the log is a prefix of what was accepted, and whole when it ended well; helpers return and are reaped; settings survive crashes; the KWin rule is what the last call that worked wanted, if its programs were there | 1 device, 3 keys; request lines of 3, 2 collections; queue of 2, 5 samples, 2 logs; 1 poll, pipes of one piece; 3 versions, 3 starts; 2 entries, 4 synchronizations with any programs | 174,543 |
| `views` | what is seen is current, under any order of ticks, hiding, switching, searching and recycling; rows are in the order arranged and exactly those wanted, in the window and in the log; firmware and memory places are shown once; what was found or selected stays in view | reports of up to 3 lines; 4 sensors of 2 devices, one mark; 4 layouts, 2 labels; 2 devices on the page; 3,988 machines; 2 texts, 1 drive, 1 sensor | 0.29 million |
| `alert_cooldown`, `alert_duration`, `memory_frozen`, `history_closing` | what a tooltip or the README says and the code does not do, section 5 | | |

Runs that hold several modules (`records`, `readings`, `clients`, `views`) choose
one of them in the initial state (`part`), and only its variables change: the
modules in such a run do not interact, and where the code's components do, the
interaction is inside a module (the log and the main loop, the cache of storage
health and the discoveries). Their properties are conjunctions of the properties
stated, with their comments, at the end of each module.

Why these bounds are enough. *One device*: what the threads and the session do
depends only on whether a job has targets, whether devices are listed, and
whether any is identified; two devices give no further case in the threads'
control. In the session the order of health requests for two different devices
does matter (`RefreshStorageHealth` joins, replaces or drops them); no property
here depends on it (section 6). *Wake-ups*: a
wake-up is a permission to look at both channels; with two queued, one can be
left over from work already done. `MaxWakes` limits new client calls only and
never a send of a thread. *User actions*: four reach pause, resume, two changes
of the setting and a health request within one refresh; the model is not bounded
otherwise, updates and refreshes go on for ever. *Alert clock*: longer than
duration plus cooldown. *Readings*: two times, and
several collections within one, so that failures add up; two chips can be in each
other's way, and one of three modules has none.
*Effective clock*: two CPUs give one that fails before or after the other in the
same sample; 133 files are enough for both with no other file open, and for one
with two others, so that the budget both holds and does not. *History*: the
shorter retention expires while the longer one holds, and the longer expires too; the
two sensors are symmetric, since no property or action tells them apart.
*Charts*: more samples than either limit, so runs are decimated into two and
three buckets; longer runs differ in the number of buckets only.
*Energy*: one package with a core of two threads and one of one, so that the
representative of a core can go offline and its sibling stay; range 2 and use 1, so
that a counter wraps every third sample. *Rates*: two namespaces make a drive
coalesce, split and rename; three samples reach a restart, what follows, and what
follows that. *Health*: one drive that nvme-cli reads and one that may sleep.
*Clients*: three keys are pause, resume and rediscover within a refresh. The log's
queue of 2 is full, empty and between, and the second log starts after the first
has ended in any way. One poll and one piece of output already give every order of
timeout, end and reader; a second piece fills the pipe. Three starts: a crash, a
repair, and a start that sees both. Four synchronizations: create, fail or be
killed, remove, create again. *Views*: three lines have more and fewer than fit; two devices with
kinds and sensors give every depth a sibling to swap with, and `MaxMarked` lets one
key be hidden, collapsed or a favourite at a time, since the marks are independent
filters. Three labels would bind as two do.

Deadlock is checked in `effective_clock` only: everything else does
stop. All threads end after a drop, a session whose monitor is gone has nothing left
to do, clients of `serve` need not come, and the bounded histories, logs and files
reach their bound. That the threads and clients stop only then is what
`DropStopsThreads`, `LiveKeepsSampling`, `ClientsGoOn` and the other liveness
properties say.

### 3.1 Fairness

* Each thread takes its enabled steps (weak fairness of the client's
  continuations, of the collector's and of the storage thread's steps): the
  operating system schedules runnable threads.
* `Poll` strongly fair: the client polls from a timer. A poll is disabled while
  the client is inside another call, again and again, so weak fairness would not
  do.
* `CommandsDrained` strongly fair: the collector's inner loops drain the queue
  until it is empty. A client that refilled the one-place channel in each gap
  would keep the loop going; the front ends, which send one request per tick and
  wait for its answer, do not.
* Nothing is assumed of helper commands, since an elevated helper has no timeout.
  That a job ends (`HelpersEnd`, `SessionHelpersEnd`: fairness of `FinishJob` and
  `CollectHealth`) is the premise of `ClaimReleased`, the second half of `DropStopsThreads` and
  `HealthSettles` only; it is so for helpers with a timeout.
* Collections go on (`FairSpec` of `EffectiveClock`): the front ends request them
  periodically. That full discoveries go on is a premise of `Recovers`, not assumed:
  they are the user's.
* In `clients`, the program's own threads and loops take their steps (weak
  fairness), and the collector takes a queued command also between storage-health
  jobs (strong fairness of `Take`, as for `CommandsDrained`). Nothing is assumed of
  children, of what they leave behind, or of HTTP clients; `HelperReturns` has the end
  of whoever holds the pipes as a premise, which is what the code depends on.
* The session's main loop ticks, deadlines pass, and the monitor carries out
  what it accepted, which is what `monitor_live` checks of the worker.

### 3.2 Implementation of the contract

`MCMonitorWorker` maps channels and program counters to the contract's
variables. The two interesting parts of the mapping: `claimed` is `storage_busy`
except while the claim is tentative (a client that has not sent yet, a periodic
check that may find no device), and a job of a storage thread that panicked is
one that never ends. `Session` is checked on top of the contract, not of the
threads: this is what keeps it small, and what `ImplementsContract`, checked in
`monitor_worker` and proved in section 4, justifies.

## 4. What is proved

`MonitorWorkerProofs`, for every set of devices, every setting of
`PeriodicHealth`, `Wishes` and `Panics` and every bound `MaxWakes`, from the
assumptions `DataAssumption` and `WorkerAssumption` (the constants have their
types) alone:

* `TypeCorrect`: `Spec => []TypeOK`, which includes the capacity of the two
  bounded channels. `TypeOK` is inductive; the proof goes action by action.
* `HiddenStaysHidden`: `Spec => StaysHidden`. Only three actions change the
  collector's data; for each, `CollectorOperations` says when it can bring an
  identifying value back.
* `ClaimHasOneOwner`: `Spec => []BusyHasOneOwner`. The invariant is not
  inductive: a collector that hands a job to a dead storage thread would break
  it. `ClaimInv` adds that a client only releases a claim it has
  (`release` implies a storage-health command), and that the storage thread does
  not exit while the collector lives. Each action then moves one unit between
  the six places a claim can be, or none (`Owners`, `ClaimMoves`, `Unmoved`).
* `JobAlwaysFindsStorage`: `Spec => []JobFindsStorage`, from the same invariant:
  a storage thread that panicked still owns the claim, so nobody else can have
  it, so no job is handed to a thread that is gone.
* `WakeupsAreNotLost`: `Spec => []NoLostWakeup`. `WakeInv` follows a message
  from its send to the collector's next look at its channel: a result waits only
  while the collector is draining results, or a wake-up is queued or on its way;
  likewise for a command.
* `WorkerKeepsContract`: `Spec => ImplementsContract`, the refinement of section
  3.2. `Simulates` is a step of the contract or none; `ClientSimulates`,
  `CollectorSimulates` and `StorageSimulates` name for each action of the worker
  the action of the contract it is, or why nothing is seen of it (`Silent`). They
  rest on `ClaimInv`: since the claim has one owner, the three places a job can be
  in (`JobPlace`) hold one job together, so that a sequence of three channels is
  the contract's one job, and a claim not yet used is nobody else's (`OneClaim`).
  `PeriodicInv` adds that only an enabled periodic check reaches its claim.

The other modules of proofs use the assumptions of the components' modules alone:
types, and these facts, each of which is so in the code. CPUs, modules, chips,
zones, namespaces and the rules of other programs are finitely many, and there is
a CPU and a load; a namespace is not called as a controller or as another kind of
counter is; a GTK item that stands at no row is no row's id; an inventory is a list
of devices without two of one id. Samples are some time apart, expected some time
after each other, and a run is cut to three points or more (the code's 8). A
snapshot does not repeat a sensor. Of a machine (`MachinesAssumption`): one
device is its firmware, no other device has a release date, no collector uses the
names that the page gives to the firmware's properties, and drives with health data
can be asked again (`SnapshotBuilder::add_device`, `collect/dmi.rs`,
`collect/storage_health.rs`).

*The session* (`SessionProofs`).

* `RequestsAreTracked`: `SessionSpec => []RequestsTracked`. The
  flags are right because every message is in one place: `Counts` takes what is
  under way apart, channel by channel, and each step of the contract moves one
  message or none (`Kept`, `SubmitCounts`, `ReceiveCounts`). `ContractInv` is what
  the contract keeps by itself; of `Tracked`, the inequalities hold even after the
  collector died, and a sent wish needs that no refresh is under way.
* `PausesKeepSamplesOut`: `SessionSpec => PausedSamplesDiscarded`.
  `PausedInv` says that a refresh that was under way at a pause is marked
  (`discard_next_sample`) as long as it is under way; the rest is about the only
  sample that answers no request, the first one.
* `SettledHidingHides`: `SessionSpec => []HiddenWhenSettled`. The
  property says nothing while a wish is under way, so `WishInv` follows the wish:
  from the moment the monitor has carried it out, its collector hides, and every
  update from its answer on does; and the wish in the channels is the session's.

*The other clients and what leaves the program* (`ClientsProofs`).

* `ServesInOrder`: `ServeSpec => ServedInOrder`. A response takes
  the snapshot of the cache, so what is needed is that the cache never goes back
  and is never behind a response: `ServeInv` bounds what was served, now and
  before, by the cache (`CacheGrows`, `ResponseGrows`).
* `SettingsAreKept`: `SettingsSpec => []SettingsKept`. The
  two files agree with the settings only between the steps of a save, so
  `SettingsInv` says for each step of a save or a reset what the temporary file is,
  and which of them the end of the main loop can still find under way.
* `LogIsComplete`: `LogSpec => []LogComplete`. `AcceptedIsKept`
  is the strengthening: while the thread lives, the accepted samples are those in
  the file and then those that wait, in this order, with the stop request last
  once it was sent. The samples may only be dropped by a thread that failed.
* `HelperIsReaped`: `HelperSpec => []HelperOutcome`.
  `PipeDrained` relates each pipe to its reader: an ended reader has emptied the
  pipe for good, as nobody has it open for writing any more, and what it kept, the
  pipe holds and the children wrote add up unless it threw something away;
  `Collected` then says what a join without an error may conclude.
* `RuleIsManaged`: `PlasmaSpec => RuleManaged`. What the file holds
  after a call that worked (`AsCalled`) follows from what each helper command leaves
  to the next: `SyncInv` says for each place which part of the file is already as
  wanted, and `CallInv` who may have called. `RuleInv` adds that KWin has read the
  file, unless something was changed since by this call (`changed`) or by one that
  did not tell (`untold`), and that creation is pending only while the setting is on.
  Two lemmas carry the steps: `SteppedKeeps` for a command in the midst of a call,
  which has to know of what it changes, and `ReturnedKeeps` for the ends of a call,
  each of which has failed, was a removal without its programs, leaves creation
  pending, or leaves the file `AsCalled`.
* `PauseIsHeld`: `TuiSpec => TuiPauseHolds`, and `ClientsAreConsistent`:
  `ClientsSpec => []ClientsConsistent`. Terminal UI and `watch` are correct because
  they have one request at most under way: `Under` counts what the contract owes,
  over its three channels (`LinkInv` is what the contract keeps by itself), and
  `TuiFlags` and `WatchInv` tie the flags of the client to that count, also when the
  monitor has died and its last messages are still to be received. That a
  stained sample, one requested before a pause, is discarded is then a flag that
  is up for as long as the request is under way.

*Readings and counters* (`ReadingsProofs`, `EffectiveClockProofs`).

* `ReadingsAreFresh`: `ReadingsSpec => []ReadingsConsistent`, with
  `RemovalsAreConfirmed` and `ModulesAreRight` from the same invariant. A dimmed
  reading is of an earlier time because every way into the snapshot either
  observes or keeps (`FreshReading`, `RetainedReading`); a chip's reading is with
  its own module because pairing by location is by facts, and pairing by order
  counts the modules that are left on both sides (`LocatedRight`, `OrderedRight`).
* `EnergyIsTrue`: `ReadingsSpec => []EnergyTrue`. `SourcesSound` says of every open
  source that the counter it remembers is what the hardware's was in the last
  sample, and of which core it is; `CountedIn` that a package's total waits for as many cores as the
  topology has. The totals are sums over a set of sources with a `CHOOSE` in it, so
  the proof first shows that partial sums exist (`SumsExist`) and then, by the
  least counter-example, that they are within their bounds (`SumWithin`). The proof
  found that the model's set of domains left out those of a package whose
  representative CPU was offline when it was first seen (`AllDomains`).
* `RatesAreTrue`: `ReadingsSpec => []DerivedTrue`. `CountersFound` and
  `DrivesFound` say under which name each counter of the last collection is found:
  a rate is computed for a key, and a key is one device's (`OneName`, `KeysAre`),
  also across a drive whose namespaces coalesce or split in between.
* `HealthIsTrue`: `ReadingsSpec => HealthTrue`. The strengthening is that no read
  that succeeded is of a later time than the last job, so that a result that replaces
  one is not an older one.
* `ClocksAreBounded` and `ClocksAreMeasured`: `Spec => []CountersBounded` and
  `Spec => MeasuredWithoutGap` of `EffectiveClock`. `Sound` bounds the tries of one
  CPU by its retry policy; an earlier value is kept only by a CPU that was read in
  the last sample, which is what makes the next clock one of neighbouring samples;
  and `BudgetLeavesHeadroom` is the arithmetic of the limit of open files.

*What is kept of the readings* (`RecordsProofs`).

* `RaisedWhenSustained` and `ShownNotBelow`: from `AlertInv`,
  of which `CandidateTracksReadings` is the heart: the candidate of the entry is
  the severity measured and the time since which it was, exactly while that is
  above the active one. `SeverityIsOne` and `RetainedCovers` say what
  `SeverityForValue` and the hysteresis return.
* `NoticesAreTrue`: `Spec => NoticesTrue`, from `AlertInv` and
  `NoticeInv`: `episode_notified` is whether the episode was announced, and a
  remembered critical notice is the last one that was given.
* `HistoryIsKept`: `StoreSpec => HistoryKept`. All three parts are of one step; what
  they need of the store is its shape (`StoreTypeOK`: no sample is later than the
  clock) and that pruning is a filter that no operation forgets (`PrunedOne`,
  `PruningKeeps`, `PruningExpires`). The operations of the details windows end in
  it for all sensors, so each is shown for a sensor it is about and one it is not.
* `RecordsAreConsistent`: `RecordsSpec => []RecordsConsistent`, alerts, store and
  running statistics together. The statistics are updated in place, their
  definition is over all readings since a reset or a change of the unit: `StatInv`
  says that the entry is what `Since` defines, and a new reading either is added to
  that set or is the whole of it (`GoesOn`, `Restarts`, `Uncounted`). The mean is
  an exact fraction here, so that the sum has to be followed (`SumGoesOn`); that two sums
  over a prefix agree is shown at the least index at which they would not (`SumIs`).
* `ChartsAreTrue`: `RecordsSpec => []ChartTrue`. Of the state only `ChartInv` is
  needed, that samples come in order of time; everything else is about the function
  `ChartPoints`, in two parts. *Decimation* (`Taken`): the bounds of the buckets are
  the floors of multiples of `every`, which is more than one, so even when one of them
  comes out short the buckets follow each other without a gap and none is empty
  (`FloorsApart`, `Buckets`). Hence the indices rise from the first to the last sample
  (`SelectedAre`). A triangle over equal values is flat, one with a corner that stands out is
  not (`AreaIs`), so the bucket of that sample takes it; the last bucket may lose its
  last sample to rounding, which is why the property excepts it.
  *The loop* (`LoopIs`): `DrawInv` says of every turn that what was put out draws the
  samples up to some `p` (`Draws`: along indices of samples that rise, connected
  exactly when nothing is missing between them, each run shown), and that `run` is
  everything from there, without a hole. A sample that goes on keeps this by itself,
  one that does not needs that a decimated run may be appended (`Extended`), with a
  break behind it (`Broken`). The proof found that `ShowsRuns` said too little: a run
  after a sample without a value was no run for it (`Run`).

*What is shown* (`ViewsProofs`).

* `ShownIsTrue`: `ViewsSpec => []ShownIsCurrent`, from an invariant for each view.
  `ViewInv`: a drawn report's scroll limit is that of its lines (`Drawn`), and the match
  that is marked is at the top of the window, or as near as the limit allows
  (`FoundAtTop`). `TableInv`: `bound` and `item` are inverse to each other, so that a
  recycled label cannot be written to by the row it had. `PageInv`: list, selection
  and details are of one inventory and one search, and the widgets are the rendered
  device's. `WindowInv`: what the window does not show as it is, is in `behind`;
  what is in `behind` is out of sight, or about to be brought up to date by
  something that is certain to run (`TextTrue`, `ViewTrue`, `StatusTrue`, `Seen`).
* `FoundStaysInView`: `ViewsSpec => KeptInView`. Between the search and the drawing the
  terminal may be resized or scrolled and the report rebuilt: each of these either
  clears `found` or leaves `FoundAtTop`, and a match at the clamped top is in the
  window that the next drawing computes (`LimitsAre`).
* `RowsAreTrue`: `ViewsSpec => []RowsTrue`. What the organizer shows, and what was
  applied last, is a `Tree`: each entry once, after the ones it belongs to, with nothing
  between these that does not belong there. The readings give one (devices, groups and
  sensors each ordered by the settings), and a move exchanges two neighbouring
  siblings with all that is below them, which is a tree again (`Exchanged`). The two
  lists of the settings are this tree taken apart (`Carried`). Rows built from them
  are a tree whose siblings are in the order of the lists (`Placed`); two trees that
  agree on siblings agree on any two entries, since these are in the order of the
  siblings they are below (`TreesAgree`). `RowsInv` is that much, and that marks are
  of rows; which rows are there, and which the log has, follows from `BuildRows`
  alone.
* `InventoryIsTrue`: `ViewsSpec => []InventoryTrue`. The page is a function of the
  machine, so that the invariant is `MachinesAssumption` (`InventoryInv`) and the
  proof follows `BuildInventory`: the firmware's properties have one holder, before
  and after they are moved to the board; a place that two keys give is shown for the
  one that `DuplicateLocation` leaves; each key has one section (`SectionOf`).

Theorems whose specification is a component's (`ServeSpec`, `StoreSpec` and so on)
hold in the run's composition as well, which is what `ClientsKeepPromises` and
`RecordsKeepPromises` say: there only the component that `part` names takes steps, and
its steps are these.

Every invariant of a passing run is stated by a theorem now, and so are its action
properties and the refinement. Only model-checked are

* all liveness properties: fairness and ENABLED are out of the prover's reach;
* the runs of section 5, each of which is a counterexample.

Rows, charts and statistics are computed over sequences in the code. What the library
defines by recursion or by `CHOOSE` (`SelectSeq`, folds, `Min`, `Max`) tells the provers
nothing without induction over data, so the models use recursive functions of an index instead: of the
library (`FlattenSeq`, in `Selected`) and for loops and sums (`SumBetween`,
`Downsampled`, `ChartPoints`). That such a function exists (`Recursively`), and what
holds of its values, is shown with the least index at which it would not, where a
proof by induction would be expected.

Where an inductive invariant was found for a proof, TLC had checked it on the run's
instance first.

## 5. Where code and documentation differ

* `alert_editor.rs:115` says the cooldown suppresses repeated activation notices.
  The code remembers the severity of *recovery* notices as well, so
  Critical → Warning → Critical is announced again within the cooldown
  (`alert_cooldown`).
* `alert_editor.rs:93` says a reading must remain beyond a limit for the duration
  before the alert activates. The code restarts the wait whenever the severity
  differs from the candidate's, so a reading that alternates between the warning
  and the critical range never activates it (`alert_duration`).
* `README.md:220` says a reading is marked Stale when its collector fails. A fast
  collection lists what it observed (`monitor.rs:129`) before reconciliation moves
  a memory chip's sensor to its module (`monitor.rs:140`), then takes the module's
  reading for a missing one, puts the old one back and marks it Stale. So when
  dmidecode is accessible, the temperatures of memory modules stand still
  between full discoveries (`memory_frozen`). Chips whose device is the module's
  own from the start are not affected. For the same reason an old reading that is
  moved for the first time, because another chip has appeared, is shown as
  current once.
* Not a run of its own: `README.md:220` says a removed reading is Unavailable until
  the next full discovery. Each fast collection computes it anew, so it becomes
  Stale when its collector fails in a later one.
* `history_chart.rs:393` offers to continue a recording after closing. A recording
  without samples (details opened, or statistics reset, while the sensor is dimmed)
  is removed by the next pruning of any sensor (`history.rs:224`). The window
  still shows it as on, and its check button then does nothing (`history_closing`).

## 6. What is left

* *Session*: which of two health requests for different drives is lost when one
  replaces the other (`session.rs:368-378`), with two devices.
* *Reconciliation*: network identities and duplicate storage temperatures in
  `reconcile.rs`; `ownership.rs`.
* *GUI*: the zoom and pointer of the chart, column settings, the tray's protocol.
* *Proofs*: the liveness properties, for every value of the constants.

### Remarks on the code

What the models show and no document contradicts, so that there is no finding; each
is how the models behave, too.

* *Session*: an administrative update replaces the displayed snapshot without
  entering the statistics, also while paused.
* *Energy*: a counter that was reset is taken for one that wrapped; an open source is
  never replaced.
* *Storage health*: another drive under the same id inherits the cached health; a
  result for a drive that has vanished brings its record back. A drive whose name
  sounds like audio or security is shown without health section and button.
* *Memory*: after a passing failure of dmidecode a chip may be paired with a wrong
  module until all are described again.
* *Log*: an error between the last tick and a stop by the user is not told; samples
  queued when the process exits are lost if the log was not stopped. An error that is
  found while the window is hidden is overwritten by the next snapshot's status and
  never seen.
* *Settings*: quitting by the tray in the turn of a reset saves them again; an unreadable
  file is read as defaults and overwritten by the next save; nothing is synced to disk,
  so that the model's crashes are of the program, not of the machine.
* *Window rule*: an attempt that fails after it changed something leaves KWin
  untold, and the next one finds nothing to change (`untold` in `RuleAsWanted`). The
  same holds of a removal outside of a Plasma session, which works; one without
  kreadconfig6 or kwriteconfig6 also returns Ok, and leaves the rule there. A removal
  that fails between the list and the count leaves a count that no later removal
  corrects, as the rule is no longer listed. A reset whose settings file cannot be
  removed has removed the rule by then and leaves the setting on, until the next start
  or change of settings puts it back.
* *serve*: when the collecting thread panics, the last snapshot is served for ever; one
  slow client delays the others for up to some 4096 reads.
* *Terminal UI*: a search in the turn of a change of view scrolls with the limit of
  the view before.
* *Window*: text typed less than the search delay before the view is switched is lost; the
  details window of a device that has vanished keeps its last values; a device that is
  absent when an order is applied loses its place; when all selected rows vanish nothing
  is selected, and the next change of rows selects the first.

## 7. Not modelled, and why

Parsing of sysfs, `/proc`, SMBIOS, `lm-sensors`, `nvidia-smi`, `smartctl` and
`upower` output: input and output without control; a collector here delivers any
readings or fails. Perf system calls, D-Bus and KWin itself: external, modelled by
what the code does with their answers. Widgets, drawing, themes and the wording of
values and labels: user interface and formatting. The command-line parser and the
packaging: no state.
