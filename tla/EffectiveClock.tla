----------------------------- MODULE EffectiveClock -----------------------------
(***************************************************************************)
(* The effective-clock collector, crates/hwall-core/src/collect/           *)
(* effective_clock.rs: one group of perf counters per online CPU, opened,  *)
(* given up and retried as CPUs go offline, counters fail and open files   *)
(* run out.  Clock values and times are left out; that a reading was       *)
(* measured at all is what matters here.                                   *)
(***************************************************************************)
EXTENDS Naturals, FiniteSets

CONSTANTS
    CPUs,       \* logical CPUs that may be present, of one machine
    EventPairs, \* values the PMU description may have
    SoftLimit,  \* RLIMIT_NOFILE, an option
    Others      \* numbers of open files, the counters' own left out

PerfFdsPerCpu == 2
FdHeadroom == 128

(* An Option is the set of its value. *)
Option(S) == { option \in SUBSET S : \A x, y \in option : x = y }

ASSUME ClockAssumption ==
    /\ CPUs \subseteq Nat /\ IsFiniteSet(CPUs)
    /\ SoftLimit \in Option(Nat)
    /\ Others \subseteq Nat

Retry == {"NextSample", "RecoveryNextSample", "StaleUntilFullDiscovery",
          "UnavailableUntilFullDiscovery"}

Freshness == {"Current", "Stale", "Unavailable", "Offline"}

(* CpuState: group and previous are open and filled, last_value is known.  *)
CpuState == [group : BOOLEAN, previous : BOOLEAN, known : BOOLEAN, retry : Retry]

NewCpu == [group |-> FALSE, previous |-> FALSE, known |-> FALSE,
           retry |-> "NextSample"]

VARIABLES
    events,     \* the PMU's events, an option
    cpus,       \* CpuState of the CPUs that were ever seen
    activated,  \* some counter has been opened
    blocked,    \* blocked_until_full_discovery
    readings,   \* freshness of the readings of the last sample
    average,    \* of its average: freshness, and whether it has a value
    last        \* the last sample and the counters, for the properties

vars == <<events, cpus, activated, blocked, readings, average, last>>

Tracked == DOMAIN cpus
OpenGroups(states) == { c \in DOMAIN states : states[c].group }

(* read: CPUs whose counters were read; tries: how often a CPU's counters  *)
(* were opened since it was last measured, offline or in a full discovery; *)
(* others: the open files it counted before it opened counters;            *)
(* full: it was one of a full discovery; healthy: nothing changed or       *)
(* failed and every CPU was online.                                        *)
TypeOK ==
    /\ events \in Option(EventPairs)
    /\ Tracked \subseteq CPUs
    /\ cpus \in [Tracked -> CpuState]
    /\ {activated, blocked} \subseteq BOOLEAN
    /\ readings \in [DOMAIN readings -> Freshness] /\ DOMAIN readings \subseteq CPUs
    /\ average \in [freshness : Freshness, known : BOOLEAN]
    /\ last \in [read : SUBSET CPUs, tries : [CPUs -> Nat],
                 others : Option(Others), full : BOOLEAN,
                 healthy : BOOLEAN]

-----------------------------------------------------------------------------
(* What a sample finds: the CPU masks of sysfs if they could be read, open *)
(* files if they could be counted, and the fate of each counter.  A read   *)
(* may succeed and yet measure nothing: counters stand still, went back or *)
(* were not scheduled, or the interval is zero or too long.                *)
Topology == { t \in [present : SUBSET CPUs, online : SUBSET CPUs] :
                t.present # {} /\ t.online \subseteq t.present }

(* The counters are measured, read without measuring anything, unreadable, *)
(* cannot be opened, or cannot be opened for a reason that concerns every  *)
(* CPU (is_global_open_failure).                                           *)
Outcome == {"measured", "nothing", "unreadable", "unopened", "global"}

(* Effects of one CPU's sample *)

Closed(state, retry) ==
    [state EXCEPT !.group = FALSE, !.previous = FALSE, !.retry = retry]

Waiting(state) ==
    state.retry \in {"StaleUntilFullDiscovery", "UnavailableUntilFullDiscovery"}

WaitingFreshness(retry) ==
    IF retry = "StaleUntilFullDiscovery" THEN "Stale" ELSE "Unavailable"

Dimmed(state) == IF state.known THEN "Stale" ELSE "Unavailable"

Recovering(state) == state.retry = "RecoveryNextSample"

Wait(state) ==
    IF state.known THEN "StaleUntilFullDiscovery"
    ELSE "UnavailableUntilFullDiscovery"

WithoutCounters(state) ==
    Closed(state, IF Recovering(state) THEN Wait(state)
                  ELSE "UnavailableUntilFullDiscovery")

AfterFailedRead(state) ==
    Closed(state, IF Recovering(state) THEN Wait(state)
                  ELSE "RecoveryNextSample")

Result(state, freshness) == [state |-> state, freshness |-> freshness]

(* A read with no earlier one to compare with, and one that measures nothing *)
FirstRead(state) ==
    Result([state EXCEPT !.previous = TRUE],
           IF Recovering(state) THEN Dimmed(state) ELSE "Unavailable")

Unmeasured(state) ==
    Result(IF Recovering(state) THEN Closed(state, Wait(state)) ELSE state,
           Dimmed(state))

Read(state, outcome) ==
    IF outcome = "unreadable" THEN Result(AfterFailedRead(state), Dimmed(state))
    ELSE IF ~state.previous THEN FirstRead(state)
    ELSE IF outcome = "nothing" THEN Unmeasured(state)
    ELSE Result([state EXCEPT !.known = TRUE, !.retry = "NextSample"], "Current")

Opens(state) == ~state.group /\ ~Waiting(state)

(* What can become of the counters of a CPU in this state.                 *)
Outcomes(state) ==
    {"measured"}
    \cup (IF Opens(state) \/ state.group THEN {"unreadable"} ELSE {})
    \cup (IF Opens(state) THEN {"unopened", "global"} ELSE {})
    \cup (IF state.previous THEN {"nothing"} ELSE {})

(* sample_cpu of an online CPU, but for a failure that concerns them all.   *)
SampleCpu(state, outcome) ==
    IF ~state.group /\ Waiting(state)
    THEN Result(state, WaitingFreshness(state.retry))
    ELSE IF outcome = "unopened"
    THEN Result(WithoutCounters(state), WaitingFreshness(WithoutCounters(state).retry))
    ELSE Read([state EXCEPT !.group = TRUE, !.previous = state.group /\ @], outcome)

-----------------------------------------------------------------------------
(* Steps of sample *)

State(states, c) == IF c \in DOMAIN states THEN states[c] ELSE NewCpu

(* A mutant: a full discovery with the same events changes nothing. *)
RenewedWithoutRetry(full, found, states) ==
    IF ~full \/ found = events THEN states
    ELSE [c \in DOMAIN states |-> Closed(states[c], "NextSample")]

AfterFullDiscovery(retry) ==
    CASE retry = "StaleUntilFullDiscovery" -> "RecoveryNextSample"
      [] retry = "UnavailableUntilFullDiscovery" -> "NextSample"
      [] OTHER -> retry

(* refresh_capability and allow_full_discovery_retries *)
Renewed(full, found, states) ==
    IF ~full THEN states
    ELSE IF found # events
    THEN [c \in DOMAIN states |-> Closed(states[c], "NextSample")]
    ELSE [c \in DOMAIN states |->
            IF states[c].group THEN states[c]
            ELSE [states[c] EXCEPT !.retry = AfterFullDiscovery(@)]]

(* CPUs that are gone are forgotten, those that are offline closed. *)
Present(t, states) ==
    [c \in DOMAIN states \cap t.present |->
        IF c \in t.online THEN states[c] ELSE Closed(states[c], "NextSample")]

(* A mutant: room is made for the new counters only. *)
BudgetForNew(t, states, others) ==
    \A limit \in SoftLimit, o \in others :
        o + FdHeadroom
          + PerfFdsPerCpu * Cardinality(t.online \ OpenGroups(states)) <= limit

(* descriptor_budget_allows: of the open files, those of the counters do   *)
(* not count; all online CPUs do.                                          *)
Budget(t, states, others) ==
    \A limit \in SoftLimit, o \in others :
        LET own == PerfFdsPerCpu * Cardinality(OpenGroups(states))
            open == o + own
        IN (open - own) + FdHeadroom + PerfFdsPerCpu * Cardinality(t.online)
               <= limit

WillOpen(t, states) == \E c \in t.online : Opens(State(states, c))

Blocked(states) ==
    [c \in DOMAIN states |-> Closed(states[c], "UnavailableUntilFullDiscovery")]

Tracking(states, set) ==
    [c \in DOMAIN states \cup set |-> State(states, c)]

(* The average of the readings: offline CPUs count as zero; unknown ones   *)
(* are left out and make it stale.  Without any, the last one is kept.     *)
Average(fresh) ==
    LET Some(f) == \E c \in DOMAIN fresh : fresh[c] = f
        included == Some("Current") \/ Some("Offline")
    IN [known |-> average.known \/ included,
        freshness |-> IF Some("Stale") THEN "Stale"
                      ELSE IF Some("Unavailable")
                      THEN (IF included THEN "Stale" ELSE "Unavailable")
                      ELSE "Current"]

Attach(fresh) == readings' = fresh /\ average' = Average(fresh)
AttachNothing == readings' = <<>> /\ UNCHANGED average

(* attach_blocked: nothing before any counter was opened. *)
AttachBlocked(t, states) ==
    IF activated
    THEN /\ cpus' = Tracking(states, t.present)
         /\ Attach([c \in t.present |->
                      IF c \in t.online THEN "Unavailable" ELSE "Offline"])
    ELSE cpus' = states /\ AttachNothing

NoTries(t) == [c \in CPUs |-> IF c \in t.online THEN last.tries[c] ELSE 0]
Retries(full, tries) == IF full THEN [c \in CPUs |-> 0] ELSE tries

NoSample(full, tries) ==
    [read |-> {}, tries |-> Retries(full, tries), others |-> {},
     full |-> full, healthy |-> FALSE]

-----------------------------------------------------------------------------
(* Ways a sample goes *)

(* There are no such events, or none any more. *)
SampleWithoutEvents(full) ==
    /\ events' = {}
    /\ cpus' = Renewed(full, {}, cpus)
    /\ blocked' = (blocked /\ ~full)
    /\ AttachNothing
    /\ last' = NoSample(full, last.tries)
    /\ UNCHANGED activated

(* A mutant: what was read before is compared across this sample.          *)
SampleWithoutTopologyKeeping(full, found) ==
    /\ found # {}
    /\ events' = found
    /\ cpus' = Renewed(full, found, cpus)
    /\ blocked' = (blocked /\ ~full)
    /\ AttachNothing
    /\ last' = NoSample(full, last.tries)
    /\ UNCHANGED activated

(* The CPU masks cannot be read: nothing is compared across this sample. *)
SampleWithoutTopology(full, found) ==
    /\ found # {}
    /\ events' = found
    /\ cpus' = LET states == Renewed(full, found, cpus)
               IN [c \in Tracked |-> [states[c] EXCEPT !.previous = FALSE]]
    /\ blocked' = (blocked /\ ~full)
    /\ AttachNothing
    /\ last' = NoSample(full, last.tries)
    /\ UNCHANGED activated

(* Counters are given up until a full discovery, or were before; or there  *)
(* are not enough files for all of them.                                   *)
SampleBlocked(full, found, t, others) ==
    LET states == Present(t, Renewed(full, found, cpus))
        still == blocked /\ ~full
    IN /\ found # {}
       /\ IF still THEN others = {}
          ELSE WillOpen(t, states) /\ ~Budget(t, states, others)
       /\ events' = found
       /\ blocked' = TRUE
       /\ AttachBlocked(t, IF still THEN states ELSE Blocked(states))
       /\ last' = NoSample(full, NoTries(t))
       /\ UNCHANGED activated

(* The CPUs are sampled in order.  The first that cannot open its counters *)
(* for a reason that concerns all of them, if any, gives up on all.        *)
SampleCpus(full, found, t, others, outcome) ==
    LET states == Present(t, Renewed(full, found, cpus))
        openers == { c \in t.online : Opens(State(states, c)) }
        failing == { c \in openers :
                       /\ outcome[c] = "global"
                       /\ \A d \in openers : outcome[d] = "global" => c <= d }
        sampled == { c \in t.present : \A f \in failing : c < f }
        result == [c \in sampled |->
                      IF c \in t.online THEN SampleCpu(State(states, c), outcome[c])
                      ELSE Result(Closed(State(states, c), "NextSample"), "Offline")]
        after == [c \in DOMAIN states \cup sampled \cup failing |->
                      IF c \in sampled THEN result[c].state ELSE State(states, c)]
        fresh == [c \in sampled |-> result[c].freshness]
        current == { c \in sampled : fresh[c] = "Current" }
        tries == [c \in CPUs |->
                    IF c \in current THEN 0
                    ELSE NoTries(t)[c] + (IF c \in openers \cap (sampled \cup failing) THEN 1 ELSE 0)]
    IN /\ found # {}
       /\ full \/ ~blocked
       /\ \A c \in t.online : outcome[c] \in Outcomes(State(states, c))
       /\ IF WillOpen(t, states) THEN Budget(t, states, others) ELSE others = {}
       /\ events' = found
       /\ last' = [read |-> { c \in sampled : after[c].group },
                   tries |-> Retries(full, tries), others |-> others,
                   full |-> full,
                   healthy |-> /\ found = events /\ t.online = CPUs
                               /\ \A c \in CPUs : outcome[c] = "measured"]
       /\ IF failing # {}
          THEN /\ blocked' = TRUE
               /\ AttachBlocked(t, Blocked(after))
               /\ UNCHANGED activated
          ELSE /\ blocked' = FALSE
               /\ cpus' = after
               /\ activated' = (activated \/ OpenGroups(after) # {})
               /\ IF activated' THEN Attach(fresh) ELSE AttachNothing

(* A fast collection does not look for the events again. *)
Sample(full, found) ==
    /\ full \/ found = events
    /\ \/ found = {} /\ SampleWithoutEvents(full)
       \/ SampleWithoutTopology(full, found)
       \/ \E t \in Topology, others \in Option(Others) :
             \/ SampleBlocked(full, found, t, others)
             \/ \E outcome \in [t.online -> Outcome] :
                   SampleCpus(full, found, t, others, outcome)

Init ==
    /\ events \in Option(EventPairs)
    /\ cpus = <<>>
    /\ activated = FALSE
    /\ blocked = FALSE
    /\ readings = <<>>
    /\ average = [freshness |-> "Unavailable", known |-> FALSE]
    /\ last = [read |-> {}, tries |-> [c \in CPUs |-> 0], others |-> {},
               full |-> FALSE, healthy |-> FALSE]

FullDiscovery == \E found \in Option(EventPairs) : Sample(TRUE, found)
FastCollection == Sample(FALSE, events)

Next == FullDiscovery \/ FastCollection

Spec == Init /\ [][Next]_vars

(* Collections go on: weak fairness of Next, which is always enabled. *)
FairSpec == Spec /\ []<><<TRUE>>_vars

-----------------------------------------------------------------------------
(* Properties *)

(* A clock is only shown as current when the CPU's counters were read in   *)
(* this sample and in the one before: no failure, offline time, unreadable *)
(* mask or change of events ever lies between the two reads it is computed *)
(* from.                                                                   *)
MeasuredWithoutGap ==
    [][ \A c \in DOMAIN readings' :
          readings'[c] = "Current" => c \in last.read \cap last'.read ]_vars

(* A CPU whose counters do not work is not opened again and again: twice   *)
(* at most until the next full discovery.                                  *)
TriedTwiceAtMost == \A c \in CPUs : last.tries[c] <= 2

(* A sample that opens counters leaves the headroom of open files that it  *)
(* wants for the rest of the program.                                      *)
HeadroomLeft ==
    \A limit \in SoftLimit, o \in last.others :
        o + FdHeadroom + PerfFdsPerCpu * Cardinality(OpenGroups(cpus)) <= limit

(* Once nothing fails any more, and full discoveries go on now and then,   *)
(* every CPU is measured in every sample, whatever state earlier failures  *)
(* left its counters in.                                                   *)
Recovers ==
    <>[]last.healthy /\ []<>last.full
      => <>[](\A c \in CPUs : c \in DOMAIN readings /\ readings[c] = "Current")

(* The counters that are open are of the CPUs and within the limits of     *)
(* tries and of files.                                                     *)
CountersBounded == TypeOK /\ TriedTwiceAtMost /\ HeadroomLeft
=============================================================================
