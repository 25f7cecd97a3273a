-------------------------- MODULE EffectiveClockProofs --------------------------
(***************************************************************************)
(* Proofs about EffectiveClock for every set of CPUs, every description of *)
(* the events, and every limit of open files.                              *)
(***************************************************************************)
EXTENDS EffectiveClock, FiniteSetTheorems, TLAPS

(* What a CPU's state says of the number of times its counters were opened *)
(* since they last measured: one that waits for a full discovery has none  *)
(* open, and one that fails again in its recovery will wait.               *)
Sound(state, tries) ==
    /\ tries <= 2
    /\ Waiting(state) => ~state.group
    /\ state.previous => state.group
    /\ state.retry = "NextSample" => tries <= (IF state.group THEN 1 ELSE 0)
    /\ state.retry = "RecoveryNextSample" => state.group \/ tries <= 1

(* An earlier read is only there when it was of the sample before, and no  *)
(* counters are open while all of them are given up.                       *)
ClockInv ==
    /\ TypeOK
    /\ \A c \in CPUs : Sound(State(cpus, c), last.tries[c])
    /\ \A c \in Tracked : cpus[c].previous => c \in last.read
    /\ blocked \/ events = {} => \A c \in Tracked : ~cpus[c].group
    /\ HeadroomLeft

-----------------------------------------------------------------------------
(* One CPU *)

LEMMA CpuFields ==
  ASSUME NEW s \in CpuState
  PROVE  /\ s = [group |-> s.group, previous |-> s.previous, known |-> s.known,
                 retry |-> s.retry]
         /\ s.group \in BOOLEAN /\ s.previous \in BOOLEAN /\ s.known \in BOOLEAN
         /\ s.retry \in Retry
  BY DEF CpuState

(* Closed counters are not open, and nothing is left to compare with.      *)
LEMMA ClosedCpu ==
  ASSUME NEW s \in CpuState, NEW r \in Retry
  PROVE  /\ Closed(s, r) \in CpuState
         /\ ~Closed(s, r).group /\ ~Closed(s, r).previous
         /\ Closed(s, r).known = s.known /\ Closed(s, r).retry = r
  BY CpuFields DEF Closed, CpuState

LEMMA NewCpuSound == NewCpu \in CpuState /\ Sound(NewCpu, 0)
  BY DEF NewCpu, CpuState, Retry, Sound, Waiting

(* Fewer tries are sound too.                                              *)
LEMMA FewerTries ==
  ASSUME NEW s \in CpuState, NEW m \in Nat, NEW n \in Nat, n <= m, Sound(s, m)
  PROVE  Sound(s, n)
  BY CpuFields DEF Sound, Waiting

(* Counters that were closed wait soundly after two tries, and may be      *)
(* opened anew when none is counted.                                       *)
LEMMA ClosedSound ==
  ASSUME NEW s \in CpuState, NEW r \in Retry, NEW n \in Nat, n <= 2,
         \/ r \in {"StaleUntilFullDiscovery", "UnavailableUntilFullDiscovery"}
         \/ n = 0
         \/ r = "RecoveryNextSample" /\ n <= 1
  PROVE  Sound(Closed(s, r), n)
  BY ClosedCpu DEF Sound, Waiting

(* Reading the counters of a CPU that has them open, sampled n times since *)
(* they were last measured: the one that measures makes the tries none.    *)
LEMMA ReadSound ==
  ASSUME NEW s \in CpuState, NEW n \in Nat, NEW outcome \in Outcome,
         s.group, Sound(s, n)
  PROVE  LET r == Read(s, outcome)
         IN /\ r = [state |-> r.state, freshness |-> r.freshness]
            /\ r.state \in CpuState /\ r.freshness \in Freshness
            /\ Sound(r.state, IF r.freshness = "Current" THEN 0 ELSE n)
            /\ r.freshness = "Current" => s.previous /\ r.state.group
  <1> DEFINE r == Read(s, outcome)
  <1>1. /\ s.group \in BOOLEAN /\ s.previous \in BOOLEAN /\ s.known \in BOOLEAN
        /\ s.retry \in {"NextSample", "RecoveryNextSample"}
        /\ s = [group |-> s.group, previous |-> s.previous, known |-> s.known,
                 retry |-> s.retry]
    BY CpuFields DEF Sound, Waiting, Retry
  <1>2. /\ Wait(s) \in {"StaleUntilFullDiscovery", "UnavailableUntilFullDiscovery"}
        /\ Wait(s) \in Retry /\ "RecoveryNextSample" \in Retry
        /\ Dimmed(s) \in {"Stale", "Unavailable"}
        /\ {"Stale", "Unavailable", "Current"} \subseteq Freshness
    BY DEF Wait, Retry, Dimmed, Freshness
  <1>3. CASE outcome = "unreadable"
    <2>1. r = [state |-> AfterFailedRead(s), freshness |-> Dimmed(s)]
      BY <1>3 DEF Read, Result
    <2>2. AfterFailedRead(s) = Closed(s, IF Recovering(s) THEN Wait(s)
                                         ELSE "RecoveryNextSample")
      BY DEF AfterFailedRead
    <2>3. n <= 2 /\ (~Recovering(s) => n <= 1)
      BY <1>1 DEF Recovering, Sound
    <2>4. Sound(AfterFailedRead(s), n) /\ AfterFailedRead(s) \in CpuState
      BY <1>2, <2>2, <2>3, ClosedSound, ClosedCpu
    <2> QED
      BY <1>2, <2>1, <2>4
  <1>4. CASE outcome # "unreadable" /\ ~s.previous
    <2> DEFINE t == [s EXCEPT !.previous = TRUE]
    <2>1. r = [state |-> t,
               freshness |-> IF Recovering(s) THEN Dimmed(s) ELSE "Unavailable"]
      BY <1>4 DEF Read, FirstRead, Result
    <2>2. t \in CpuState /\ t.group /\ t.retry = s.retry
      BY <1>1 DEF CpuState, Retry
    <2>3. Sound(t, n)
      BY <1>1, <2>2 DEF Sound, Waiting
    <2> QED
      BY <1>2, <2>1, <2>2, <2>3
  <1>5. CASE outcome = "nothing" /\ s.previous
    <2> DEFINE t == IF Recovering(s) THEN Closed(s, Wait(s)) ELSE s
    <2>1. r = [state |-> t, freshness |-> Dimmed(s)]
      BY <1>5 DEF Read, Unmeasured, Result
    <2>2. Sound(t, n) /\ t \in CpuState
      <3>1. n <= 2
        BY DEF Sound
      <3> QED
        BY <1>2, <3>1, ClosedSound, ClosedCpu
    <2> QED
      BY <1>2, <2>1, <2>2
  <1>6. CASE outcome \notin {"unreadable", "nothing"} /\ s.previous
    <2> DEFINE t == [s EXCEPT !.known = TRUE, !.retry = "NextSample"]
    <2>1. r = [state |-> t, freshness |-> "Current"]
      BY <1>6 DEF Read, Result
    <2>2. t \in CpuState /\ t.group /\ t.retry = "NextSample"
      BY <1>1 DEF CpuState, Retry
    <2>3. Sound(t, 0)
      BY <1>1, <2>2 DEF Sound, Waiting
    <2>4. r.state = t /\ r.freshness = "Current"
      BY <2>1
    <2>5. (IF r.freshness = "Current" THEN 0 ELSE n) = 0
      BY <2>4
    <2> HIDE DEF r, t
    <2>6. Sound(r.state, IF r.freshness = "Current" THEN 0 ELSE n)
      BY <2>3, <2>4, <2>5
    <2> QED
      BY <1>2, <1>6, <2>1, <2>2, <2>4, <2>6 DEF r
  <1> QED
    BY <1>3, <1>4, <1>5, <1>6

(* Sampling an online CPU: one more try if its counters are opened for it. *)
LEMMA SampleCpuSound ==
  ASSUME NEW s \in CpuState, NEW n \in Nat, NEW outcome \in Outcome, Sound(s, n)
  PROVE  LET r == SampleCpu(s, outcome)
             tries == n + (IF Opens(s) THEN 1 ELSE 0)
         IN /\ r = [state |-> r.state, freshness |-> r.freshness]
            /\ r.state \in CpuState /\ r.freshness \in Freshness
            /\ Sound(r.state, IF r.freshness = "Current" THEN 0 ELSE tries)
            /\ r.freshness = "Current" => s.previous /\ r.state.group
  <1> DEFINE r == SampleCpu(s, outcome)
             tries == n + (IF Opens(s) THEN 1 ELSE 0)
             t == [s EXCEPT !.group = TRUE, !.previous = s.group /\ s.previous]
  <1>1. s.group \in BOOLEAN /\ s.previous \in BOOLEAN /\ s.retry \in Retry
    BY CpuFields
  <1>2. CASE ~s.group /\ Waiting(s)
    <2>1. r = [state |-> s, freshness |-> WaitingFreshness(s.retry)]
      BY <1>2 DEF SampleCpu, Result
    <2>2. tries = n /\ WaitingFreshness(s.retry) \in {"Stale", "Unavailable"}
      BY <1>2 DEF Opens, WaitingFreshness
    <2> QED
      BY <2>1, <2>2 DEF Freshness
  <1>3. CASE ~(~s.group /\ Waiting(s)) /\ outcome = "unopened"
    <2> DEFINE w == IF Recovering(s) THEN Wait(s) ELSE "UnavailableUntilFullDiscovery"
    <2>1. WithoutCounters(s) = Closed(s, w)
      BY DEF WithoutCounters
    <2>2. /\ w \in Retry
          /\ w \in {"StaleUntilFullDiscovery", "UnavailableUntilFullDiscovery"}
      BY DEF Wait, Retry
    <2>3. r = [state |-> WithoutCounters(s),
               freshness |-> WaitingFreshness(WithoutCounters(s).retry)]
      BY <1>3 DEF SampleCpu, Result
    <2>4. WaitingFreshness(WithoutCounters(s).retry) \in {"Stale", "Unavailable"}
      BY DEF WaitingFreshness
    <2>5. tries \in Nat /\ tries <= 2
      BY <1>1, <1>3 DEF Opens, Sound, Waiting, Retry
    <2>6. Sound(WithoutCounters(s), tries) /\ WithoutCounters(s) \in CpuState
      BY <2>1, <2>2, <2>5, ClosedSound, ClosedCpu
    <2> QED
      BY <2>3, <2>4, <2>6 DEF Freshness
  <1>4. CASE ~(~s.group /\ Waiting(s)) /\ outcome # "unopened"
    <2>1. r = Read(t, outcome)
      BY <1>4 DEF SampleCpu
    <2>2. /\ t \in CpuState /\ t.group /\ t.retry = s.retry
          /\ t.previous => s.previous
          /\ t.previous = (s.group /\ s.previous)
      BY <1>1, CpuFields DEF CpuState
    <2>3. tries \in Nat /\ Sound(t, tries)
      BY <1>1, <1>4, <2>2 DEF Opens, Sound, Waiting, Retry
    <2> HIDE DEF t
    <2> QED
      BY <2>1, <2>2, <2>3, ReadSound
  <1> QED
    BY <1>2, <1>3, <1>4

-----------------------------------------------------------------------------
(* All of them *)

(* CPUs that are not tracked are as new.                                   *)
LEMMA StateSound ==
  ASSUME NEW D \in SUBSET CPUs, NEW states \in [D -> CpuState], NEW c
  PROVE  /\ State(states, c) \in CpuState
         /\ c \in D => State(states, c) = states[c]
         /\ c \notin D => State(states, c) = NewCpu
  BY NewCpuSound DEF State

(* What a full discovery leaves: it opens nothing, and closes all when the *)
(* events are others.                                                      *)
LEMMA RenewedSound ==
  ASSUME ClockInv, NEW full \in BOOLEAN, NEW found, full \/ found = events
  PROVE  LET states == Renewed(full, found, cpus)
         IN /\ states \in [Tracked -> CpuState]
            /\ \A c \in CPUs : Sound(State(states, c), Retries(full, last.tries)[c])
            /\ \A c \in Tracked :
                  /\ states[c].previous => cpus[c].previous
                  /\ states[c].group => cpus[c].group
                  /\ found # events => ~states[c].group
  <1> DEFINE states == Renewed(full, found, cpus)
  <1>1. cpus \in [Tracked -> CpuState] /\ Tracked \in SUBSET CPUs
    BY DEF ClockInv, TypeOK
  <1>2. /\ last.tries \in [CPUs -> Nat]
        /\ \A c \in CPUs : Sound(State(cpus, c), last.tries[c])
    BY DEF ClockInv, TypeOK
  <1>3. CASE ~full
    BY <1>1, <1>2, <1>3 DEF Renewed, Retries
  <1>4. CASE full /\ found # events
    <2>1. states = [d \in Tracked |-> Closed(cpus[d], "NextSample")]
      BY <1>4 DEF Renewed, Tracked
    <2>2. ASSUME NEW d \in Tracked
          PROVE  /\ cpus[d] \in CpuState /\ states[d] = Closed(cpus[d], "NextSample")
                 /\ states[d] \in CpuState /\ Sound(states[d], 0)
                 /\ ~states[d].previous /\ ~states[d].group
      <3>1. cpus[d] \in CpuState /\ "NextSample" \in Retry
        BY <1>1 DEF Retry
      <3> QED
        BY <2>1, <3>1, ClosedCpu, ClosedSound
    <2>3. states \in [Tracked -> CpuState]
      BY <2>1, <2>2
    <2>4. \A c \in CPUs : Sound(State(states, c), 0)
      BY <1>1, <2>2, <2>3, NewCpuSound DEF State, Tracked
    <2> QED
      BY <1>4, <2>2, <2>3, <2>4 DEF Retries
  <1>5. CASE full /\ found = events
    <2>1. states = [d \in Tracked |->
                      IF cpus[d].group THEN cpus[d]
                      ELSE [cpus[d] EXCEPT !.retry = AfterFullDiscovery(@)]]
      BY <1>5 DEF Renewed, Tracked
    <2>2. ASSUME NEW d \in Tracked
          PROVE  /\ states[d] \in CpuState /\ Sound(states[d], 0)
                 /\ states[d].previous = cpus[d].previous
                 /\ states[d].group = cpus[d].group
      <3> DEFINE r == AfterFullDiscovery(cpus[d].retry)
      <3>1. /\ cpus[d] \in CpuState /\ cpus[d].group \in BOOLEAN
            /\ Sound(cpus[d], last.tries[d]) /\ last.tries[d] \in Nat
        BY <1>1, <1>2, CpuFields DEF ClockInv, State, Tracked
      <3>2. r \in {"RecoveryNextSample", "NextSample"} /\ r \in Retry
        BY <3>1, CpuFields DEF AfterFullDiscovery, Retry
      <3>3. CASE cpus[d].group
        <4>1. 0 \in Nat /\ 0 <= last.tries[d] /\ states[d] = cpus[d]
          BY <2>1, <3>1, <3>3
        <4>2. Sound(cpus[d], 0)
          BY <3>1, <4>1, FewerTries
        <4> QED
          BY <3>1, <4>1, <4>2
      <3>4. CASE ~cpus[d].group
        <4> DEFINE t == [cpus[d] EXCEPT !.retry = r]
        <4>1. states[d] = t
          BY <2>1, <3>4
        <4>2. /\ t \in CpuState /\ t.retry = r
              /\ t.previous = cpus[d].previous /\ t.group = cpus[d].group
          BY <3>1, <3>2, CpuFields DEF CpuState
        <4>3. ~t.previous
          BY <3>1, <3>4, <4>2 DEF Sound
        <4>4. Sound(t, 0)
          BY <3>2, <3>4, <4>2, <4>3 DEF Sound, Waiting
        <4> QED
          BY <4>1, <4>2, <4>4
      <3> QED
        BY <3>1, <3>3, <3>4
    <2>3. states \in [Tracked -> CpuState]
      BY <2>1, <2>2
    <2>4. \A c \in CPUs : Sound(State(states, c), 0)
      BY <1>1, <2>2, <2>3, NewCpuSound DEF State, Tracked
    <2> QED
      BY <1>5, <2>2, <2>3, <2>4 DEF Retries
  <1> QED
    BY <1>3, <1>4, <1>5

(* CPUs that are gone or offline have no counters and no tries.            *)
LEMMA PresentSound ==
  ASSUME NEW D \in SUBSET CPUs, NEW states \in [D -> CpuState],
         NEW t \in Topology, NEW c \in CPUs, NEW n \in Nat, Sound(State(states, c), n)
  PROVE  LET there == Present(t, states)
         IN /\ there \in [D \cap t.present -> CpuState]
            /\ Sound(State(there, c), IF c \in t.online THEN n ELSE 0)
            /\ c \in t.online /\ c \in D => there[c] = states[c]
            /\ c \notin t.online /\ c \in D \cap t.present => ~there[c].group
  <1> DEFINE there == Present(t, states)
  <1>1. /\ there = [d \in D \cap t.present |->
                      IF d \in t.online THEN states[d] ELSE Closed(states[d], "NextSample")]
        /\ t.online \subseteq t.present
    BY DEF Present, Topology
  <1>2. ASSUME NEW d \in D \cap t.present
        PROVE  /\ states[d] \in CpuState /\ there[d] \in CpuState
               /\ d \in t.online => there[d] = states[d]
               /\ d \notin t.online => /\ there[d] = Closed(states[d], "NextSample")
                                       /\ ~there[d].group /\ Sound(there[d], 0)
    <2>1. states[d] \in CpuState /\ "NextSample" \in Retry
      BY DEF Retry
    <2> QED
      BY <1>1, <2>1, ClosedCpu, ClosedSound
  <1>3. there \in [D \cap t.present -> CpuState]
    BY <1>1, <1>2
  <1>4. Sound(State(there, c), IF c \in t.online THEN n ELSE 0)
    <2>1. CASE c \in D \cap t.present
      <3>1. State(there, c) = there[c] /\ State(states, c) = states[c]
        BY <1>3, <2>1 DEF State
      <3> QED
        BY <1>2, <2>1, <3>1
    <2>2. CASE c \notin D \cap t.present
      <3>1. State(there, c) = NewCpu
        BY <1>3, <2>2 DEF State
      <3>2. c \in t.online => State(states, c) = NewCpu
        BY <1>1, <2>2 DEF State
      <3> QED
        BY <3>1, <3>2, NewCpuSound
    <2> QED
      BY <2>1, <2>2
  <1> QED
    BY <1>1, <1>2, <1>3, <1>4

(* Giving up on all of them.                                               *)
LEMMA BlockedSound ==
  ASSUME NEW D \in SUBSET CPUs, NEW states \in [D -> CpuState], NEW c \in CPUs,
         NEW n \in Nat, n <= 2, c \notin D => n = 0
  PROVE  /\ Blocked(states) \in [D -> CpuState]
         /\ Sound(State(Blocked(states), c), n)
         /\ c \in D => ~Blocked(states)[c].group /\ ~Blocked(states)[c].previous
  <1>1. Blocked(states) = [d \in D |-> Closed(states[d], "UnavailableUntilFullDiscovery")]
    BY DEF Blocked
  <1>2. ASSUME NEW d \in D
        PROVE  /\ Blocked(states)[d] \in CpuState
               /\ ~Blocked(states)[d].group /\ ~Blocked(states)[d].previous
               /\ Sound(Blocked(states)[d], n)
    <2>1. "UnavailableUntilFullDiscovery" \in Retry
      BY DEF Retry
    <2> QED
      BY <1>1, <2>1, ClosedCpu, ClosedSound
  <1>3. CASE c \in D
    BY <1>1, <1>2, <1>3 DEF State
  <1>4. CASE c \notin D
    <2>1. State(Blocked(states), c) = NewCpu
      BY <1>1, <1>4 DEF State
    <2> QED
      BY <1>1, <1>2, <1>4, <2>1, NewCpuSound
  <1> QED
    BY <1>3, <1>4

(* Tracking more CPUs changes nothing about any.                           *)
LEMMA TrackingSame ==
  ASSUME NEW D \in SUBSET CPUs, NEW states \in [D -> CpuState], NEW S \in SUBSET CPUs,
         NEW c \in CPUs
  PROVE  /\ Tracking(states, S) \in [D \cup S -> CpuState]
         /\ State(Tracking(states, S), c) = State(states, c)
         /\ c \in D \cup S => Tracking(states, S)[c] = State(states, c)
  <1>1. \A d \in D \cup S : State(states, d) \in CpuState
    BY StateSound
  <1>2. Tracking(states, S) = [d \in D \cup S |-> State(states, d)]
    BY DEF Tracking
  <1> QED
    BY <1>1, <1>2 DEF State

-----------------------------------------------------------------------------
(* Types of what is shown *)

LEMMA NothingShown == <<>> \in [DOMAIN <<>> -> Freshness] /\ DOMAIN <<>> = {}
  OBVIOUS

LEMMA AverageType ==
  ASSUME NEW S, NEW fresh \in [S -> Freshness], TypeOK
  PROVE  Average(fresh) \in [freshness : Freshness, known : BOOLEAN]
  BY DEF Average, Freshness, TypeOK

LEMMA EmptyOption == ASSUME NEW S PROVE {} \in Option(S)
  BY DEF Option

LEMMA AttachTypes ==
  ASSUME NEW S \in SUBSET CPUs, NEW fresh \in [S -> Freshness], TypeOK, Attach(fresh)
  PROVE  /\ readings' = fresh
         /\ readings' \in [DOMAIN readings' -> Freshness] /\ DOMAIN readings' \subseteq CPUs
         /\ average' \in [freshness : Freshness, known : BOOLEAN]
  BY AverageType DEF Attach

LEMMA AttachNothingTypes ==
  ASSUME TypeOK, AttachNothing
  PROVE  /\ readings' \in [DOMAIN readings' -> Freshness] /\ DOMAIN readings' = {}
         /\ average' \in [freshness : Freshness, known : BOOLEAN]
  BY NothingShown DEF AttachNothing, TypeOK

(* Given up, no CPU is shown as current, and the states are the given ones. *)
LEMMA AttachBlockedEffect ==
  ASSUME NEW D \in SUBSET CPUs, NEW states \in [D -> CpuState], NEW t \in Topology,
         TypeOK, AttachBlocked(t, states)
  PROVE  /\ cpus' \in [DOMAIN cpus' -> CpuState] /\ DOMAIN cpus' \in SUBSET CPUs
         /\ \A c \in CPUs : State(cpus', c) = State(states, c)
         /\ \A c \in DOMAIN cpus' : cpus'[c] = State(states, c)
         /\ readings' \in [DOMAIN readings' -> Freshness] /\ DOMAIN readings' \subseteq CPUs
         /\ average' \in [freshness : Freshness, known : BOOLEAN]
         /\ \A c \in DOMAIN readings' : readings'[c] # "Current"
  <1>1. CASE activated
    <2> DEFINE fresh == [c \in t.present |->
                            IF c \in t.online THEN "Unavailable" ELSE "Offline"]
    <2>1. cpus' = Tracking(states, t.present) /\ Attach(fresh)
      BY <1>1 DEF AttachBlocked
    <2>2. t.present \in SUBSET CPUs /\ fresh \in [t.present -> Freshness]
      BY DEF Topology, Freshness
    <2>a. cpus' = Tracking(states, t.present)
      BY <2>1
    <2>b. t.present \in SUBSET CPUs
      BY <2>2
    <2>c. \A c \in CPUs :
             /\ Tracking(states, t.present) \in [D \cup t.present -> CpuState]
             /\ State(Tracking(states, t.present), c) = State(states, c)
             /\ c \in D \cup t.present => Tracking(states, t.present)[c] = State(states, c)
      BY <2>b, TrackingSame
    <2>3. cpus' \in [D \cup t.present -> CpuState]
      <3>1. CASE CPUs = {}
        BY <2>a, <2>b, <3>1 DEF Tracking
      <3> QED
        BY <2>a, <2>c, <3>1
    <2>4. \A c \in CPUs : State(cpus', c) = State(states, c)
      BY <2>a, <2>c
    <2>5. \A c \in DOMAIN cpus' : cpus'[c] = State(states, c)
      <3>1. ASSUME NEW c \in D \cup t.present PROVE cpus'[c] = State(states, c)
        BY <2>a, <2>b, <2>c
      <3>2. DOMAIN cpus' = D \cup t.present
        BY <2>3
      <3> QED
        BY <3>1, <3>2
    <2>6. \A c \in t.present : fresh[c] # "Current"
      OBVIOUS
    <2> HIDE DEF fresh
    <2>7. /\ readings' = fresh
          /\ readings' \in [DOMAIN readings' -> Freshness] /\ DOMAIN readings' \subseteq CPUs
          /\ average' \in [freshness : Freshness, known : BOOLEAN]
      BY <2>1, <2>2, AttachTypes
    <2> QED
      BY <2>2, <2>3, <2>4, <2>5, <2>6, <2>7
  <1>2. CASE ~activated
    <2>1. cpus' = states /\ AttachNothing
      BY <1>2 DEF AttachBlocked
    <2> QED
      BY <2>1, AttachNothingTypes DEF State
  <1> QED
    BY <1>1, <1>2

(* With a budget for all that are online, any of them may be open.         *)
LEMMA BudgetLeavesHeadroom ==
  ASSUME NEW D \in SUBSET CPUs, NEW states \in [D -> CpuState], NEW t \in Topology,
         NEW others \in Option(Others), Budget(t, states, others),
         NEW S, S \subseteq t.online,
         NEW limit \in SoftLimit, NEW o \in others
  PROVE  o + FdHeadroom + PerfFdsPerCpu * Cardinality(S) <= limit
  <1>1. limit \in Nat /\ o \in Nat /\ IsFiniteSet(CPUs)
    BY ClockAssumption DEF ClockAssumption, Option
  <1>2. t.online \subseteq CPUs /\ OpenGroups(states) \subseteq CPUs
    BY DEF Topology, OpenGroups
  <1>3. /\ IsFiniteSet(t.online) /\ IsFiniteSet(OpenGroups(states))
    BY <1>1, <1>2, FS_Subset
  <1>4. Cardinality(t.online) \in Nat /\ Cardinality(OpenGroups(states)) \in Nat
    BY <1>3, FS_CardinalityType
  <1>5. Cardinality(S) \in Nat /\ Cardinality(S) <= Cardinality(t.online)
    BY <1>3, FS_Subset, FS_CardinalityType
  <1>6. ((o + PerfFdsPerCpu * Cardinality(OpenGroups(states)))
            - PerfFdsPerCpu * Cardinality(OpenGroups(states)))
          + FdHeadroom + PerfFdsPerCpu * Cardinality(t.online) <= limit
    BY DEF Budget
  <1> QED
    BY <1>1, <1>4, <1>5, <1>6 DEF FdHeadroom, PerfFdsPerCpu

LEMMA TriesAfter ==
  ASSUME TypeOK, NEW full \in BOOLEAN, NEW t \in Topology
  PROVE  /\ last.tries \in [CPUs -> Nat]
         /\ NoTries(t) \in [CPUs -> Nat]
         /\ Retries(full, last.tries) \in [CPUs -> Nat]
         /\ Retries(full, NoTries(t)) \in [CPUs -> Nat]
         /\ \A c \in CPUs :
               Retries(full, NoTries(t))[c]
                 = IF c \in t.online THEN Retries(full, last.tries)[c] ELSE 0
  BY DEF TypeOK, NoTries, Retries

LEMMA NoSampleType ==
  ASSUME NEW full \in BOOLEAN, NEW tries \in [CPUs -> Nat]
  PROVE  /\ NoSample(full, tries) \in
               [read : SUBSET CPUs, tries : [CPUs -> Nat], others : Option(Others),
                full : BOOLEAN, healthy : BOOLEAN]
         /\ NoSample(full, tries).read = {} /\ NoSample(full, tries).others = {}
         /\ NoSample(full, tries).tries = Retries(full, tries)
  <1>1. Retries(full, tries) \in [CPUs -> Nat] /\ {} \in Option(Others)
    BY EmptyOption DEF Retries
  <1> QED
    BY <1>1 DEF NoSample

-----------------------------------------------------------------------------
(* The ways a sample goes *)

(* A clock shown as current was read in this sample and in the last one.   *)
Gapless ==
    \A c \in DOMAIN readings' : readings'[c] = "Current" => c \in last.read \cap last'.read

(* What is common to the samples that read nothing: the states are sound   *)
(* with the tries, and none is read across them.                           *)
LEMMA NothingRead ==
  ASSUME ClockInv, NEW full \in BOOLEAN, NEW tries \in [CPUs -> Nat],
         last' = NoSample(full, tries),
         events' \in Option(EventPairs), activated' \in BOOLEAN, blocked' \in BOOLEAN,
         cpus' \in [DOMAIN cpus' -> CpuState], DOMAIN cpus' \in SUBSET CPUs,
         readings' \in [DOMAIN readings' -> Freshness], DOMAIN readings' \subseteq CPUs,
         average' \in [freshness : Freshness, known : BOOLEAN],
         \A c \in DOMAIN readings' : readings'[c] # "Current",
         \A c \in CPUs : Sound(State(cpus', c), Retries(full, tries)[c]),
         \A c \in DOMAIN cpus' : ~cpus'[c].previous,
         blocked' \/ events' = {} => \A c \in DOMAIN cpus' : ~cpus'[c].group
  PROVE  ClockInv' /\ Gapless
  <1>1. /\ last' \in [read : SUBSET CPUs, tries : [CPUs -> Nat], others : Option(Others),
                      full : BOOLEAN, healthy : BOOLEAN]
        /\ last'.others = {} /\ last'.tries = Retries(full, tries)
    BY NoSampleType
  <1>2. TypeOK'
    BY <1>1 DEF TypeOK, Tracked
  <1>3. HeadroomLeft'
    BY <1>1 DEF HeadroomLeft
  <1>4. (\A c \in CPUs : Sound(State(cpus, c), last.tries[c]))'
    BY <1>1
  <1> QED
    BY <1>2, <1>3, <1>4 DEF ClockInv, Gapless, Tracked

LEMMA WithoutEventsKeeps ==
  ASSUME ClockInv, NEW full \in BOOLEAN, full \/ events = {}, SampleWithoutEvents(full)
  PROVE  ClockInv' /\ Gapless
  <1> DEFINE states == Renewed(full, {}, cpus)
  <1>1. /\ TypeOK /\ last.tries \in [CPUs -> Nat] /\ {} \in Option(EventPairs)
        /\ activated \in BOOLEAN /\ blocked \in BOOLEAN /\ Tracked \in SUBSET CPUs
    BY EmptyOption DEF ClockInv, TypeOK
  <1>2. /\ cpus' = states /\ last' = NoSample(full, last.tries) /\ events' = {}
        /\ activated' = activated /\ blocked' = (blocked /\ ~full) /\ AttachNothing
    BY DEF SampleWithoutEvents
  <1>3. /\ states \in [Tracked -> CpuState]
        /\ \A c \in CPUs : Sound(State(states, c), Retries(full, last.tries)[c])
        /\ \A c \in Tracked : /\ states[c].group => cpus[c].group
                              /\ {} # events => ~states[c].group
    BY RenewedSound
  <1>4. \A c \in Tracked : ~states[c].group
    BY <1>3 DEF ClockInv
  <1>5. \A c \in Tracked : ~states[c].previous
    BY <1>1, <1>3, <1>4 DEF Sound, State, Tracked
  <1>6. /\ readings' \in [DOMAIN readings' -> Freshness] /\ DOMAIN readings' = {}
        /\ average' \in [freshness : Freshness, known : BOOLEAN]
    BY <1>1, <1>2, AttachNothingTypes
  <1> HIDE DEF states
  <1>7. /\ cpus' \in [DOMAIN cpus' -> CpuState] /\ DOMAIN cpus' = Tracked
        /\ blocked' \in BOOLEAN
        /\ \A c \in CPUs : Sound(State(cpus', c), Retries(full, last.tries)[c])
        /\ \A c \in DOMAIN cpus' : ~cpus'[c].group /\ ~cpus'[c].previous
    BY <1>1, <1>2, <1>3, <1>4, <1>5
  <1> QED
    BY <1>1, <1>2, <1>6, <1>7, NothingRead

LEMMA WithoutTopologyKeeps ==
  ASSUME ClockInv, NEW full \in BOOLEAN, NEW found \in Option(EventPairs),
         full \/ found = events, SampleWithoutTopology(full, found)
  PROVE  ClockInv' /\ Gapless
  <1> DEFINE states == Renewed(full, found, cpus)
             now == [c \in Tracked |-> [states[c] EXCEPT !.previous = FALSE]]
  <1>1. /\ TypeOK /\ last.tries \in [CPUs -> Nat]
        /\ activated \in BOOLEAN /\ blocked \in BOOLEAN /\ Tracked \in SUBSET CPUs
    BY DEF ClockInv, TypeOK
  <1>2. /\ cpus' = now /\ last' = NoSample(full, last.tries) /\ events' = found
        /\ activated' = activated /\ blocked' = (blocked /\ ~full) /\ AttachNothing
        /\ found # {}
    BY DEF SampleWithoutTopology
  <1>3. /\ states \in [Tracked -> CpuState]
        /\ \A c \in CPUs : Sound(State(states, c), Retries(full, last.tries)[c])
        /\ \A c \in Tracked : states[c].group => cpus[c].group
    BY RenewedSound
  <1>4. Retries(full, last.tries) \in [CPUs -> Nat]
    BY <1>1 DEF Retries
  <1> HIDE DEF states
  <1>5. ASSUME NEW c \in Tracked
        PROVE  /\ now[c] \in CpuState /\ ~now[c].previous
               /\ now[c].group = states[c].group
               /\ Sound(now[c], Retries(full, last.tries)[c])
    <2>1. states[c] \in CpuState /\ Sound(states[c], Retries(full, last.tries)[c])
      BY <1>1, <1>3 DEF State
    <2>2. /\ now[c] \in CpuState /\ ~now[c].previous /\ now[c].group = states[c].group
          /\ now[c].retry = states[c].retry
      BY <2>1, CpuFields DEF CpuState
    <2>3. Sound(now[c], Retries(full, last.tries)[c])
      BY <2>1, <2>2 DEF Sound, Waiting
    <2> QED
      BY <2>2, <2>3
  <1>6. /\ readings' \in [DOMAIN readings' -> Freshness] /\ DOMAIN readings' = {}
        /\ average' \in [freshness : Freshness, known : BOOLEAN]
    BY <1>1, <1>2, AttachNothingTypes
  <1>7. now \in [Tracked -> CpuState]
    BY <1>5
  <1>8. \A c \in CPUs : Sound(State(now, c), Retries(full, last.tries)[c])
    BY <1>3, <1>5, <1>7 DEF State
  <1>9. blocked' \/ events' = {} => \A c \in Tracked : ~now[c].group
    BY <1>2, <1>3, <1>5 DEF ClockInv
  <1> HIDE DEF now
  <1>10. /\ cpus' \in [DOMAIN cpus' -> CpuState] /\ DOMAIN cpus' = Tracked
         /\ \A c \in CPUs : Sound(State(cpus', c), Retries(full, last.tries)[c])
         /\ \A c \in DOMAIN cpus' : ~cpus'[c].previous
         /\ blocked' \/ events' = {} => \A c \in DOMAIN cpus' : ~cpus'[c].group
    BY <1>2, <1>5, <1>7, <1>8, <1>9
  <1> QED
    BY <1>1, <1>2, <1>6, <1>10, NothingRead

(* Where the samples with a topology begin: the states of the CPUs that    *)
(* are there, with the tries since they were measured, offline or in a     *)
(* full discovery.                                                         *)
LEMMA StartOfSample ==
  ASSUME ClockInv, NEW full \in BOOLEAN, NEW found, full \/ found = events,
         NEW t \in Topology
  PROVE  LET states == Present(t, Renewed(full, found, cpus))
             tries == Retries(full, NoTries(t))
             there == Tracked \cap t.present
         IN /\ states \in [there -> CpuState] /\ there \in SUBSET CPUs
            /\ tries \in [CPUs -> Nat]
            /\ \A c \in CPUs : Sound(State(states, c), tries[c])
            /\ \A c \in there :
                  /\ states[c].previous => cpus[c].previous
                  /\ states[c].group => cpus[c].group
            /\ \A c \in CPUs \ t.online : tries[c] = 0
  <1> DEFINE renewed == Renewed(full, found, cpus)
             states == Present(t, renewed)
             tries == Retries(full, NoTries(t))
             there == Tracked \cap t.present
  <1>1. /\ TypeOK /\ Tracked \in SUBSET CPUs
    BY DEF ClockInv, TypeOK
  <1>2. /\ renewed \in [Tracked -> CpuState]
        /\ \A c \in CPUs : Sound(State(renewed, c), Retries(full, last.tries)[c])
        /\ \A c \in Tracked : /\ renewed[c].previous => cpus[c].previous
                              /\ renewed[c].group => cpus[c].group
    BY RenewedSound
  <1>3. /\ tries \in [CPUs -> Nat]
        /\ \A c \in CPUs : /\ Retries(full, last.tries)[c] \in Nat
                           /\ tries[c] = IF c \in t.online
                                         THEN Retries(full, last.tries)[c] ELSE 0
    BY <1>1, TriesAfter
  <1> HIDE DEF renewed, tries
  <1>4. states \in [there -> CpuState]
    <2>1. \A c \in there : renewed[c] \in CpuState /\ "NextSample" \in Retry
      BY <1>1, <1>2 DEF Retry
    <2>2. states = [c \in there |-> IF c \in t.online THEN renewed[c]
                                    ELSE Closed(renewed[c], "NextSample")]
      BY <1>2 DEF Present
    <2>3. \A c \in there : states[c] \in CpuState
      BY <2>1, <2>2, ClosedCpu
    <2> QED
      BY <2>2, <2>3
  <1>5. ASSUME NEW c \in CPUs
        PROVE  /\ Sound(State(states, c), tries[c])
               /\ c \in t.online /\ c \in Tracked => states[c] = renewed[c]
               /\ c \notin t.online /\ c \in there => ~states[c].group
    <2> DEFINE n == Retries(full, last.tries)[c]
    <2>1. /\ n \in Nat /\ Sound(State(renewed, c), n)
          /\ tries[c] = IF c \in t.online THEN n ELSE 0
      BY <1>2, <1>3
    <2> HIDE DEF n, states
    <2>2. /\ Sound(State(Present(t, renewed), c), IF c \in t.online THEN n ELSE 0)
          /\ c \in t.online /\ c \in Tracked => Present(t, renewed)[c] = renewed[c]
          /\ c \notin t.online /\ c \in there => ~Present(t, renewed)[c].group
      <3>1. Tracked \in SUBSET CPUs /\ renewed \in [Tracked -> CpuState]
        BY <1>1, <1>2
      <3>2. n \in Nat /\ Sound(State(renewed, c), n)
        BY <2>1
      <3> QED
        BY <3>1, <3>2, PresentSound, Zenon
    <2> QED
      BY <2>1, <2>2 DEF states
  <1>6. ASSUME NEW c \in there
        PROVE  /\ states[c].previous => cpus[c].previous
               /\ states[c].group => cpus[c].group
    <2>1. Sound(states[c], tries[c]) /\ states[c] \in CpuState
      BY <1>1, <1>4, <1>5 DEF State
    <2> HIDE DEF states
    <2>2. states[c].previous => states[c].group
      BY <2>1 DEF Sound
    <2> QED
      BY <1>1, <1>2, <1>5, <2>2
  <1> QED
    BY <1>1, <1>3, <1>4, <1>5, <1>6 DEF renewed, tries

(* Nothing is counted of a CPU that is as new.                             *)
LEMMA NoTriesWhenNew == ASSUME NEW n \in Nat, Sound(NewCpu, n) PROVE n = 0
  BY DEF Sound, NewCpu

LEMMA BlockedKeeps ==
  ASSUME ClockInv, NEW full \in BOOLEAN, NEW found \in Option(EventPairs),
         full \/ found = events, NEW t \in Topology, NEW others \in Option(Others),
         SampleBlocked(full, found, t, others)
  PROVE  ClockInv' /\ Gapless
  <1> DEFINE states == Present(t, Renewed(full, found, cpus))
             tries == Retries(full, NoTries(t))
             there == Tracked \cap t.present
             still == blocked /\ ~full
             given == IF still THEN states ELSE Blocked(states)
  <1>1. /\ TypeOK /\ last.tries \in [CPUs -> Nat] /\ activated \in BOOLEAN
        /\ blocked \in BOOLEAN
    BY DEF ClockInv, TypeOK
  <1>2. /\ last' = NoSample(full, NoTries(t)) /\ events' = found
        /\ activated' = activated /\ blocked' = TRUE /\ AttachBlocked(t, given)
    BY DEF SampleBlocked
  <1>3. /\ states \in [there -> CpuState] /\ there \in SUBSET CPUs
        /\ tries \in [CPUs -> Nat]
        /\ \A c \in CPUs : Sound(State(states, c), tries[c])
        /\ \A c \in there : states[c].group => cpus[c].group
    BY StartOfSample
  <1>4. NoTries(t) \in [CPUs -> Nat]
    BY <1>1, TriesAfter
  <1> HIDE DEF states, tries
  <1>5. /\ given \in [there -> CpuState]
        /\ \A c \in CPUs : Sound(State(given, c), tries[c])
        /\ \A c \in there : ~given[c].group
    <2>1. CASE still
      BY <1>3, <2>1 DEF ClockInv
    <2>2. CASE ~still
      <3>1. \A c \in CPUs : /\ tries[c] \in Nat /\ tries[c] <= 2
                            /\ c \notin there => tries[c] = 0
        <4> TAKE c \in CPUs
        <4>1. c \notin there => State(states, c) = NewCpu
          BY <1>3 DEF State
        <4> QED
          BY <1>3, <4>1, NoTriesWhenNew DEF Sound
      <3>2. Blocked(states) \in [there -> CpuState]
        <4>1. \A c \in there : states[c] \in CpuState /\ "UnavailableUntilFullDiscovery" \in Retry
          BY <1>3 DEF Retry
        <4> QED
          BY <1>3, <4>1, ClosedCpu DEF Blocked
      <3>3. \A c \in CPUs : /\ Sound(State(Blocked(states), c), tries[c])
                            /\ c \in there => ~Blocked(states)[c].group
        BY <1>3, <3>1, BlockedSound
      <3> QED
        BY <1>3, <2>2, <3>2, <3>3
    <2> QED
      BY <2>1, <2>2
  <1> HIDE DEF given
  <1>6. /\ cpus' \in [DOMAIN cpus' -> CpuState] /\ DOMAIN cpus' \in SUBSET CPUs
        /\ \A c \in CPUs : State(cpus', c) = State(given, c)
        /\ \A c \in DOMAIN cpus' : cpus'[c] = State(given, c)
        /\ readings' \in [DOMAIN readings' -> Freshness] /\ DOMAIN readings' \subseteq CPUs
        /\ average' \in [freshness : Freshness, known : BOOLEAN]
        /\ \A c \in DOMAIN readings' : readings'[c] # "Current"
    BY <1>1, <1>2, <1>3, <1>5, AttachBlockedEffect
  <1>7. \A c \in CPUs : Sound(State(cpus', c), tries[c])
    BY <1>5, <1>6
  <1>8. \A c \in DOMAIN cpus' : ~cpus'[c].group /\ ~cpus'[c].previous
    <2> TAKE c \in DOMAIN cpus'
    <2>1. State(given, c) \in {given[c], NewCpu} /\ (c \notin there => State(given, c) = NewCpu)
      BY <1>5 DEF State
    <2>2. ~State(given, c).group
      BY <1>5, <2>1 DEF NewCpu, State
    <2>3. ~State(given, c).previous
      BY <1>5, <1>6, <2>2 DEF Sound
    <2> QED
      BY <1>6, <2>2, <2>3
  <1> QED
    BY <1>1, <1>2, <1>4, <1>6, <1>7, <1>8, NothingRead DEF tries

LEMMA CpusKeep ==
  ASSUME ClockInv, NEW full \in BOOLEAN, NEW found \in Option(EventPairs),
         full \/ found = events, NEW t \in Topology, NEW others \in Option(Others),
         NEW outcome \in [t.online -> Outcome],
         SampleCpus(full, found, t, others, outcome)
  PROVE  ClockInv' /\ Gapless
  <1> DEFINE states == Present(t, Renewed(full, found, cpus))
             there == Tracked \cap t.present
             start == Retries(full, NoTries(t))
             openers == { c \in t.online : Opens(State(states, c)) }
             failing == { c \in openers :
                            /\ outcome[c] = "global"
                            /\ \A d \in openers : outcome[d] = "global" => c <= d }
             sampled == { c \in t.present : \A f \in failing : c < f }
             result == [c \in sampled |->
                          IF c \in t.online THEN SampleCpu(State(states, c), outcome[c])
                          ELSE Result(Closed(State(states, c), "NextSample"), "Offline")]
             after == [c \in DOMAIN states \cup sampled \cup failing |->
                          IF c \in sampled THEN result[c].state ELSE State(states, c)]
             fresh == [c \in sampled |-> result[c].freshness]
             current == { c \in sampled : fresh[c] = "Current" }
             opened == [c \in CPUs |->
                          IF c \in openers \cap (sampled \cup failing) THEN 1 ELSE 0]
             tries == [c \in CPUs |->
                         IF c \in current THEN 0
                         ELSE NoTries(t)[c]
                                + (IF c \in openers \cap (sampled \cup failing) THEN 1 ELSE 0)]
             now == Retries(full, tries)
  <1>1. /\ TypeOK /\ last.tries \in [CPUs -> Nat] /\ activated \in BOOLEAN
        /\ t.present \in SUBSET CPUs /\ t.online \subseteq t.present
    BY DEF ClockInv, TypeOK, Topology
  <1>2. /\ found # {} /\ events' = found
        /\ IF WillOpen(t, states) THEN Budget(t, states, others) ELSE others = {}
        /\ last' = [read |-> { c \in sampled : after[c].group }, tries |-> now,
                    others |-> others, full |-> full,
                    healthy |-> /\ found = events /\ t.online = CPUs
                                /\ \A c \in CPUs : outcome[c] = "measured"]
        /\ IF failing # {}
           THEN /\ blocked' = TRUE
                /\ AttachBlocked(t, Blocked(after))
                /\ UNCHANGED activated
           ELSE /\ blocked' = FALSE
                /\ cpus' = after
                /\ activated' = (activated \/ OpenGroups(after) # {})
                /\ IF activated' THEN Attach(fresh) ELSE AttachNothing
    BY DEF SampleCpus
  <1>3. /\ states \in [there -> CpuState] /\ there \in SUBSET CPUs
        /\ start \in [CPUs -> Nat]
        /\ \A c \in CPUs : Sound(State(states, c), start[c])
        /\ \A c \in there : states[c].previous => cpus[c].previous
        /\ \A c \in CPUs \ t.online : start[c] = 0
    BY StartOfSample
  <1>4. /\ NoTries(t) \in [CPUs -> Nat]
        /\ \A c \in CPUs : IF full THEN start[c] >= 0 ELSE start[c] = NoTries(t)[c]
    BY <1>1, <1>3, TriesAfter DEF Retries
  <1> HIDE DEF states, start
  <1>5. /\ failing \subseteq openers /\ openers \subseteq t.online
        /\ sampled \subseteq t.present /\ sampled \cap failing = {}
        /\ failing = {} => sampled = t.present
    <2>1. \A c \in CPUs : ~(c < c)
      BY ClockAssumption DEF ClockAssumption
    <2>2. failing \subseteq openers /\ openers \subseteq t.online
      OBVIOUS
    <2>3. sampled \subseteq t.present /\ \A c \in sampled, f \in failing : c < f
      OBVIOUS
    <2>4. failing = {} => sampled = t.present
      OBVIOUS
    <2> HIDE DEF sampled, failing, openers
    <2> QED
      BY <1>1, <2>1, <2>2, <2>3, <2>4
  (* What becomes of a CPU that is sampled. *)
  <1>6. ASSUME NEW c \in sampled
        PROVE  /\ result[c] = [state |-> result[c].state, freshness |-> result[c].freshness]
               /\ result[c].state \in CpuState /\ result[c].freshness \in Freshness
               /\ Sound(result[c].state, IF c \in current THEN 0 ELSE start[c] + opened[c])
               /\ result[c].freshness = "Current" =>
                     c \in there /\ states[c].previous /\ result[c].state.group
               /\ c \notin t.online => ~result[c].state.group
    <2> DEFINE s == State(states, c)
    <2>1. /\ c \in CPUs /\ s \in CpuState /\ start[c] \in Nat /\ Sound(s, start[c])
          /\ c \in there => s = states[c]
          /\ c \notin there => s = NewCpu
      <3>1. c \in CPUs /\ start[c] \in Nat /\ Sound(s, start[c])
        BY <1>1, <1>3, <1>5
      <3>2. s \in CpuState /\ (c \in there => s = states[c]) /\ (c \notin there => s = NewCpu)
        BY <1>3, StateSound
      <3> QED
        BY <3>1, <3>2
    <2>2. CASE c \in t.online
      <3>1. result[c] = SampleCpu(s, outcome[c]) /\ outcome[c] \in Outcome
        BY <2>2
      <3>2. opened[c] = IF Opens(s) THEN 1 ELSE 0
        BY <2>1, <2>2
      <3>3. c \in current <=> result[c].freshness = "Current"
        OBVIOUS
      <3> HIDE DEF s, opened, result, current, sampled
      <3>4. /\ result[c] = [state |-> result[c].state, freshness |-> result[c].freshness]
            /\ result[c].state \in CpuState /\ result[c].freshness \in Freshness
            /\ Sound(result[c].state,
                     IF result[c].freshness = "Current" THEN 0
                     ELSE start[c] + (IF Opens(s) THEN 1 ELSE 0))
            /\ result[c].freshness = "Current" => s.previous /\ result[c].state.group
        BY <2>1, <3>1, SampleCpuSound
      <3>5. s.previous => c \in there /\ states[c].previous
        BY <2>1 DEF NewCpu
      <3> QED
        BY <2>2, <3>2, <3>3, <3>4, <3>5
    <2>3. CASE c \notin t.online
      <3>1. result[c] = [state |-> Closed(s, "NextSample"), freshness |-> "Offline"]
        BY <2>3 DEF Result
      <3>2. start[c] = 0 /\ opened[c] = 0 /\ c \notin current
        BY <1>3, <2>1, <2>3, <3>1
      <3>3. "NextSample" \in Retry /\ 0 \in Nat
        BY DEF Retry
      <3> HIDE DEF s, opened, result, current, sampled
      <3>4. /\ Closed(s, "NextSample") \in CpuState /\ ~Closed(s, "NextSample").group
            /\ Sound(Closed(s, "NextSample"), 0)
        BY <2>1, <3>3, ClosedCpu, ClosedSound
      <3> QED
        BY <2>3, <3>1, <3>2, <3>4 DEF Freshness
    <2> QED
      BY <2>2, <2>3
  <1>7. /\ DOMAIN after = there \cup sampled \cup failing
        /\ DOMAIN after \in SUBSET CPUs
        /\ \A c \in sampled : after[c] = result[c].state
        /\ \A c \in CPUs \ sampled : State(after, c) = State(states, c)
        /\ \A c \in DOMAIN after \ sampled : after[c] = State(states, c)
    BY <1>1, <1>3, <1>5 DEF State
  <1>8. after \in [DOMAIN after -> CpuState]
    <2>1. \A c \in DOMAIN after : State(states, c) \in CpuState
      BY <1>3, StateSound
    <2>2. \A c \in DOMAIN after : after[c] \in CpuState
      BY <1>6, <1>7, <2>1
    <2> QED
      BY <2>2
  <1>9. fresh \in [sampled -> Freshness] /\ sampled \in SUBSET CPUs
    BY <1>1, <1>5, <1>6
  (* How often the counters of each have been opened after this sample. *)
  <1>10. /\ now \in [CPUs -> Nat]
         /\ \A c \in CPUs :
               /\ now[c] <= IF c \in current THEN 0 ELSE start[c] + opened[c]
               /\ c \notin sampled \cup failing => now[c] <= start[c]
               /\ opened[c] \in {0, 1} /\ (c \notin sampled \cup failing => opened[c] = 0)
    <2>1. tries \in [CPUs -> Nat] /\ now \in [CPUs -> Nat]
      BY <1>4 DEF Retries
    <2>2. ASSUME NEW c \in CPUs
          PROVE  /\ now[c] <= IF c \in current THEN 0 ELSE start[c] + opened[c]
                 /\ opened[c] \in {0, 1}
                 /\ c \notin sampled \cup failing => opened[c] = 0 /\ c \notin current
      <3>1. /\ opened[c] \in {0, 1}
            /\ tries[c] = IF c \in current THEN 0 ELSE NoTries(t)[c] + opened[c]
            /\ c \notin sampled \cup failing => opened[c] = 0 /\ c \notin current
        OBVIOUS
      <3>2. now[c] = IF full THEN 0 ELSE tries[c]
        BY DEF Retries
      <3> HIDE DEF opened, tries, now, current, sampled, failing
      <3> QED
        BY <1>3, <1>4, <3>1, <3>2
    <2> HIDE DEF opened, tries, now, current, sampled, failing
    <2> QED
      BY <1>3, <2>1, <2>2
  <1>11. ASSUME NEW c \in CPUs, c \notin failing
         PROVE  Sound(State(after, c), now[c])
    <2> DEFINE most == IF c \in current THEN 0 ELSE start[c] + opened[c]
    <2>1. /\ start[c] \in Nat /\ opened[c] \in {0, 1} /\ now[c] \in Nat /\ now[c] <= most
          /\ c \notin sampled => now[c] <= start[c]
      BY <1>3, <1>10, <1>11
    <2> HIDE DEF openers, result, after, fresh, opened, tries, now, sampled, current, failing
    <2>2. most \in Nat
      BY <2>1
    <2>3. CASE c \in sampled
      <3>1. State(after, c) = result[c].state
        BY <1>7, <2>3 DEF State
      <3> QED
        BY <1>6, <2>1, <2>2, <2>3, <3>1, FewerTries
    <2>4. CASE c \notin sampled
      <3>1. State(after, c) = State(states, c) /\ State(states, c) \in CpuState
        BY <1>3, <1>7, <2>4, StateSound
      <3> QED
        BY <1>3, <2>1, <2>4, <3>1, FewerTries
    <2> QED
      BY <2>3, <2>4
  <1>12. ASSUME NEW c \in CPUs
         PROVE  now[c] \in Nat /\ now[c] <= 2 /\ (c \notin DOMAIN after => now[c] = 0)
    <2>1. CASE c \notin failing
      <3>1. Sound(State(after, c), now[c]) /\ now[c] \in Nat
        BY <1>10, <1>11, <2>1
      <3> HIDE DEF after, now, failing
      <3>2. c \notin DOMAIN after => State(after, c) = NewCpu
        BY DEF State
      <3> QED
        BY <3>1, <3>2, NoTriesWhenNew DEF Sound
    <2>2. CASE c \in failing
      <3>1. Opens(State(states, c)) /\ c \in DOMAIN after /\ c \notin current
        BY <1>5, <1>7, <2>2
      <3>2. /\ start[c] \in Nat /\ Sound(State(states, c), start[c])
            /\ State(states, c) \in CpuState
        BY <1>3, StateSound
      <3>3. start[c] <= 1
        BY <3>1, <3>2, CpuFields DEF Opens, Sound, Waiting, Retry
      <3>4. now[c] \in Nat /\ opened[c] \in {0, 1} /\ now[c] <= start[c] + opened[c]
        BY <1>10, <3>1
      <3> HIDE DEF after, now, opened
      <3> QED
        BY <3>1, <3>2, <3>3, <3>4
    <2> QED
      BY <2>1, <2>2
  <1> HIDE DEF openers, result, after, fresh, opened, tries, now
  <1>13. /\ last' \in [read : SUBSET CPUs, tries : [CPUs -> Nat], others : Option(Others),
                       full : BOOLEAN, healthy : BOOLEAN]
         /\ last'.tries = now /\ last'.others = others
         /\ last'.read = { c \in sampled : after[c].group }
    BY <1>2, <1>9, <1>10
  <1>14. CASE failing # {}
    <2> DEFINE given == Blocked(after)
    <2>1. blocked' = TRUE /\ AttachBlocked(t, given) /\ activated' = activated
      BY <1>2, <1>14
    <2>2. given \in [DOMAIN after -> CpuState]
      <3>1. "UnavailableUntilFullDiscovery" \in Retry
        BY DEF Retry
      <3> QED
        BY <1>8, <3>1, ClosedCpu DEF Blocked
    <2>3. \A c \in CPUs : /\ Sound(State(given, c), now[c])
                          /\ c \in DOMAIN after => ~given[c].group /\ ~given[c].previous
      BY <1>7, <1>8, <1>12, BlockedSound
    <2> HIDE DEF given
    <2>4. /\ cpus' \in [DOMAIN cpus' -> CpuState] /\ DOMAIN cpus' \in SUBSET CPUs
          /\ \A c \in CPUs : State(cpus', c) = State(given, c)
          /\ \A c \in DOMAIN cpus' : cpus'[c] = State(given, c)
          /\ readings' \in [DOMAIN readings' -> Freshness] /\ DOMAIN readings' \subseteq CPUs
          /\ average' \in [freshness : Freshness, known : BOOLEAN]
          /\ \A c \in DOMAIN readings' : readings'[c] # "Current"
      BY <1>1, <1>7, <2>1, <2>2, AttachBlockedEffect
    <2>5. \A c \in DOMAIN cpus' : ~cpus'[c].group /\ ~cpus'[c].previous
      <3> TAKE c \in DOMAIN cpus'
      <3>1. c \in CPUs /\ cpus'[c] = State(given, c)
        BY <2>4
      <3>2. CASE c \in DOMAIN after
        <4>1. State(given, c) = given[c]
          BY <2>2, <3>2 DEF State
        <4> QED
          <5>1. cpus'[c] = given[c] /\ ~given[c].group /\ ~given[c].previous
            BY <2>3, <3>1, <3>2, <4>1
          <5> QED
            BY <5>1, Zenon
      <3>3. CASE c \notin DOMAIN after
        <4>1. State(given, c) = NewCpu
          BY <2>2, <3>3 DEF State
        <4> QED
          BY <3>1, <4>1 DEF NewCpu
      <3> QED
        BY <3>2, <3>3
    <2>6. OpenGroups(cpus)' = {} /\ {} \subseteq t.online
      BY <2>5 DEF OpenGroups
    <2>7. HeadroomLeft'
      <3>1. others = {} \/ Budget(t, states, others)
        BY <1>2
      <3>2. \A limit \in SoftLimit, o \in others :
               o + FdHeadroom + PerfFdsPerCpu * Cardinality({}) <= limit
        BY <1>3, <2>6, <3>1, BudgetLeavesHeadroom
      <3> QED
        BY <1>13, <2>6, <3>2 DEF HeadroomLeft
    <2>8. TypeOK'
      BY <1>1, <1>2, <1>13, <2>1, <2>4 DEF TypeOK, Tracked
    <2>9. (\A c \in CPUs : Sound(State(cpus, c), last.tries[c]))'
      <3>1. ASSUME NEW c \in CPUs PROVE Sound(State(cpus', c), last'.tries[c])
        <4>1. Sound(State(given, c), now[c]) /\ State(cpus', c) = State(given, c)
          BY <2>3, <2>4
        <4> QED
          BY <1>13, <4>1
      <3> QED
        BY <3>1
    <2> QED
      BY <2>4, <2>5, <2>7, <2>8, <2>9 DEF ClockInv, Gapless, Tracked
  <1>15. CASE failing = {}
    <2>1. blocked' = FALSE /\ cpus' = after /\ sampled = t.present
      BY <1>2, <1>5, <1>15
    <2>2. DOMAIN after = sampled
      BY <1>7, <1>15, <2>1
    <2>3. activated' \in BOOLEAN
      BY <1>1, <1>2, <1>15
    <2>4. /\ readings' \in [DOMAIN readings' -> Freshness] /\ DOMAIN readings' \subseteq CPUs
          /\ average' \in [freshness : Freshness, known : BOOLEAN]
          /\ readings' = fresh \/ DOMAIN readings' = {}
      BY <1>1, <1>2, <1>9, <1>15, AttachTypes, AttachNothingTypes
    <2>5. \A c \in DOMAIN after : after[c].group => c \in t.online
      BY <1>6, <1>7, <2>2
    <2>6. HeadroomLeft'
      <3>1. others = {} \/ Budget(t, states, others)
        BY <1>2
      <3>2. OpenGroups(cpus)' \subseteq t.online
        BY <2>1, <2>5 DEF OpenGroups
      <3> DEFINE open == OpenGroups(cpus')
      <3>3. open \subseteq t.online /\ OpenGroups(cpus)' = open
        BY <3>2
      <3> HIDE DEF open
      <3>4. \A limit \in SoftLimit, o \in others :
               o + FdHeadroom + PerfFdsPerCpu * Cardinality(open) <= limit
        BY <1>3, <3>1, <3>3, BudgetLeavesHeadroom
      <3> QED
        BY <1>13, <3>3, <3>4 DEF HeadroomLeft
    <2>7. TypeOK'
      BY <1>2, <1>7, <1>8, <1>13, <2>1, <2>3, <2>4 DEF TypeOK, Tracked
    <2>8. (\A c \in CPUs : Sound(State(cpus, c), last.tries[c]))'
      BY <1>11, <1>13, <1>15, <2>1
    <2>9. \A c \in DOMAIN after : after[c].previous => c \in last'.read
      <3>1. \A c \in DOMAIN after : Sound(after[c], now[c])
        BY <1>7, <1>11, <1>15 DEF State
      <3> QED
        BY <1>13, <2>2, <3>1 DEF Sound
    <2>10. Gapless
      <3>1. ASSUME NEW c \in sampled, fresh[c] = "Current"
            PROVE  c \in last.read \cap last'.read
        <4>1. result[c].freshness = "Current"
          BY <3>1 DEF fresh
        <4>2. c \in there /\ states[c].previous /\ result[c].state.group
          BY <1>6, <4>1
        <4>3. cpus[c].previous /\ c \in Tracked /\ after[c].group
          BY <1>3, <1>7, <4>2
        <4> QED
          BY <1>13, <4>3 DEF ClockInv
      <3>2. DOMAIN fresh = sampled
        BY <1>9
      <3> QED
        BY <2>4, <3>1, <3>2 DEF Gapless
    <2> QED
      BY <1>2, <2>1, <2>6, <2>7, <2>8, <2>9, <2>10 DEF ClockInv, Tracked
  <1> QED
    BY <1>14, <1>15

-----------------------------------------------------------------------------
(* Theorems *)

LEMMA ClockStart == Init => ClockInv
  <1> SUFFICES ASSUME Init PROVE ClockInv
    OBVIOUS
  <1>1. /\ cpus = <<>> /\ readings = <<>> /\ last.tries = [c \in CPUs |-> 0]
        /\ last.others = {}
    BY DEF Init
  <1>2. DOMAIN cpus = {} /\ \A c \in CPUs : State(cpus, c) = NewCpu
    BY <1>1 DEF State
  <1>3. cpus \in [Tracked -> CpuState] /\ Tracked = {}
    BY <1>1, <1>2 DEF Tracked
  <1>4. readings \in [DOMAIN readings -> Freshness] /\ DOMAIN readings = {}
    BY <1>1, NothingShown
  <1>5. TypeOK
    <2>1. {} \in Option(Others)
      BY EmptyOption
    <2> QED
      BY <1>3, <1>4, <2>1 DEF Init, TypeOK, Freshness
  <1> QED
    BY <1>1, <1>2, <1>3, <1>5, NewCpuSound DEF ClockInv, HeadroomLeft, Init

LEMMA SampleKeeps ==
  ASSUME ClockInv, NEW full \in BOOLEAN, NEW found \in Option(EventPairs),
         Sample(full, found)
  PROVE  ClockInv' /\ Gapless
  <1>1. full \/ found = events
    BY DEF Sample
  <1>2. CASE found = {} /\ SampleWithoutEvents(full)
    BY <1>1, <1>2, WithoutEventsKeeps
  <1>3. CASE SampleWithoutTopology(full, found)
    BY <1>1, <1>3, WithoutTopologyKeeps
  <1>4. ASSUME NEW t \in Topology, NEW others \in Option(Others),
               SampleBlocked(full, found, t, others)
        PROVE  ClockInv' /\ Gapless
    BY <1>1, <1>4, BlockedKeeps
  <1>5. ASSUME NEW t \in Topology, NEW others \in Option(Others),
               NEW outcome \in [t.online -> Outcome],
               SampleCpus(full, found, t, others, outcome)
        PROVE  ClockInv' /\ Gapless
    BY <1>1, <1>5, CpusKeep
  <1> QED
    BY <1>2, <1>3, <1>4, <1>5 DEF Sample

LEMMA ClockInductive ==
  ASSUME ClockInv, [Next]_vars
  PROVE  ClockInv' /\ (Gapless \/ UNCHANGED vars)
  <1>1. CASE FullDiscovery
    BY <1>1, SampleKeeps DEF FullDiscovery
  <1>2. CASE FastCollection
    <2>1. events \in Option(EventPairs)
      BY DEF ClockInv, TypeOK
    <2> QED
      BY <1>2, <2>1, SampleKeeps DEF FastCollection
  <1>3. CASE UNCHANGED vars
    <2>1. UNCHANGED <<events, cpus, activated, blocked, readings, average, last>>
      BY <1>3 DEF vars
    <2>2. TypeOK'
      BY <2>1 DEF ClockInv, TypeOK, Tracked
    <2>3. HeadroomLeft'
      BY <2>1 DEF ClockInv, HeadroomLeft
    <2>4. (\A c \in CPUs : Sound(State(cpus, c), last.tries[c]))'
      BY <2>1 DEF ClockInv
    <2> QED
      BY <1>3, <2>1, <2>2, <2>3, <2>4 DEF ClockInv, Tracked
  <1> QED
    BY <1>1, <1>2, <1>3 DEF Next

(* The collector's data are of their types, no CPU's counters are opened   *)
(* more than twice between two measurements, offline times or full         *)
(* discoveries, and a sample that opens counters leaves the headroom.      *)
THEOREM ClocksAreBounded == Spec => []CountersBounded
  <1>1. ClockInv => CountersBounded
    <2> SUFFICES ASSUME ClockInv PROVE CountersBounded
      OBVIOUS
    <2>1. TriedTwiceAtMost
      BY DEF ClockInv, TriedTwiceAtMost, Sound
    <2> QED
      BY <2>1 DEF ClockInv, CountersBounded
  <1>2. Init => ClockInv
    BY ClockStart
  <1>3. ClockInv /\ [Next]_vars => ClockInv'
    BY ClockInductive
  <1> QED
    BY <1>1, <1>2, <1>3, PTL DEF Spec

(* A clock is shown as current only when it was computed from the reads of *)
(* two samples in a row.                                                   *)
THEOREM ClocksAreMeasured == Spec => MeasuredWithoutGap
  <1>1. ClockInv /\ [Next]_vars
          => [\A c \in DOMAIN readings' :
                 readings'[c] = "Current" => c \in last.read \cap last'.read]_vars
    BY ClockInductive DEF Gapless
  <1>2. Init => ClockInv
    BY ClockStart
  <1>3. ClockInv /\ [Next]_vars => ClockInv'
    BY ClockInductive
  <1> QED
    BY <1>1, <1>2, <1>3, PTL DEF Spec, MeasuredWithoutGap
=============================================================================
