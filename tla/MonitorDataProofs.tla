---------------------------- MODULE MonitorDataProofs ----------------------------
(***************************************************************************)
(* What the operations of MonitorCollector keep, and how messages in       *)
(* channels are counted, for the proofs about the worker's threads, the    *)
(* session and the other clients.                                          *)
(***************************************************************************)
EXTENDS MonitorData, FiniteSetTheorems, SequenceTheorems, TLAPS

(* Neither constructor of a command, nor an answer or a job built from one *)
(* and a collector, leaves its type.                                       *)
LEMMA Constructors ==
    /\ \A force \in BOOLEAN : Refresh(force) \in Command
    /\ \A include \in BOOLEAN : SetSensitive(include) \in Command
    /\ \A ids \in SUBSET Devices : StorageHealth(ids) \in Command
    /\ NoJob \in Job /\ NoUpdate \in Update /\ NoCommand \in Command
    /\ \A cmd \in Command, c \in Collector : Answer(cmd, c) \in Update
    /\ \A ids \in SUBSET Devices, c \in Collector : JobFor(c, ids) \in Job
    /\ \A c \in Collector : PeriodicJob(c) \in Job
  BY DEF Refresh, SetSensitive, StorageHealth, NoJob, NoUpdate, NoCommand,
         Answer, JobFor, PeriodicJob, Command, Update, Job, Collector, Operation

(* The base after a full discovery. *)
LEMMA Discovered ==
  ASSUME NEW c \in Collector, NEW include \in BOOLEAN,
         NEW d \in FullDiscovery(c, include)
  PROVE  /\ d \in Collector
         /\ d.sensitive = include
         /\ ~include /\ c.identified = {} => d.identified = {}
  <1>1. PICK t \in (SUBSET Devices) \X (SUBSET c.devices) \X (SUBSET Devices) :
          /\ t[3] \subseteq (IF include THEN t[1] ELSE {})
          /\ d = [c EXCEPT !.devices = t[1] \cup t[2],
                           !.identified = t[3] \cup (c.identified \cap t[2]),
                           !.sensitive = include]
    BY DEF FullDiscovery
  <1>2. /\ t[1] \in SUBSET Devices /\ t[2] \in SUBSET c.devices
        /\ t[3] \in SUBSET Devices
    BY <1>1
  <1>3. /\ c.devices \in SUBSET Devices /\ c.identified \in SUBSET Devices
        /\ c.checked \in BOOLEAN
        /\ c = [devices |-> c.devices, identified |-> c.identified,
                sensitive |-> c.sensitive, checked |-> c.checked]
    BY DEF Collector
  <1>4. d = [devices |-> t[1] \cup t[2],
             identified |-> t[3] \cup (c.identified \cap t[2]),
             sensitive |-> include, checked |-> c.checked]
    BY <1>1, <1>3
  <1>5. /\ (t[1] \cup t[2]) \in SUBSET Devices
        /\ (t[3] \cup (c.identified \cap t[2])) \in SUBSET Devices
    BY <1>2, <1>3
  <1>6. d \in Collector
    BY <1>3, <1>4, <1>5 DEF Collector
  <1>7. ~include => t[3] = {}
    BY <1>1
  <1> QED BY <1>4, <1>6, <1>7

(* The base after a health result. *)
LEMMA HealthKept ==
  ASSUME NEW c \in Collector, NEW job \in Job, NEW wanted \in BOOLEAN,
         NEW d \in HealthApplied(c, job, wanted)
  PROVE  /\ d \in Collector
         /\ d.sensitive = c.sensitive
         /\ ~wanted /\ c.identified = {} => d.identified = {}
  <1>1. PICK named \in SUBSET (IF job.sensitive /\ wanted THEN job.targets ELSE {}) :
          d = [c EXCEPT !.devices = @ \cup job.targets,
                        !.identified = @ \cup named,
                        !.checked = TRUE]
    BY DEF HealthApplied
  <1>2. job.targets \in SUBSET Devices /\ named \in SUBSET Devices
    BY <1>1 DEF Job
  <1>3. /\ c.devices \in SUBSET Devices /\ c.identified \in SUBSET Devices
        /\ c.sensitive \in BOOLEAN
        /\ c = [devices |-> c.devices, identified |-> c.identified,
                sensitive |-> c.sensitive, checked |-> c.checked]
    BY DEF Collector
  <1>4. d = [devices |-> c.devices \cup job.targets,
             identified |-> c.identified \cup named,
             sensitive |-> c.sensitive, checked |-> TRUE]
    BY <1>1, <1>3
  <1>5. d \in Collector
    BY <1>2, <1>3, <1>4 DEF Collector
  <1>6. ~wanted => named = {}
    BY <1>1
  <1> QED BY <1>4, <1>5, <1>6

(* A discovery, a refresh, a change of the identifying-information setting *)
(* and a health result take a MonitorCollector to a MonitorCollector, and  *)
(* one that hides identifying values to one that hides them, unless it is  *)
(* told to show them or a health result is wanted with them.               *)
LEMMA CollectorOperations ==
  ASSUME NEW c \in Collector, NEW d
  PROVE  /\ \A force : d \in Refreshed(c, force) =>
               /\ d \in Collector
               /\ ~c.sensitive /\ c.identified = {} =>
                     ~d.sensitive /\ d.identified = {}
         /\ \A include \in BOOLEAN : d \in SensitiveSet(c, include) =>
               /\ d \in Collector
               /\ ~include => ~d.sensitive /\ d.identified = {}
  <1>0. c.sensitive \in BOOLEAN
    BY DEF Collector
  <1>1. ASSUME NEW force, d \in Refreshed(c, force)
        PROVE  /\ d \in Collector
               /\ ~c.sensitive /\ c.identified = {} =>
                     ~d.sensitive /\ d.identified = {}
    <2>1. d = c \/ d \in FullDiscovery(c, c.sensitive)
      BY <1>1 DEF Refreshed
    <2> QED BY <2>1, <1>0, Discovered
  <1>2. ASSUME NEW include \in BOOLEAN, d \in SensitiveSet(c, include)
        PROVE  /\ d \in Collector
               /\ ~include => ~d.sensitive /\ d.identified = {}
    <2>1. CASE include
      BY <1>2, <2>1, Discovered DEF SensitiveSet
    <2>2. CASE ~include
      <3>1. PICK e \in FullDiscovery(c, FALSE) : d = [e EXCEPT !.identified = {}]
        BY <1>2, <2>2 DEF SensitiveSet
      <3>2. e \in Collector /\ e.sensitive = FALSE
        BY <3>1, Discovered
      <3> QED BY <3>1, <3>2 DEF Collector
    <2> QED BY <2>1, <2>2
  <1> QED BY <1>1, <1>2

-----------------------------------------------------------------------------
(* Channels *)

(* Indices with a property are counted in both parts of what they index.   *)
LEMMA CardinalityParts ==
  ASSUME NEW m \in Nat, NEW n \in Nat, NEW A \in SUBSET (1..m), NEW B \in SUBSET (1..n),
         NEW P \in SUBSET (1..(m + n)),
         \A i \in 1..m : i \in P <=> i \in A,
         \A j \in 1..n : m + j \in P <=> j \in B
  PROVE  /\ Cardinality(P) = Cardinality(A) + Cardinality(B)
         /\ Cardinality(A) \in Nat /\ Cardinality(B) \in Nat
  <1> DEFINE C == { m + j : j \in B }
             f == [j \in B |-> m + j]
  <1>1. IsFiniteSet(A) /\ IsFiniteSet(B)
    <2>1. IsFiniteSet(1..m) /\ IsFiniteSet(1..n)
      BY FS_Interval
    <2> QED BY <2>1, FS_Subset
  <1>2. f \in [B -> C] /\ \A i, j \in B : f[i] = f[j] => i = j
    OBVIOUS
  <1>3. \A c \in C : \E j \in B : f[j] = c
    OBVIOUS
  <1>4. f \in Bijection(B, C)
    BY <1>2, <1>3 DEF Bijection, Injection, Surjection, IsInjective
  <1>5. ExistsBijection(B, C)
    BY <1>4 DEF ExistsBijection
  <1>6. IsFiniteSet(C) /\ Cardinality(C) = Cardinality(B)
    BY <1>1, <1>5, FS_Bijection
  <1>7. A \cap C = {}
    OBVIOUS
  <1>8. Cardinality(A \cap C) = 0
    BY <1>7, FS_EmptySet
  <1>9. Cardinality(A) \in Nat /\ Cardinality(B) \in Nat
    BY <1>1, FS_CardinalityType
  <1>10. Cardinality(A \cup C) = Cardinality(A) + Cardinality(C) - Cardinality(A \cap C)
    BY <1>1, <1>6, FS_Union
  <1>11. ASSUME NEW i \in P PROVE i \in A \/ \E j \in B : i = m + j
    <2>1. CASE i \in 1..m
      BY <2>1
    <2>2. CASE i \notin 1..m
      <3>1. i - m \in 1..n /\ i = m + (i - m)
        BY <2>2
      <3>2. i - m \in B
        BY <3>1
      <3> QED BY <3>1, <3>2
    <2> QED BY <2>1, <2>2
  <1>12. P = A \cup C
    BY <1>11
  <1> HIDE DEF C
  <1> QED BY <1>6, <1>8, <1>9, <1>10, <1>12

(* A channel with room for one message. *)
LEMMA Single ==
  ASSUME NEW S, NEW s \in Seq(S), Len(s) <= 1, s # <<>>
  PROVE  s = <<Head(s)>> /\ Head(s) \in S /\ Len(s) = 1
  <1>1. Len(s) \in Nat /\ Len(s) # 0 /\ Head(s) \in S
    BY EmptySeq, HeadTailProperties
  <1> DEFINE n == Len(s)
  <1>2. n \in Nat /\ n # 0 /\ n <= 1
    BY <1>1
  <1> HIDE DEF n
  <1>3. n = 1
    BY <1>2
  <1>4. Len(s) = 1
    BY <1>3 DEF n
  <1>5. Head(s) = s[1]
    BY <1>1
  <1> QED BY <1>1, <1>4, <1>5
=============================================================================
