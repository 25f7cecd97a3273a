----------------------------- MODULE ReadingsProofs -----------------------------
(***************************************************************************)
(* What becomes of a reading in the collector, for any sensors, modules,   *)
(* CPUs, zones, counters and drives: every part has an inductive invariant *)
(* of its own, and a step of a part leaves the others alone.               *)
(***************************************************************************)
EXTENDS MCReadings, FiniteSetTheorems, NaturalsInduction, WellFoundedInduction, TLAPS

(* The least of a set of numbers, a fact the parts share. *)
LEMMA LeastOf ==
  ASSUME NEW S \in SUBSET Nat, S # {}
  PROVE  \E i \in S : \A j \in S : i <= j
  <1>1. PICK i \in S : \A j \in S : <<j, i>> \notin OpToRel(<, Nat)
    BY NatLessThanWellFounded, WFMin
  <1>2. \A j \in S : ~ (j < i)
    <2> SUFFICES ASSUME NEW j \in S PROVE j < i => <<j, i>> \in { p \in Nat \X Nat : p[1] < p[2] }
      BY <1>1 DEF OpToRel
    <2> QED
      OBVIOUS
  <1> QED
    BY <1>2

-----------------------------------------------------------------------------
(* Freshness of the readings *)

FreshnessInv == TypeOK /\ CurrentIsNew /\ DimmedKeepsItsTime

LEMMA FreshnessStart == Init => FreshnessInv
  <1> SUFFICES ASSUME Init PROVE FreshnessInv
    OBVIOUS
  <1>1. PICK found \in SUBSET Sensors :
          /\ base \in [found -> Reading]
          /\ last = [full |-> TRUE, observed |-> found, succeeded |-> Sensors]
    BY DEF Init
  <1>2. captured = 1 /\ MaxTime \in Nat \ {0} /\ Listed = found
    BY <1>1, FreshnessAssumption DEF Init, FreshnessAssumption, Listed
  <1>3. ASSUME NEW s \in Listed
        PROVE  /\ base[s] \in Reading /\ base[s].freshness \in Freshness
               /\ base[s].updated \in 0 .. MaxTime
               /\ base[s].freshness # "Stale"
               /\ base[s].freshness = "Current" => base[s].updated = captured
    BY <1>1, <1>2, <1>3 DEF Init, Reading
  <1>4. lastGood = [s \in Sensors |-> IF s \in Listed THEN base[s].updated ELSE Never]
    BY DEF Init
  <1>5. lastGood \in [Sensors -> 0 .. MaxTime]
    BY <1>2, <1>3, <1>4 DEF Never
  <1>6. TypeOK
    BY <1>1, <1>2, <1>3, <1>5 DEF TypeOK
  <1>7. CurrentIsNew
    BY <1>1, <1>2, <1>3 DEF CurrentIsNew
  <1>8. DimmedKeepsItsTime
    BY <1>1, <1>2, <1>4 DEF DimmedKeepsItsTime
  <1> QED
    BY <1>6, <1>7, <1>8 DEF FreshnessInv

(* What a collection makes of a reading, observed or not.                  *)
LEMMA FreshReading ==
  ASSUME FreshnessInv, NEW o \in Outcomes, NEW full \in BOOLEAN, NEW sticky,
         Collect(o, full, sticky), NEW s \in Observed(o)
  PROVE  /\ Fresh(o, s, full, sticky) \in Reading
         /\ Fresh(o, s, full, sticky).freshness = Reported(o, s)
         /\ Fresh(o, s, full, sticky).updated
              = IF Reported(o, s) = "Current" THEN captured' ELSE lastGood[s]
         /\ s \in Sensors /\ Reported(o, s) \in Freshness
         /\ Reported(o, s) = "Stale" => lastGood[s] # Never
  <1>1. s \in Sensors /\ Reported(o, s) \in Freshness
    BY DEF Observed, Reported, Outcomes, Outcome, Freshness
  <1>2. captured' \in 0 .. MaxTime /\ lastGood[s] \in 0 .. MaxTime
    BY <1>1 DEF Collect, FreshnessInv, TypeOK
  <1>3. ASSUME s \in Listed PROVE base[s].enriched \in BOOLEAN
    BY <1>3 DEF FreshnessInv, TypeOK, Reading
  <1>4. (s \in o.enriched \/ (~full /\ s \in Listed /\ s \in sticky /\ base[s].enriched))
           \in BOOLEAN
    BY <1>3
  <1>5. Reported(o, s) = "Stale" => lastGood[s] # Never
    BY <1>1 DEF Collect, Reported
  <1> QED
    BY <1>1, <1>2, <1>4, <1>5 DEF Fresh, Reading

LEMMA RetainedReading ==
  ASSUME FreshnessInv, NEW o, NEW s \in Listed
  PROVE  /\ Retained(o, s) \in Reading
         /\ Retained(o, s).freshness \in {"Stale", "Unavailable"}
         /\ Retained(o, s).updated # Never
         /\ base[s].updated # Never => Retained(o, s).updated = base[s].updated
  <1>1. /\ base[s] \in Reading /\ captured \in 1 .. MaxTime /\ MaxTime \in Nat
    BY FreshnessAssumption DEF FreshnessInv, TypeOK, FreshnessAssumption
  <1>2. MissingFreshness(o, s) \in {"Stale", "Unavailable"}
    BY DEF MissingFreshness
  <1>3. /\ captured \in 0 .. MaxTime /\ captured # 0
        /\ base[s].updated \in 0 .. MaxTime /\ base[s].enriched \in BOOLEAN
        /\ base[s].freshness \in Freshness
    BY <1>1 DEF Reading
  <1> QED
    BY <1>1, <1>2, <1>3 DEF Retained, Reading, Freshness, Never

LEMMA CollectKeeps ==
  ASSUME FreshnessInv, NEW o \in Outcomes, NEW full \in BOOLEAN, NEW sticky,
         Collect(o, full, sticky)
  PROVE  /\ FreshnessInv'
         /\ \A s \in Listed \ DOMAIN base' :
               last'.full /\ s \in last'.succeeded \ last'.observed
  <1> DEFINE observed == Observed(o)
             kept == Kept(o, full)
  <1>1. /\ captured \in 1 .. MaxTime /\ MaxTime \in Nat
        /\ Listed \subseteq Sensors /\ lastGood \in [Sensors -> 0 .. MaxTime]
    BY FreshnessAssumption DEF FreshnessInv, TypeOK, FreshnessAssumption
  <1>2. captured' \in 1 .. MaxTime
    BY <1>1 DEF Collect
  <1>3. /\ base' = [s \in observed \cup kept |->
                      IF s \in observed THEN Fresh(o, s, full, sticky) ELSE Retained(o, s)]
        /\ lastGood' = [s \in Sensors |->
                          IF s \in observed /\ Reported(o, s) = "Current" THEN captured'
                          ELSE IF s \in o.forgotten THEN Never ELSE lastGood[s]]
        /\ last' = [full |-> full, observed |-> observed,
                    succeeded |-> { s \in Sensors : CollectorOf[s] \notin o.failed
                                                    /\ s \notin Degraded(o) }]
    BY DEF Collect
  <1>4. observed \subseteq Sensors /\ kept \subseteq Listed /\ observed \cap kept = {}
    BY DEF Observed, Kept, Outcomes, Outcome
  <1>5. ASSUME NEW s \in observed
        PROVE  /\ base'[s] \in Reading /\ base'[s].freshness = Reported(o, s)
               /\ base'[s].updated
                    = IF Reported(o, s) = "Current" THEN captured' ELSE lastGood[s]
               /\ Reported(o, s) = "Stale" => lastGood[s] # Never
    <2>1. base'[s] = Fresh(o, s, full, sticky)
      BY <1>3
    <2> QED
      BY <2>1, FreshReading
  <1>6. ASSUME NEW s \in kept
        PROVE  /\ base'[s] \in Reading
               /\ base'[s].freshness \in {"Stale", "Unavailable"}
               /\ base'[s].updated # Never
               /\ base[s].updated # Never => base'[s].updated = base[s].updated
               /\ s \in Listed /\ s \notin observed
    <2>1. base'[s] = Retained(o, s) /\ s \in Listed
      BY <1>3, <1>4
    <2> QED
      BY <1>4, <2>1, RetainedReading
  <1>7. lastGood' \in [Sensors -> 0 .. MaxTime]
    <2>1. captured' \in 0 .. MaxTime /\ Never \in 0 .. MaxTime
      BY <1>1, <1>2 DEF Never
    <2> HIDE DEF observed
    <2> QED
      BY <1>1, <1>3, <2>1
  <1>8. DOMAIN base' = observed \cup kept
    BY <1>3
  <1> HIDE DEF observed, kept
  <1>9. TypeOK'
    <2>1. base' \in [DOMAIN base' -> Reading]
      BY <1>3, <1>5, <1>6, <1>8
    <2>2. \A s \in DOMAIN base' : base'[s].freshness = "Stale" => base'[s].updated # Never
      BY <1>5, <1>6, <1>8
    <2>3. last' \in [full : BOOLEAN, observed : SUBSET Sensors, succeeded : SUBSET Sensors]
      BY <1>3, <1>4
    <2>4. DOMAIN base' \subseteq Sensors
      BY <1>1, <1>4, <1>8
    <2> QED
      BY <1>2, <1>7, <2>1, <2>2, <2>3, <2>4 DEF TypeOK, Listed
  <1>10. CurrentIsNew'
    BY <1>3, <1>5, <1>6, <1>8 DEF CurrentIsNew, Listed
  <1>11. DimmedKeepsItsTime'
    <2>1. ASSUME NEW s \in observed, lastGood'[s] # Never
          PROVE  base'[s].updated = lastGood'[s]
      BY <1>3, <1>4, <1>5, <2>1
    <2>2. ASSUME NEW s \in kept, lastGood'[s] # Never
          PROVE  base'[s].updated = lastGood'[s]
      <3>1. lastGood'[s] = lastGood[s]
        BY <1>1, <1>3, <1>6, <2>2
      <3>2. base[s].updated = lastGood[s]
        BY <1>6, <2>2, <3>1 DEF FreshnessInv, DimmedKeepsItsTime
      <3> QED
        BY <1>6, <2>2, <3>1, <3>2
    <2> QED
      BY <1>8, <2>1, <2>2 DEF DimmedKeepsItsTime, Listed
  <1>12. \A s \in Listed \ DOMAIN base' :
            last'.full /\ s \in last'.succeeded \ last'.observed
    <2> TAKE s \in Listed \ DOMAIN base'
    <2>1. s \in Sensors /\ s \notin observed /\ s \notin kept
      BY <1>1, <1>8
    <2>2. full /\ MissingFreshness(o, s) = "Unavailable"
      BY <2>1 DEF kept, observed, Kept
    <2>3. CollectorOf[s] \notin o.failed /\ s \notin Degraded(o)
      BY <2>2 DEF MissingFreshness
    <2> QED
      BY <1>3, <2>1, <2>2, <2>3
  <1> QED
    BY <1>9, <1>10, <1>11, <1>12 DEF FreshnessInv

LEMMA FreshnessInductive ==
  ASSUME FreshnessInv, [Next]_vars
  PROVE  /\ FreshnessInv'
         /\ [\A s \in Listed \ DOMAIN base' :
               last'.full /\ s \in last'.succeeded \ last'.observed]_vars
  <1>1. CASE Next
    <2>1. PICK o \in Outcomes :
            \/ Collect(o, TRUE, {})
            \/ \E sticky \in SUBSET (Enrichable \cap o.found) : Collect(o, FALSE, sticky)
      BY <1>1 DEF Next
    <2> QED
      BY <2>1, CollectKeeps
  <1>2. CASE UNCHANGED vars
    BY <1>2 DEF vars, FreshnessInv, TypeOK, CurrentIsNew, DimmedKeepsItsTime, Listed
  <1> QED
    BY <1>1, <1>2

-----------------------------------------------------------------------------
(***************************************************************************)
(* Memory telemetry: a reading is shown under a module or under its own    *)
(* chip.                                                                   *)
(***************************************************************************)
MemoryInv ==
    /\ MemoryTypeOK
    /\ DiscoveryShows
    /\ \A r \in Shown : r[1] \in Modules \cup {r[2]}

LEMMA MachineFields ==
  ASSUME machine \in Machines
  PROVE  /\ machine.slot \in [Chips -> Modules]
         /\ machine.matches \in [Chips -> SUBSET Modules]
         /\ \A c \in Chips : /\ machine.home[c] \in {c, machine.slot[c]}
                             /\ machine.home[c] \in Devices
                             /\ machine.slot[c] \in Modules /\ c \notin Modules
                             /\ machine.matches[c] # {} => machine.slot[c] \in machine.matches[c]
         /\ \A c, d \in Chips : c # d =>
               /\ machine.slot[c] # machine.slot[d]
               /\ machine.oneBus /\ c < d => machine.slot[c] < machine.slot[d]
  BY MemoryAssumption DEF Machines, Machine, IsMachine, Devices, MemoryAssumption

-----------------------------------------------------------------------------
(* Which chip a module is paired with.                                     *)

LEMMA PairsType ==
  ASSUME NEW chips, NEW listed, NEW p \in Pairs(chips, listed)
  PROVE  p[1] \in chips /\ p[2] \in listed /\ p = <<p[1], p[2]>>
  BY DEF Pairs, ByLocator, ByOrder

LEMMA NothingToPair ==
  ASSUME NEW chips
  PROVE  Pairs(chips, {}) = {}
  BY PairsType

(* A chip is located in the module it is soldered to, when all are listed. *)
LEMMA LocatedRight ==
  ASSUME machine \in Machines, NEW chips \in SUBSET Chips, NEW p \in ByLocator(chips, Modules)
  PROVE  p[1] \in chips /\ p[2] = machine.slot[p[1]]
  <1>1. p[1] \in chips /\ machine.matches[p[1]] \cap Modules = {p[2]}
    BY DEF ByLocator
  <1> QED
    BY <1>1, MachineFields

(* As many of each, ascending alike: the n-th module is the n-th chip's.   *)
LEMMA OrderedRight ==
  ASSUME machine \in Machines, NEW chips \in SUBSET Chips, NEW free \in SUBSET Modules,
         \A c \in chips : machine.slot[c] \in free,
         NEW p \in ByOrder(chips, free)
  PROVE  p[1] \in chips /\ p[2] = machine.slot[p[1]]
  <1> DEFINE slots == [c \in chips |-> machine.slot[c]]
             below(c) == { y \in chips : y < c }
             under(f) == { y \in free : y < f }
  <1>1. /\ p[1] \in chips /\ p[2] \in free
        /\ Cardinality(chips) = Cardinality(free)
        /\ Cardinality(chips) = 1 \/ machine.oneBus
        /\ Cardinality(below(p[1])) = Cardinality(under(p[2]))
    BY DEF ByOrder, Rank
  <1>2. IsFiniteSet(chips) /\ IsFiniteSet(free) /\ chips \subseteq Nat /\ free \subseteq Nat
    BY MemoryAssumption, FS_Subset DEF MemoryAssumption
  <1>3. slots \in Injection(chips, free)
    BY MachineFields DEF Injection, IsInjective
  <1>4. slots \in Surjection(chips, free)
    BY <1>1, <1>2, <1>3, FS_Injection
  <1>5. PICK c \in chips : p[2] = machine.slot[c]
    BY <1>1, <1>4 DEF Surjection
  <1>6. CASE Cardinality(chips) = 1
    <2>1. PICK x : chips = {x}
      BY <1>2, <1>6, FS_Singleton
    <2> QED
      BY <1>1, <1>5, <2>1
  <1>7. CASE machine.oneBus
    <2>1. ASSUME NEW d \in chips
          PROVE  Cardinality(under(machine.slot[d])) = Cardinality(below(d))
      <3> DEFINE f == [y \in below(d) |-> machine.slot[y]]
      <3>1. f \in [below(d) -> under(machine.slot[d])]
        <4> SUFFICES ASSUME NEW y \in below(d)
                     PROVE  machine.slot[y] \in free /\ machine.slot[y] < machine.slot[d]
          OBVIOUS
        <4>1. y \in chips /\ y < d /\ y # d
          BY <1>2
        <4> QED
          BY <1>7, <4>1, MachineFields
      <3>2. \A y, z \in below(d) : f[y] = f[z] => y = z
        BY MachineFields
      <3>3. \A y \in under(machine.slot[d]) : \E z \in below(d) : f[z] = y
        <4> TAKE y \in under(machine.slot[d])
        <4>1. PICK z \in chips : machine.slot[z] = y
          BY <1>4 DEF Surjection
        <4>2. z # d /\ machine.slot[d] \in Nat /\ y \in Nat /\ y < machine.slot[d]
          BY <1>2, <4>1
        <4>3. ~ (d < z)
          <5> SUFFICES ASSUME d < z PROVE FALSE
            OBVIOUS
          <5>1. machine.slot[d] < machine.slot[z]
            BY <1>7, <4>2, MachineFields
          <5> QED
            BY <4>1, <4>2, <5>1
        <4>4. z < d
          BY <1>2, <4>2, <4>3
        <4> QED
          BY <4>1, <4>4
      <3>4. f \in Bijection(below(d), under(machine.slot[d]))
        BY <3>1, <3>2, <3>3 DEF Bijection, Injection, Surjection, IsInjective
      <3>5. IsFiniteSet(below(d))
        BY <1>2, FS_Subset
      <3> HIDE DEF f, below, under
      <3> QED
        BY <3>4, <3>5, FS_Bijection DEF ExistsBijection
    <2>2. Cardinality(below(p[1])) = Cardinality(below(c))
      BY <1>1, <1>5, <2>1
    <2>3. ASSUME NEW x \in chips, NEW y \in chips, x < y
          PROVE  Cardinality(below(x)) # Cardinality(below(y))
      <3>1. below(x) \in SUBSET below(y)
        <4> SUFFICES ASSUME NEW z \in chips, z < x PROVE z < y
          OBVIOUS
        <4>1. x \in Nat /\ y \in Nat /\ z \in Nat
          BY <1>2
        <4> QED
          BY <2>3, <4>1
      <3>2. x \in below(y) /\ x \notin below(x)
        BY <1>2, <2>3
      <3>3. IsFiniteSet(below(y))
        BY <1>2, FS_Subset
      <3> HIDE DEF below
      <3> QED
        BY <3>1, <3>2, <3>3, FS_Subset
    <2>4. p[1] = c
      <3> HIDE DEF below
      <3>1. ~ (p[1] < c) /\ ~ (c < p[1])
        BY <1>1, <1>5, <2>2, <2>3
      <3>2. p[1] \in Nat /\ c \in Nat
        BY <1>1, <1>2, <1>5
      <3> QED
        BY <3>1, <3>2
    <2> QED
      BY <1>1, <1>5, <2>4
  <1> QED
    BY <1>1, <1>6, <1>7

LEMMA PairsRight ==
  ASSUME machine \in Machines, NEW chips \in SUBSET Chips, NEW p \in Pairs(chips, Modules)
  PROVE  p[1] \in chips /\ p[2] = machine.slot[p[1]]
  <1> DEFINE located == ByLocator(chips, Modules)
             others == chips \ { q[1] : q \in located }
             free == Modules \ { q[2] : q \in located }
  <1>1. CASE p \in located
    BY <1>1, LocatedRight
  <1>2. CASE p \in ByOrder(others, free)
    <2>1. \A c \in others : machine.slot[c] \in free
      <3> SUFFICES ASSUME NEW c \in others, NEW q \in located, machine.slot[c] = q[2]
                   PROVE  FALSE
        BY MachineFields
      <3>1. q[1] \in chips /\ q[2] = machine.slot[q[1]] /\ c \in chips /\ c # q[1]
        BY LocatedRight
      <3> QED
        BY <3>1, MachineFields
    <2>2. others \in SUBSET Chips /\ free \in SUBSET Modules
      OBVIOUS
    <2> HIDE DEF others, free
    <2>3. p[1] \in others /\ p[2] = machine.slot[p[1]]
      BY <1>2, <2>1, <2>2, OrderedRight
    <2> QED
      BY <2>3 DEF others
  <1> QED
    BY <1>1, <1>2 DEF Pairs

-----------------------------------------------------------------------------
(* Where the pairs move a reading. *)

Paired(pairs) == Homes({ p[1] : p \in pairs })

OwnerOf(h, pairs) ==
    IF h \in Paired(pairs) THEN (CHOOSE p \in pairs : machine.home[p[1]] = h)[2] ELSE h

MovedTo(r, pairs) == <<OwnerOf(r[1], pairs), r[2]>>

LEMMA OwnerFound ==
  ASSUME NEW pairs, NEW h
  PROVE  \/ h \notin Paired(pairs) /\ OwnerOf(h, pairs) = h
         \/ \E p \in pairs : machine.home[p[1]] = h /\ OwnerOf(h, pairs) = p[2]
  <1>1. CASE h \in Paired(pairs)
    <2>1. \E p \in pairs : machine.home[p[1]] = h
      BY <1>1 DEF Paired, Homes
    <2> QED
      BY <1>1, <2>1 DEF OwnerOf
  <1> QED
    BY <1>1 DEF OwnerOf

LEMMA MovedDomain ==
  ASSUME NEW readings, NEW pairs
  PROVE  DOMAIN Moved(readings, pairs) = { MovedTo(r, pairs) : r \in DOMAIN readings }
  BY DEF Moved, MovedTo, OwnerOf, Paired

LEMMA MovedAre ==
  ASSUME NEW readings, NEW pairs
  PROVE  \A q \in DOMAIN Moved(readings, pairs) :
            \E r \in DOMAIN readings :
               q = MovedTo(r, pairs) /\ Moved(readings, pairs)[q] = readings[r]
  <1> DEFINE from(q) == { r \in DOMAIN readings : MovedTo(r, pairs) = q }
             chosen(q) == IF from(q) = {q} THEN q ELSE CHOOSE r \in from(q) : r # q
  <1>1. Moved(readings, pairs)
          = [q \in { MovedTo(r, pairs) : r \in DOMAIN readings } |-> readings[chosen(q)]]
    BY DEF Moved, MovedTo, OwnerOf, Paired
  <1>2. ASSUME NEW q \in { MovedTo(r, pairs) : r \in DOMAIN readings }
        PROVE  chosen(q) \in from(q)
    <2>1. from(q) # {}
      OBVIOUS
    <2>2. CASE from(q) = {q}
      BY <2>2
    <2>3. CASE from(q) # {q}
      <3>1. \E r \in from(q) : r # q
        BY <2>1, <2>3
      <3> HIDE DEF from
      <3> QED
        BY <2>3, <3>1
    <2> QED
      BY <2>2, <2>3
  <1>3. \A q \in { MovedTo(r, pairs) : r \in DOMAIN readings } :
           chosen(q) \in DOMAIN readings /\ q = MovedTo(chosen(q), pairs)
    <2> HIDE DEF chosen
    <2> QED
      BY <1>2
  <1> HIDE DEF chosen
  <1> QED
    BY <1>1, <1>3

(* Chips that are no device of their own are not paired with a module.     *)
LEMMA PairsOfStandalone ==
  ASSUME NEW found, NEW listed, NEW pairs, pairs = Pairs(Standalone(found, listed), listed)
  PROVE  /\ \A p \in pairs : p[1] \in Chips /\ p[2] \in listed /\ machine.home[p[1]] \in found \ listed
         /\ Paired(pairs) \cap listed = {}
         /\ Remaining(found, pairs) = found \ Paired(pairs)
  <1>1. \A p \in pairs : p[1] \in Standalone(found, listed) /\ p[2] \in listed
    BY PairsType
  <1>2. \A p \in pairs : p[1] \in Chips /\ machine.home[p[1]] \in found \ listed
    BY <1>1 DEF Standalone
  <1> QED
    BY <1>1, <1>2 DEF Paired, Homes, Remaining

(* The chips' readings go to devices that remain. *)
LEMMA MovedRemain ==
  ASSUME NEW found, NEW listed \in SUBSET found, NEW pairs,
         pairs = Pairs(Standalone(found, listed), listed),
         NEW h \in found
  PROVE  OwnerOf(h, pairs) \in Remaining(found, pairs)
  BY OwnerFound, PairsOfStandalone

(* With all modules listed, a reading moves to the module its chip is      *)
(* soldered to.                                                            *)
LEMMA MovedRight ==
  ASSUME machine \in Machines, NEW found, NEW pairs,
         pairs = Pairs(Standalone(found, Modules), Modules),
         NEW h, NEW c \in Chips, h \in Modules \cup {c}
  PROVE  OwnerOf(h, pairs) \in {h, machine.slot[c]}
  <1>1. CASE h \notin Paired(pairs)
    BY <1>1 DEF OwnerOf
  <1>2. ASSUME NEW p \in pairs, machine.home[p[1]] = h, OwnerOf(h, pairs) = p[2]
        PROVE  OwnerOf(h, pairs) = machine.slot[c]
    <2>1. p[1] \in Chips /\ h \notin Modules
      BY <1>2, PairsOfStandalone
    <2>2. h = p[1] /\ h = c
      BY <1>2, <2>1, MachineFields
    <2>3. Standalone(found, Modules) \in SUBSET Chips
      BY DEF Standalone
    <2>4. p[2] = machine.slot[p[1]]
      BY <2>3, PairsRight
    <2> QED
      BY <1>2, <2>2, <2>4
  <1> QED
    BY <1>1, <1>2, OwnerFound

-----------------------------------------------------------------------------
(* What a collection makes of the base snapshot.                           *)

LEMMA ReadShows ==
  ASSUME NEW chips
  PROVE  /\ DOMAIN Read(chips) = { <<machine.home[c], c>> : c \in chips }
         /\ \A r \in DOMAIN Read(chips) : /\ Read(chips)[r] = "Current"
                                          /\ r[2] \in chips /\ r[1] = machine.home[r[2]]
                                          /\ r = <<machine.home[r[2]], r[2]>>
  BY DEF Read

LEMMA WithBoth ==
  ASSUME NEW f, NEW g
  PROVE  /\ DOMAIN With(f, g) = DOMAIN f \cup DOMAIN g
         /\ \A r \in DOMAIN f : With(f, g)[r] = f[r]
         /\ \A r \in DOMAIN g \ DOMAIN f : With(f, g)[r] = g[r]
  BY DEF With

Placed(m) == \A r \in DOMAIN m.shown : r[1] \in Modules \cup {r[2]}

LEMMA DiscoveredKeeps ==
  ASSUME machine \in Machines, NEW before, IsMemory(before), Placed(before),
         NEW there \in SUBSET Chips, NEW read \in SUBSET there, NEW listed \in Described
  PROVE  LET m == Discovered(before, there, read, listed)
         IN /\ IsMemory(m) /\ Placed(m)
            /\ \A c \in read :
                  Cardinality({ r \in DOMAIN m.shown : r[2] = c /\ m.shown[r] = "Current" }) = 1
            /\ \A r \in DOMAIN m.shown \ DOMAIN before.shown :
                  r[1] \in Modules => r[1] = machine.slot[r[2]]
  <1> DEFINE m == Discovered(before, there, read, listed)
             found == listed \cup Homes(there)
             pairs == Pairs(Standalone(found, listed), listed)
             fresh == Moved(Read(read), pairs)
             kept == { r \in DOMAIN before.shown \ DOMAIN fresh :
                          Dimmed(r, there) # "Unavailable" }
             old == [r \in kept |-> Dimmed(r, there)]
             shells == { r[1] : r \in kept } \ Remaining(found, pairs)
  <1>1. m = [shown |-> With(fresh, old),
             devices |-> Remaining(found, pairs) \cup shells,
             dmi |-> listed \cup (shells \cap before.dmi)]
    BY DEF Discovered
  <1>2. listed \subseteq Modules /\ found \subseteq Devices /\ listed \in SUBSET found
    BY MachineFields DEF Described, Homes, Devices
  <1>3. /\ \A p \in pairs : p[1] \in Chips /\ p[2] \in listed
        /\ Paired(pairs) \cap listed = {}
        /\ Remaining(found, pairs) = found \ Paired(pairs)
    BY PairsOfStandalone
  <1>4. \A r \in kept : /\ r \in DOMAIN before.shown /\ r \in before.devices \X Chips
                        /\ old[r] = "Stale" /\ r[1] \in Modules \cup {r[2]}
                        /\ r[1] \in Remaining(found, pairs) \cup shells
    BY DEF Dimmed, IsMemory, Placed
  <1>5. DOMAIN old = kept
    OBVIOUS
  <1>6. ASSUME NEW c \in read
        PROVE  /\ machine.home[c] \in found
               /\ OwnerOf(machine.home[c], pairs) \in Remaining(found, pairs)
               /\ OwnerOf(machine.home[c], pairs) \in Modules \cup {c}
               /\ OwnerOf(machine.home[c], pairs) \in Modules =>
                     OwnerOf(machine.home[c], pairs) = machine.slot[c]
    <2>1. machine.home[c] \in found /\ machine.home[c] \in Modules \cup {c}
      BY MachineFields DEF Homes
    <2>2. OwnerOf(machine.home[c], pairs) \in Remaining(found, pairs)
      BY <1>2, <2>1, MovedRemain
    <2>3. OwnerOf(machine.home[c], pairs) \in {machine.home[c], machine.slot[c]}
      <3>1. CASE listed = {}
        <4>1. pairs = {}
          BY <3>1, NothingToPair
        <4> HIDE DEF pairs
        <4> QED
          BY <4>1, OwnerFound
      <3>2. CASE listed = Modules
        <4>1. pairs = Pairs(Standalone(found, Modules), Modules)
          BY <3>2
        <4> HIDE DEF pairs, found
        <4> QED
          BY <2>1, <4>1, MovedRight
      <3> QED
        BY <3>1, <3>2 DEF Described
    <2> QED
      BY <2>1, <2>2, <2>3, MachineFields
  <1>7. DOMAIN fresh = { <<OwnerOf(machine.home[c], pairs), c>> : c \in read }
    <2>1. DOMAIN fresh = { MovedTo(r, pairs) : r \in DOMAIN Read(read) }
      BY MovedDomain
    <2>2. \A c \in read : MovedTo(<<machine.home[c], c>>, pairs)
                            = <<OwnerOf(machine.home[c], pairs), c>>
      BY DEF MovedTo
    <2>3. \A r \in DOMAIN Read(read) : r[2] \in read /\ r = <<machine.home[r[2]], r[2]>>
      BY ReadShows, Zenon
    <2>4. \A c \in read : <<machine.home[c], c>> \in DOMAIN Read(read)
      BY DEF Read
    <2> HIDE DEF fresh, pairs
    <2>5. \A q \in DOMAIN fresh : \E c \in read : q = <<OwnerOf(machine.home[c], pairs), c>>
      BY <2>1, <2>2, <2>3
    <2>6. \A c \in read : <<OwnerOf(machine.home[c], pairs), c>> \in DOMAIN fresh
      BY <2>1, <2>2, <2>4
    <2> QED
      BY <2>5, <2>6
  <1>8. \A q \in DOMAIN fresh : fresh[q] = "Current"
    <2>1. \A q \in DOMAIN fresh : \E r \in DOMAIN Read(read) : fresh[q] = Read(read)[r]
      <3> HIDE DEF pairs
      <3> QED
        BY MovedAre
    <2> HIDE DEF fresh
    <2> QED
      BY <2>1, ReadShows
  <1> HIDE DEF m, found, pairs, fresh, kept, old
  <1>9. ASSUME NEW r \in DOMAIN fresh
        PROVE  /\ r \in Remaining(found, pairs) \X Chips
               /\ r[1] \in Modules \cup {r[2]}
               /\ r[1] \in Modules => r[1] = machine.slot[r[2]]
    BY <1>6, <1>7
  <1>10. /\ DOMAIN m.shown = DOMAIN fresh \cup kept
         /\ \A r \in DOMAIN fresh : m.shown[r] = "Current"
         /\ \A r \in kept : m.shown[r] = "Stale" /\ r \notin DOMAIN fresh
    <2>1. \A r \in kept : r \notin DOMAIN fresh
      BY DEF kept
    <2>2. m.shown = With(fresh, old)
      BY <1>1
    <2>3. \A r \in kept : r \in DOMAIN old \ DOMAIN fresh /\ old[r] = "Stale"
      BY <1>4, <1>5, <2>1
    <2>4. /\ DOMAIN m.shown = DOMAIN fresh \cup DOMAIN old
          /\ \A r \in DOMAIN fresh : m.shown[r] = fresh[r]
          /\ \A r \in DOMAIN old \ DOMAIN fresh : m.shown[r] = old[r]
      BY <2>2 DEF With
    <2> QED
      BY <1>5, <1>8, <2>1, <2>3, <2>4
  <1>11. IsMemory(m)
    <2>1. m.devices = Remaining(found, pairs) \cup shells /\ m.dmi = listed \cup (shells \cap before.dmi)
      BY <1>1
    <2>2. shells \subseteq before.devices
      BY <1>4
    <2>3. before.devices \subseteq Devices /\ before.dmi \subseteq Modules
      BY DEF IsMemory
    <2>4. m.dmi \subseteq Modules \cap m.devices
      BY <1>2, <1>3, <2>1, <2>3
    <2>5. m.devices \subseteq Devices
      BY <1>2, <1>3, <2>1, <2>2, <2>3
    <2>6. \A r \in DOMAIN m.shown : r \in m.devices \X Chips /\ m.shown[r] \in MemoryFreshness
      BY <1>4, <1>9, <1>10, <2>1 DEF MemoryFreshness
    <2> QED
      BY <2>4, <2>5, <2>6 DEF IsMemory
  <1>12. Placed(m)
    BY <1>4, <1>9, <1>10 DEF Placed
  <1>13. ASSUME NEW c \in read
         PROVE  Cardinality({ r \in DOMAIN m.shown : r[2] = c /\ m.shown[r] = "Current" }) = 1
    <2>1. { r \in DOMAIN m.shown : r[2] = c /\ m.shown[r] = "Current" }
            = {<<OwnerOf(machine.home[c], pairs), c>>}
      BY <1>7, <1>10
    <2> QED
      BY <2>1, FS_Singleton
  <1>14. \A r \in DOMAIN m.shown \ DOMAIN before.shown :
            r[1] \in Modules => r[1] = machine.slot[r[2]]
    BY <1>4, <1>9, <1>10
  <1> QED
    BY <1>11, <1>12, <1>13, <1>14 DEF m

LEMMA PolledKeeps ==
  ASSUME machine \in Machines, NEW before, IsMemory(before), Placed(before),
         NEW there \in SUBSET Chips, NEW read \in SUBSET there
  PROVE  LET m == Polled(before, there, read)
         IN /\ IsMemory(m) /\ Placed(m)
            /\ m.dmi = Modules =>
                 \A r \in DOMAIN m.shown \ DOMAIN before.shown :
                    r[1] \in Modules => r[1] = machine.slot[r[2]]
  <1> DEFINE m == Polled(before, there, read)
             found == before.devices \cup Homes(there)
             listed == before.dmi
             pairs == Pairs(Standalone(found, listed), listed)
             seen == With(Read(read), before.shown)
             merged == Moved(seen, pairs)
             missing == DOMAIN before.shown \ DOMAIN Read(read)
             old == [r \in missing |-> Dimmed(r, there)]
  <1>1. m = [shown |-> With(old, merged),
             devices |-> Remaining(found, pairs) \cup { r[1] : r \in missing },
             dmi |-> before.dmi]
    BY DEF Polled
  <1>2. /\ listed \in SUBSET found /\ listed \subseteq Modules
        /\ found \subseteq Devices /\ before.devices \subseteq found
    BY MachineFields DEF IsMemory, Homes
  <1>3. /\ \A p \in pairs : p[1] \in Chips /\ p[2] \in listed
        /\ Paired(pairs) \cap listed = {}
        /\ Remaining(found, pairs) = found \ Paired(pairs)
    BY PairsOfStandalone
  <1>4. \A r \in missing : /\ r \in DOMAIN before.shown /\ r \in before.devices \X Chips
                           /\ old[r] \in MemoryFreshness /\ r[1] \in Modules \cup {r[2]}
    BY DEF Dimmed, IsMemory, Placed, MemoryFreshness
  <1>5. DOMAIN old = missing
    OBVIOUS
  <1>6. \A r \in DOMAIN Read(read) :
           /\ r \in found \X Chips /\ r[1] \in Modules \cup {r[2]} /\ r[2] \in Chips
           /\ r[1] \in Modules => r[1] = machine.slot[r[2]]
           /\ Read(read)[r] = "Current"
    <2>1. \A c \in read : machine.home[c] \in found
      BY DEF Homes
    <2>2. \A r \in DOMAIN Read(read) :
             /\ Read(read)[r] = "Current" /\ r[2] \in read /\ r[1] = machine.home[r[2]]
             /\ r = <<machine.home[r[2]], r[2]>>
      BY ReadShows, Zenon
    <2> HIDE DEF found
    <2> QED
      BY <2>1, <2>2, MachineFields
  <1>7. \A r \in DOMAIN seen : /\ r \in found \X Chips /\ r[1] \in Modules \cup {r[2]}
                               /\ seen[r] \in MemoryFreshness
                               /\ r \notin DOMAIN before.shown /\ r[1] \in Modules =>
                                     r[1] = machine.slot[r[2]]
    <2>1. \A r \in DOMAIN before.shown :
             /\ r \in found \X Chips /\ r[1] \in Modules \cup {r[2]}
             /\ before.shown[r] \in MemoryFreshness
      BY <1>2 DEF IsMemory, Placed
    <2>2. DOMAIN seen = DOMAIN Read(read) \cup DOMAIN before.shown
      BY WithBoth
    <2>3. /\ \A r \in DOMAIN Read(read) : seen[r] = Read(read)[r]
          /\ \A r \in DOMAIN before.shown \ DOMAIN Read(read) : seen[r] = before.shown[r]
      BY WithBoth
    <2> HIDE DEF seen, found
    <2> QED
      BY <1>6, <2>1, <2>2, <2>3 DEF MemoryFreshness
  <1>8. \A q \in DOMAIN merged : \E r \in DOMAIN seen :
           q = <<OwnerOf(r[1], pairs), r[2]>> /\ merged[q] = seen[r]
    <2>1. \A q \in DOMAIN merged : \E r \in DOMAIN seen :
             q = MovedTo(r, pairs) /\ merged[q] = seen[r]
      <3> HIDE DEF pairs, seen
      <3> QED
        BY MovedAre
    <2> QED
      BY <2>1 DEF MovedTo
  <1> HIDE DEF m, found, pairs, seen, merged, missing, old
  <1>9. ASSUME NEW q \in DOMAIN merged
        PROVE  /\ q \in Remaining(found, pairs) \X Chips /\ merged[q] \in MemoryFreshness
               /\ q[1] \in Modules \cup {q[2]}
               /\ listed = Modules /\ q \notin DOMAIN before.shown /\ q[1] \in Modules =>
                     q[1] = machine.slot[q[2]]
    <2>1. PICK r \in DOMAIN seen : q = <<OwnerOf(r[1], pairs), r[2]>> /\ merged[q] = seen[r]
      BY <1>8
    <2>2. r[1] \in found /\ r[2] \in Chips /\ r[1] \in Modules \cup {r[2]} /\ r = <<r[1], r[2]>>
      BY <1>7
    <2>3. q[1] = OwnerOf(r[1], pairs) /\ q[2] = r[2]
      BY <2>1
    <2>4. OwnerOf(r[1], pairs) \in Remaining(found, pairs)
      BY <1>2, <2>2, MovedRemain DEF pairs
    <2>5. OwnerOf(r[1], pairs) = r[1] \/ OwnerOf(r[1], pairs) \in listed
      BY <1>3, OwnerFound
    <2>6. listed = Modules => OwnerOf(r[1], pairs) \in {r[1], machine.slot[r[2]]}
      <3>1. SUFFICES ASSUME listed = Modules
                     PROVE  OwnerOf(r[1], pairs) \in {r[1], machine.slot[r[2]]}
        OBVIOUS
      <3>2. pairs = Pairs(Standalone(found, Modules), Modules)
        BY <3>1 DEF pairs
      <3> QED
        BY <2>2, <3>2, MovedRight
    <2>7. ASSUME OwnerOf(r[1], pairs) = r[1] PROVE q = r
      BY <2>1, <2>2, <2>7
    <2>8. /\ q \in Remaining(found, pairs) \X Chips /\ merged[q] \in MemoryFreshness
      BY <1>7, <2>1, <2>2, <2>4
    <2>9. q[1] \in Modules \cup {q[2]}
      BY <1>2, <2>2, <2>3, <2>5
    <2>10. listed = Modules /\ q \notin DOMAIN before.shown /\ q[1] \in Modules =>
             q[1] = machine.slot[q[2]]
      BY <1>7, <2>3, <2>6, <2>7
    <2> QED
      BY <2>8, <2>9, <2>10
  <1>10. /\ DOMAIN m.shown = missing \cup DOMAIN merged
         /\ \A r \in missing : m.shown[r] = old[r]
         /\ \A r \in DOMAIN merged \ missing : m.shown[r] = merged[r]
    <2>1. m.shown = With(old, merged)
      BY <1>1
    <2>2. /\ DOMAIN m.shown = DOMAIN old \cup DOMAIN merged
          /\ \A r \in DOMAIN old : m.shown[r] = old[r]
          /\ \A r \in DOMAIN merged \ DOMAIN old : m.shown[r] = merged[r]
      BY <2>1 DEF With
    <2> QED
      BY <1>5, <2>2
  <1>11. IsMemory(m)
    <2>1. /\ m.devices = Remaining(found, pairs) \cup { r[1] : r \in missing }
          /\ m.dmi = before.dmi
      BY <1>1
    <2>2. m.dmi \subseteq Modules \cap m.devices
      BY <1>2, <1>3, <2>1
    <2>3. m.devices \subseteq Devices
      BY <1>2, <1>3, <1>4, <2>1
    <2>4. \A r \in DOMAIN m.shown : r \in m.devices \X Chips /\ m.shown[r] \in MemoryFreshness
      BY <1>4, <1>9, <1>10, <2>1
    <2> QED
      BY <2>2, <2>3, <2>4 DEF IsMemory
  <1>12. Placed(m)
    BY <1>4, <1>9, <1>10 DEF Placed
  <1>13. m.dmi = Modules =>
            \A r \in DOMAIN m.shown \ DOMAIN before.shown :
               r[1] \in Modules => r[1] = machine.slot[r[2]]
    <2>1. m.dmi = listed
      BY <1>1
    <2> QED
      BY <1>4, <1>9, <1>10, <2>1
  <1> QED
    BY <1>11, <1>12, <1>13 DEF m

LEMMA MemoryStart == MemoryInit => MemoryInv
  <1> SUFFICES ASSUME MemoryInit PROVE MemoryInv
    OBVIOUS
  <1>1. PICK there \in SUBSET Chips, listed \in Described :
           lastRead \in SUBSET there /\ memory = Discovered(NoMemory, there, lastRead, listed)
    BY DEF MemoryInit
  <1>2. IsMemory(NoMemory) /\ Placed(NoMemory)
    BY DEF IsMemory, Placed, NoMemory
  <1>3. machine \in Machines /\ lastFull = TRUE
    BY DEF MemoryInit
  <1>4. /\ IsMemory(memory) /\ Placed(memory)
        /\ \A c \in lastRead :
              Cardinality({ r \in DOMAIN memory.shown : r[2] = c /\ memory.shown[r] = "Current" }) = 1
    <2>1. LET m == Discovered(NoMemory, there, lastRead, listed)
          IN /\ IsMemory(m) /\ Placed(m)
             /\ \A c \in lastRead :
                   Cardinality({ r \in DOMAIN m.shown : r[2] = c /\ m.shown[r] = "Current" }) = 1
      BY <1>1, <1>2, <1>3, DiscoveredKeeps
    <2> QED
      BY <1>1, <2>1
  <1> QED
    BY <1>1, <1>3, <1>4 DEF MemoryInv, MemoryTypeOK, DiscoveryShows, Placed, Shown

LEMMA MemoryInductive ==
  ASSUME MemoryInv, [MemoryNext]_memoryVars
  PROVE  /\ MemoryInv'
         /\ [ memory.dmi' = Modules =>
                \A r \in Shown' \ Shown :
                   r[1] \in Modules => r[1] = machine.slot[r[2]] ]_memoryVars
  <1>1. machine \in Machines /\ IsMemory(memory) /\ Placed(memory)
    BY DEF MemoryInv, MemoryTypeOK, Placed, Shown
  <1>2. CASE MemoryNext
    <2>1. machine' = machine
      BY <1>2 DEF MemoryNext
    <2>2. PICK there \in SUBSET Chips :
            /\ lastRead' \in SUBSET there
            /\ \/ /\ \E listed \in Described :
                         memory' = Discovered(memory, there, lastRead', listed)
                  /\ lastFull' = TRUE
               \/ /\ memory' = Polled(memory, there, lastRead')
                  /\ lastFull' = FALSE
      BY <1>2 DEF MemoryNext
    <2>3. /\ IsMemory(memory') /\ Placed(memory')
          /\ lastFull' = TRUE =>
               \A c \in lastRead' : Cardinality({ r \in DOMAIN memory'.shown :
                                         r[2] = c /\ memory'.shown[r] = "Current" }) = 1
          /\ memory'.dmi = Modules =>
               \A r \in DOMAIN memory'.shown \ DOMAIN memory.shown :
                  r[1] \in Modules => r[1] = machine.slot[r[2]]
      <3>1. CASE lastFull' = TRUE
        <4>1. PICK listed \in Described : memory' = Discovered(memory, there, lastRead', listed)
          BY <2>2, <3>1
        <4> QED
          <5>1. LET m == Discovered(memory, there, lastRead', listed)
                IN /\ IsMemory(m) /\ Placed(m)
                   /\ \A c \in lastRead' :
                         Cardinality({ r \in DOMAIN m.shown : r[2] = c /\ m.shown[r] = "Current" }) = 1
                   /\ \A r \in DOMAIN m.shown \ DOMAIN memory.shown :
                         r[1] \in Modules => r[1] = machine.slot[r[2]]
            BY <1>1, <2>2, DiscoveredKeeps
          <5> QED
            BY <4>1, <5>1
      <3>2. CASE lastFull' = FALSE
        <4>1. memory' = Polled(memory, there, lastRead')
          BY <2>2, <3>2
        <4> QED
          BY <1>1, <2>2, <3>2, <4>1, PolledKeeps
      <3> QED
        BY <2>2, <3>1, <3>2
    <2>4. MemoryInv'
      BY <1>1, <2>1, <2>2, <2>3
         DEF MemoryInv, MemoryTypeOK, DiscoveryShows, IsMemory, Placed, Shown
    <2> QED
      BY <2>3, <2>4 DEF Shown
  <1>3. CASE UNCHANGED memoryVars
    BY <1>3 DEF memoryVars, MemoryInv, MemoryTypeOK, DiscoveryShows, IsMemory, Shown
  <1> QED
    BY <1>2, <1>3

-----------------------------------------------------------------------------
LEMMA MinOf ==
  ASSUME NEW S \in SUBSET Nat, S # {}
  PROVE  Min(S) \in S /\ \A j \in S : Min(S) <= j
  <1>1. \E i \in S : \A j \in S : i <= j
    BY LeastOf
  <1> QED
    BY <1>1 DEF Min

-----------------------------------------------------------------------------
(* Sums *)

(* v is what each element counts for; f sums them up over the sets of less *)
(* than n elements.                                                        *)
SumsUpTo(f, S, v, n) ==
    \A s \in SUBSET S : Cardinality(s) <= n =>
        f[s] = IF s = {} THEN 0
               ELSE LET x == CHOOSE x \in s : TRUE IN v[x].energy + f[s \ {x}]

LEMMA SumsExist ==
  ASSUME NEW S, IsFiniteSet(S), NEW v, NEW n \in Nat
  PROVE  \E f : f = [s \in SUBSET S |-> f[s]] /\ SumsUpTo(f, S, v, n)
  <1> DEFINE P(m) == \E f : f = [s \in SUBSET S |-> f[s]] /\ SumsUpTo(f, S, v, m)
             T == { m \in Nat : ~P(m) }
  <1>1. P(0)
    <2> DEFINE f == [s \in SUBSET S |-> 0]
    <2>1. \A s \in SUBSET S : Cardinality(s) <= 0 => s = {}
      BY FS_Subset, FS_CardinalityType, FS_EmptySet
    <2>2. SumsUpTo(f, S, v, 0)
      BY <2>1 DEF SumsUpTo
    <2> QED
      BY <2>2
  <1>2. ASSUME NEW m \in Nat, P(m) PROVE P(m + 1)
    <2>1. PICK g : g = [s \in SUBSET S |-> g[s]] /\ SumsUpTo(g, S, v, m)
      BY <1>2
    <2> DEFINE next(s) == IF s = {} THEN 0
                          ELSE LET x == CHOOSE x \in s : TRUE IN v[x].energy + g[s \ {x}]
               f == [s \in SUBSET S |-> next(s)]
    <2>2. \A s \in SUBSET S : Cardinality(s) <= m => f[s] = g[s]
      BY <2>1 DEF SumsUpTo
    <2>3. ASSUME NEW s \in SUBSET S, Cardinality(s) <= m + 1
          PROVE  f[s] = IF s = {} THEN 0
                        ELSE LET x == CHOOSE x \in s : TRUE IN v[x].energy + f[s \ {x}]
      <3>1. CASE s = {}
        BY <3>1
      <3>2. CASE s # {}
        <4> DEFINE x == CHOOSE x \in s : TRUE
        <4>1. x \in s
          BY <3>2
        <4>2. Cardinality(s \ {x}) <= m /\ s \ {x} \in SUBSET S
          <5>1. IsFiniteSet(s)
            BY FS_Subset
          <5>2. Cardinality(s) \in Nat /\ Cardinality(s \ {x}) = Cardinality(s) - 1
            BY <4>1, <5>1, FS_RemoveElement, FS_CardinalityType
          <5> QED
            BY <2>3, <5>2
        <4>3. f[s \ {x}] = g[s \ {x}]
          BY <2>2, <4>2
        <4> HIDE DEF x
        <4>4. f[s] = v[x].energy + g[s \ {x}]
          BY <3>2 DEF x
        <4> HIDE DEF f
        <4> QED
          BY <3>2, <4>3, <4>4 DEF x
      <3> QED
        BY <3>1, <3>2
    <2>4. f = [s \in SUBSET S |-> f[s]]
      OBVIOUS
    <2> HIDE DEF f
    <2>5. SumsUpTo(f, S, v, m + 1)
      BY <2>3 DEF SumsUpTo
    <2> QED
      BY <2>4, <2>5
  <1> HIDE DEF P
  <1>3. T = {}
    <2> SUFFICES ASSUME T # {} PROVE FALSE
      OBVIOUS
    <2>1. PICK m \in T : \A k \in T : m <= k
      BY LeastOf
    <2>2. m # 0
      BY <1>1
    <2>3. m - 1 \in Nat /\ m - 1 \notin T
      BY <2>1, <2>2
    <2>4. P((m - 1) + 1)
      BY <1>2, <2>3
    <2>5. (m - 1) + 1 = m
      BY <2>3
    <2> QED
      BY <2>1, <2>4, <2>5
  <1> QED
    BY <1>3 DEF P

EnergySum(v, S) == MapThenSumSet(LAMBDA x : v[x].energy, S)

(* Elements that count for what is used or one unit less sum up to at most *)
(* what is used by all, and at least one unit each less.                   *)
LEMMA SumWithin ==
  ASSUME NEW S, IsFiniteSet(S), NEW v, NEW used \in Nat,
         \A x \in S : v[x].energy \in Nat /\ v[x].energy <= used /\ used <= v[x].energy + 1
  PROVE  /\ EnergySum(v, S) \in Nat
         /\ EnergySum(v, S) <= Cardinality(S) * used
         /\ Cardinality(S) * used <= EnergySum(v, S) + Cardinality(S)
  <1> DEFINE IsSum(f) == f = [s \in SUBSET S |-> IF s = {} THEN 0
                                 ELSE LET x == CHOOSE x \in s : TRUE IN v[x].energy + f[s \ {x}]]
             iter == CHOOSE f : IsSum(f)
             Within(s) == /\ iter[s] \in Nat
                          /\ iter[s] <= Cardinality(s) * used
                          /\ Cardinality(s) * used <= iter[s] + Cardinality(s)
             T == { n \in Nat : \E s \in SUBSET S : Cardinality(s) = n /\ ~Within(s) }
  <1>1. EnergySum(v, S) = iter[S]
    BY DEF EnergySum, MapThenSumSet, MapThenFoldSet
  <1>2. \A s \in SUBSET S : IsFiniteSet(s) /\ Cardinality(s) \in Nat /\ Cardinality(s) <= Cardinality(S)
    BY FS_Subset, FS_CardinalityType
  <1>3. IsSum(iter)
    <2>1. Cardinality(S) \in Nat
      BY FS_CardinalityType
    <2>2. PICK f : f = [s \in SUBSET S |-> f[s]] /\ SumsUpTo(f, S, v, Cardinality(S))
      BY <2>1, SumsExist
    <2>3. IsSum(f)
      BY <1>2, <2>2 DEF SumsUpTo
    <2> HIDE DEF IsSum
    <2> QED
      BY <2>3
  <1> HIDE DEF iter
  <1>4. \A s \in SUBSET S :
           iter[s] = IF s = {} THEN 0
                     ELSE LET x == CHOOSE x \in s : TRUE IN v[x].energy + iter[s \ {x}]
    BY <1>3
  <1>5. ASSUME NEW s \in SUBSET S, \A t \in SUBSET S : Cardinality(t) < Cardinality(s) => Within(t)
        PROVE  Within(s)
    <2>1. CASE s = {}
      <3>1. iter[s] = 0 /\ Cardinality(s) = 0
        BY <1>4, <2>1, FS_EmptySet
      <3> QED
        BY <3>1
    <2>2. CASE s # {}
      <3> DEFINE x == CHOOSE x \in s : TRUE
                 rest == s \ {x}
      <3>1. x \in s /\ iter[s] = v[x].energy + iter[rest]
        BY <1>4, <2>2
      <3> HIDE DEF x
      <3>2. Cardinality(rest) = Cardinality(s) - 1 /\ Cardinality(s) \in Nat /\ rest \in SUBSET S
        BY <1>2, <3>1, FS_RemoveElement
      <3> HIDE DEF rest
      <3> DEFINE k == Cardinality(rest)
                 e == v[x].energy
                 i == iter[rest]
      <3>3. k \in Nat /\ Cardinality(s) = k + 1
        BY <1>2, <3>2
      <3>4. i \in Nat /\ i <= k * used /\ k * used <= i + k
        BY <1>5, <3>2, <3>3
      <3>5. e \in Nat /\ e <= used /\ used <= e + 1
        BY <3>1
      <3>6. iter[s] = e + i
        BY <3>1
      <3> HIDE DEF k, e, i
      <3>7. (k + 1) * used = k * used + used /\ k * used \in Nat
        BY <3>3
      <3> HIDE DEF Within
      <3>8. Within(s) <=> /\ e + i \in Nat
                          /\ e + i <= (k + 1) * used
                          /\ (k + 1) * used <= (e + i) + (k + 1)
        BY <3>3, <3>6 DEF Within
      <3> QED
        BY <3>3, <3>4, <3>5, <3>7, <3>8
    <2> QED
      BY <2>1, <2>2
  <1> HIDE DEF Within
  <1>6. T = {}
    <2> SUFFICES ASSUME T # {} PROVE FALSE
      OBVIOUS
    <2>1. PICK n \in T : \A m \in T : n <= m
      BY LeastOf
    <2>2. PICK s \in SUBSET S : Cardinality(s) = n /\ ~Within(s)
      BY <2>1
    <2>3. \A t \in SUBSET S : Cardinality(t) < Cardinality(s) => Within(t)
      BY <1>2, <2>1, <2>2
    <2> QED
      BY <1>5, <2>2, <2>3
  <1>7. Within(S)
    BY <1>2, <1>6
  <1> QED
    BY <1>1, <1>7 DEF Within

-----------------------------------------------------------------------------
(***************************************************************************)
(* The energy of the domains: what was read of a source last is what its   *)
(* counter is, a core's source is of a CPU of that core, and a package has *)
(* as many cores as the last discovery found.                              *)
(***************************************************************************)
SourceRecord ==
    [backend : {"powercap", "perf_event"}, at : CPUs \cup Zones,
     bounded : BOOLEAN, previous : EnergyOption(0 .. EnergyRange)]

(* A source for domain d, of which this is what may have been read. *)
SourceSound(d, source, value) ==
    /\ source \in SourceRecord
    /\ source.previous \subseteq {value}
    /\ d.kind = "core" =>
          source.backend = "perf_event" /\ source.at \in CPUs /\ CoreOf(source.at) = d

SourcesSound(open) ==
    DOMAIN open \subseteq AllDomains /\ \A d \in DOMAIN open : SourceSound(d, open[d], counter[d])

CountedIn(counted, topology) ==
    /\ DOMAIN counted = PackagesOf(topology)
    /\ \A p \in DOMAIN counted : counted[p] = Cardinality(CoresIn(p, topology))

EnergyInv ==
    /\ EnergyTypeOK
    /\ EnergyAccounted
    /\ CoreTotalsComplete
    /\ online # {}
    /\ \A d \in AllDomains : counter[d] < wrapAt
    /\ SourcesSound(sources)
    /\ CountedIn(expected, mapped)

LEMMA EnergyConstants ==
  /\ CPUs \subseteq Nat /\ IsFiniteSet(CPUs) /\ CPUs # {}
  /\ Location \in [CPUs -> [package : Nat, core : Nat]]
  /\ Zones \subseteq Nat /\ IsFiniteSet(Zones)
  /\ \A z \in Zones : "core" \notin ZoneName[z]
  /\ EventMask \in [Events -> SUBSET CPUs]
  /\ EnergyRange \in Nat \ {0}
  /\ Loads \subseteq 0 .. EnergyRange - 1 /\ Loads # {}
  <1>1. \A z \in Zones : "core" \notin ZoneName[z]
    BY EnergyAssumption DEF EnergyAssumption, EnergyOption
  <1> QED
    BY <1>1, EnergyAssumption DEF EnergyAssumption

LEMMA EnergyOptions ==
  ASSUME NEW S
  PROVE  {} \in EnergyOption(S) /\ \A x \in S : {x} \in EnergyOption(S)
  BY DEF EnergyOption

LEMMA NewSource ==
  ASSUME NEW backend \in {"powercap", "perf_event"}, NEW at \in CPUs \cup Zones,
         NEW bounded \in BOOLEAN
  PROVE  /\ EnergySource(backend, at, bounded) \in SourceRecord
         /\ EnergySource(backend, at, bounded).previous = {}
         /\ EnergySource(backend, at, bounded).backend = backend
         /\ EnergySource(backend, at, bounded).at = at
  BY EnergyOptions DEF EnergySource, SourceRecord

(* Every core has one CPU that stands for it. *)
LEMMA CoreStands ==
  ASSUME NEW topology \in SUBSET CPUs, NEW c \in topology
  PROVE  \E d \in PhysicalCores(topology) : CoreOf(d) = CoreOf(c)
  <1> DEFINE same == { d \in topology : CoreOf(d) = CoreOf(c) }
  <1>1. same \in SUBSET Nat /\ same # {}
    BY EnergyConstants
  <1>2. PICK d \in same : \A e \in same : d <= e
    BY <1>1, LeastOf
  <1> QED
    BY <1>2 DEF PhysicalCores

LEMMA CorePackage ==
  ASSUME NEW c, NEW d, CoreOf(c) = CoreOf(d)
  PROVE  Location[c].package = Location[d].package
  BY DEF CoreOf

LEMMA PowercapSound ==
  ASSUME NEW readable \in SUBSET Zones
  PROVE  /\ DOMAIN PowercapSpecs(readable) \subseteq DOMAIN PowercapSpecs(Zones)
         /\ \A d \in DOMAIN PowercapSpecs(readable) :
               /\ PowercapSpecs(readable)[d] \in SourceRecord
               /\ PowercapSpecs(readable)[d].previous = {}
               /\ d.kind # "core"
  <1> DEFINE first(d) == Min({ z \in readable : d \in ZoneDomains(z) })
  <1>1. DOMAIN PowercapSpecs(readable) = UNION { ZoneDomains(z) : z \in readable }
    BY DEF PowercapSpecs
  <1>2. DOMAIN PowercapSpecs(Zones) = UNION { ZoneDomains(z) : z \in Zones }
    BY DEF PowercapSpecs
  <1>3. ASSUME NEW d \in DOMAIN PowercapSpecs(readable)
        PROVE  /\ PowercapSpecs(readable)[d] \in SourceRecord
               /\ PowercapSpecs(readable)[d].previous = {}
               /\ d.kind # "core"
    <2>1. PICK z \in readable : d \in ZoneDomains(z)
      BY <1>1
    <2>2. PowercapSpecs(readable)[d] = EnergySource("powercap", first(d), first(d) \in Ranged)
      BY <1>1 DEF PowercapSpecs
    <2>3. first(d) \in Zones
      <3>1. { y \in readable : d \in ZoneDomains(y) } \in SUBSET Nat
        BY EnergyConstants
      <3>2. first(d) \in { y \in readable : d \in ZoneDomains(y) }
        BY <2>1, <3>1, MinOf
      <3> QED
        BY <3>2
    <2>4. d.kind # "core"
      <3>1. PICK kind \in ZoneName[z] : d = WholePackage(kind, PackageOf[z])
        BY <2>1 DEF ZoneDomains
      <3> QED
        BY <3>1, EnergyConstants DEF WholePackage
    <2> DEFINE b == first(d) \in Ranged
    <2>5. b \in BOOLEAN
      OBVIOUS
    <2>6. PowercapSpecs(readable)[d] = EnergySource("powercap", first(d), b)
      BY <2>2
    <2>7. "powercap" \in {"powercap", "perf_event"} /\ first(d) \in CPUs \cup Zones
      BY <2>3
    <2> HIDE DEF first, b
    <2>8. /\ EnergySource("powercap", first(d), b) \in SourceRecord
          /\ EnergySource("powercap", first(d), b).previous = {}
      BY <2>5, <2>7, NewSource
    <2> QED
      BY <2>4, <2>6, <2>8
  <1> QED
    BY <1>1, <1>2, <1>3

LEMMA RepresentativesOnline ==
  ASSUME NEW mask, NEW topology \in SUBSET CPUs, topology # {}
  PROVE  Representatives(mask, topology) \subseteq topology
  <1>1. Min(topology) \in topology
    BY MinOf, EnergyConstants
  <1> QED
    BY <1>1 DEF Representatives

LEMMA PerfSound ==
  ASSUME NEW topology \in SUBSET CPUs, topology # {}
  PROVE  \A d \in DOMAIN PerfSpecs(topology) :
            /\ d \in AllDomains
            /\ PerfSpecs(topology)[d] \in SourceRecord
            /\ PerfSpecs(topology)[d].previous = {}
            /\ PerfSpecs(topology)[d].backend = "perf_event"
            /\ PerfSpecs(topology)[d].at \in CPUs
            /\ d.kind = "core" => CoreOf(PerfSpecs(topology)[d].at) = d
  <1> DEFINE cpus(kind) == IF kind = "core" THEN PhysicalCores(topology)
                           ELSE Representatives(EventMask[kind], topology)
             found == UNION { { <<PerfDomain(kind, c), c>> : c \in cpus(kind) } : kind \in Events }
             chosen(d) == CHOOSE f \in found : f[1] = d
  <1>1. \A kind \in Events : cpus(kind) \subseteq topology
    BY RepresentativesOnline DEF PhysicalCores
  <1>2. PerfSpecs(topology) = [d \in { f[1] : f \in found } |->
                                  EnergySource("perf_event", chosen(d)[2], FALSE)]
    BY DEF PerfSpecs
  <1> HIDE DEF cpus
  <1>3. \A f \in found : \E kind \in Events, c \in CPUs :
           f = <<PerfDomain(kind, c), c>> /\ f[1] = PerfDomain(kind, c) /\ f[2] = c
    BY <1>1
  <1> HIDE DEF found
  <1> TAKE d \in DOMAIN PerfSpecs(topology)
  <1>4. \E f \in found : f[1] = d
    BY <1>2
  <1>5. chosen(d) \in found /\ chosen(d)[1] = d
    BY <1>4
  <1>6. PICK kind \in Events, c \in CPUs : d = PerfDomain(kind, c) /\ chosen(d)[2] = c
    BY <1>3, <1>5
  <1>7. PerfSpecs(topology)[d] = EnergySource("perf_event", c, FALSE)
    <2> HIDE DEF chosen
    <2> QED
      BY <1>2, <1>6
  <1> HIDE DEF chosen
  <1>8. "perf_event" \in {"powercap", "perf_event"} /\ c \in CPUs \cup Zones /\ FALSE \in BOOLEAN
    BY <1>6
  <1>9. /\ EnergySource("perf_event", c, FALSE) \in SourceRecord
        /\ EnergySource("perf_event", c, FALSE).previous = {}
        /\ EnergySource("perf_event", c, FALSE).backend = "perf_event"
        /\ EnergySource("perf_event", c, FALSE).at = c
    BY <1>8, NewSource
  <1>10. /\ PerfSpecs(topology)[d] \in SourceRecord
         /\ PerfSpecs(topology)[d].previous = {}
         /\ PerfSpecs(topology)[d].backend = "perf_event"
         /\ PerfSpecs(topology)[d].at = c
    BY <1>7, <1>9
  <1>11. d.kind = "core" => CoreOf(c) = d
    BY <1>6 DEF PerfDomain, WholePackage
  <1>12. d \in AllDomains
    BY <1>6 DEF AllDomains
  <1> QED
    BY <1>6, <1>10, <1>11, <1>12

(* Discovered sources are as sound as those that were open.                *)
LEMMA OpenedSound ==
  ASSUME EnergyInv, NEW readable \in SUBSET Zones, NEW openable
  PROVE  SourcesSound(SourcesAfter(online, readable, openable))
  <1> DEFINE open == SourcesAfter(online, readable, openable)
             powercap == PowercapSpecs(readable)
             perf == PerfSpecs(online)
  <1>1. online \in SUBSET CPUs /\ online # {} /\ SourcesSound(sources)
    BY DEF EnergyInv, EnergyTypeOK
  <1>2. /\ DOMAIN open = DOMAIN sources \cup DOMAIN powercap
                         \cup { d \in DOMAIN perf : perf[d].at \in openable }
        /\ \A d \in DOMAIN open : open[d] = IF d \in DOMAIN sources THEN sources[d]
                                            ELSE IF d \in DOMAIN powercap THEN powercap[d]
                                            ELSE perf[d]
    BY DEF SourcesAfter
  <1> HIDE DEF open, powercap, perf
  <1>3. ASSUME NEW d \in DOMAIN open
        PROVE  d \in AllDomains /\ SourceSound(d, open[d], counter[d])
    <2>1. CASE d \in DOMAIN sources
      BY <1>1, <1>2, <2>1 DEF SourcesSound
    <2>2. CASE d \notin DOMAIN sources /\ d \in DOMAIN powercap
      <3>1. open[d] = powercap[d]
        BY <1>2, <2>2
      <3>2. /\ d \in DOMAIN PowercapSpecs(Zones) /\ powercap[d] \in SourceRecord
            /\ powercap[d].previous = {} /\ d.kind # "core"
        BY <2>2, PowercapSound DEF powercap
      <3> QED
        BY <3>1, <3>2 DEF SourceSound, AllDomains
    <2>3. CASE d \notin DOMAIN sources /\ d \notin DOMAIN powercap
      <3>1. d \in DOMAIN perf /\ open[d] = perf[d]
        BY <1>2, <2>3
      <3>2. /\ d \in AllDomains /\ perf[d] \in SourceRecord /\ perf[d].previous = {}
            /\ perf[d].backend = "perf_event" /\ perf[d].at \in CPUs
            /\ d.kind = "core" => CoreOf(perf[d].at) = d
        BY <1>1, <3>1, PerfSound DEF perf
      <3> QED
        BY <3>1, <3>2 DEF SourceSound
    <2> QED
      BY <2>1, <2>2, <2>3
  <1> QED
    BY <1>3 DEF SourcesSound, open

-----------------------------------------------------------------------------
(* A sample *)

(* What two reads differ by is what was used, or a unit less. *)
LEMMA CounterStep ==
  ASSUME EnergyTypeOK, NEW c \in 0 .. EnergyRange, c < wrapAt, NEW load \in Loads
  PROVE  LET now == (c + load) % wrapAt
         IN /\ now \in 0 .. EnergyRange /\ now < wrapAt
            /\ \A bounded : \A e \in CounterDelta(c, now, bounded) :
                  e \in Nat /\ e <= load /\ load <= e + 1
  <1> DEFINE now == (c + load) % wrapAt
  <1>1. /\ EnergyRange \in Nat \ {0} /\ load \in 0 .. EnergyRange - 1
        /\ wrapAt = EnergyRange \/ wrapAt = EnergyRange + 1
    BY EnergyConstants DEF EnergyTypeOK
  <1>2. CASE c + load < wrapAt
    <2>1. now = c + load
      <3>1. c + load \in Nat /\ wrapAt \in Nat
        BY <1>1
      <3> QED
        BY <1>2, <3>1
    <2> HIDE DEF now
    <2>2. now >= c /\ now - c = load
      BY <1>1, <2>1
    <2>3. \A bounded : \A e \in CounterDelta(c, now, bounded) : e = load
      BY <2>2 DEF CounterDelta
    <2> QED
      BY <1>1, <1>2, <2>1, <2>3 DEF now
  <1>3. CASE wrapAt <= c + load
    <2>1. now = (c + load) - wrapAt
      <3>1. c + load \in Nat /\ wrapAt \in Nat /\ c + load < wrapAt + wrapAt
        BY <1>1
      <3> QED
        BY <1>3, <3>1
    <2> HIDE DEF now
    <2>2. now < c /\ now \in Nat /\ now <= EnergyRange
      BY <1>1, <1>3, <2>1
    <2>3. \A bounded : \A e \in CounterDelta(c, now, bounded) : e = (EnergyRange - c) + now
      BY <1>1, <2>2 DEF CounterDelta
    <2> QED
      BY <1>1, <1>3, <2>1, <2>2, <2>3 DEF now
  <1> QED
    BY <1>1, <1>2, <1>3

LEMMA CoresImage ==
  ASSUME NEW S \in SUBSET CPUs
  PROVE  /\ IsFiniteSet({ CoreOf(c) : c \in S })
         /\ Cardinality({ CoreOf(c) : c \in S }) <= Cardinality(S)
  <1> DEFINE f == [c \in S |-> CoreOf(c)]
             T == { CoreOf(c) : c \in S }
  <1>1. IsFiniteSet(S)
    BY EnergyConstants, FS_Subset
  <1>2. f \in Surjection(S, T)
    BY DEF Surjection
  <1> HIDE DEF f, T
  <1>3. IsFiniteSet(T) /\ Cardinality(T) <= Cardinality(S)
    BY <1>1, <1>2, FS_Surjection
  <1> QED
    BY <1>3 DEF T

(* A package of which as many cores were read as it has: all were read.    *)
LEMMA AllCores ==
  ASSUME NEW topology \in SUBSET CPUs, NEW p, NEW cores,
         \A d \in cores : d.package = p /\ \E c \in topology : CoreOf(c) = d,
         Cardinality(cores) = Cardinality(CoresIn(p, topology))
  PROVE  cores = { CoreOf(c) : c \in CoresIn(p, topology) }
  <1> DEFINE T == { CoreOf(c) : c \in CoresIn(p, topology) }
  <1>1. CoresIn(p, topology) \in SUBSET CPUs
    BY DEF CoresIn, PhysicalCores
  <1>2. IsFiniteSet(T) /\ Cardinality(T) <= Cardinality(CoresIn(p, topology))
    BY <1>1, CoresImage
  <1>3. cores \in SUBSET T
    <2> SUFFICES ASSUME NEW d \in cores PROVE d \in T
      OBVIOUS
    <2>1. PICK c \in topology : CoreOf(c) = d
      OBVIOUS
    <2>2. PICK e \in PhysicalCores(topology) : CoreOf(e) = CoreOf(c)
      BY CoreStands
    <2>3. Location[e].package = p
      <3>1. d.package = p /\ d = CoreOf(e)
        BY <2>1, <2>2
      <3> QED
        BY <3>1 DEF CoreOf
    <2> QED
      BY <2>1, <2>2, <2>3 DEF CoresIn
  <1> HIDE DEF T
  <1>4. IsFiniteSet(cores) /\ Cardinality(cores) <= Cardinality(T)
    BY <1>2, <1>3, FS_Subset
  <1>5. Cardinality(T) \in Nat /\ Cardinality(cores) \in Nat
    BY <1>2, <1>4, FS_CardinalityType
  <1>6. Cardinality(T) = Cardinality(cores)
    BY <1>2, <1>4, <1>5
  <1>7. cores = T
    BY <1>2, <1>3, <1>6, FS_Subset
  <1> QED
    BY <1>7 DEF T

(* What is shown of the readings and of the packages whose cores were all  *)
(* read.                                                                   *)
LEMMA TotalsSound ==
  ASSUME NEW counted, NEW topology \in SUBSET CPUs, CountedIn(counted, topology),
         NEW load \in Nat, NEW readings,
         \A d \in DOMAIN readings :
            /\ readings[d].energy \in Nat /\ readings[d].energy <= load
            /\ load <= readings[d].energy + 1
            /\ readings[d] = [energy |-> readings[d].energy, of |-> {d}]
            /\ d.kind = "core" => \E c \in CPUs : CoreOf(c) = d
  PROVE  \A d \in DOMAIN WithCoreTotals(readings, counted) :
            LET total == WithCoreTotals(readings, counted)[d]
            IN /\ total \in [energy : Nat, of : SUBSET DOMAIN readings]
               /\ total.of # {}
               /\ total.energy <= Cardinality(total.of) * load
               /\ Cardinality(total.of) * load <= total.energy + Cardinality(total.of)
               /\ total.of # {d} =>
                     /\ Cardinality(total.of) = Cardinality(CoresIn(d.package, topology))
                     /\ \A k \in total.of : k.kind = "core" /\ k.package = d.package
  <1> DEFINE cores == [p \in PackagesOf(CPUs) |->
                         { d \in DOMAIN readings : d.kind = "core" /\ d.package = p }]
             totals == CoreTotals(readings, cores, counted)
             energy(p) == MapThenSumSet(LAMBDA d : readings[d].energy, cores[p])
             all == WithCoreTotals(readings, counted)
  <1>1. all = [d \in DOMAIN readings \cup { WholePackage("cores", p) : p \in totals } |->
                 IF d \in DOMAIN readings THEN readings[d]
                 ELSE [energy |-> energy(d.package), of |-> cores[d.package]]]
    BY DEF WithCoreTotals
  <1> HIDE DEF all
  <1> SUFFICES ASSUME NEW d \in DOMAIN all
               PROVE  /\ all[d] \in [energy : Nat, of : SUBSET DOMAIN readings]
                      /\ all[d].of # {}
                      /\ all[d].energy <= Cardinality(all[d].of) * load
                      /\ Cardinality(all[d].of) * load <= all[d].energy + Cardinality(all[d].of)
                      /\ all[d].of # {d} =>
                            /\ Cardinality(all[d].of) = Cardinality(CoresIn(d.package, topology))
                            /\ \A k \in all[d].of : k.kind = "core" /\ k.package = d.package
    BY DEF all
  <1>2. CASE d \in DOMAIN readings
    <2>1. all[d] = [energy |-> readings[d].energy, of |-> {d}]
      BY <1>1, <1>2
    <2>2. Cardinality({d}) = 1
      BY FS_Singleton
    <2>3. 1 * load = load
      OBVIOUS
    <2>4. /\ all[d] \in [energy : Nat, of : SUBSET DOMAIN readings]
          /\ all[d].of = {d} /\ all[d].energy = readings[d].energy
      BY <1>2, <2>1
    <2> QED
      BY <1>2, <2>2, <2>3, <2>4
  <1>3. CASE d \notin DOMAIN readings
    <2>1. PICK p \in totals : d = WholePackage("cores", p)
      BY <1>1, <1>3
    <2>2. d.package = p
      BY <2>1 DEF WholePackage
    <2>3. all[d] = [energy |-> energy(p), of |-> cores[p]]
      BY <1>1, <1>3, <2>2
    <2>4. p \in DOMAIN counted /\ cores[p] # {} /\ Cardinality(cores[p]) = counted[p]
      BY DEF CoreTotals
    <2>5. p \in PackagesOf(CPUs)
      BY <2>4 DEF CountedIn, PackagesOf
    <2>6. /\ cores[p] \subseteq DOMAIN readings
          /\ \A k \in cores[p] : k.kind = "core" /\ k.package = p
      BY <2>5
    <2> DEFINE S == cores[p]
    <2>7. IsFiniteSet(S)
      <3>1. S \in SUBSET { CoreOf(c) : c \in CPUs }
        BY <2>6
      <3>2. IsFiniteSet({ CoreOf(c) : c \in CPUs })
        BY CoresImage
      <3> HIDE DEF S
      <3> QED
        BY <3>1, <3>2, FS_Subset
    <2>8. \A x \in S : readings[x].energy \in Nat /\ readings[x].energy <= load
                       /\ load <= readings[x].energy + 1
      BY <2>6
    <2>9. /\ energy(p) \in Nat
          /\ energy(p) <= Cardinality(S) * load
          /\ Cardinality(S) * load <= energy(p) + Cardinality(S)
      <3> HIDE DEF S
      <3>1. /\ EnergySum(readings, S) \in Nat
            /\ EnergySum(readings, S) <= Cardinality(S) * load
            /\ Cardinality(S) * load <= EnergySum(readings, S) + Cardinality(S)
        BY <2>7, <2>8, SumWithin
      <3>2. energy(p) = EnergySum(readings, S)
        BY DEF S, EnergySum
      <3> QED
        BY <3>1, <3>2
    <2>10. Cardinality(S) = Cardinality(CoresIn(p, topology))
      BY <2>4 DEF CountedIn
    <2> DEFINE e == energy(p)
    <2>11. all[d] = [energy |-> e, of |-> S]
      BY <2>3
    <2> HIDE DEF S, e
    <2>12. all[d].energy = e /\ all[d].of = S /\ e \in Nat /\ S \subseteq DOMAIN readings
      BY <2>6, <2>9, <2>11 DEF S, e
    <2>13. all[d] \in [energy : Nat, of : SUBSET DOMAIN readings]
      BY <2>11, <2>12
    <2>14. e <= Cardinality(S) * load /\ Cardinality(S) * load <= e + Cardinality(S)
      BY <2>9 DEF e
    <2>15. S # {} /\ \A k \in S : k.kind = "core" /\ k.package = p
      BY <2>4, <2>6 DEF S
    <2> QED
      BY <2>2, <2>10, <2>12, <2>13, <2>14, <2>15
  <1> QED
    BY <1>2, <1>3

LEMMA SampleKeeps ==
  ASSUME EnergyInv, NEW open, SourcesSound(open),
         NEW topology \in SUBSET CPUs, NEW counted, CountedIn(counted, topology),
         NEW load \in Loads, NEW length \in Lengths, NEW failing,
         SampleSources(open, counted, load, length, failing),
         mapped' = topology, expected' = counted, online' = online, wrapAt' = wrapAt
  PROVE  EnergyInv'
  <1> DEFINE now == [d \in AllDomains |-> (counter[d] + load) % wrapAt]
             read == [d \in DOMAIN open |->
                        SourceEnergy(open[d], now[d], d \in failing, length)]
             readings == [d \in { d \in DOMAIN read : read[d] # {} } |->
                            [energy |-> CHOOSE e \in read[d] : TRUE, of |-> {d}]]
  <1>1. /\ Unreadable(open) \subseteq failing
        /\ counter' = now
        /\ sources' = [d \in DOMAIN open |-> ReadSource(open[d], now[d], d \in failing)]
        /\ shown' = WithCoreTotals(readings, counted)
        /\ interval' = [length |-> length, load |-> load, mask |-> online]
    BY DEF SampleSources
  <1>2. /\ DOMAIN open \subseteq AllDomains
        /\ \A d \in DOMAIN open : SourceSound(d, open[d], counter[d])
    BY DEF SourcesSound
  <1>3. load \in Nat /\ EnergyRange \in Nat /\ wrapAt \in {EnergyRange, EnergyRange + 1}
    BY EnergyConstants DEF EnergyInv, EnergyTypeOK
  <1>4. \A d \in AllDomains : now[d] = (counter[d] + load) % wrapAt
    OBVIOUS
  <1>5. ASSUME NEW d \in AllDomains PROVE now[d] \in 0 .. EnergyRange /\ now[d] < wrapAt
    <2>1. counter[d] \in 0 .. EnergyRange /\ counter[d] < wrapAt /\ EnergyTypeOK
      BY DEF EnergyInv, EnergyTypeOK
    <2> HIDE DEF now
    <2> QED
      BY <1>4, <2>1, CounterStep
  <1>6. now \in [AllDomains -> 0 .. EnergyRange]
    BY <1>5
  <1>7. /\ DOMAIN read = DOMAIN open
        /\ \A d \in DOMAIN open : read[d] = SourceEnergy(open[d], now[d], d \in failing, length)
    OBVIOUS
  <1> HIDE DEF now
  <1>8. ASSUME NEW d \in DOMAIN open, NEW e \in read[d]
        PROVE  /\ length = "valid" /\ d \notin failing
               /\ e \in Nat /\ e <= load /\ load <= e + 1
    <2> DEFINE failed == d \in failing
    <2>1. e \in SourceEnergy(open[d], now[d], failed, length)
      BY <1>7
    <2>2. /\ d \in AllDomains /\ SourceSound(d, open[d], counter[d]) /\ failed \in BOOLEAN
          /\ now[d] = (counter[d] + load) % wrapAt
      BY <1>2, <1>4
    <2> HIDE DEF failed, read
    <2>4. PICK p \in open[d].previous :
             ~failed /\ e \in AveragePower(p, now[d], open[d].bounded, length)
      BY <2>1, <2>2 DEF SourceEnergy
    <2>5. p = counter[d]
      BY <2>2, <2>4 DEF SourceSound
    <2>6. length = "valid" /\ e \in CounterDelta(counter[d], now[d], open[d].bounded)
      BY <2>4, <2>5 DEF AveragePower
    <2>7. counter[d] \in 0 .. EnergyRange /\ counter[d] < wrapAt /\ EnergyTypeOK
      BY <2>2 DEF EnergyInv, EnergyTypeOK
    <2>8. \A bounded : \A u \in CounterDelta(counter[d], now[d], bounded) :
             u \in Nat /\ u <= load /\ load <= u + 1
      BY <2>2, <2>7, CounterStep
    <2>3. length = "valid" /\ ~failed /\ e \in Nat /\ e <= load /\ load <= e + 1
      BY <2>4, <2>6, <2>8
    <2> QED
      BY <2>3 DEF failed
  <1> HIDE DEF read
  <1>9. /\ DOMAIN readings = { d \in DOMAIN open : read[d] # {} }
        /\ \A d \in DOMAIN readings :
              /\ readings[d].energy \in read[d]
              /\ readings[d] = [energy |-> readings[d].energy, of |-> {d}]
    BY <1>7
  <1> HIDE DEF readings
  <1>10. ASSUME NEW d \in DOMAIN readings
         PROVE  /\ d \in DOMAIN open /\ length = "valid" /\ d \notin failing
                /\ readings[d].energy \in Nat /\ readings[d].energy <= load
                /\ load <= readings[d].energy + 1
                /\ readings[d] = [energy |-> readings[d].energy, of |-> {d}]
                /\ d.kind = "core" => \E c \in CPUs : CoreOf(c) = d /\ c \in online
    <2>1. d \in DOMAIN open /\ readings[d].energy \in read[d]
      BY <1>9
    <2>2. /\ length = "valid" /\ d \notin failing
          /\ readings[d].energy \in Nat /\ readings[d].energy <= load
          /\ load <= readings[d].energy + 1
      BY <1>8, <2>1
    <2>3. ASSUME d.kind = "core"
          PROVE  open[d].at \in CPUs /\ CoreOf(open[d].at) = d /\ open[d].at \in online
      <3>1. /\ open[d].backend = "perf_event" /\ open[d].at \in CPUs
            /\ CoreOf(open[d].at) = d
        BY <1>2, <2>1, <2>3 DEF SourceSound
      <3>2. open[d].at \in online
        BY <1>1, <2>1, <2>2, <3>1 DEF Unreadable
      <3> QED
        BY <3>1, <3>2
    <2> QED
      BY <1>9, <2>1, <2>2, <2>3
  <1>11. ASSUME NEW d \in DOMAIN shown'
         PROVE  /\ shown'[d] \in [energy : Nat, of : SUBSET DOMAIN readings]
                /\ shown'[d].of # {}
                /\ shown'[d].energy <= Cardinality(shown'[d].of) * load
                /\ Cardinality(shown'[d].of) * load
                      <= shown'[d].energy + Cardinality(shown'[d].of)
                /\ shown'[d].of # {d} =>
                      /\ Cardinality(shown'[d].of) = Cardinality(CoresIn(d.package, topology))
                      /\ \A k \in shown'[d].of : k.kind = "core" /\ k.package = d.package
    <2>1. \A k \in DOMAIN WithCoreTotals(readings, counted) :
            LET total == WithCoreTotals(readings, counted)[k]
            IN /\ total \in [energy : Nat, of : SUBSET DOMAIN readings]
               /\ total.of # {}
               /\ total.energy <= Cardinality(total.of) * load
               /\ Cardinality(total.of) * load <= total.energy + Cardinality(total.of)
               /\ total.of # {k} =>
                     /\ Cardinality(total.of) = Cardinality(CoresIn(k.package, topology))
                     /\ \A c \in total.of : c.kind = "core" /\ c.package = k.package
      BY <1>3, <1>10, TotalsSound
    <2> QED
      BY <1>1, <2>1
  <1>12. /\ interval'.length = length /\ interval'.load = load /\ interval'.mask = online
         /\ interval' \in [length : Lengths, load : Loads, mask : SUBSET CPUs]
    BY <1>1 DEF EnergyInv, EnergyTypeOK
  <1>13. /\ DOMAIN sources' = DOMAIN open
         /\ \A d \in DOMAIN open : SourceSound(d, sources'[d], now[d])
    <2>1. DOMAIN sources' = DOMAIN open
      BY <1>1
    <2>2. ASSUME NEW d \in DOMAIN open PROVE SourceSound(d, sources'[d], now[d])
      <3>1. sources'[d] = [open[d] EXCEPT !.previous = IF d \in failing THEN {} ELSE {now[d]}]
        BY <1>1 DEF ReadSource
      <3>2. SourceSound(d, open[d], counter[d]) /\ now[d] \in 0 .. EnergyRange
        BY <1>2, <1>5
      <3>3. {} \in EnergyOption(0 .. EnergyRange) /\ {now[d]} \in EnergyOption(0 .. EnergyRange)
        BY <3>2, EnergyOptions
      <3>4. /\ sources'[d] \in SourceRecord /\ sources'[d].previous \subseteq {now[d]}
            /\ sources'[d].backend = open[d].backend /\ sources'[d].at = open[d].at
        BY <3>1, <3>2, <3>3 DEF SourceSound, SourceRecord
      <3> QED
        BY <3>2, <3>4 DEF SourceSound
    <2> QED
      BY <2>1, <2>2
  <1>14. \A p \in DOMAIN expected' : expected'[p] \in Nat \ {0}
    <2> SUFFICES ASSUME NEW p \in PackagesOf(topology)
                 PROVE  Cardinality(CoresIn(p, topology)) \in Nat \ {0}
      BY DEF CountedIn
    <2>1. PICK c \in topology : Location[c].package = p
      BY DEF PackagesOf
    <2>2. PICK d \in PhysicalCores(topology) : CoreOf(d) = CoreOf(c)
      BY CoreStands
    <2>3. d \in CoresIn(p, topology)
      BY <2>1, <2>2, CorePackage DEF CoresIn
    <2>4. IsFiniteSet(CoresIn(p, topology))
      <3>1. CoresIn(p, topology) \in SUBSET CPUs
        BY DEF CoresIn, PhysicalCores
      <3> QED
        BY <3>1, EnergyConstants, FS_Subset
    <2> QED
      BY <2>3, <2>4, FS_CardinalityType, FS_EmptySet
  <1>15. EnergyTypeOK'
    <2>1. \A d \in DOMAIN sources' : d \in AllDomains /\ sources'[d] \in SourceRecord
      BY <1>2, <1>13 DEF SourceSound
    <2>2. \A d \in DOMAIN shown' : shown'[d] \in [energy : Nat, of : SUBSET DOMAIN sources']
      BY <1>10, <1>11, <1>13
    <2>3. online \subseteq CPUs
      BY DEF EnergyInv, EnergyTypeOK
    <2> QED
      BY <1>1, <1>3, <1>6, <1>12, <1>14, <2>1, <2>2, <2>3 DEF EnergyTypeOK, SourceRecord
  <1>16. EnergyAccounted'
    <2> SUFFICES ASSUME NEW d \in DOMAIN shown'
                 PROVE  /\ interval'.length = "valid"
                        /\ shown'[d].energy <= Cardinality(shown'[d].of) * interval'.load
                        /\ Cardinality(shown'[d].of) * interval'.load
                              <= shown'[d].energy + Cardinality(shown'[d].of)
      BY DEF EnergyAccounted
    <2>1. PICK k \in shown'[d].of : k \in DOMAIN readings
      BY <1>11
    <2> QED
      BY <1>10, <1>11, <1>12, <2>1
  <1>17. CoreTotalsComplete'
    <2> SUFFICES ASSUME NEW d \in DOMAIN shown', shown'[d].of # {d}, online = topology
                 PROVE  shown'[d].of = { CoreOf(c) : c \in CoresIn(d.package, topology) }
      BY <1>12 DEF CoreTotalsComplete
    <2>1. \A k \in shown'[d].of :
             k \in DOMAIN readings /\ k.kind = "core" /\ k.package = d.package
      BY <1>11
    <2>2. \A k \in shown'[d].of : k.package = d.package /\ \E c \in topology : CoreOf(c) = k
      BY <1>10, <2>1
    <2> QED
      BY <1>11, <2>2, AllCores
  <1>18. SourcesSound(sources)'
    BY <1>1, <1>2, <1>13 DEF SourcesSound
  <1>19. \A d \in AllDomains : counter'[d] < wrapAt'
    BY <1>1, <1>5
  <1>20. online' # {}
    BY DEF EnergyInv
  <1> QED
    BY <1>15, <1>16, <1>17, <1>18, <1>19, <1>20 DEF EnergyInv, CountedIn

LEMMA EnergyStart == EnergyInit => EnergyInv
  <1> SUFFICES ASSUME EnergyInit PROVE EnergyInv
    OBVIOUS
  <1>1. /\ online = CPUs /\ mapped = {} /\ wrapAt \in {EnergyRange, EnergyRange + 1}
        /\ counter = [d \in AllDomains |-> 0]
        /\ DOMAIN sources = {} /\ DOMAIN expected = {} /\ DOMAIN shown = {}
        /\ interval = [length |-> "invalid", load |-> Min(Loads), mask |-> CPUs]
    BY DEF EnergyInit
  <1>2. Min(Loads) \in Loads
    <2>1. Loads \in SUBSET Nat /\ Loads # {}
      BY EnergyConstants
    <2> QED
      BY <2>1, MinOf
  <1>3. EnergyTypeOK
    <2>1. counter \in [AllDomains -> 0 .. EnergyRange]
      BY <1>1, EnergyConstants
    <2> QED
      BY <1>1, <1>2, <2>1 DEF EnergyTypeOK, Lengths
  <1>4. \A d \in AllDomains : counter[d] < wrapAt
    BY <1>1, EnergyConstants
  <1>5. CountedIn(expected, mapped)
    BY <1>1 DEF CountedIn, PackagesOf
  <1>6. EnergyAccounted /\ CoreTotalsComplete /\ SourcesSound(sources)
    BY <1>1 DEF EnergyAccounted, CoreTotalsComplete, SourcesSound
  <1> QED
    BY <1>1, <1>3, <1>4, <1>5, <1>6, EnergyConstants DEF EnergyInv

LEMMA EnergyInductive == ASSUME EnergyInv, [EnergyNext]_energyVars PROVE EnergyInv'
  <1>1. CASE HotplugCpu
    <2>1. /\ online' \subseteq CPUs /\ online' # {}
          /\ UNCHANGED <<counter, wrapAt, sources, expected, mapped, shown, interval>>
      BY <1>1 DEF HotplugCpu
    <2> QED
      BY <2>1 DEF EnergyInv, EnergyTypeOK, EnergyAccounted, CoreTotalsComplete, SourcesSound,
                  CountedIn
  <1>2. ASSUME NEW load \in Loads, NEW length \in Lengths, FastEnergy(load, length)
        PROVE  EnergyInv'
    <2>1. PICK failing : SampleSources(sources, expected, load, length, failing)
      BY <1>2 DEF FastEnergy
    <2>2. /\ mapped' = mapped /\ expected' = expected /\ online' = online /\ wrapAt' = wrapAt
          /\ SourcesSound(sources) /\ CountedIn(expected, mapped) /\ mapped \in SUBSET CPUs
      BY <1>2 DEF FastEnergy, EnergyInv, EnergyTypeOK
    <2> QED
      BY <2>1, <2>2, SampleKeeps
  <1>3. ASSUME NEW load \in Loads, NEW length \in Lengths, FullEnergy(load, length)
        PROVE  EnergyInv'
    <2>1. PICK readable, openable :
             /\ readable \in SUBSET Zones
             /\ \E failing : SampleSources(SourcesAfter(online, readable, openable),
                                           ExpectedAfter(online), load, length, failing)
      BY <1>3 DEF FullEnergy
    <2>2. PICK failing : SampleSources(SourcesAfter(online, readable, openable),
                                       ExpectedAfter(online), load, length, failing)
      BY <2>1
    <2>3. /\ mapped' = online /\ expected' = ExpectedAfter(online) /\ online' = online
          /\ wrapAt' = wrapAt /\ online \in SUBSET CPUs
      BY <1>3 DEF FullEnergy, EnergyInv, EnergyTypeOK
    <2>4. CountedIn(ExpectedAfter(online), online)
      BY DEF CountedIn, ExpectedAfter
    <2>5. SourcesSound(SourcesAfter(online, readable, openable))
      BY <2>1, OpenedSound
    <2> QED
      BY <2>2, <2>3, <2>4, <2>5, SampleKeeps
  <1>4. CASE UNCHANGED energyVars
    BY <1>4 DEF energyVars, EnergyInv, EnergyTypeOK, EnergyAccounted, CoreTotalsComplete,
                SourcesSound, CountedIn
  <1> QED
    BY <1>1, <1>2, <1>3, <1>4 DEF EnergyNext

-----------------------------------------------------------------------------
(***************************************************************************)
(* Rates: the counters that were compared last are those of the last       *)
(* collection, under the names their devices had in it; the controller and *)
(* an only namespace are not both in the base snapshot.                    *)
(***************************************************************************)
NameOf(n, names) == IF Cardinality(names) = 1 THEN Controller ELSE n

(* What a collection finds, of these namespaces and counters. *)
CountersFound(found, names, got) ==
    /\ DOMAIN found \subseteq CounterDevices
    /\ \A d \in DOMAIN found : \A k \in DOMAIN found[d] : k \in got
    /\ \A d \in DOMAIN found \cap {"net", "hwmon", "cpu"} : DOMAIN found[d] \subseteq KeysOf(d)
    /\ \A d \in DOMAIN found \cap Namespaces : d \in names /\ DOMAIN found[d] = {d}
    /\ Controller \in DOMAIN found =>
          \E n \in Namespaces : names = {n} /\ DOMAIN found[Controller] = {n}

(* Every drive has its counter, by the name that it goes by. *)
DrivesFound(found, names, got) ==
    \A n \in names \cap got :
        NameOf(n, names) \in DOMAIN found /\ n \in DOMAIN found[NameOf(n, names)]

CountersAre(found, values) ==
    \A d \in DOMAIN found : \A k \in DOMAIN found[d] : found[d][k] = values[k]

RatesInv ==
    /\ TelemetryTypeOK
    /\ RatesTrue
    /\ DrivesKeepTheirRates
    /\ sampled.read \subseteq kernel
    /\ CountersFound(previous, present, sampled.read)
    /\ CountersAre(previous, count)
    /\ sampled.named => DrivesFound(previous, present, sampled.read)
    /\ Coalesced(devices) = {}

LEMMA TelemetryNames ==
  /\ Controller \notin Namespaces /\ "net" \notin Namespaces /\ "hwmon" \notin Namespaces
  /\ "cpu" \notin Namespaces /\ "energy" \notin Namespaces /\ "total" \notin Namespaces
  /\ "idle" \notin Namespaces /\ IsFiniteSet(Namespaces)
  /\ CounterSets \subseteq SUBSET Counters /\ MaxCount \in Nat \ {0}
  BY TelemetryAssumption DEF TelemetryAssumption

LEMMA OneName ==
  ASSUME NEW names \in SUBSET Namespaces
  PROVE  Cardinality(names) = 1 <=> \E n \in Namespaces : names = {n}
  <1>1. IsFiniteSet(names)
    BY TelemetryNames, FS_Subset
  <1> QED
    BY <1>1, FS_Singleton

LEMMA KeysAre ==
  /\ KeysOf("hwmon") = {"energy"} /\ KeysOf("cpu") = {"total", "idle"}
  /\ \A d : d # "hwmon" /\ d # "cpu" => KeysOf(d) = {d}
  BY DEF KeysOf

(* Namespaces that are listed beside their controller are more than one.   *)
LEMMA StillListedAgain ==
  ASSUME NEW listed, DOMAIN listed \subseteq DriveDevices,
         \A d \in DOMAIN listed : listed[d] \in BOOLEAN
  PROVE  /\ DOMAIN StillListed(listed) \subseteq DriveDevices
         /\ \A d \in DOMAIN StillListed(listed) : StillListed(listed)[d] \in BOOLEAN
         /\ Coalesced(StillListed(listed)) = {}
  <1> DEFINE still == StillListed(listed)
             namespaces == { d \in DOMAIN listed : listed[d] }
             left == { d \in DOMAIN still : still[d] }
  <1>1. /\ DOMAIN still = DOMAIN listed \ Coalesced(listed)
        /\ \A d \in DOMAIN still : still[d] = listed[d]
    BY DEF StillListed
  <1>2. Coalesced(still) = IF Controller \in DOMAIN still /\ Cardinality(left) = 1 THEN left ELSE {}
    BY DEF Coalesced
  <1>3. CASE Coalesced(listed) = {}
    <2>1. DOMAIN still = DOMAIN listed /\ left = namespaces
      BY <1>1, <1>3
    <2>2. Coalesced(listed)
            = IF Controller \in DOMAIN listed /\ Cardinality(namespaces) = 1 THEN namespaces ELSE {}
      BY DEF Coalesced
    <2> HIDE DEF still, left, namespaces
    <2>3. Coalesced(still) = {}
      BY <1>2, <1>3, <2>1, <2>2
    <2> QED
      BY <1>1, <1>3, <2>3 DEF still
  <1>4. CASE Coalesced(listed) # {}
    <2>1. Coalesced(listed) = namespaces
      BY <1>4 DEF Coalesced
    <2>2. left = {}
      BY <1>1, <2>1
    <2>3. Coalesced(still) = {}
      BY <1>2, <2>2
    <2> QED
      BY <1>1, <2>3
  <1> QED
    BY <1>3, <1>4

(* What a full collection finds of the drives. *)
LEMMA FullFinds ==
  ASSUME NEW names \in SUBSET Namespaces, NEW got, NEW hasController \in BOOLEAN
  PROVE  LET listed == FullDevices(names, hasController)
             found == CoalescedCounters(FullDrives(names, got), listed)
         IN /\ DOMAIN listed \subseteq DriveDevices
            /\ \A d \in DOMAIN listed : listed[d] \in BOOLEAN
            /\ DOMAIN found \subseteq DriveDevices
            /\ CountersFound(found, names, got)
            /\ CountersAre(found, count')
            /\ hasController => DrivesFound(found, names, got)
  <1> DEFINE listed == FullDevices(names, hasController)
             drives == FullDrives(names, got)
             found == CoalescedCounters(drives, listed)
             moved == Coalesced(listed) \cap DOMAIN drives
  <1>1. /\ DOMAIN listed = names \cup (IF hasController THEN {Controller} ELSE {})
        /\ \A d \in DOMAIN listed : listed[d] = (d # Controller)
    BY DEF FullDevices
  <1>2. /\ DOMAIN drives = names \cap got
        /\ \A n \in DOMAIN drives : DOMAIN drives[n] = {n} /\ drives[n][n] = count'[n]
    BY DEF FullDrives, Values
  <1>3. { d \in DOMAIN listed : listed[d] } = names
    BY <1>1, TelemetryNames
  <1>4. Coalesced(listed) = IF hasController /\ Cardinality(names) = 1 THEN names ELSE {}
    <2>1. Controller \in DOMAIN listed <=> hasController
      BY <1>1, TelemetryNames
    <2> HIDE DEF listed
    <2> QED
      BY <1>3, <2>1 DEF Coalesced
  <1>5. /\ DOMAIN found = (DOMAIN drives \ moved) \cup (IF moved = {} THEN {} ELSE {Controller})
        /\ \A d \in DOMAIN found :
              found[d] = IF d = Controller /\ moved # {}
                         THEN drives[CHOOSE n \in moved : TRUE] ELSE drives[d]
    BY DEF CoalescedCounters
  <1>6. DOMAIN listed \subseteq DriveDevices /\ \A d \in DOMAIN listed : listed[d] \in BOOLEAN
    BY <1>1 DEF DriveDevices
  <1> HIDE DEF listed, drives, found
  <1>7. CASE moved = {}
    <2>1. /\ DOMAIN found = names \cap got
          /\ \A n \in DOMAIN found : DOMAIN found[n] = {n} /\ found[n][n] = count'[n]
      BY <1>2, <1>5, <1>7
    <2>2. DOMAIN found \subseteq DriveDevices /\ DOMAIN found \cap {"net", "hwmon", "cpu"} = {}
      BY <2>1, TelemetryNames DEF DriveDevices
    <2>3. CountersFound(found, names, got)
      BY <2>1, <2>2, TelemetryNames DEF CountersFound, DriveDevices, CounterDevices
    <2>4. CountersAre(found, count')
      BY <2>1 DEF CountersAre
    <2>5. ASSUME hasController PROVE DrivesFound(found, names, got)
      <3>1. ASSUME NEW n \in names \cap got PROVE NameOf(n, names) = n
        <4>1. Cardinality(names) # 1
          BY <1>2, <1>4, <1>7, <2>5, <3>1
        <4> QED
          BY <4>1 DEF NameOf
      <3> QED
        BY <2>1, <3>1 DEF DrivesFound
    <2> QED
      BY <1>6, <2>2, <2>3, <2>4, <2>5 DEF listed, drives, found
  <1>8. CASE moved # {}
    <2>1. hasController /\ Cardinality(names) = 1 /\ Coalesced(listed) = names
      BY <1>4, <1>8
    <2>2. PICK n \in Namespaces : names = {n}
      BY <2>1, OneName
    <2>3. moved = {n} /\ DOMAIN drives = {n} /\ n \in got
      BY <1>2, <1>8, <2>1, <2>2
    <2>4. n = CHOOSE m \in moved : TRUE
      BY <2>3
    <2>5. /\ DOMAIN found = {Controller} /\ DOMAIN found[Controller] = {n}
          /\ found[Controller][n] = count'[n]
      BY <1>2, <1>5, <1>8, <2>3, <2>4
    <2>6. DOMAIN found \subseteq DriveDevices /\ DOMAIN found \cap {"net", "hwmon", "cpu"} = {}
          /\ DOMAIN found \cap Namespaces = {}
      BY <2>5, TelemetryNames DEF DriveDevices, Controller
    <2>7. CountersFound(found, names, got)
      BY <2>2, <2>3, <2>5, <2>6 DEF CountersFound, CounterDevices
    <2>8. CountersAre(found, count')
      BY <2>5 DEF CountersAre
    <2>9. DrivesFound(found, names, got)
      BY <2>1, <2>2, <2>5 DEF DrivesFound, NameOf
    <2> QED
      BY <1>6, <2>6, <2>7, <2>8, <2>9 DEF listed, drives, found
  <1> QED
    BY <1>7, <1>8

(* What a fast one finds; none of it is moved to the controller then, for  *)
(* an only namespace goes by its name already.                             *)
LEMMA FastFinds ==
  ASSUME NEW names \in SUBSET Namespaces, NEW got,
         DOMAIN devices \subseteq DriveDevices,
         \A d \in DOMAIN devices : devices[d] \in BOOLEAN,
         Coalesced(devices) = {}
  PROVE  LET drives == FastDrives(names, got)
             listed == [d \in DOMAIN devices \cup DOMAIN drives |->
                          IF d \in DOMAIN devices THEN devices[d] ELSE FALSE]
             found == CoalescedCounters(drives, listed)
         IN /\ DOMAIN listed \subseteq DriveDevices
            /\ \A d \in DOMAIN listed : listed[d] \in BOOLEAN
            /\ DOMAIN found \subseteq DriveDevices
            /\ CountersFound(found, names, got)
            /\ CountersAre(found, count')
            /\ DrivesFound(found, names, got)
  <1> DEFINE drives == FastDrives(names, got)
             listed == [d \in DOMAIN devices \cup DOMAIN drives |->
                          IF d \in DOMAIN devices THEN devices[d] ELSE FALSE]
             found == CoalescedCounters(drives, listed)
             moved == Coalesced(listed) \cap DOMAIN drives
             keys(d) == { n \in names \cap got : NameOf(n, names) = d }
  <1>1. /\ DOMAIN drives = { NameOf(n, names) : n \in names \cap got }
        /\ \A d \in DOMAIN drives : drives[d] = [k \in keys(d) |-> count'[k]]
    BY DEF FastDrives, Values, ActivityDevice, NameOf
  <1>2. DOMAIN drives \subseteq DriveDevices
    BY <1>1 DEF NameOf, DriveDevices
  <1>3. /\ DOMAIN listed = DOMAIN devices \cup DOMAIN drives
        /\ { d \in DOMAIN listed : listed[d] } = { d \in DOMAIN devices : devices[d] }
        /\ \A d \in DOMAIN listed : listed[d] \in BOOLEAN
    OBVIOUS
  <1>4. moved = {}
    <2> SUFFICES ASSUME moved # {} PROVE FALSE
      OBVIOUS
    <2> DEFINE namespaces == { d \in DOMAIN devices : devices[d] }
    <2>1. Controller \in DOMAIN listed /\ Cardinality(namespaces) = 1 /\ Coalesced(listed) = namespaces
      <3> HIDE DEF drives
      <3> QED
        BY <1>3 DEF Coalesced
    <2>2. Controller \notin DOMAIN devices
      <3>1. namespaces # {}
        BY <2>1
      <3> QED
        BY <2>1, <3>1 DEF Coalesced
    <2>3. Controller \in DOMAIN drives
      BY <1>3, <2>1, <2>2
    <2>4. Cardinality(names) = 1
      BY <1>1, <2>3, TelemetryNames DEF NameOf
    <2>5. DOMAIN drives = {Controller}
      BY <1>1, <2>3, <2>4 DEF NameOf
    <2> QED
      BY <2>1, <2>2, <2>5
  <1>5. DOMAIN found = DOMAIN drives /\ \A d \in DOMAIN found : found[d] = drives[d]
    <2>1. /\ DOMAIN found = (DOMAIN drives \ moved) \cup (IF moved = {} THEN {} ELSE {Controller})
          /\ \A d \in DOMAIN found :
                found[d] = IF d = Controller /\ moved # {}
                           THEN drives[CHOOSE n \in moved : TRUE] ELSE drives[d]
      BY DEF CoalescedCounters
    <2> HIDE DEF drives, found, moved
    <2> QED
      BY <1>4, <2>1
  <1> HIDE DEF drives, listed, found
  <1>6. \A d \in DOMAIN found : DOMAIN found[d] = keys(d) /\ \A k \in keys(d) : found[d][k] = count'[k]
    <2> TAKE d \in DOMAIN found
    <2>1. found[d] = [k \in keys(d) |-> count'[k]]
      BY <1>1, <1>5
    <2> HIDE DEF keys
    <2> QED
      BY <2>1
  <1>7. DOMAIN found \subseteq DriveDevices /\ DOMAIN found \cap {"net", "hwmon", "cpu"} = {}
    BY <1>2, <1>5, TelemetryNames DEF DriveDevices, Controller
  <1>8. CountersAre(found, count')
    BY <1>6 DEF CountersAre
  <1>9. ASSUME NEW n \in names \cap got
        PROVE  NameOf(n, names) \in DOMAIN found /\ n \in DOMAIN found[NameOf(n, names)]
    BY <1>1, <1>5, <1>6
  <1>10. CountersFound(found, names, got)
    <2>1. \A d \in DOMAIN found : \A k \in DOMAIN found[d] : k \in got
      BY <1>6
    <2>2. ASSUME NEW d \in DOMAIN found \cap Namespaces
          PROVE  d \in names /\ DOMAIN found[d] = {d}
      <3>1. PICK n \in names \cap got : d = NameOf(n, names)
        BY <1>1, <1>5
      <3>2. Cardinality(names) # 1 /\ d = n
        BY <3>1, TelemetryNames DEF NameOf
      <3>3. keys(d) = {d}
        BY <3>1, <3>2 DEF NameOf
      <3> QED
        BY <1>6, <3>1, <3>2, <3>3
    <2>3. ASSUME Controller \in DOMAIN found
          PROVE  \E n \in Namespaces : names = {n} /\ DOMAIN found[Controller] = {n}
      <3>1. PICK n \in names \cap got : Controller = NameOf(n, names)
        BY <1>1, <1>5, <2>3
      <3>2. Cardinality(names) = 1
        BY <3>1, TelemetryNames DEF NameOf
      <3>3. names = {n}
        BY <3>1, <3>2, OneName
      <3>4. keys(Controller) = {n}
        BY <3>1, <3>3
      <3> QED
        BY <1>6, <2>3, <3>3, <3>4
    <2> QED
      BY <1>7, <2>1, <2>2, <2>3 DEF CountersFound, DriveDevices, CounterDevices
  <1>11. DrivesFound(found, names, got)
    BY <1>9 DEF DrivesFound
  <1> QED
    BY <1>2, <1>3, <1>7, <1>8, <1>10, <1>11 DEF drives, listed, found, DriveDevices

(* The counters of the other devices, laid over those of the drives.       *)
LEMMA AllFound ==
  ASSUME NEW names, NEW got \in SUBSET Counters, NEW drives,
         DOMAIN drives \subseteq DriveDevices,
         CountersFound(drives, names, got), CountersAre(drives, count')
  PROVE  LET all == Overlaid(OfOthers(got), drives)
         IN /\ CountersFound(all, names, got) /\ CountersAre(all, count')
            /\ DrivesFound(drives, names, got) => DrivesFound(all, names, got)
            /\ Overlaid(BaseCounters, all) = all
  <1> DEFINE others == OfOthers(got)
             all == Overlaid(others, drives)
  <1>1. /\ DOMAIN others \subseteq {"net", "hwmon", "cpu"}
        /\ \A d \in DOMAIN others : /\ DOMAIN others[d] = KeysOf(d) \cap got
                                    /\ \A k \in DOMAIN others[d] : others[d][k] = count'[k]
    BY DEF OfOthers, Values
  <1>2. /\ DOMAIN all = DOMAIN others \cup DOMAIN drives
        /\ \A d \in DOMAIN drives : all[d] = drives[d]
        /\ \A d \in DOMAIN others \ DOMAIN drives : all[d] = others[d]
    BY DEF Overlaid
  <1>3. {"net", "hwmon", "cpu"} \cap DriveDevices = {}
    BY TelemetryNames DEF DriveDevices, Controller
  <1>4. Overlaid(BaseCounters, all) = all
    <2>1. DOMAIN BaseCounters = {}
      BY DEF BaseCounters
    <2>2. all = [d \in DOMAIN all |-> all[d]]
      BY DEF Overlaid
    <2> HIDE DEF all
    <2> QED
      BY <2>1, <2>2 DEF Overlaid
  <1> HIDE DEF others, all
  <1>5. CountersFound(all, names, got)
    <2>1. DOMAIN all \subseteq CounterDevices
      BY <1>1, <1>2 DEF CountersFound, CounterDevices
    <2>2. \A d \in DOMAIN all : \A k \in DOMAIN all[d] : k \in got
      BY <1>1, <1>2 DEF CountersFound
    <2>3. \A d \in DOMAIN all \cap {"net", "hwmon", "cpu"} : DOMAIN all[d] \subseteq KeysOf(d)
      BY <1>1, <1>2 DEF CountersFound
    <2>4. \A d \in DriveDevices : d \in DOMAIN all => d \in DOMAIN drives /\ all[d] = drives[d]
      BY <1>1, <1>2, <1>3
    <2>5. \A d \in DOMAIN all \cap Namespaces : d \in names /\ DOMAIN all[d] = {d}
      BY <2>4 DEF CountersFound, DriveDevices
    <2>6. Controller \in DOMAIN all =>
             \E n \in Namespaces : names = {n} /\ DOMAIN all[Controller] = {n}
      BY <2>4 DEF CountersFound, DriveDevices
    <2> QED
      BY <2>1, <2>2, <2>3, <2>5, <2>6 DEF CountersFound
  <1>6. CountersAre(all, count')
    <2>1. ASSUME NEW d \in DOMAIN all, NEW k \in DOMAIN all[d] PROVE all[d][k] = count'[k]
      <3>1. CASE d \in DOMAIN drives
        BY <1>2, <2>1, <3>1 DEF CountersAre
      <3>2. CASE d \notin DOMAIN drives
        BY <1>1, <1>2, <2>1, <3>2
      <3> QED
        BY <3>1, <3>2
    <2> QED
      BY <2>1 DEF CountersAre
  <1>7. DrivesFound(drives, names, got) => DrivesFound(all, names, got)
    BY <1>2 DEF DrivesFound
  <1> QED
    BY <1>4, <1>5, <1>6, <1>7 DEF all, others

LEMMA RatesStart == TelemetryInit => RatesInv
  <1> SUFFICES ASSUME TelemetryInit PROVE RatesInv
    OBVIOUS
  <1>1. /\ DOMAIN devices = {} /\ DOMAIN previous = {} /\ DOMAIN rates = {}
        /\ sampled = [load |-> count, read |-> {}, named |-> FALSE, valid |-> FALSE, due |-> {}]
        /\ count = [k \in kernel |-> 0] /\ kernel \in CounterSets /\ MaxCount \in Nat
        /\ present \subseteq Namespaces \cap kernel
    BY TelemetryNames DEF TelemetryInit
  <1>2. count \in [kernel -> 0 .. MaxCount] /\ count \in [kernel -> 0 .. 1]
    BY <1>1
  <1>3. TelemetryTypeOK
    BY <1>1, <1>2 DEF TelemetryTypeOK
  <1>4. CountersFound(previous, present, sampled.read) /\ CountersAre(previous, count)
    BY <1>1 DEF CountersFound, CountersAre
  <1>5. RatesTrue /\ DrivesKeepTheirRates
    BY <1>1 DEF RatesTrue, DrivesKeepTheirRates
  <1>6. Coalesced(devices) = {}
    BY <1>1 DEF Coalesced
  <1> QED
    BY <1>1, <1>3, <1>4, <1>5, <1>6 DEF RatesInv

(* What the kernel's counters do between two collections.                  *)
LEMMA Advanced ==
  ASSUME RatesInv, kernel' = kernel, NEW names \in SUBSET (Namespaces \cap kernel),
         NEW load \in 0 .. 1, NEW busy, NEW restart, Advance(names, load, busy, restart)
  PROVE  /\ present' = names
         /\ count' \in [kernel -> 0 .. MaxCount]
         /\ \A k \in kernel : /\ count[k] \in Nat /\ count'[k] \in Nat
                              /\ count'[k] >= count[k] => count'[k] - count[k] \in 0 .. 1
                              /\ k \notin restart /\ (k \in Namespaces => k \in names) =>
                                    count'[k] >= count[k]
  <1> DEFINE restarted == restart \cup ((Namespaces \cap kernel) \ names)
  <1>1. /\ present' = names
        /\ \A k \in kernel \ restarted : count[k] + Load(k, load, busy) <= MaxCount
        /\ count' = [k \in kernel |->
                        IF k \in restarted THEN 0 ELSE count[k] + Load(k, load, busy)]
    BY DEF Advance
  <1>2. count \in [kernel -> 0 .. MaxCount] /\ MaxCount \in Nat
    BY TelemetryNames DEF RatesInv, TelemetryTypeOK
  <1>3. \A k : Load(k, load, busy) \in 0 .. 1
    BY DEF Load
  <1>4. \A k \in kernel : k \notin restart /\ (k \in Namespaces => k \in names) => k \notin restarted
    OBVIOUS
  <1> HIDE DEF restarted
  <1>6. ASSUME NEW k \in kernel
        PROVE  /\ count'[k] \in 0 .. MaxCount /\ count[k] \in Nat /\ count'[k] \in Nat
               /\ count'[k] >= count[k] => count'[k] - count[k] \in 0 .. 1
               /\ k \notin restarted => count'[k] >= count[k]
    <2>1. count[k] \in 0 .. MaxCount /\ Load(k, load, busy) \in 0 .. 1
      BY <1>2, <1>3
    <2>2. CASE k \in restarted
      BY <1>1, <1>2, <2>1, <2>2
    <2>3. CASE k \notin restarted
      <3>1. count'[k] = count[k] + Load(k, load, busy) /\ count[k] + Load(k, load, busy) <= MaxCount
        BY <1>1, <2>3
      <3> QED
        BY <1>2, <2>1, <3>1
    <2> QED
      BY <2>2, <2>3
  <1>7. count' = [k \in kernel |-> count'[k]]
    BY <1>1
  <1>8. count' \in [kernel -> 0 .. MaxCount]
    BY <1>6, <1>7
  <1> QED
    BY <1>1, <1>4, <1>6, <1>8

(* What is derived for a device: the increase of its counter.              *)
LEMMA DerivedIs ==
  ASSUME RatesInv,
         CountersFound(previous', present', sampled'.read), CountersAre(previous', count'),
         sampled'.read \subseteq kernel, kernel' = kernel,
         \A k \in kernel : /\ count[k] \in Nat /\ count'[k] \in Nat
                           /\ count'[k] >= count[k] => sampled'.load[k] = count'[k] - count[k],
         NEW d \in DOMAIN previous', NEW direct, NEW r \in Derived(d, direct)
  PROVE  r = IF d = "cpu" THEN sampled'.load["total"] - sampled'.load["idle"]
             ELSE sampled'.load[CounterOf(d)']
  <1>1. ASSUME NEW k, NEW x \in Delta(d, k)
        PROVE  k \in DOMAIN previous'[d] /\ x = sampled'.load[k]
    <2>1. /\ d \in DOMAIN previous /\ k \in DOMAIN previous[d] /\ k \in DOMAIN previous'[d]
          /\ previous'[d][k] >= previous[d][k] /\ x = previous'[d][k] - previous[d][k]
      BY <1>1 DEF Delta
    <2>2. previous[d][k] = count[k] /\ previous'[d][k] = count'[k] /\ k \in kernel
      BY <2>1 DEF RatesInv, CountersAre, CountersFound
    <2> QED
      BY <2>1, <2>2
  <1>2. CASE d = "cpu"
    <2>1. r \in DeriveCpu
      BY <1>2 DEF Derived
    <2>2. PICK total \in Delta("cpu", "total"), idle \in Delta("cpu", "idle") : r = total - idle
      BY <2>1 DEF DeriveCpu
    <2> QED
      BY <1>1, <1>2, <2>2
  <1>3. CASE d # "cpu"
    <2>1. PICK k : r \in Delta(d, k) /\ (d = "hwmon" => k = "energy")
      <3>1. CASE d = "hwmon"
        BY <3>1 DEF Derived, DerivePower
      <3>2. CASE d # "hwmon"
        BY <1>3, <3>2 DEF Derived
      <3> QED
        BY <3>1, <3>2
    <2>2. k \in DOMAIN previous'[d] /\ r = sampled'.load[k]
      BY <1>1, <2>1
    <2>3. CounterOf(d)' = k
      <3>1. CASE d = Controller
        <4>1. PICK n \in Namespaces : present' = {n} /\ DOMAIN previous'[Controller] = {n}
          BY <3>1 DEF CountersFound
        <4>2. CounterOf(d)' = CHOOSE m \in present' : TRUE
          BY <3>1 DEF CounterOf, Controller
        <4> QED
          BY <2>2, <3>1, <4>1, <4>2
      <3>2. CASE d = "hwmon"
        BY <2>1, <3>2 DEF CounterOf, Controller
      <3>3. CASE d # Controller /\ d # "hwmon"
        <4>1. CounterOf(d)' = d
          BY <3>3 DEF CounterOf
        <4>2. d \in Namespaces \/ d = "net"
          BY <1>3, <3>3 DEF CountersFound, CounterDevices
        <4>3. CASE d \in Namespaces
          BY <2>2, <4>1, <4>3 DEF CountersFound
        <4>4. CASE d = "net"
          BY <2>2, <4>1, <4>4, KeysAre DEF CountersFound
        <4> QED
          BY <4>2, <4>3, <4>4
      <3> QED
        BY <3>1, <3>2, <3>3
    <2> QED
      BY <1>3, <2>2, <2>3
  <1> QED
    BY <1>2, <1>3

LEMMA RatesKept ==
  ASSUME RatesInv, kernel' = kernel,
         NEW names \in SUBSET (Namespaces \cap kernel), NEW load \in 0 .. 1, NEW busy,
         NEW restart, NEW got \in SUBSET kernel, NEW valid \in BOOLEAN, NEW direct,
         NEW named \in BOOLEAN,
         Advance(names, load, busy, restart),
         Note(names, load, busy, restart, got, valid, named),
         DOMAIN devices' \subseteq DriveDevices, \A d \in DOMAIN devices' : devices'[d] \in BOOLEAN,
         Coalesced(devices') = {},
         NEW all, CountersFound(all, names, got), CountersAre(all, count'),
         named => DrivesFound(all, names, got),
         Apply(all, valid, direct)
  PROVE  RatesInv'
  <1>1. /\ present' = names
        /\ count' \in [kernel -> 0 .. MaxCount]
        /\ \A k \in kernel : /\ count[k] \in Nat /\ count'[k] \in Nat
                             /\ count'[k] >= count[k] => count'[k] - count[k] \in 0 .. 1
                             /\ k \notin restart /\ (k \in Namespaces => k \in names) =>
                                   count'[k] >= count[k]
    BY Advanced
  <1> DEFINE due == { k \in got \cap sampled.read :
                        /\ valid
                        /\ k \notin restart
                        /\ k \in Namespaces =>
                              k \in names /\ names = present /\ named /\ sampled.named }
             loads == [k \in kernel |-> IF count'[k] >= count[k] THEN count'[k] - count[k] ELSE 0]
  <1>2. sampled' = [load |-> loads, read |-> got, named |-> named, valid |-> valid, due |-> due]
    BY DEF Note
  <1>3. kernel \subseteq Counters /\ kernel \in CounterSets
    BY TelemetryNames DEF RatesInv, TelemetryTypeOK
  <1>4. /\ previous' = all
        /\ rates' = [d \in { d \in DOMAIN previous' : valid /\ Derived(d, direct) # {} } |->
                        CHOOSE r \in Derived(d, direct) : TRUE]
    BY DEF Apply
  <1>5. loads \in [kernel -> 0 .. 1]
    BY <1>1
  <1>6. /\ sampled'.load = loads /\ sampled'.read = got /\ sampled'.named = named
        /\ sampled'.valid = valid /\ sampled'.due = due
    BY <1>2
  <1>7. \A k \in kernel : count'[k] >= count[k] => sampled'.load[k] = count'[k] - count[k]
    BY <1>6
  <1>8. due \subseteq Counters
    BY <1>3
  <1> HIDE DEF loads
  <1>9. sampled' \in [load : [kernel -> 0 .. 1], read : SUBSET Counters, named : BOOLEAN,
                      valid : BOOLEAN, due : SUBSET Counters]
    <2> HIDE DEF due
    <2> QED
      BY <1>2, <1>3, <1>5, <1>8
  <1>10. \A d \in DOMAIN rates' : /\ d \in DOMAIN previous' /\ valid /\ Derived(d, direct) # {}
                                 /\ rates'[d] \in Derived(d, direct)
    BY <1>4
  <1>11. TelemetryTypeOK'
    <2>1. DOMAIN previous' \subseteq CounterDevices /\ DOMAIN rates' \subseteq DOMAIN previous'
      BY <1>4, <1>10 DEF CountersFound
    <2>2. present' \subseteq Namespaces \cap kernel
      BY <1>1
    <2> QED
      BY <1>1, <1>3, <1>9, <2>1, <2>2 DEF TelemetryTypeOK
  <1>12. RatesTrue'
    <2> SUFFICES ASSUME NEW d \in DOMAIN rates'
                 PROVE  /\ sampled'.valid
                        /\ rates'[d] = IF d = "cpu" THEN sampled'.load["total"] - sampled'.load["idle"]
                                       ELSE sampled'.load[CounterOf(d)']
      BY DEF RatesTrue
    <2>1. CountersFound(previous', present', sampled'.read) /\ CountersAre(previous', count')
      BY <1>1, <1>4, <1>6
    <2>2. \A k \in kernel : /\ count[k] \in Nat /\ count'[k] \in Nat
                            /\ count'[k] >= count[k] => sampled'.load[k] = count'[k] - count[k]
      BY <1>1, <1>7
    <2>3. sampled'.read \subseteq kernel
      BY <1>6
    <2>4. d \in DOMAIN previous' /\ rates'[d] \in Derived(d, direct)
      BY <1>10
    <2>5. rates'[d] = IF d = "cpu" THEN sampled'.load["total"] - sampled'.load["idle"]
                      ELSE sampled'.load[CounterOf(d)']
      BY <2>1, <2>2, <2>3, <2>4, DerivedIs
    <2> QED
      BY <1>6, <1>10, <2>5
  <1>13. DrivesKeepTheirRates'
    <2> SUFFICES ASSUME NEW n \in due \cap Namespaces
                 PROVE  \E d \in DOMAIN rates' \cap DriveDevices : CounterOf(d)' = n
      BY <1>6 DEF DrivesKeepTheirRates
    <2> DEFINE d == NameOf(n, names)
    <2>1. /\ valid /\ n \notin restart /\ n \in names /\ names = present
          /\ named /\ sampled.named /\ n \in got /\ n \in sampled.read /\ n \in kernel
      OBVIOUS
    <2>2. d \in DOMAIN previous /\ n \in DOMAIN previous[d] /\ previous[d][n] = count[n]
      BY <2>1 DEF RatesInv, DrivesFound, CountersAre
    <2>3. d \in DOMAIN previous' /\ n \in DOMAIN previous'[d] /\ previous'[d][n] = count'[n]
      BY <1>4, <2>1 DEF DrivesFound, CountersAre
    <2>4. count'[n] >= count[n]
      BY <1>1, <2>1
    <2>5. Delta(d, n) # {}
      BY <2>2, <2>3, <2>4 DEF Delta
    <2>6. d \in DriveDevices /\ d # "cpu" /\ d # "hwmon" /\ d # "net"
      BY TelemetryNames DEF NameOf, DriveDevices, Controller
    <2> HIDE DEF d
    <2>7. Derived(d, direct) # {}
      BY <2>3, <2>5, <2>6 DEF Derived
    <2>8. d \in DOMAIN rates'
      BY <1>4, <2>1, <2>3, <2>7
    <2>9. CounterOf(d)' = n
      <3>1. CASE Cardinality(names) = 1
        <4>1. present' = {n}
          BY <1>1, <2>1, <3>1, OneName
        <4>2. d = Controller /\ CounterOf(Controller)' = CHOOSE m \in present' : TRUE
          BY <3>1 DEF d, NameOf, CounterOf, Controller
        <4> QED
          BY <4>1, <4>2
      <3>2. CASE Cardinality(names) # 1
        <4>1. d = n /\ n # Controller /\ n # "hwmon"
          BY <3>2, TelemetryNames DEF d, NameOf
        <4> QED
          BY <4>1 DEF CounterOf
      <3> QED
        BY <3>1, <3>2
    <2> QED
      BY <2>6, <2>8, <2>9
  <1>14. /\ sampled'.read \subseteq kernel'
         /\ CountersFound(previous', present', sampled'.read)
         /\ CountersAre(previous', count')
         /\ sampled'.named => DrivesFound(previous', present', sampled'.read)
    BY <1>1, <1>4, <1>6
  <1> QED
    BY <1>11, <1>12, <1>13, <1>14
       DEF RatesInv, CountersFound, CountersAre, DrivesFound, NameOf, KeysOf, Coalesced

LEMMA RatesInductive == ASSUME RatesInv, [TelemetryNext]_telemetryVars PROVE RatesInv'
  <1>1. CASE TelemetryNext
    <2>1. PICK names \in SUBSET (Namespaces \cap kernel), load \in 0 .. 1, busy \in BOOLEAN,
               incident \in Incidents :
            LET got == ReadNow(incident)
                valid == incident.kind # "invalid"
                direct == incident.kind = "direct"
                named == incident.kind # "unnamed"
            IN /\ busy => load = 1
               /\ Advance(names, load, busy, Restarted(incident))
               /\ Note(names, load, busy, Restarted(incident), got, valid, named)
               /\ \/ FullCollection(names, got, valid, direct, named)
                  \/ named /\ FastCollectionOf(names, got, valid, direct)
      BY <1>1 DEF TelemetryNext
    <2> DEFINE got == ReadNow(incident)
               valid == incident.kind # "invalid"
               direct == incident.kind = "direct"
               named == incident.kind # "unnamed"
    <2>2. /\ got \in SUBSET kernel /\ valid \in BOOLEAN /\ named \in BOOLEAN
          /\ names \in SUBSET Namespaces /\ kernel' = kernel
      BY <1>1 DEF ReadNow, TelemetryNext
    <2>3. got \in SUBSET Counters
      BY <2>2, TelemetryNames DEF RatesInv, TelemetryTypeOK
    <2>4. /\ Advance(names, load, busy, Restarted(incident))
          /\ Note(names, load, busy, Restarted(incident), got, valid, named)
          /\ \/ FullCollection(names, got, valid, direct, named)
             \/ named /\ FastCollectionOf(names, got, valid, direct)
      BY <2>1
    <2>5. /\ DOMAIN devices \subseteq DriveDevices
          /\ \A d \in DOMAIN devices : devices[d] \in BOOLEAN
          /\ Coalesced(devices) = {}
      BY DEF RatesInv, TelemetryTypeOK
    <2> HIDE DEF got, valid, direct, named
    <2>6. CASE FullCollection(names, got, valid, direct, named)
      <3> DEFINE listed == FullDevices(names, named)
                 found == CoalescedCounters(FullDrives(names, got), listed)
                 all == Overlaid(OfOthers(got), found)
      <3>1. devices' = StillListed(listed) /\ Apply(all, valid, direct)
        BY <2>6 DEF FullCollection
      <3>2. /\ DOMAIN listed \subseteq DriveDevices
            /\ \A d \in DOMAIN listed : listed[d] \in BOOLEAN
            /\ DOMAIN found \subseteq DriveDevices
            /\ CountersFound(found, names, got)
            /\ CountersAre(found, count')
            /\ named => DrivesFound(found, names, got)
        BY <2>2, FullFinds
      <3> HIDE DEF listed, found
      <3>3. /\ DOMAIN devices' \subseteq DriveDevices
            /\ \A d \in DOMAIN devices' : devices'[d] \in BOOLEAN
            /\ Coalesced(devices') = {}
        BY <3>1, <3>2, StillListedAgain
      <3>4. /\ CountersFound(all, names, got) /\ CountersAre(all, count')
            /\ named => DrivesFound(all, names, got)
        BY <2>3, <3>2, AllFound
      <3> HIDE DEF all
      <3> QED
        BY <2>2, <2>4, <3>1, <3>3, <3>4, RatesKept
    <2>7. CASE named /\ FastCollectionOf(names, got, valid, direct)
      <3> DEFINE drives == FastDrives(names, got)
                 listed == [d \in DOMAIN devices \cup DOMAIN drives |->
                              IF d \in DOMAIN devices THEN devices[d] ELSE FALSE]
                 found == CoalescedCounters(drives, listed)
                 all == Overlaid(OfOthers(got), found)
      <3>1. devices' = StillListed(listed) /\ Apply(Overlaid(BaseCounters, all), valid, direct)
        BY <2>7 DEF FastCollectionOf
      <3>2. /\ DOMAIN listed \subseteq DriveDevices
            /\ \A d \in DOMAIN listed : listed[d] \in BOOLEAN
            /\ DOMAIN found \subseteq DriveDevices
            /\ CountersFound(found, names, got)
            /\ CountersAre(found, count')
            /\ DrivesFound(found, names, got)
        BY <2>2, <2>5, FastFinds
      <3> HIDE DEF listed, found
      <3>3. /\ DOMAIN devices' \subseteq DriveDevices
            /\ \A d \in DOMAIN devices' : devices'[d] \in BOOLEAN
            /\ Coalesced(devices') = {}
        BY <3>1, <3>2, StillListedAgain
      <3>4. /\ CountersFound(all, names, got) /\ CountersAre(all, count')
            /\ DrivesFound(all, names, got)
            /\ Overlaid(BaseCounters, all) = all
        BY <2>3, <3>2, AllFound
      <3> HIDE DEF all
      <3>5. Apply(all, valid, direct)
        BY <3>1, <3>4
      <3> QED
        BY <2>2, <2>4, <3>3, <3>4, <3>5, RatesKept
    <2> QED
      BY <2>4, <2>6, <2>7
  <1>2. CASE UNCHANGED telemetryVars
    BY <1>2 DEF telemetryVars, RatesInv, TelemetryTypeOK, RatesTrue, DrivesKeepTheirRates,
                CounterOf, Coalesced
  <1> QED
    BY <1>1, <1>2

-----------------------------------------------------------------------------
(***************************************************************************)
(* The health of the drives: a read that succeeded is not of a later time  *)
(* than the last job, and no job runs before the first one was started.    *)
(***************************************************************************)
HealthInv ==
    /\ StorageTypeOK
    /\ HealthOfOneRead
    /\ \A d \in DOMAIN storage : \A h \in storage[d].health : \A t \in h.success : t <= clock
    /\ job # {} => clock # 0

LEMMA AttemptType ==
  ASSUME NEW d, NEW elevated, NEW problems
  PROVE  Attempt(d, elevated, problems) \in Availabilities
  <1> DEFINE failed == { i \in DOMAIN Checks :
                           Checks[i] \in problems /\ Checked(d, elevated, Checks[i]) }
             first == CHOOSE i \in failed : \A j \in failed : i <= j
  <1>1. DOMAIN Checks \subseteq Nat
    BY DEF Checks
  <1>2. CASE failed = {}
    BY <1>2 DEF Attempt, Availabilities
  <1>3. CASE failed # {}
    <2>1. first \in failed
      BY <1>1, <1>3, LeastOf
    <2>2. Checks[first] \in {"helper", "pkexec", "start", "permission", "standby", "support",
                             "status", "json", "fields"}
      <3>1. \A i \in DOMAIN Checks :
               Checks[i] \in {"helper", "pkexec", "start", "permission", "standby", "support",
                              "status", "json", "fields"}
        BY DEF Checks
      <3> QED
        BY <2>1, <3>1
    <2>3. Failure[Checks[first]] \in Availabilities
      BY <2>2 DEF Failure, Availabilities
    <2> QED
      BY <1>3, <2>3 DEF Attempt
  <1> QED
    BY <1>2, <1>3

(* A drive's record is of one read, none of which is later than now. *)
Sincere(record, now) ==
    /\ record \in DriveRecord
    /\ \A h \in record.health : \A t \in h.success : t <= now
    /\ \A v \in record.data \cup record.temperature :
          \E h \in record.health : h.success = {v.at} /\ h.status = v.status
    /\ record.temperature = {} \/ ~record.live

LEMMA HealthIsSincere ==
  HealthInv <=> /\ DOMAIN storage \subseteq Drives
                /\ \A d \in DOMAIN storage : Sincere(storage[d], clock)
                /\ job \in Maybe([asked : SUBSET Drives, elevated : BOOLEAN])
                /\ clock \in 0 .. MaxReads
                /\ job # {} => clock # 0
  BY DEF HealthInv, StorageTypeOK, HealthOfOneRead, Sincere

(* The last success that one record has is not forgotten in another. *)
Remembers(old, new) ==
    \A h \in old.health : \A t \in h.success : \E n \in new.health : \E s \in n.success : t <= s

LEMMA NewDriveSincere ==
  ASSUME NEW live \in BOOLEAN, NEW now
  PROVE  Sincere(NewDrive(live), now)
  <1>1. {} \in Maybe(HealthRecord) /\ {} \in Maybe(ReadValues)
    BY DEF Maybe
  <1> QED
    BY <1>1 DEF NewDrive, Sincere, DriveRecord

LEMMA DuplicateRemoved ==
  ASSUME NEW record \in DriveRecord, NEW now,
         \A h \in record.health : \A t \in h.success : t <= now,
         \A v \in record.data \cup record.temperature :
            \E h \in record.health : h.success = {v.at} /\ h.status = v.status
  PROVE  /\ Sincere(WithoutDuplicate(record), now)
         /\ WithoutDuplicate(record).health = record.health
  <1>1. {} \in Maybe(ReadValues)
    BY DEF Maybe
  <1>2. CASE record.live
    <2>1. WithoutDuplicate(record) = [record EXCEPT !.temperature = {}]
      BY <1>2 DEF WithoutDuplicate
    <2>2. /\ WithoutDuplicate(record) \in DriveRecord
          /\ WithoutDuplicate(record).health = record.health
          /\ WithoutDuplicate(record).data = record.data
          /\ WithoutDuplicate(record).temperature = {}
      BY <1>1, <2>1 DEF DriveRecord
    <2> QED
      BY <2>2 DEF Sincere
  <1>3. CASE ~record.live
    BY <1>3 DEF WithoutDuplicate, Sincere
  <1> QED
    BY <1>2, <1>3

LEMMA ChangedLive ==
  ASSUME NEW record, NEW now, Sincere(record, now), NEW live \in BOOLEAN
  PROVE  LET new == WithoutDuplicate([record EXCEPT !.live = live])
         IN Sincere(new, now) /\ new.health = record.health
  <1> DEFINE changed == [record EXCEPT !.live = live]
  <1>1. record \in DriveRecord
    BY DEF Sincere
  <1>2. /\ changed \in DriveRecord /\ changed.health = record.health
        /\ changed.data = record.data /\ changed.temperature = record.temperature
    BY <1>1 DEF DriveRecord
  <1>3. /\ \A h \in changed.health : \A t \in h.success : t <= now
        /\ \A v \in changed.data \cup changed.temperature :
              \E h \in changed.health : h.success = {v.at} /\ h.status = v.status
    BY <1>2 DEF Sincere
  <1> HIDE DEF changed
  <1>4. /\ Sincere(WithoutDuplicate(changed), now)
        /\ WithoutDuplicate(changed).health = changed.health
    BY <1>2, <1>3, DuplicateRemoved
  <1> QED
    BY <1>2, <1>4 DEF changed

(* A read that succeeded, or not, and what the base then has of the drive. *)
LEMMA ApplyKeeps ==
  ASSUME HealthInv, NEW d \in Drives, NEW availability \in Availabilities,
         NEW status \in Statuses, NEW data \in BOOLEAN, NEW temperature \in BOOLEAN, job # {}
  PROVE  LET new == ApplyResult(d, Result(availability, status), data, temperature)
         IN /\ Sincere(new, clock)
            /\ d \in DOMAIN storage => Remembers(storage[d], new)
  <1> DEFINE new == Result(availability, status)
             old == IF d \in DOMAIN storage THEN storage[d] ELSE NewDrive(FALSE)
             cleared == ClearReplaced(old, new)
             values == {[at |-> clock, status |-> new.status]}
             kept == PreserveFailed(new, old)
             merged == [cleared EXCEPT
                          !.health = {kept},
                          !.data = IF new.availability = "Current" /\ data THEN values ELSE @,
                          !.temperature =
                             IF new.availability = "Current" /\ temperature THEN values ELSE @]
  <1>1. clock \in 1 .. MaxReads
    BY DEF HealthInv, StorageTypeOK
  <1>2. Sincere(old, clock)
    <2>1. Sincere(NewDrive(FALSE), clock)
      BY NewDriveSincere
    <2> QED
      BY <2>1, HealthIsSincere
  <1>3. /\ new \in HealthRecord /\ new.availability = availability
        /\ availability = "Current" => new.status = status /\ new.success = {clock}
        /\ availability # "Current" => new.success = {}
    BY <1>1 DEF Result, HealthRecord, Maybe, Statuses, Availabilities
  <1>4. old \in DriveRecord
    BY <1>2 DEF Sincere
  <1> HIDE DEF old, new
  <1>5. CASE availability = "Current"
    <2>1. kept = new
      BY <1>3, <1>5 DEF PreserveFailed
    <2>2. values \in Maybe(ReadValues) /\ {} \in Maybe(ReadValues) /\ {new} \in Maybe(HealthRecord)
      BY <1>1, <1>3, <1>5 DEF Maybe, ReadValues
    <2>3. cleared = [old EXCEPT !.data = {}, !.temperature = {}]
      BY <1>3, <1>5 DEF ClearReplaced
    <2>4. cleared \in DriveRecord /\ cleared.data = {} /\ cleared.temperature = {}
      BY <1>4, <2>2, <2>3 DEF DriveRecord
    <2> HIDE DEF cleared
    <2>5. /\ merged \in DriveRecord /\ merged.health = {new}
          /\ merged.data \subseteq values /\ merged.temperature \subseteq values
      BY <1>3, <1>5, <2>1, <2>2, <2>4 DEF DriveRecord
    <2> HIDE DEF merged
    <2>6. \A h \in merged.health : \A t \in h.success : t <= clock
      BY <1>1, <1>3, <1>5, <2>5
    <2>7. \A v \in merged.data \cup merged.temperature :
             \E h \in merged.health : h.success = {v.at} /\ h.status = v.status
      BY <1>3, <1>5, <2>5
    <2>8. /\ Sincere(WithoutDuplicate(merged), clock)
          /\ WithoutDuplicate(merged).health = {new}
      BY <2>5, <2>6, <2>7, DuplicateRemoved
    <2>9. Remembers(old, WithoutDuplicate(merged))
      BY <1>2, <1>3, <1>5, <2>8 DEF Remembers, Sincere
    <2> QED
      BY <2>8, <2>9 DEF ApplyResult, old, new, cleared, merged
  <1>6. CASE availability # "Current"
    <2>1. cleared = old
      BY <1>3, <1>6 DEF ClearReplaced
    <2>2. old.health = {} \/ \E h \in HealthRecord : old.health = {h}
      BY <1>4 DEF DriveRecord, Maybe
    <2>3. \A h \in old.health : h.success = {} \/ \E t \in 1 .. MaxReads : h.success = {t}
      BY <2>2 DEF HealthRecord, Maybe
    <2>4. /\ kept \in HealthRecord
          /\ \A h \in old.health :
                h.success # {} => kept.success = h.success /\ kept.status = h.status
          /\ (\A h \in old.health : h.success = {}) => kept.success = {}
      <3>1. CASE \E h \in old.health : h.success # {}
        <4>1. PICK h \in HealthRecord : old.health = {h} /\ h.success # {}
          BY <2>2, <3>1
        <4>2. h = CHOOSE k \in old.health : TRUE
          BY <4>1
        <4>3. kept = [new EXCEPT !.status = h.status, !.success = h.success]
          BY <1>3, <1>6, <3>1, <4>2 DEF PreserveFailed
        <4>4. kept \in HealthRecord /\ kept.success = h.success /\ kept.status = h.status
          BY <1>3, <4>1, <4>3 DEF HealthRecord
        <4> HIDE DEF kept
        <4> QED
          BY <4>1, <4>4
      <3>2. CASE ~ \E h \in old.health : h.success # {}
        <4>1. kept = new
          BY <3>2 DEF PreserveFailed
        <4> QED
          BY <1>3, <1>6, <3>2, <4>1
      <3> QED
        BY <3>1, <3>2
    <2> HIDE DEF kept
    <2>5. {kept} \in Maybe(HealthRecord)
      BY <2>4 DEF Maybe
    <2>6. /\ merged \in DriveRecord /\ merged.health = {kept}
          /\ merged.data = old.data /\ merged.temperature = old.temperature
      BY <1>3, <1>4, <1>6, <2>1, <2>5 DEF DriveRecord
    <2> HIDE DEF merged, cleared
    <2>7. \A h \in merged.health : \A t \in h.success : t <= clock
      BY <1>2, <2>4, <2>6 DEF Sincere
    <2>8. \A v \in merged.data \cup merged.temperature :
             \E h \in merged.health : h.success = {v.at} /\ h.status = v.status
      BY <1>2, <2>4, <2>6 DEF Sincere
    <2>9. /\ Sincere(WithoutDuplicate(merged), clock)
          /\ WithoutDuplicate(merged).health = {kept}
      BY <2>6, <2>7, <2>8, DuplicateRemoved
    <2>10. Remembers(old, WithoutDuplicate(merged))
      BY <2>3, <2>4, <2>9 DEF Remembers
    <2> QED
      BY <2>9, <2>10 DEF ApplyResult, old, new, cleared, merged, kept
  <1> QED
    BY <1>5, <1>6

LEMMA SameRemembered ==
  ASSUME NEW old \in DriveRecord, NEW new, new.health = old.health
  PROVE  Remembers(old, new)
  <1>1. \A h \in old.health : \A t \in h.success : t <= t
    BY DEF DriveRecord, Maybe, HealthRecord
  <1> QED
    BY <1>1 DEF Remembers

LEMMA HealthStart == StorageInit => HealthInv
  <1> SUFFICES ASSUME StorageInit PROVE HealthInv
    OBVIOUS
  <1>1. PICK found \in SUBSET Drives : storage = [d \in found |-> NewDrive(FALSE)]
    BY DEF StorageInit
  <1>2. \A d \in DOMAIN storage : Sincere(storage[d], clock)
    BY <1>1, NewDriveSincere
  <1>3. clock \in 0 .. MaxReads
    BY StorageHealthAssumption DEF StorageInit, StorageHealthAssumption
  <1> QED
    BY <1>1, <1>2, <1>3, HealthIsSincere DEF StorageInit, Maybe

LEMMA HealthInductive ==
  ASSUME HealthInv, [StorageNext]_storageVars
  PROVE  HealthInv' /\ [HealthOfOneRead' /\ SuccessKept]_storageVars
  <1>1. /\ DOMAIN storage \subseteq Drives
        /\ \A d \in DOMAIN storage : Sincere(storage[d], clock) /\ storage[d] \in DriveRecord
        /\ job \in Maybe([asked : SUBSET Drives, elevated : BOOLEAN])
        /\ clock \in 0 .. MaxReads
        /\ job # {} => clock # 0
        /\ MaxReads \in Nat
    BY HealthIsSincere, StorageHealthAssumption DEF Sincere, StorageHealthAssumption
  <1>2. ASSUME DOMAIN storage' \subseteq Drives,
               \A d \in DOMAIN storage' : Sincere(storage'[d], clock'),
               job' \in Maybe([asked : SUBSET Drives, elevated : BOOLEAN]),
               clock' \in 0 .. MaxReads,
               job' # {} => clock' # 0,
               \A d \in DOMAIN storage \cap DOMAIN storage' : Remembers(storage[d], storage'[d])
        PROVE  HealthInv' /\ [HealthOfOneRead' /\ SuccessKept]_storageVars
    <2>1. HealthInv'
      BY <1>2 DEF Sincere, HealthInv, StorageTypeOK, HealthOfOneRead
    <2>2. SuccessKept
      BY <1>2 DEF SuccessKept, Remembers
    <2> QED
      BY <2>1, <2>2 DEF HealthInv
  <1>3. \A d \in DOMAIN storage : Remembers(storage[d], storage[d])
    BY <1>1, SameRemembered
  <1>4. CASE StartHealthJob
    <2>1. /\ storage' = storage /\ clock' = clock + 1 /\ clock < MaxReads
          /\ job' \in Maybe([asked : SUBSET Drives, elevated : BOOLEAN])
      BY <1>1, <1>4 DEF StartHealthJob, Maybe
    <2>2. \A d \in DOMAIN storage' : Sincere(storage'[d], clock')
      <3> SUFFICES ASSUME NEW d \in DOMAIN storage PROVE Sincere(storage[d], clock + 1)
        BY <2>1
      <3>1. \A h \in storage[d].health : \A t \in h.success : t \in Nat
        BY <1>1 DEF DriveRecord, HealthRecord, Maybe
      <3> QED
        <4>1. \A h \in storage[d].health : \A t \in h.success : t <= clock + 1
          BY <1>1, <3>1 DEF Sincere
        <4> QED
          BY <1>1, <4>1 DEF Sincere
    <2> QED
      BY <1>1, <1>2, <1>3, <2>1, <2>2
  <1>5. CASE FinishHealthJob
    <2>1. PICK j \in job, problems \in Problems, data \in BOOLEAN, temperature \in BOOLEAN :
            \E status \in [j.asked -> Statuses] :
               storage' =
                  [d \in DOMAIN storage \cup j.asked |->
                     IF d \in j.asked
                     THEN ApplyResult(d, Result(Attempt(d, j.elevated, problems), status[d]),
                                      data, temperature)
                     ELSE storage[d]]
      BY <1>5 DEF FinishHealthJob
    <2>2. PICK status \in [j.asked -> Statuses] :
             storage' =
                [d \in DOMAIN storage \cup j.asked |->
                   IF d \in j.asked
                   THEN ApplyResult(d, Result(Attempt(d, j.elevated, problems), status[d]),
                                    data, temperature)
                   ELSE storage[d]]
      BY <2>1
    <2>3. job' = {} /\ clock' = clock /\ job # {}
      BY <1>5 DEF FinishHealthJob
    <2>4. j.asked \subseteq Drives
      BY <1>1 DEF Maybe
    <2>5. ASSUME NEW d \in j.asked
          PROVE  Sincere(storage'[d], clock) /\ (d \in DOMAIN storage => Remembers(storage[d], storage'[d]))
      <3>1. Attempt(d, j.elevated, problems) \in Availabilities
        BY AttemptType
      <3>2. storage'[d] = ApplyResult(d, Result(Attempt(d, j.elevated, problems), status[d]),
                                      data, temperature)
        BY <2>2
      <3>3. d \in Drives /\ status[d] \in Statuses
        BY <2>4
      <3> QED
        BY <2>3, <3>1, <3>2, <3>3, ApplyKeeps
    <2>6. ASSUME NEW d \in DOMAIN storage \ j.asked PROVE storage'[d] = storage[d]
      BY <2>2
    <2>7. DOMAIN storage' = DOMAIN storage \cup j.asked
      BY <2>2
    <2>8. {} \in Maybe([asked : SUBSET Drives, elevated : BOOLEAN])
      BY DEF Maybe
    <2>9. \A d \in DOMAIN storage' : Sincere(storage'[d], clock')
      BY <1>1, <2>3, <2>5, <2>6, <2>7
    <2>10. \A d \in DOMAIN storage \cap DOMAIN storage' : Remembers(storage[d], storage'[d])
      BY <1>3, <2>5, <2>6
    <2> QED
      BY <1>1, <1>2, <2>3, <2>4, <2>7, <2>8, <2>9, <2>10
  <1>6. CASE DiscoverDrives
    <2>1. PICK found \in SUBSET Drives, live \in SUBSET Drives :
             storage' = [d \in found |-> MergeCache(d, d \in live)]
      BY <1>6 DEF DiscoverDrives
    <2>2. ASSUME NEW d \in found
          PROVE  /\ Sincere(storage'[d], clock)
                 /\ d \in DOMAIN storage => storage'[d].health = storage[d].health
      <3>1. storage'[d] = MergeCache(d, d \in live)
        BY <2>1
      <3>2. CASE d \in DOMAIN storage
        <4>1. /\ (d \in live) \in BOOLEAN /\ Sincere(storage[d], clock)
              /\ storage'[d] = WithoutDuplicate([storage[d] EXCEPT !.live = d \in live])
          BY <1>1, <3>1, <3>2 DEF MergeCache
        <4> QED
          BY <4>1, ChangedLive
      <3>3. CASE d \notin DOMAIN storage
        <4>1. (d \in live) \in BOOLEAN
          OBVIOUS
        <4> DEFINE l == d \in live
        <4>2. Sincere(NewDrive(l), clock)
          <5>1. l \in BOOLEAN
            BY <4>1
          <5> HIDE DEF l
          <5> QED
            BY <5>1, NewDriveSincere
        <4>3. Sincere(WithoutDuplicate(NewDrive(d \in live)), clock)
          BY <4>2, DuplicateRemoved DEF Sincere
        <4> QED
          BY <3>1, <3>3, <4>3 DEF MergeCache
      <3> QED
        BY <3>2, <3>3
    <2>3. \A d \in DOMAIN storage \cap DOMAIN storage' : Remembers(storage[d], storage'[d])
      BY <1>1, <2>1, <2>2, SameRemembered
    <2> QED
      BY <1>1, <1>2, <1>6, <2>1, <2>2, <2>3 DEF DiscoverDrives
  <1>7. CASE CollectDrives
    <2>1. PICK live \in SUBSET DOMAIN storage :
             storage' = [d \in DOMAIN storage |->
                           WithoutDuplicate([storage[d] EXCEPT !.live = @ \/ d \in live])]
      BY <1>7 DEF CollectDrives
    <2>2. ASSUME NEW d \in DOMAIN storage
          PROVE  Sincere(storage'[d], clock) /\ storage'[d].health = storage[d].health
      <3>1. storage'[d]
               = WithoutDuplicate([storage[d] EXCEPT !.live = storage[d].live \/ d \in live])
        BY <2>1
      <3>2. (storage[d].live \/ d \in live) \in BOOLEAN
        OBVIOUS
      <3> QED
        BY <1>1, <3>1, <3>2, ChangedLive
    <2>3. \A d \in DOMAIN storage \cap DOMAIN storage' : Remembers(storage[d], storage'[d])
      BY <1>1, <2>1, <2>2, SameRemembered
    <2> QED
      BY <1>1, <1>2, <1>7, <2>1, <2>2, <2>3 DEF CollectDrives
  <1>8. CASE UNCHANGED storageVars
    BY <1>1, <1>2, <1>3, <1>8 DEF storageVars
  <1> QED
    BY <1>4, <1>5, <1>6, <1>7, <1>8 DEF StorageNext

-----------------------------------------------------------------------------
(* All of them together *)

ReadingsInv == FreshnessInv /\ MemoryInv /\ EnergyInv /\ RatesInv /\ HealthInv

LEMMA ReadingsStart == ReadingsInit => ReadingsInv
  <1> SUFFICES ASSUME ReadingsInit PROVE ReadingsInv
    OBVIOUS
  <1>1. Init /\ MemoryInit /\ EnergyInit /\ TelemetryInit /\ StorageInit
    BY DEF ReadingsInit
  <1> QED
    BY <1>1, FreshnessStart, MemoryStart, EnergyStart, RatesStart, HealthStart DEF ReadingsInv

(* Every step is a step of each part, or leaves it as it is. *)
LEMMA StepsOfParts ==
  ASSUME [ReadingsNext]_readingsVars
  PROVE  /\ [Next]_vars
         /\ [MemoryNext]_memoryVars
         /\ [EnergyNext]_energyVars
         /\ [TelemetryNext]_telemetryVars
         /\ [StorageNext]_storageVars
  <1>1. CASE ReadingsNext
    BY <1>1 DEF ReadingsNext
  <1>2. CASE UNCHANGED readingsVars
    BY <1>2 DEF readingsVars
  <1> QED
    BY <1>1, <1>2

LEMMA ReadingsInductive ==
  ASSUME ReadingsInv, [ReadingsNext]_readingsVars
  PROVE  /\ ReadingsInv'
         /\ [\A s \in Listed \ DOMAIN base' :
               last'.full /\ s \in last'.succeeded \ last'.observed]_vars
         /\ [memory.dmi' = Modules =>
               \A r \in Shown' \ Shown :
                  r[1] \in Modules => r[1] = machine.slot[r[2]]]_memoryVars
         /\ [HealthOfOneRead' /\ SuccessKept]_storageVars
  <1>1. FreshnessInv /\ MemoryInv /\ EnergyInv /\ RatesInv /\ HealthInv
    BY DEF ReadingsInv
  <1>2. /\ [Next]_vars
        /\ [MemoryNext]_memoryVars
        /\ [EnergyNext]_energyVars
        /\ [TelemetryNext]_telemetryVars
        /\ [StorageNext]_storageVars
    BY StepsOfParts
  <1>3. /\ FreshnessInv'
        /\ [\A s \in Listed \ DOMAIN base' :
               last'.full /\ s \in last'.succeeded \ last'.observed]_vars
    BY <1>1, <1>2, FreshnessInductive
  <1>4. /\ MemoryInv'
        /\ [memory.dmi' = Modules =>
               \A r \in Shown' \ Shown :
                  r[1] \in Modules => r[1] = machine.slot[r[2]]]_memoryVars
    BY <1>1, <1>2, MemoryInductive
  <1>5. EnergyInv'
    BY <1>1, <1>2, EnergyInductive
  <1>6. RatesInv'
    BY <1>1, <1>2, RatesInductive
  <1>7. HealthInv' /\ [HealthOfOneRead' /\ SuccessKept]_storageVars
    BY <1>1, <1>2, HealthInductive
  <1>8. ReadingsInv'
    BY <1>3, <1>4, <1>5, <1>6, <1>7 DEF ReadingsInv
  <1> QED
    BY <1>3, <1>4, <1>7, <1>8

LEMMA ReadingsAreInvariant == ReadingsSpec => []ReadingsInv
  <1>1. ReadingsInv /\ [ReadingsNext]_readingsVars => ReadingsInv'
    BY ReadingsInductive
  <1> QED
    BY <1>1, ReadingsStart, PTL DEF ReadingsSpec

(* collect.rs, memory.rs, energy.rs, telemetry.rs and storage.rs: the data *)
(* of the collector are well formed in every part; a reading that is shown *)
(* as current was observed in the last collection, a dimmed one keeps the  *)
(* time when it was, and a full discovery shows every chip that it read as *)
(* current in exactly one place.                                           *)
THEOREM ReadingsAreFresh == ReadingsSpec => []ReadingsConsistent
  <1>1. ReadingsInv => ReadingsConsistent
    BY DEF ReadingsInv, ReadingsConsistent, FreshnessInv, MemoryInv, EnergyInv, RatesInv,
           HealthInv
  <1> QED
    BY <1>1, ReadingsAreInvariant, PTL

(* energy.rs: no power is shown of an interval that is not the last, or of *)
(* a read that failed; it is the energy used, up to a unit of a wrap of    *)
(* the counter; and a total of cores has every core of its package.        *)
THEOREM EnergyIsTrue == ReadingsSpec => []EnergyTrue
  <1>1. ReadingsInv => EnergyTrue
    BY DEF ReadingsInv, EnergyInv, EnergyTrue
  <1> QED
    BY <1>1, ReadingsAreInvariant, PTL

(* telemetry.rs: every rate is of the counters of its own device over the  *)
(* last interval, however drives are named by full and fast collections,   *)
(* and a drive that was read twice in a row has its rates.                 *)
THEOREM RatesAreTrue == ReadingsSpec => []DerivedTrue
  <1>1. ReadingsInv => DerivedTrue
    BY DEF ReadingsInv, RatesInv, DerivedTrue
  <1> QED
    BY <1>1, ReadingsAreInvariant, PTL

(* collect.rs: a reading that is listed goes only in a full discovery in   *)
(* which its collector succeeded and did not find it.                      *)
THEOREM RemovalsAreConfirmed == ReadingsSpec => OnlyConfirmedRemovals
  <1>1. ReadingsInv /\ [ReadingsNext]_readingsVars =>
           [\A s \in Listed \ DOMAIN base' :
              last'.full /\ s \in last'.succeeded \ last'.observed]_vars
    BY ReadingsInductive
  <1> QED
    BY <1>1, ReadingsAreInvariant, PTL DEF ReadingsSpec, OnlyConfirmedRemovals

(* memory.rs: as long as dmidecode has told of every module, a temperature *)
(* is newly shown under a module only when it is that module's chip.       *)
THEOREM ModulesAreRight == ReadingsSpec => RightModule
  <1>1. ReadingsInv /\ [ReadingsNext]_readingsVars =>
           [memory.dmi' = Modules =>
              \A r \in Shown' \ Shown :
                 r[1] \in Modules => r[1] = machine.slot[r[2]]]_memoryVars
    BY ReadingsInductive
  <1> QED
    BY <1>1, ReadingsAreInvariant, PTL DEF ReadingsSpec, RightModule

(* storage.rs: what is shown of a drive's health is of one read, and reads *)
(* that fail leave what an earlier one has found.                          *)
THEOREM HealthIsTrue == ReadingsSpec => HealthTrue
  <1>1. ReadingsInv /\ [ReadingsNext]_readingsVars =>
           [HealthOfOneRead' /\ SuccessKept]_storageVars
    BY ReadingsInductive
  <1> QED
    BY <1>1, ReadingsAreInvariant, PTL DEF ReadingsSpec, HealthTrue
=============================================================================
