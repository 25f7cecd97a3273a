------------------------------ MODULE SessionProofs ------------------------------
(***************************************************************************)
(* Proofs about the session on the monitor's contract, for every set of    *)
(* devices and any number of the user's actions: what is under way is      *)
(* tracked (RequestsAreTracked), samples of a pause are not counted        *)
(* (PausesKeepSamplesOut), and hidden values stay hidden                   *)
(* (SettledHidingHides).                                                   *)
(***************************************************************************)
EXTENDS Session, MonitorDataProofs, FiniteSetTheorems, SequenceTheorems, TLAPS

-----------------------------------------------------------------------------
(* Counting requests and answers *)

Message == Command \cup Update

(* How many of some commands or answers are for storage health, and how    *)
(* many are not.                                                           *)
Healths(s) == Cardinality({i \in DOMAIN s : IsHealth(s[i])})
Refreshes(s) == Cardinality({i \in DOMAIN s : ~IsHealth(s[i])})

(* And how many jobs there are.                                            *)
Jobs(s) == Len(s)

LEMMA CountConcat ==
  ASSUME NEW S, NEW s \in Seq(S), NEW t \in Seq(S)
  PROVE  /\ Healths(s \o t) = Healths(s) + Healths(t)
         /\ Refreshes(s \o t) = Refreshes(s) + Refreshes(t)
         /\ {Healths(s), Healths(t), Refreshes(s), Refreshes(t)} \subseteq Nat
  <1>1. /\ Len(s) \in Nat /\ Len(t) \in Nat
        /\ DOMAIN s = 1..Len(s) /\ DOMAIN t = 1..Len(t)
        /\ DOMAIN (s \o t) = 1..(Len(s) + Len(t))
        /\ \A i \in 1..Len(s) : (s \o t)[i] = s[i]
        /\ \A j \in 1..Len(t) : (s \o t)[Len(s) + j] = t[j]
    OBVIOUS
  <1>2. /\ \A i \in 1..Len(s) : i \in 1..(Len(s) + Len(t))
        /\ \A j \in 1..Len(t) : Len(s) + j \in 1..(Len(s) + Len(t))
    BY <1>1
  <1>3. /\ Healths(s \o t) = Healths(s) + Healths(t)
        /\ Healths(s) \in Nat /\ Healths(t) \in Nat
    <2> DEFINE P == {i \in DOMAIN (s \o t) : IsHealth((s \o t)[i])}
               A == {i \in DOMAIN s : IsHealth(s[i])}
               B == {i \in DOMAIN t : IsHealth(t[i])}
    <2>1. P \in SUBSET (1..(Len(s) + Len(t))) /\ A \in SUBSET (1..Len(s)) /\ B \in SUBSET (1..Len(t))
      BY <1>1
    <2>2. /\ \A i \in 1..Len(s) : i \in P <=> i \in A
          /\ \A j \in 1..Len(t) : Len(s) + j \in P <=> j \in B
      BY <1>1, <1>2
    <2>3. Healths(s \o t) = Cardinality(P) /\ Healths(s) = Cardinality(A) /\ Healths(t) = Cardinality(B)
      BY Zenon DEF Healths
    <2>4. Len(s) \in Nat /\ Len(t) \in Nat
      BY <1>1
    <2> HIDE DEF P, A, B
    <2>5. /\ Cardinality(P) = Cardinality(A) + Cardinality(B)
          /\ Cardinality(A) \in Nat /\ Cardinality(B) \in Nat
      BY <2>1, <2>2, <2>4, CardinalityParts
    <2> QED BY <2>3, <2>5
  <1>4. /\ Refreshes(s \o t) = Refreshes(s) + Refreshes(t)
        /\ Refreshes(s) \in Nat /\ Refreshes(t) \in Nat
    <2> DEFINE P == {i \in DOMAIN (s \o t) : ~IsHealth((s \o t)[i])}
               A == {i \in DOMAIN s : ~IsHealth(s[i])}
               B == {i \in DOMAIN t : ~IsHealth(t[i])}
    <2>1. P \in SUBSET (1..(Len(s) + Len(t))) /\ A \in SUBSET (1..Len(s)) /\ B \in SUBSET (1..Len(t))
      BY <1>1
    <2>2. /\ \A i \in 1..Len(s) : i \in P <=> i \in A
          /\ \A j \in 1..Len(t) : Len(s) + j \in P <=> j \in B
      BY <1>1, <1>2
    <2>3. Refreshes(s \o t) = Cardinality(P) /\ Refreshes(s) = Cardinality(A) /\ Refreshes(t) = Cardinality(B)
      BY Zenon DEF Refreshes
    <2>4. Len(s) \in Nat /\ Len(t) \in Nat
      BY <1>1
    <2> HIDE DEF P, A, B
    <2>5. /\ Cardinality(P) = Cardinality(A) + Cardinality(B)
          /\ Cardinality(A) \in Nat /\ Cardinality(B) \in Nat
      BY <2>1, <2>2, <2>4, CardinalityParts
    <2> QED BY <2>3, <2>5
  <1> QED BY <1>3, <1>4

(* One message counts once. *)
LEMMA CountOne ==
  ASSUME NEW m
  PROVE  /\ Healths(<<m>>) = One(IsHealth(m))
         /\ Refreshes(<<m>>) = One(~IsHealth(m))
         /\ Healths(<<>>) = 0 /\ Refreshes(<<>>) = 0
  <1>1. /\ {i \in DOMAIN <<m>> : IsHealth(<<m>>[i])} = IF IsHealth(m) THEN {1} ELSE {}
        /\ {i \in DOMAIN <<m>> : ~IsHealth(<<m>>[i])} = IF IsHealth(m) THEN {} ELSE {1}
    OBVIOUS
  <1>2. /\ {i \in DOMAIN <<>> : IsHealth(<<>>[i])} = {}
        /\ {i \in DOMAIN <<>> : ~IsHealth(<<>>[i])} = {}
    OBVIOUS
  <1>3. Cardinality({1}) = 1 /\ Cardinality({}) = 0
    BY FS_Singleton, FS_EmptySet
  <1> QED BY <1>1, <1>2, <1>3 DEF Healths, Refreshes, One

(* The commands of a channel, and the answers, are messages. *)
LEMMA MessageSequences ==
    /\ \A s \in Seq(Command) : s \in Seq(Message)
    /\ \A s \in Seq(Update) : s \in Seq(Message)
  <1>1. ASSUME NEW S, S \subseteq Message, NEW s \in Seq(S) PROVE s \in Seq(Message)
    <2>1. Len(s) \in Nat /\ s \in [1..Len(s) -> Message]
      BY <1>1
    <2> QED BY <2>1, SeqDef
  <1> QED BY <1>1 DEF Message

(* What is outstanding, channel by channel. *)
LEMMA OpenCounts ==
  ASSUME NEW a \in Seq(Command), NEW b \in Seq(Command), NEW c \in Seq(Update)
  PROVE  /\ Healths((a \o b) \o c) = Healths(a) + Healths(b) + Healths(c)
         /\ Refreshes((a \o b) \o c) = Refreshes(a) + Refreshes(b) + Refreshes(c)
         /\ {Healths(a), Healths(b), Healths(c), Refreshes(a), Refreshes(b), Refreshes(c)}
              \subseteq Nat
  <1>1. a \in Seq(Message) /\ b \in Seq(Message) /\ c \in Seq(Message)
    BY MessageSequences
  <1>2. (a \o b) \in Seq(Message)
    BY <1>1, ConcatProperties
  <1>3. /\ Healths(a \o b) = Healths(a) + Healths(b)
        /\ Refreshes(a \o b) = Refreshes(a) + Refreshes(b)
        /\ {Healths(a), Healths(b), Refreshes(a), Refreshes(b)} \subseteq Nat
    BY <1>1, CountConcat
  <1>4. /\ Healths((a \o b) \o c) = Healths(a \o b) + Healths(c)
        /\ Refreshes((a \o b) \o c) = Refreshes(a \o b) + Refreshes(c)
        /\ {Healths(c), Refreshes(c)} \subseteq Nat
    BY <1>1, <1>2, CountConcat
  <1> QED BY <1>3, <1>4

LEMMA CountTail ==
  ASSUME NEW c \in Seq(Update), c # <<>>
  PROVE  /\ Healths(c) = One(IsHealth(Head(c))) + Healths(Tail(c))
         /\ Refreshes(c) = One(~IsHealth(Head(c))) + Refreshes(Tail(c))
         /\ Healths(Tail(c)) \in Nat /\ Refreshes(Tail(c)) \in Nat
  <1>1. Head(c) \in Update /\ Tail(c) \in Seq(Update) /\ <<Head(c)>> \in Seq(Update)
    OBVIOUS
  <1>2. c = <<Head(c)>> \o Tail(c)
    OBVIOUS
  <1>3. /\ Healths(<<Head(c)>> \o Tail(c)) = Healths(<<Head(c)>>) + Healths(Tail(c))
        /\ Refreshes(<<Head(c)>> \o Tail(c)) = Refreshes(<<Head(c)>>) + Refreshes(Tail(c))
        /\ {Healths(Tail(c)), Refreshes(Tail(c))} \subseteq Nat
    BY <1>1, CountConcat
  <1> QED BY <1>2, <1>3, CountOne

LEMMA CountAppend ==
  ASSUME NEW c \in Seq(Update), NEW u \in Update
  PROVE  /\ Healths(Append(c, u)) = Healths(c) + One(IsHealth(u))
         /\ Refreshes(Append(c, u)) = Refreshes(c) + One(~IsHealth(u))
  <1>1. Append(c, u) = c \o <<u>> /\ <<u>> \in Seq(Update)
    OBVIOUS
  <1>2. /\ Healths(c \o <<u>>) = Healths(c) + Healths(<<u>>)
        /\ Refreshes(c \o <<u>>) = Refreshes(c) + Refreshes(<<u>>)
    BY <1>1, CountConcat
  <1> QED BY <1>1, <1>2, CountOne

-----------------------------------------------------------------------------
(* The monitor's contract *)

(* What the contract keeps by itself: a command is only taken, and a result*)
(* only collected, when its answer finds room; what waits for nobody is    *)
(* gone with the collector; and a claim has a request or a job behind it.  *)
ContractInv ==
    /\ ContractTypeOK
    /\ open
    /\ doing = <<>> \/ collected = <<>>
    /\ doing # <<>> \/ collected # <<>> => Len(outbox) <= 1
    /\ ~alive => /\ inbox = <<>> /\ doing = <<>> /\ health = <<>> /\ collected = <<>>
                 /\ ~claimed
    /\ claimed => Healths(inbox) + Healths(doing) + Jobs(health) >= 1

Counts ==
    /\ OpenRefreshes = Refreshes(inbox) + Refreshes(doing) + Refreshes(outbox)
    /\ OpenHealth = Healths(inbox) + Healths(doing) + Healths(outbox)
                    + Jobs(health) + Jobs(collected)
    /\ Refreshes(inbox) \in Nat /\ Refreshes(doing) \in Nat /\ Refreshes(outbox) \in Nat
    /\ Healths(inbox) \in Nat /\ Healths(doing) \in Nat /\ Healths(outbox) \in Nat
    /\ Jobs(health) \in Nat /\ Jobs(collected) \in Nat

LEMMA Counting ==
    /\ ContractTypeOK => Counts
    /\ ContractTypeOK' => Counts'
  <1>1. ContractTypeOK => Counts
    <2> SUFFICES ASSUME ContractTypeOK PROVE Counts
      OBVIOUS
    <2>1. /\ inbox \in Seq(Command) /\ doing \in Seq(Command) /\ outbox \in Seq(Update)
          /\ Jobs(health) \in Nat /\ Jobs(collected) \in Nat
      BY DEF ContractTypeOK, Jobs
    <2>2. /\ OpenRefreshes = Refreshes((inbox \o doing) \o outbox)
          /\ OpenHealth = Healths((inbox \o doing) \o outbox) + Jobs(health) + Jobs(collected)
      BY Zenon DEF OpenRefreshes, OpenHealth, Messages, Refreshes, Healths, Jobs
    <2>3. /\ Healths((inbox \o doing) \o outbox) = Healths(inbox) + Healths(doing) + Healths(outbox)
          /\ Refreshes((inbox \o doing) \o outbox)
               = Refreshes(inbox) + Refreshes(doing) + Refreshes(outbox)
          /\ {Healths(inbox), Healths(doing), Healths(outbox),
              Refreshes(inbox), Refreshes(doing), Refreshes(outbox)} \subseteq Nat
      BY <2>1, OpenCounts
    <2> QED BY <2>1, <2>2, <2>3 DEF Counts
  <1>2. ContractTypeOK' => Counts'
    <2> SUFFICES ASSUME ContractTypeOK' PROVE Counts'
      OBVIOUS
    <2>1. /\ inbox' \in Seq(Command) /\ doing' \in Seq(Command) /\ outbox' \in Seq(Update)
          /\ Jobs(health') \in Nat /\ Jobs(collected') \in Nat
      BY DEF ContractTypeOK, Jobs
    <2>2. /\ OpenRefreshes' = Refreshes((inbox' \o doing') \o outbox')
          /\ OpenHealth' = Healths((inbox' \o doing') \o outbox') + Jobs(health') + Jobs(collected')
      BY Zenon DEF OpenRefreshes, OpenHealth, Messages, Refreshes, Healths, Jobs
    <2>3. /\ Healths((inbox' \o doing') \o outbox')
               = Healths(inbox') + Healths(doing') + Healths(outbox')
          /\ Refreshes((inbox' \o doing') \o outbox')
               = Refreshes(inbox') + Refreshes(doing') + Refreshes(outbox')
          /\ {Healths(inbox'), Healths(doing'), Healths(outbox'),
              Refreshes(inbox'), Refreshes(doing'), Refreshes(outbox')} \subseteq Nat
      BY <2>1, OpenCounts
    <2> QED BY <2>1, <2>2, <2>3 DEF Counts
  <1> QED BY <1>1, <1>2

LEMMA OneBounds ==
  ASSUME NEW b
  PROVE  One(b) \in {0, 1} /\ (b => One(b) = 1) /\ (~b => One(b) = 0)
  BY Zenon DEF One

LEMMA OpenAreNat ==
    /\ ContractInv => OpenRefreshes \in Nat /\ OpenHealth \in Nat
    /\ ContractInv' => OpenRefreshes' \in Nat /\ OpenHealth' \in Nat
  <1>1. ContractInv => OpenRefreshes \in Nat /\ OpenHealth \in Nat
    <2> SUFFICES ASSUME ContractInv PROVE OpenRefreshes \in Nat /\ OpenHealth \in Nat
      OBVIOUS
    <2>1. Counts
      BY Counting DEF ContractInv
    <2> QED BY <2>1 DEF Counts
  <1>2. ContractInv' => OpenRefreshes' \in Nat /\ OpenHealth' \in Nat
    <2> SUFFICES ASSUME ContractInv' PROVE OpenRefreshes' \in Nat /\ OpenHealth' \in Nat
      OBVIOUS
    <2>1. Counts'
      BY Counting DEF ContractInv
    <2> QED BY <2>1 DEF Counts
  <1> QED BY <1>1, <1>2

(* One step of the contract leaves as much under way as there was.         *)
Kept == ContractInv' /\ OpenRefreshes' = OpenRefreshes /\ OpenHealth' = OpenHealth

(* The collector has carried out a command.                                *)
LEMMA CarriedOut ==
  ASSUME ContractInv, alive, doing # <<>>, state' \in Collector,
         outbox' = Append(outbox, Answer(Head(doing), state')),
         doing' = <<>>, claimed' = (claimed /\ ~IsHealth(Head(doing))),
         UNCHANGED <<inbox, health, collected, wanted, open, alive>>
  PROVE  Kept
  <1> DEFINE cmd == Head(doing)
             answer == Answer(cmd, state')
  <1>1. cmd \in Command /\ doing = <<cmd>> /\ collected = <<>> /\ Len(outbox) <= 1
    BY Single DEF ContractInv, ContractTypeOK
  <1>2. answer \in Update /\ IsHealth(answer) = IsHealth(cmd)
    <2>1. answer \in Update
      BY <1>1, Constructors
    <2> QED BY <2>1 DEF Answer, IsHealth
  <1> HIDE DEF answer
  <1>3. outbox' = Append(outbox, answer) /\ outbox \in Seq(Update) /\ Len(outbox) \in Nat
    BY DEF ContractInv, ContractTypeOK, answer
  <1>4. outbox' \in Seq(Update) /\ Len(outbox') = Len(outbox) + 1
    BY <1>2, <1>3, AppendProperties
  <1> HIDE DEF cmd
  <1>5. claimed' \in BOOLEAN
    BY DEF cmd
  <1>6. ContractTypeOK'
    <2>1. doing' \in Seq(Command) /\ Len(doing') <= 1
      OBVIOUS
    <2>2. Len(outbox') <= 2
      BY <1>1, <1>3, <1>4
    <2> QED BY <1>4, <1>5, <2>1, <2>2 DEF ContractInv, ContractTypeOK
  <1>7. Counts /\ Counts'
    BY <1>6, Counting DEF ContractInv
  <1>8. /\ Healths(outbox') = Healths(outbox) + One(IsHealth(cmd))
        /\ Refreshes(outbox') = Refreshes(outbox) + One(~IsHealth(cmd))
    BY <1>2, <1>3, CountAppend
  <1>9. /\ Healths(doing) = One(IsHealth(cmd)) /\ Refreshes(doing) = One(~IsHealth(cmd))
        /\ Healths(doing') = 0 /\ Refreshes(doing') = 0
    BY <1>1, CountOne
  <1>10. OpenRefreshes' = OpenRefreshes /\ OpenHealth' = OpenHealth
    <2> DEFINE h == One(IsHealth(cmd))
               r == One(~IsHealth(cmd))
    <2>1. h \in Nat /\ r \in Nat
      BY DEF One
    <2>2. /\ Healths(outbox') = Healths(outbox) + h /\ Refreshes(outbox') = Refreshes(outbox) + r
          /\ Healths(doing) = h /\ Refreshes(doing) = r
      BY <1>8, <1>9
    <2>3. /\ Healths(inbox') = Healths(inbox) /\ Refreshes(inbox') = Refreshes(inbox)
          /\ Jobs(health') = Jobs(health) /\ Jobs(collected') = Jobs(collected)
      OBVIOUS
    <2> HIDE DEF h, r
    <2>4. /\ OpenRefreshes = Refreshes(inbox) + r + Refreshes(outbox)
          /\ OpenHealth = Healths(inbox) + h + Healths(outbox) + Jobs(health) + Jobs(collected)
      BY <1>7, <2>2 DEF Counts
    <2>5. OpenRefreshes' = Refreshes(inbox) + 0 + (Refreshes(outbox) + r)
      BY <1>7, <1>9, <2>2, <2>3 DEF Counts
    <2>6. OpenHealth' = Healths(inbox) + 0 + (Healths(outbox) + h) + Jobs(health) + Jobs(collected)
      BY <1>7, <1>9, <2>2, <2>3 DEF Counts
    <2>7. /\ Refreshes(inbox) \in Nat /\ Refreshes(outbox) \in Nat
          /\ Healths(inbox) \in Nat /\ Healths(outbox) \in Nat
          /\ Jobs(health) \in Nat /\ Jobs(collected) \in Nat
      BY <1>7 DEF Counts
    <2>8. OpenRefreshes' = OpenRefreshes
      BY <2>1, <2>4, <2>5, <2>7
    <2>9. OpenHealth' = OpenHealth
      BY <2>1, <2>4, <2>6, <2>7
    <2> QED BY <2>8, <2>9
  <1>11. claimed' => Healths(inbox') + Healths(doing') + Jobs(health') >= 1
    <2> SUFFICES ASSUME claimed' PROVE Healths(inbox') + Healths(doing') + Jobs(health') >= 1
      OBVIOUS
    <2>1. claimed /\ ~IsHealth(cmd)
      BY DEF cmd
    <2>2. Healths(inbox) + Healths(doing) + Jobs(health) >= 1
      BY <2>1 DEF ContractInv
    <2>3. Healths(doing) = 0
      BY <1>9, <2>1 DEF One
    <2> QED BY <1>9, <2>2, <2>3
  <1> QED BY <1>1, <1>6, <1>10, <1>11 DEF Kept, ContractInv

LEMMA TakeKeeps ==
  ASSUME ContractInv, Take
  PROVE  Kept
  <1>1. /\ inbox # <<>> /\ doing = <<>> /\ collected = <<>> /\ Len(outbox) <= 1 /\ alive
        /\ doing' = inbox /\ inbox' = <<>>
        /\ UNCHANGED <<health, collected, outbox, claimed, wanted, state, open, alive>>
    BY DEF Take, Ready
  <1>2. ContractTypeOK'
    <2>1. inbox' \in Seq(Command) /\ Len(inbox') <= 1
      BY <1>1
    <2> QED BY <1>1, <2>1 DEF ContractInv, ContractTypeOK
  <1>3. Counts /\ Counts'
    BY <1>2, Counting DEF ContractInv
  <1>4. /\ Healths(doing) = 0 /\ Refreshes(doing) = 0
        /\ Healths(inbox') = 0 /\ Refreshes(inbox') = 0
    BY <1>1, CountOne
  <1>5. OpenRefreshes' = OpenRefreshes /\ OpenHealth' = OpenHealth
    BY <1>1, <1>3, <1>4 DEF Counts
  <1>6. claimed' => Healths(inbox') + Healths(doing') + Jobs(health') >= 1
    <2>1. claimed => Healths(inbox) + Healths(doing) + Jobs(health) >= 1
      BY DEF ContractInv
    <2> QED BY <1>1, <1>3, <1>4, <2>1 DEF Counts
  <1> QED BY <1>1, <1>2, <1>5, <1>6 DEF Kept, ContractInv

LEMMA DoRefreshKeeps ==
  ASSUME ContractInv, DoRefresh
  PROVE  Kept
  <1>1. /\ alive /\ doing # <<>> /\ Head(doing).op = "Refresh"
        /\ state' \in Refreshed(state, Head(doing).flag)
        /\ outbox' = Append(outbox, Answer(Head(doing), state'))
        /\ doing' = <<>>
        /\ UNCHANGED <<inbox, health, collected, claimed, wanted, open, alive>>
    BY DEF DoRefresh, Carry, Deliver, ContractInv
  <1>2. state' \in Collector
    BY <1>1, CollectorOperations DEF ContractInv, ContractTypeOK
  <1>3. claimed' = (claimed /\ ~IsHealth(Head(doing)))
    BY <1>1 DEF IsHealth, ContractInv, ContractTypeOK
  <1> QED BY <1>1, <1>2, <1>3, CarriedOut

LEMMA DoSetSensitiveKeeps ==
  ASSUME ContractInv, DoSetSensitive
  PROVE  Kept
  <1>1. /\ alive /\ doing # <<>> /\ Head(doing).op = "SetSensitive"
        /\ state' \in SensitiveSet(state, Head(doing).flag)
        /\ outbox' = Append(outbox, Answer(Head(doing), state'))
        /\ doing' = <<>>
        /\ UNCHANGED <<inbox, health, collected, claimed, wanted, open, alive>>
    BY DEF DoSetSensitive, Carry, Deliver, ContractInv
  <1>2. Head(doing) \in Command
    BY <1>1, Single DEF ContractInv, ContractTypeOK
  <1>3. state' \in Collector
    <2>1. Head(doing).flag \in BOOLEAN
      BY <1>2 DEF Command
    <2> QED BY <1>1, <2>1, CollectorOperations DEF ContractInv, ContractTypeOK
  <1>4. claimed' = (claimed /\ ~IsHealth(Head(doing)))
    BY <1>1 DEF IsHealth, ContractInv, ContractTypeOK
  <1> QED BY <1>1, <1>3, <1>4, CarriedOut

LEMMA DoStorageHealthKeeps ==
  ASSUME ContractInv, OpenHealth <= 1, DoStorageHealth
  PROVE  Kept
  <1> DEFINE job == JobFor(state, Head(doing).ids)
  <1>1. /\ alive /\ doing # <<>> /\ IsHealth(Head(doing)) /\ doing' = <<>>
        /\ UNCHANGED <<inbox, collected, wanted, state, open, alive>>
    BY DEF DoStorageHealth, Carry, IsHealth
  <1>2. CASE job.targets = {}
    <2>1. claimed' = FALSE /\ outbox' = Append(outbox, Answer(Head(doing), state)) /\ UNCHANGED health
      BY <1>2 DEF DoStorageHealth, Deliver, ContractInv
    <2>2. state' \in Collector /\ state' = state
      BY <1>1 DEF ContractInv, ContractTypeOK
    <2>3. claimed' = (claimed /\ ~IsHealth(Head(doing)))
      BY <1>1, <2>1
    <2> QED BY <1>1, <2>1, <2>2, <2>3, CarriedOut
  <1>3. CASE job.targets # {}
    <2>1. health' = <<job>> /\ UNCHANGED <<claimed, outbox>>
      BY <1>3 DEF DoStorageHealth
    <2>2. Head(doing) \in Command /\ doing = <<Head(doing)>> /\ state \in Collector
      BY <1>1, Single DEF ContractInv, ContractTypeOK
    <2>3. job \in Job
      <3>1. Head(doing).ids \in SUBSET Devices
        BY <2>2 DEF Command
      <3> QED BY <2>2, <3>1, Constructors
    <2> HIDE DEF job
    <2>4. health' \in Seq(Job) /\ Len(health') = 1 /\ Jobs(health') = 1
      BY <2>1, <2>3 DEF Jobs
    <2>5. ContractTypeOK'
      <3>1. doing' \in Seq(Command) /\ Len(doing') <= 1
        BY <1>1
      <3> QED BY <1>1, <2>1, <2>4, <3>1 DEF ContractInv, ContractTypeOK
    <2>6. Counts /\ Counts'
      BY <2>5, Counting DEF ContractInv
    <2>7. /\ Healths(doing) = 1 /\ Refreshes(doing) = 0
          /\ Healths(doing') = 0 /\ Refreshes(doing') = 0
      BY <1>1, <2>2, CountOne DEF One
    <2>8. Jobs(health) = 0
      <3>2. /\ OpenHealth = Healths(inbox) + Healths(doing) + Healths(outbox) + Jobs(health) + Jobs(collected)
            /\ Healths(inbox) \in Nat /\ Healths(outbox) \in Nat /\ Jobs(health) \in Nat /\ Jobs(collected) \in Nat
        BY <2>6 DEF Counts
      <3>3. Healths(doing) = 1
        BY <2>7
      <3> QED BY <3>2, <3>3
    <2>9. OpenRefreshes' = OpenRefreshes /\ OpenHealth' = OpenHealth
      <3>1. /\ Healths(inbox') = Healths(inbox) /\ Refreshes(inbox') = Refreshes(inbox)
            /\ Healths(outbox') = Healths(outbox) /\ Refreshes(outbox') = Refreshes(outbox)
            /\ Jobs(collected') = Jobs(collected)
        BY <1>1, <2>1
      <3>2. /\ OpenRefreshes = Refreshes(inbox) + 0 + Refreshes(outbox)
            /\ OpenHealth = Healths(inbox) + 1 + Healths(outbox) + 0 + Jobs(collected)
        BY <2>6, <2>7, <2>8 DEF Counts
      <3>3. OpenRefreshes' = Refreshes(inbox) + 0 + Refreshes(outbox)
        BY <2>6, <2>7, <3>1 DEF Counts
      <3>4. Jobs(health') = 1
        BY <2>4
      <3>5. OpenHealth' = Healths(inbox) + 0 + Healths(outbox) + 1 + Jobs(collected)
        BY <2>6, <2>7, <3>1, <3>4 DEF Counts
      <3>6. Healths(inbox) \in Nat /\ Healths(outbox) \in Nat /\ Jobs(collected) \in Nat
        BY <2>6 DEF Counts
      <3> QED BY <3>2, <3>3, <3>5, <3>6
    <2>10. Healths(inbox') + Healths(doing') + Jobs(health') >= 1
      <3>1. Healths(inbox') \in Nat
        BY <2>6 DEF Counts
      <3>2. Jobs(health') = 1
        BY <2>4
      <3> QED BY <2>7, <3>1, <3>2
    <2> QED BY <1>1, <2>1, <2>5, <2>9, <2>10 DEF Kept, ContractInv
  <1> QED BY <1>2, <1>3

LEMMA CollectHealthKeeps ==
  ASSUME ContractInv, CollectHealth
  PROVE  Kept
  <1>1. /\ doing = <<>> /\ collected = <<>> /\ Len(outbox) <= 1 /\ alive
        /\ collected' = health /\ health' = <<>> /\ claimed' = FALSE
        /\ UNCHANGED <<inbox, doing, outbox, wanted, state, open, alive>>
    BY DEF CollectHealth, Ready
  <1>2. ContractTypeOK'
    <2>1. health' \in Seq(Job) /\ Len(health') = 0
      BY <1>1
    <2> QED BY <1>1, <2>1 DEF ContractInv, ContractTypeOK
  <1>3. Counts /\ Counts'
    BY <1>2, Counting DEF ContractInv
  <1>4. Jobs(collected) = 0 /\ Jobs(health') = 0
    BY <1>1 DEF Jobs
  <1>5. OpenRefreshes' = OpenRefreshes /\ OpenHealth' = OpenHealth
    <2>1. /\ Healths(inbox') = Healths(inbox) /\ Refreshes(inbox') = Refreshes(inbox)
          /\ Healths(doing') = Healths(doing) /\ Refreshes(doing') = Refreshes(doing)
          /\ Healths(outbox') = Healths(outbox) /\ Refreshes(outbox') = Refreshes(outbox)
          /\ Jobs(collected') = Jobs(health)
      BY <1>1
    <2>2. /\ OpenRefreshes = Refreshes(inbox) + Refreshes(doing) + Refreshes(outbox)
          /\ OpenHealth = Healths(inbox) + Healths(doing) + Healths(outbox) + Jobs(health) + 0
      BY <1>3, <1>4 DEF Counts
    <2>3. /\ OpenRefreshes' = Refreshes(inbox) + Refreshes(doing) + Refreshes(outbox)
          /\ OpenHealth' = Healths(inbox) + Healths(doing) + Healths(outbox) + 0 + Jobs(health)
      BY <1>3, <1>4, <2>1 DEF Counts
    <2>4. /\ Healths(inbox) \in Nat /\ Healths(doing) \in Nat /\ Healths(outbox) \in Nat
          /\ Jobs(health) \in Nat
      BY <1>3 DEF Counts
    <2> QED BY <2>2, <2>3, <2>4
  <1> QED BY <1>1, <1>2, <1>5 DEF Kept, ContractInv

LEMMA ReportHealthKeeps ==
  ASSUME ContractInv, ReportHealth
  PROVE  Kept
  <1> DEFINE job == Head(collected)
             answer == Answer(StorageHealth(job.ids), state')
  <1>1. /\ alive /\ collected # <<>>
        /\ state' \in HealthApplied(state, job, wanted)
        /\ outbox' = Append(outbox, answer)
        /\ collected' = <<>>
        /\ UNCHANGED <<inbox, doing, health, claimed, wanted, open, alive>>
    BY DEF ReportHealth, Deliver, ContractInv
  <1>2. job \in Job /\ Jobs(collected) = 1 /\ doing = <<>> /\ Len(outbox) <= 1
    BY <1>1, Single DEF ContractInv, ContractTypeOK, Jobs
  <1> HIDE DEF job
  <1>3. state' \in Collector
    BY <1>1, <1>2, HealthKept DEF ContractInv, ContractTypeOK
  <1>4. answer \in Update /\ IsHealth(answer)
    <2>1. job.ids \in SUBSET Devices
      BY <1>2 DEF Job
    <2>2. StorageHealth(job.ids) \in Command
      BY <2>1, Constructors
    <2>3. answer \in Update
      BY <1>3, <2>2, Constructors
    <2> QED BY <2>3 DEF Answer, StorageHealth, IsHealth
  <1> HIDE DEF answer
  <1>5. outbox \in Seq(Update) /\ Len(outbox) \in Nat
    BY DEF ContractInv, ContractTypeOK
  <1>6. outbox' \in Seq(Update) /\ Len(outbox') = Len(outbox) + 1
    BY <1>1, <1>4, <1>5, AppendProperties
  <1>7. ContractTypeOK'
    <2>1. collected' \in Seq(Job) /\ Len(collected') <= 1
      BY <1>1
    <2>2. Len(outbox') <= 2
      BY <1>2, <1>5, <1>6
    <2> QED BY <1>1, <1>3, <1>6, <2>1, <2>2 DEF ContractInv, ContractTypeOK
  <1>8. Counts /\ Counts'
    BY <1>7, Counting DEF ContractInv
  <1>9. Healths(outbox') = Healths(outbox) + 1 /\ Refreshes(outbox') = Refreshes(outbox)
    <2>1. /\ Healths(outbox') = Healths(outbox) + One(IsHealth(answer))
          /\ Refreshes(outbox') = Refreshes(outbox) + One(~IsHealth(answer))
      BY <1>1, <1>4, <1>5, CountAppend
    <2>2. One(IsHealth(answer)) = 1 /\ One(~IsHealth(answer)) = 0
      BY Zenon, <1>4 DEF One
    <2>3. Refreshes(outbox) \in Nat
      BY <1>8 DEF Counts
    <2>4. Refreshes(outbox) + 0 = Refreshes(outbox)
      BY <2>3
    <2> QED BY Zenon, <2>1, <2>2, <2>4
  <1>10. OpenRefreshes' = OpenRefreshes /\ OpenHealth' = OpenHealth
    <2>1. Jobs(collected') = 0
      BY <1>1 DEF Jobs
    <2>2. /\ Healths(inbox') = Healths(inbox) /\ Refreshes(inbox') = Refreshes(inbox)
          /\ Healths(doing') = Healths(doing) /\ Refreshes(doing') = Refreshes(doing)
          /\ Jobs(health') = Jobs(health)
      BY <1>1
    <2>3. /\ OpenRefreshes = Refreshes(inbox) + Refreshes(doing) + Refreshes(outbox)
          /\ OpenHealth = Healths(inbox) + Healths(doing) + Healths(outbox) + Jobs(health) + 1
      BY <1>2, <1>8 DEF Counts
    <2>4. /\ OpenRefreshes' = Refreshes(inbox) + Refreshes(doing) + Refreshes(outbox)
          /\ OpenHealth' = Healths(inbox) + Healths(doing) + (Healths(outbox) + 1) + Jobs(health) + 0
      BY <1>8, <1>9, <2>1, <2>2 DEF Counts
    <2>5. /\ Healths(inbox) \in Nat /\ Healths(doing) \in Nat /\ Healths(outbox) \in Nat
          /\ Jobs(health) \in Nat
      BY <1>8 DEF Counts
    <2> QED BY <2>3, <2>4, <2>5
  <1> QED BY <1>1, <1>2, <1>7, <1>10 DEF Kept, ContractInv

(* What the worker does for itself leaves as much under way as there was.  *)
LEMMA WorkerKeeps ==
  ASSUME ContractInv, OpenHealth <= 1, WorkerSteps \/ CollectHealth
  PROVE  Kept
  BY TakeKeeps, DoRefreshKeeps, DoSetSensitiveKeeps, DoStorageHealthKeeps,
     CollectHealthKeeps, ReportHealthKeeps DEF WorkerSteps

(* Only answers that are on their way outlive the collector.               *)
LEMMA StopKeeps ==
  ASSUME ContractInv, Stop
  PROVE  ContractInv' /\ OpenRefreshes' <= OpenRefreshes /\ OpenHealth' <= OpenHealth /\ ~alive'
  <1>1. /\ inbox' = <<>> /\ doing' = <<>> /\ health' = <<>> /\ collected' = <<>>
        /\ claimed' = FALSE /\ alive' = FALSE
        /\ UNCHANGED <<outbox, wanted, state, open>>
    BY DEF Stop
  <1>2. ContractTypeOK'
    <2>1. /\ inbox' \in Seq(Command) /\ doing' \in Seq(Command)
          /\ health' \in Seq(Job) /\ collected' \in Seq(Job)
          /\ Len(inbox') = 0 /\ Len(doing') = 0 /\ Len(health') = 0 /\ Len(collected') = 0
      BY <1>1
    <2> QED BY <1>1, <2>1 DEF ContractInv, ContractTypeOK
  <1>3. Counts /\ Counts'
    BY <1>2, Counting DEF ContractInv
  <1>4. /\ Healths(inbox') = 0 /\ Refreshes(inbox') = 0
        /\ Healths(doing') = 0 /\ Refreshes(doing') = 0
        /\ Jobs(health') = 0 /\ Jobs(collected') = 0
    BY <1>1, CountOne DEF Jobs
  <1>5. OpenRefreshes' <= OpenRefreshes /\ OpenHealth' <= OpenHealth
    <2>1. Healths(outbox') = Healths(outbox) /\ Refreshes(outbox') = Refreshes(outbox)
      BY <1>1
    <2> QED BY <1>3, <1>4, <2>1 DEF Counts
  <1> QED BY <1>1, <1>2, <1>5 DEF ContractInv

LEMMA SubmitCounts ==
  ASSUME ContractInv, NEW cmd \in Command, Submit(cmd)
  PROVE  /\ ContractInv' /\ alive /\ alive'
         /\ OpenRefreshes' = OpenRefreshes + One(~IsHealth(cmd))
         /\ OpenHealth' = OpenHealth + One(IsHealth(cmd))
  <1>1. /\ alive /\ inbox = <<>> /\ inbox' = <<cmd>>
        /\ claimed' = (claimed \/ IsHealth(cmd))
        /\ UNCHANGED <<doing, health, collected, outbox, wanted, state, open, alive>>
    BY DEF Submit, Accepts, IsHealth
  <1>2. ContractTypeOK'
    <2>1. inbox' \in Seq(Command) /\ Len(inbox') = 1 /\ claimed' \in BOOLEAN
      BY <1>1
    <2> QED BY <1>1, <2>1 DEF ContractInv, ContractTypeOK
  <1>3. Counts /\ Counts'
    BY <1>2, Counting DEF ContractInv
  <1>4. /\ Healths(inbox) = 0 /\ Refreshes(inbox) = 0
        /\ Healths(inbox') = One(IsHealth(cmd)) /\ Refreshes(inbox') = One(~IsHealth(cmd))
    BY <1>1, CountOne
  <1>5. /\ OpenRefreshes' = OpenRefreshes + One(~IsHealth(cmd))
        /\ OpenHealth' = OpenHealth + One(IsHealth(cmd))
    <2> DEFINE h == One(IsHealth(cmd))
               r == One(~IsHealth(cmd))
    <2>1. h \in Nat /\ r \in Nat
      BY DEF One
    <2>2. Healths(inbox') = h /\ Refreshes(inbox') = r
      BY <1>4
    <2>3. /\ Healths(doing') = Healths(doing) /\ Refreshes(doing') = Refreshes(doing)
          /\ Healths(outbox') = Healths(outbox) /\ Refreshes(outbox') = Refreshes(outbox)
          /\ Jobs(health') = Jobs(health) /\ Jobs(collected') = Jobs(collected)
      BY <1>1
    <2> HIDE DEF h, r
    <2>4. /\ OpenRefreshes = 0 + Refreshes(doing) + Refreshes(outbox)
          /\ OpenHealth = 0 + Healths(doing) + Healths(outbox) + Jobs(health) + Jobs(collected)
      BY <1>3, <1>4 DEF Counts
    <2>5. OpenRefreshes' = r + Refreshes(doing) + Refreshes(outbox)
      BY <1>3, <2>2, <2>3 DEF Counts
    <2>6. OpenHealth' = h + Healths(doing) + Healths(outbox) + Jobs(health) + Jobs(collected)
      BY <1>3, <2>2, <2>3 DEF Counts
    <2>7. /\ Refreshes(doing) \in Nat /\ Refreshes(outbox) \in Nat
          /\ Healths(doing) \in Nat /\ Healths(outbox) \in Nat
          /\ Jobs(health) \in Nat /\ Jobs(collected) \in Nat
      BY <1>3 DEF Counts
    <2>8. OpenRefreshes' = OpenRefreshes + r
      BY <2>1, <2>4, <2>5, <2>7
    <2>9. OpenHealth' = OpenHealth + h
      BY <2>1, <2>4, <2>6, <2>7
    <2> QED BY <2>8, <2>9 DEF h, r
  <1>6. ASSUME claimed' PROVE Healths(inbox') + Healths(doing') + Jobs(health') >= 1
    <2>1. Healths(inbox') \in Nat /\ Healths(doing') \in Nat /\ Jobs(health') \in Nat
      BY <1>3 DEF Counts
    <2>2. Healths(doing') = Healths(doing) /\ Jobs(health') = Jobs(health)
      BY <1>1
    <2>3. CASE IsHealth(cmd)
      <3>1. Healths(inbox') = 1
        BY <1>4, <2>3 DEF One
      <3> QED BY <2>1, <3>1
    <2>4. CASE claimed
      <3>1. Healths(inbox) + Healths(doing) + Jobs(health) >= 1
        BY <2>4 DEF ContractInv
      <3>2. 0 + Healths(doing') + Jobs(health') >= 1
        BY <1>4, <2>2, <3>1
      <3> QED BY <2>1, <3>2
    <2> QED BY <1>1, <1>6, <2>3, <2>4
  <1> QED BY <1>1, <1>2, <1>5, <1>6 DEF ContractInv

LEMMA ReceiveCounts ==
  ASSUME ContractInv, Receive
  PROVE  /\ ContractInv' /\ alive' = alive /\ claimed' = claimed
         /\ Head(outbox) \in Update
         /\ OpenRefreshes = OpenRefreshes' + One(~IsHealth(Head(outbox)))
         /\ OpenHealth = OpenHealth' + One(IsHealth(Head(outbox)))
  <1>1. /\ outbox # <<>> /\ outbox' = Tail(outbox)
        /\ UNCHANGED <<inbox, doing, health, collected, claimed, wanted, state, open, alive>>
    BY DEF Receive
  <1>2. outbox \in Seq(Update) /\ Len(outbox) \in Nat
    BY DEF ContractInv, ContractTypeOK
  <1>3. outbox' \in Seq(Update) /\ Len(outbox') = Len(outbox) - 1 /\ Head(outbox) \in Update
    BY <1>1, <1>2, HeadTailProperties
  <1>4. ContractTypeOK'
    <2>1. Len(outbox') <= 2
      BY <1>2, <1>3 DEF ContractInv, ContractTypeOK
    <2> QED BY <1>1, <1>3, <2>1 DEF ContractInv, ContractTypeOK
  <1>5. Counts /\ Counts'
    BY <1>4, Counting DEF ContractInv
  <1>6. /\ Healths(outbox) = One(IsHealth(Head(outbox))) + Healths(outbox')
        /\ Refreshes(outbox) = One(~IsHealth(Head(outbox))) + Refreshes(outbox')
    BY <1>1, <1>2, CountTail
  <1>7. /\ OpenRefreshes = OpenRefreshes' + One(~IsHealth(Head(outbox)))
        /\ OpenHealth = OpenHealth' + One(IsHealth(Head(outbox)))
    <2> DEFINE h == One(IsHealth(Head(outbox)))
               r == One(~IsHealth(Head(outbox)))
    <2>1. h \in Nat /\ r \in Nat
      BY DEF One
    <2>2. Healths(outbox) = h + Healths(outbox') /\ Refreshes(outbox) = r + Refreshes(outbox')
      BY <1>6
    <2>3. /\ Healths(inbox') = Healths(inbox) /\ Refreshes(inbox') = Refreshes(inbox)
          /\ Healths(doing') = Healths(doing) /\ Refreshes(doing') = Refreshes(doing)
          /\ Jobs(health') = Jobs(health) /\ Jobs(collected') = Jobs(collected)
      BY <1>1
    <2> HIDE DEF h, r
    <2>4. /\ OpenRefreshes = Refreshes(inbox) + Refreshes(doing) + (r + Refreshes(outbox'))
          /\ OpenHealth = Healths(inbox) + Healths(doing) + (h + Healths(outbox'))
                          + Jobs(health) + Jobs(collected)
      BY <1>5, <2>2 DEF Counts
    <2>5. OpenRefreshes' = Refreshes(inbox) + Refreshes(doing) + Refreshes(outbox')
      BY <1>5, <2>3 DEF Counts
    <2>6. OpenHealth' = Healths(inbox) + Healths(doing) + Healths(outbox') + Jobs(health) + Jobs(collected)
      BY <1>5, <2>3 DEF Counts
    <2>7. /\ Refreshes(inbox) \in Nat /\ Refreshes(doing) \in Nat
          /\ Healths(inbox) \in Nat /\ Healths(doing) \in Nat
          /\ Jobs(health) \in Nat /\ Jobs(collected) \in Nat
      BY <1>5 DEF Counts
    <2>8. Refreshes(outbox') \in Nat /\ Healths(outbox') \in Nat
      BY <1>5 DEF Counts
    <2>9. OpenRefreshes = OpenRefreshes' + r
      BY <2>1, <2>4, <2>5, <2>7, <2>8
    <2>10. OpenHealth = OpenHealth' + h
      BY <2>1, <2>4, <2>6, <2>7, <2>8
    <2> QED BY <2>9, <2>10 DEF h, r
  <1>8. doing' # <<>> \/ collected' # <<>> => Len(outbox') <= 1
    BY <1>1, <1>2, <1>3 DEF ContractInv
  <1> QED BY <1>1, <1>3, <1>4, <1>7, <1>8 DEF ContractInv

LEMMA ContractStays ==
  ASSUME ContractInv, UNCHANGED <<inbox, doing, health, collected, outbox, claimed, state, open, alive>>,
         wanted' \in BOOLEAN
  PROVE  Kept
  BY DEF Kept, ContractInv, ContractTypeOK, OpenRefreshes, OpenHealth, Messages

-----------------------------------------------------------------------------
(* The session *)

SessionFields ==
    [started : BOOLEAN, step : Step, disconnected : BOOLEAN,
     paused : BOOLEAN, due : BOOLEAN, force : BOOLEAN,
     refreshInFlight : BOOLEAN, discard : BOOLEAN,
     desired : BOOLEAN, pending : Option, inFlight : Option,
     pendingHealth : HealthRefresh, inFlightHealth : HealthRefresh]

(* The flags say at least what is outstanding, and while the collector     *)
(* lives no more than that; a wish is only told when no refresh is under   *)
(* way.                                                                    *)
Tracked ==
    /\ OpenRefreshes <= One(session.refreshInFlight)
    /\ OpenHealth <= One(Some(session.inFlightHealth))
    /\ InFlightAccurate
    /\ session.step = "wished" => ~session.refreshInFlight
    /\ HealthFreeWhenIdle

RequestsInv == SessionTypeOK /\ ContractInv /\ Tracked

LEMMA SessionIsRecord ==
    /\ NoHealth \in HealthRefresh
    /\ SessionTypeOK <=> /\ ContractTypeOK
                         /\ session \in SessionFields
                         /\ {shown, sampled, tainted} \subseteq BOOLEAN
                         /\ events \in 0..MaxEvents
  BY DEF NoHealth, HealthRefresh, Reason, SessionTypeOK, SessionFields

(* A step that neither sends nor receives leaves the requests as they are. *)
LEMMA NothingAsked ==
  ASSUME RequestsInv, Kept, alive' => alive, claimed' => claimed,
         session' \in SessionFields,
         session'.refreshInFlight = session.refreshInFlight,
         session'.inFlightHealth = session.inFlightHealth,
         session'.step = "wished" => ~session.refreshInFlight
  PROVE  Tracked'
  BY DEF RequestsInv, Tracked, Kept, InFlightAccurate, HealthFreeWhenIdle

LEMMA RequestsStart == SessionInit => RequestsInv
  <1> SUFFICES ASSUME SessionInit PROVE RequestsInv
    OBVIOUS
  <1>1. /\ inbox = <<>> /\ doing = <<>> /\ health = <<>> /\ collected = <<>> /\ outbox = <<>>
        /\ claimed = FALSE /\ open = TRUE /\ alive = TRUE /\ wanted = state.sensitive
        /\ state \in Collector
    BY DEF SessionInit, ContractInit, NewCollectors
  <1>2. state.sensitive \in BOOLEAN
    BY <1>1 DEF Collector
  <1>3. ContractTypeOK
    <2>1. /\ inbox \in Seq(Command) /\ doing \in Seq(Command) /\ health \in Seq(Job)
          /\ collected \in Seq(Job) /\ outbox \in Seq(Update)
          /\ Len(inbox) = 0 /\ Len(doing) = 0 /\ Len(health) = 0 /\ Len(collected) = 0
          /\ Len(outbox) = 0
      BY <1>1
    <2>2. {claimed, wanted, open, alive} \subseteq BOOLEAN /\ state \in Collector
      BY <1>1, <1>2
    <2> QED BY ONLY <2>1, <2>2 DEF ContractTypeOK
  <1>4. ContractInv
    BY <1>1, <1>3 DEF ContractInv
  <1>5. session \in SessionFields
    BY <1>2, SessionIsRecord DEF SessionInit, SessionFields, Option, Step
  <1>6. SessionTypeOK
    <2>1. MaxEvents \in Nat
      BY SessionAssumption DEF SessionAssumption
    <2>2. events = 0 /\ shown = FALSE /\ sampled = FALSE /\ tainted = FALSE
      BY DEF SessionInit
    <2>3. events \in 0..MaxEvents
      BY <2>1, <2>2
    <2> QED BY <1>3, <1>5, <2>2, <2>3, SessionIsRecord
  <1>7. OpenRefreshes = 0 /\ OpenHealth = 0
    <2>1. Counts
      BY <1>3, Counting
    <2>2. /\ Healths(inbox) = 0 /\ Healths(doing) = 0 /\ Healths(outbox) = 0
          /\ Refreshes(inbox) = 0 /\ Refreshes(doing) = 0 /\ Refreshes(outbox) = 0
          /\ Jobs(health) = 0 /\ Jobs(collected) = 0
      BY <1>1, CountOne DEF Jobs
    <2> QED BY <2>1, <2>2 DEF Counts
  <1>8. session.refreshInFlight = FALSE /\ session.inFlightHealth.ids = {} /\ session.step = "between"
    BY DEF SessionInit, NoHealth
  <1> QED BY <1>1, <1>4, <1>6, <1>7, <1>8
          DEF RequestsInv, Tracked, InFlightAccurate, HealthFreeWhenIdle, One, Some

(* Actions of the main loop that leave the contract alone. *)
LEMMA QuietLoop ==
  ASSUME RequestsInv,
         \/ FinishInitialization \/ InitializationFails \/ Tick \/ RequestNothing \/ Deadline
  PROVE  RequestsInv'
  <1>1. UNCHANGED <<contract, events>> /\ {shown', sampled', tainted'} \subseteq BOOLEAN
    BY DEF RequestsInv, SessionTypeOK, FinishInitialization, InitializationFails, Tick,
           RequestNothing, Deadline, Identified
  <1>2. session \in SessionFields
    BY SessionIsRecord DEF RequestsInv
  <1>3. /\ session' \in SessionFields
        /\ session'.refreshInFlight = session.refreshInFlight
        /\ session'.inFlightHealth = session.inFlightHealth
        /\ session'.step = "wished" => session.step = "wished"
    BY <1>2 DEF FinishInitialization, InitializationFails, Tick, RequestNothing, Deadline,
                SessionFields, Step
  <1>4. Kept /\ alive' = alive /\ claimed' = claimed
    BY <1>1, ContractStays DEF contract, RequestsInv, ContractInv, ContractTypeOK
  <1>5. SessionTypeOK'
    <2>1. ContractTypeOK'
      BY <1>4 DEF Kept, ContractInv
    <2> QED BY <1>1, <1>3, <2>1 DEF SessionTypeOK, SessionFields, RequestsInv
  <1>6. Tracked'
    <2>1. session.step = "wished" => ~session.refreshInFlight
      BY DEF RequestsInv, Tracked
    <2> QED BY <1>3, <1>4, <2>1, NothingAsked
  <1> QED BY <1>4, <1>5, <1>6 DEF RequestsInv, Kept

LEMMA PollEndsKeeps ==
  ASSUME RequestsInv, PollEnds
  PROVE  RequestsInv'
  <1>1. /\ outbox = <<>> /\ UNCHANGED <<contract, shown, tainted, events>> /\ sampled' = FALSE
        /\ session' = [session EXCEPT !.step = "request",
                                      !.disconnected = @ \/ ~alive,
                                      !.refreshInFlight = @ /\ alive]
    BY DEF PollEnds
  <1>2. session \in SessionFields
    BY SessionIsRecord DEF RequestsInv
  <1>3. /\ session' \in SessionFields
        /\ session'.refreshInFlight = (session.refreshInFlight /\ alive)
        /\ session'.inFlightHealth = session.inFlightHealth
        /\ session'.step = "request"
    BY <1>1, <1>2 DEF SessionFields, Step
  <1>4. Kept /\ alive' = alive /\ claimed' = claimed
    BY <1>1, ContractStays DEF contract, RequestsInv, ContractInv, ContractTypeOK
  <1>5. SessionTypeOK'
    <2>1. ContractTypeOK'
      BY <1>4 DEF Kept, ContractInv
    <2> QED BY <1>1, <1>3, <2>1 DEF SessionTypeOK, SessionFields, RequestsInv
  <1>6. Tracked'
    <2>1. CASE alive
      <3>1. session'.refreshInFlight = session.refreshInFlight
        BY <1>2, <1>3, <2>1 DEF SessionFields
      <3> QED BY <1>3, <1>4, <3>1, NothingAsked
    <2>2. CASE ~alive
      <3>1. inbox = <<>> /\ doing = <<>>
        BY <2>2 DEF RequestsInv, ContractInv
      <3>2. Counts
        BY Counting DEF RequestsInv, ContractInv
      <3>3. OpenRefreshes = 0
        <4>1. Refreshes(inbox) = 0 /\ Refreshes(doing) = 0 /\ Refreshes(outbox) = 0
          BY <1>1, <3>1, CountOne
        <4> QED BY <3>2, <4>1 DEF Counts
      <3> QED BY <1>3, <1>4, <2>2, <3>3
              DEF RequestsInv, Tracked, Kept, InFlightAccurate, HealthFreeWhenIdle, One
    <2> QED BY <2>1, <2>2
  <1> QED BY <1>4, <1>5, <1>6 DEF RequestsInv, Kept

LEMMA ReceiveUpdateKeeps ==
  ASSUME RequestsInv, ReceiveUpdate
  PROVE  RequestsInv'
  <1> DEFINE update == Head(outbox)
  <1>1. /\ Receive /\ session.step = "receive" /\ session' = Cleared(update)
        /\ sampled' \in BOOLEAN /\ UNCHANGED <<tainted, events>>
        /\ shown' = IF Applies(update) THEN update.identified ELSE shown
    BY DEF ReceiveUpdate
  <1>2. /\ ContractInv' /\ alive' = alive /\ claimed' = claimed /\ update \in Update
        /\ OpenRefreshes = OpenRefreshes' + One(~IsHealth(update))
        /\ OpenHealth = OpenHealth' + One(IsHealth(update))
    BY <1>1, ReceiveCounts DEF RequestsInv
  <1> HIDE DEF update
  <1>3. session \in SessionFields
    BY SessionIsRecord DEF RequestsInv
  <1>4. /\ session' \in SessionFields
        /\ session'.step = session.step
        /\ session'.refreshInFlight = (session.refreshInFlight /\ IsHealth(update))
        /\ session'.inFlightHealth = IF IsHealth(update) THEN NoHealth ELSE session.inFlightHealth
    <2>1. IsHealth(update) \in BOOLEAN
      BY DEF IsHealth
    <2>2. {} \in Option /\ NoHealth \in HealthRefresh
      BY SessionIsRecord DEF Option
    <2> DEFINE b == IsHealth(update)
    <2>3. session' = [session EXCEPT
                         !.refreshInFlight = @ /\ b,
                         !.discard = @ /\ b,
                         !.inFlight = IF update.op = "SetSensitive" THEN {} ELSE @,
                         !.inFlightHealth = IF b THEN NoHealth ELSE @]
      BY <1>1 DEF Cleared
    <2>4. b \in BOOLEAN
      BY <2>1
    <2> HIDE DEF b
    <2>5. /\ session' \in SessionFields
          /\ session'.step = session.step
          /\ session'.refreshInFlight = (session.refreshInFlight /\ b)
          /\ session'.inFlightHealth = IF b THEN NoHealth ELSE session.inFlightHealth
      <3>1. (session.refreshInFlight /\ b) \in BOOLEAN /\ (session.discard /\ b) \in BOOLEAN
        OBVIOUS
      <3>2. (IF update.op = "SetSensitive" THEN {} ELSE session.inFlight) \in Option
        BY <1>3, <2>2 DEF SessionFields
      <3>3. (IF b THEN NoHealth ELSE session.inFlightHealth) \in HealthRefresh
        BY <1>3, <2>2 DEF SessionFields
      <3> DEFINE f == IF update.op = "SetSensitive" THEN {} ELSE session.inFlight
                 h == IF b THEN NoHealth ELSE session.inFlightHealth
                 r == session.refreshInFlight /\ b
                 d == session.discard /\ b
      <3>4. session' = [session EXCEPT !.refreshInFlight = r, !.discard = d,
                                       !.inFlight = f, !.inFlightHealth = h]
        BY <1>3, <2>3 DEF SessionFields
      <3>5. r \in BOOLEAN /\ d \in BOOLEAN /\ f \in Option /\ h \in HealthRefresh
        BY <3>1, <3>2, <3>3
      <3> HIDE DEF f, h, r, d
      <3>6. /\ session' \in SessionFields /\ session'.step = session.step
            /\ session'.refreshInFlight = r /\ session'.inFlightHealth = h
        BY <1>3, <3>4, <3>5 DEF SessionFields
      <3> QED BY <3>6 DEF r, h
    <2> QED BY <2>5 DEF b
  <1>5. SessionTypeOK'
    <2>1. ContractTypeOK'
      BY <1>2 DEF ContractInv
    <2>2. shown' \in BOOLEAN
      BY <1>1, <1>2 DEF Update, RequestsInv, SessionTypeOK
    <2> QED BY <1>1, <1>4, <2>1, <2>2 DEF SessionTypeOK, SessionFields, RequestsInv
  <1>6. Counts'
    BY <1>2, Counting DEF ContractInv
  <1>7. OpenRefreshes' \in Nat /\ OpenHealth' \in Nat
    BY <1>6 DEF Counts
  <1>8. Tracked'
    <2>1. /\ OpenRefreshes <= One(session.refreshInFlight)
          /\ OpenHealth <= One(Some(session.inFlightHealth))
          /\ alive => /\ OpenRefreshes = One(session.refreshInFlight)
                      /\ OpenHealth = One(Some(session.inFlightHealth))
          /\ ~Some(session.inFlightHealth) => ~claimed
      BY DEF RequestsInv, Tracked, InFlightAccurate, HealthFreeWhenIdle
    <2>2. CASE ~IsHealth(update)
      <3>1. OpenRefreshes = OpenRefreshes' + 1 /\ OpenHealth = OpenHealth'
        <4>1. One(~IsHealth(update)) = 1 /\ One(IsHealth(update)) = 0
          BY Zenon, <2>2 DEF One
        <4>2. /\ OpenRefreshes = OpenRefreshes' + One(~IsHealth(update))
              /\ OpenHealth = OpenHealth' + One(IsHealth(update))
          BY <1>2
        <4>3. OpenRefreshes = OpenRefreshes' + 1
          BY Zenon, <4>1, <4>2
        <4>4. OpenHealth = OpenHealth'
          <5>1. OpenHealth = OpenHealth' + 0
            BY Zenon, <4>1, <4>2
          <5>2. \A n \in Nat : n + 0 = n
            OBVIOUS
          <5>3. OpenHealth' \in Nat
            BY <1>7
          <5> QED BY Zenon, <5>1, <5>2, <5>3
        <4> QED BY Zenon, <4>3, <4>4
      <3>2. /\ session'.refreshInFlight = FALSE
            /\ session'.inFlightHealth = session.inFlightHealth
        BY <1>4, <2>2
      <3>3. OpenRefreshes' = 0
        <4>1. One(session.refreshInFlight) \in {0, 1}
          BY OneBounds
        <4> QED BY <1>7, <2>1, <3>1, <4>1
      <3>4. One(session'.refreshInFlight) = 0
        BY <3>2, OneBounds
      <3>5. OpenRefreshes' = One(session'.refreshInFlight) /\ OpenRefreshes' <= One(session'.refreshInFlight)
        BY <3>3, <3>4
      <3>6. /\ OpenHealth' <= One(Some(session'.inFlightHealth))
            /\ alive => OpenHealth' = One(Some(session'.inFlightHealth))
        BY <2>1, <3>1, <3>2
      <3>7. ~Some(session'.inFlightHealth) => ~claimed'
        BY <1>2, <2>1, <3>2
      <3>8. session'.step # "wished"
        BY <1>1, <1>4
      <3> QED BY <1>2, <3>5, <3>6, <3>7, <3>8
              DEF Tracked, InFlightAccurate, HealthFreeWhenIdle
    <2>3. CASE IsHealth(update)
      <3>1. OpenRefreshes = OpenRefreshes' /\ OpenHealth = OpenHealth' + 1
        <4>1. One(~IsHealth(update)) = 0 /\ One(IsHealth(update)) = 1
          BY Zenon, <2>3 DEF One
        <4>2. /\ OpenRefreshes = OpenRefreshes' + One(~IsHealth(update))
              /\ OpenHealth = OpenHealth' + One(IsHealth(update))
          BY <1>2
        <4> QED BY <1>7, <4>1, <4>2
      <3>2. /\ session'.refreshInFlight = session.refreshInFlight
            /\ session'.inFlightHealth = NoHealth
        BY <1>3, <1>4, <2>3 DEF SessionFields
      <3>3. OpenHealth' = 0
        <4>1. One(Some(session.inFlightHealth)) \in {0, 1}
          BY OneBounds
        <4> QED BY <1>7, <2>1, <3>1, <4>1
      <3>4. ~Some(session'.inFlightHealth)
        BY <3>2 DEF Some, NoHealth
      <3>5. ~claimed'
        <4>1. Healths(inbox') = 0 /\ Healths(doing') = 0 /\ Jobs(health') = 0
          <5>1. OpenHealth' = Healths(inbox') + Healths(doing') + Healths(outbox')
                             + Jobs(health') + Jobs(collected')
            BY <1>6 DEF Counts
          <5>2. /\ Healths(inbox') \in Nat /\ Healths(doing') \in Nat /\ Healths(outbox') \in Nat
                /\ Jobs(health') \in Nat /\ Jobs(collected') \in Nat
            BY <1>6 DEF Counts
          <5> QED BY <3>3, <5>1, <5>2
        <4> QED BY <1>2, <4>1 DEF ContractInv
      <3>6. One(Some(session'.inFlightHealth)) = 0
        BY <3>4, OneBounds
      <3>7. OpenHealth' = One(Some(session'.inFlightHealth))
            /\ OpenHealth' <= One(Some(session'.inFlightHealth))
        BY <3>3, <3>6
      <3>8. /\ OpenRefreshes' <= One(session'.refreshInFlight)
            /\ alive => OpenRefreshes' = One(session'.refreshInFlight)
        BY <2>1, <3>1, <3>2
      <3>9. session'.step # "wished"
        BY <1>1, <1>4
      <3> QED BY <1>2, <3>5, <3>7, <3>8, <3>9
              DEF Tracked, InFlightAccurate, HealthFreeWhenIdle
    <2> QED BY <2>2, <2>3
  <1> QED BY <1>2, <1>5, <1>8 DEF RequestsInv

LEMMA WishSensitiveKeeps ==
  ASSUME RequestsInv, WishSensitive
  PROVE  RequestsInv'
  <1>1. session \in SessionFields
    BY SessionIsRecord DEF RequestsInv
  <1>2. PICK include \in session.pending : ~session.refreshInFlight /\ Wish(include)
    BY DEF WishSensitive
  <1>3. include \in BOOLEAN
    BY <1>1, <1>2 DEF SessionFields, Option
  <1>4. Kept /\ alive' = alive /\ claimed' = claimed
    BY <1>2, <1>3, ContractStays DEF Wish, RequestsInv
  <1>5. /\ session' \in SessionFields
        /\ session'.refreshInFlight = session.refreshInFlight
        /\ session'.inFlightHealth = session.inFlightHealth
    BY <1>1 DEF WishSensitive, SessionFields, Step
  <1>6. SessionTypeOK'
    <2>1. ContractTypeOK'
      BY <1>4 DEF Kept, ContractInv
    <2> QED BY <1>5, <2>1 DEF SessionTypeOK, SessionFields, RequestsInv, WishSensitive
  <1>7. Tracked'
    BY <1>2, <1>4, <1>5, NothingAsked
  <1> QED BY <1>4, <1>6, <1>7 DEF RequestsInv, Kept

(* A request is accepted and its flag set, or refused or lost and none is. *)
LEMMA RequestKeeps ==
  ASSUME RequestsInv, NEW cmd \in Command, NEW accepted \in SessionFields, Request(cmd, accepted),
         accepted.refreshInFlight = (session.refreshInFlight \/ ~IsHealth(cmd)),
         ~IsHealth(cmd) => /\ ~session.refreshInFlight
                           /\ accepted.inFlightHealth = session.inFlightHealth,
         IsHealth(cmd) => ~Some(session.inFlightHealth) /\ Some(accepted.inFlightHealth)
  PROVE  /\ ContractInv' /\ Tracked' /\ session' \in SessionFields /\ session'.step = "between"
         /\ session'.refreshInFlight \/ session'.refreshInFlight = session.refreshInFlight
  <1>1. session \in SessionFields
    BY SessionIsRecord DEF RequestsInv
  <1>2. CASE Submit(cmd) /\ session' = [accepted EXCEPT !.step = "between"]
    <2>1. /\ ContractInv' /\ alive /\ alive'
          /\ OpenRefreshes' = OpenRefreshes + One(~IsHealth(cmd))
          /\ OpenHealth' = OpenHealth + One(IsHealth(cmd))
      BY <1>2, SubmitCounts DEF RequestsInv
    <2>2. /\ session' \in SessionFields /\ session'.step = "between"
          /\ session'.refreshInFlight = accepted.refreshInFlight
          /\ session'.inFlightHealth = accepted.inFlightHealth
      BY <1>2 DEF SessionFields, Step
    <2>3. /\ OpenRefreshes = One(session.refreshInFlight)
          /\ OpenHealth = One(Some(session.inFlightHealth))
          /\ ~Some(session.inFlightHealth) => ~claimed
      BY <2>1 DEF RequestsInv, Tracked, InFlightAccurate, HealthFreeWhenIdle
    <2>4. CASE IsHealth(cmd)
      <3>1. /\ OpenRefreshes' = OpenRefreshes /\ OpenHealth' = 1
            /\ Some(session'.inFlightHealth)
            /\ session'.refreshInFlight = session.refreshInFlight
        BY <1>1, <2>1, <2>2, <2>3, <2>4 DEF One, SessionFields
      <3> QED BY <2>1, <2>2, <2>3, <3>1
              DEF Tracked, InFlightAccurate, HealthFreeWhenIdle, One
    <2>5. CASE ~IsHealth(cmd)
      <3>1. One(~IsHealth(cmd)) = 1 /\ One(IsHealth(cmd)) = 0 /\ One(session.refreshInFlight) = 0
        BY Zenon, <2>5 DEF One
      <3>2. OpenRefreshes' = 1 /\ OpenHealth' = OpenHealth
        <4>1. OpenHealth \in Nat
          BY OpenAreNat DEF RequestsInv
        <4> QED BY <2>1, <2>3, <3>1, <4>1
      <3>3. session'.refreshInFlight /\ session'.inFlightHealth = session.inFlightHealth
        BY <2>2, <2>5
      <3>4. One(session'.refreshInFlight) = 1
        BY <3>3, OneBounds
      <3>5. /\ OpenRefreshes' = One(session'.refreshInFlight)
            /\ OpenRefreshes' <= One(session'.refreshInFlight)
        BY <3>2, <3>4
      <3>6. One(Some(session.inFlightHealth)) \in {0, 1}
        BY OneBounds
      <3>7. /\ OpenHealth' = One(Some(session'.inFlightHealth))
            /\ OpenHealth' <= One(Some(session'.inFlightHealth))
        BY <2>3, <3>2, <3>3, <3>6
      <3>8. claimed' = (claimed \/ IsHealth(cmd))
        BY <1>2 DEF Submit, IsHealth
      <3>9. ~Some(session'.inFlightHealth) => ~claimed'
        BY <2>3, <2>5, <3>3, <3>8
      <3>10. Tracked'
        BY <2>2, <3>5, <3>7, <3>9 DEF Tracked, InFlightAccurate, HealthFreeWhenIdle
      <3> QED BY <2>1, <2>2, <3>3, <3>10
    <2> QED BY <2>4, <2>5
  <1>3. CASE /\ UNCHANGED contract
             /\ \/ session' = [session EXCEPT !.step = "between"]
                \/ session' = [session EXCEPT !.step = "between", !.disconnected = TRUE]
    <2>1. /\ session' \in SessionFields /\ session'.step = "between"
          /\ session'.refreshInFlight = session.refreshInFlight
          /\ session'.inFlightHealth = session.inFlightHealth
      BY <1>1, <1>3 DEF SessionFields, Step
    <2>2. Kept /\ alive' = alive /\ claimed' = claimed
      BY <1>3, ContractStays DEF contract, RequestsInv, ContractInv, ContractTypeOK
    <2>3. Tracked'
      BY <2>1, <2>2, NothingAsked
    <2> QED BY <2>1, <2>2, <2>3 DEF Kept
  <1> QED BY <1>2, <1>3 DEF Request

LEMMA RequestSensitiveKeeps ==
  ASSUME RequestsInv, RequestSensitive
  PROVE  RequestsInv'
  <1>1. session \in SessionFields
    BY SessionIsRecord DEF RequestsInv
  <1>2. PICK include \in session.pending :
          Request(SetSensitive(include),
                  [session EXCEPT !.refreshInFlight = TRUE, !.inFlight = {include},
                                  !.pending = {}])
    BY DEF RequestSensitive
  <1> DEFINE accepted == [session EXCEPT !.refreshInFlight = TRUE, !.inFlight = {include},
                                         !.pending = {}]
  <1>3. include \in BOOLEAN
    BY <1>1, <1>2 DEF SessionFields, Option
  <1>4. SetSensitive(include) \in Command /\ ~IsHealth(SetSensitive(include))
    BY <1>3, Constructors DEF SetSensitive, IsHealth
  <1>5. {include} \in Option /\ {} \in Option
    BY <1>3 DEF Option
  <1>6. /\ accepted \in SessionFields /\ accepted.refreshInFlight = TRUE
        /\ accepted.inFlightHealth = session.inFlightHealth
    BY <1>1, <1>5 DEF SessionFields
  <1>7. ~session.refreshInFlight
    BY DEF RequestSensitive, RequestsInv, Tracked
  <1> HIDE DEF accepted
  <1>8. Request(SetSensitive(include), accepted)
    BY <1>2 DEF accepted
  <1>9. ContractInv' /\ Tracked' /\ session' \in SessionFields
    BY <1>4, <1>6, <1>7, <1>8, RequestKeeps
  <1> QED BY <1>9 DEF RequestsInv, SessionTypeOK, SessionFields, ContractInv, RequestSensitive

LEMMA RequestHealthKeeps ==
  ASSUME RequestsInv, RequestHealth
  PROVE  RequestsInv'
  <1> DEFINE cmd == StorageHealth(session.pendingHealth.ids)
             accepted == [session EXCEPT !.inFlightHealth = session.pendingHealth,
                                         !.pendingHealth = NoHealth]
  <1>1. session \in SessionFields
    BY SessionIsRecord DEF RequestsInv
  <1>2. Request(cmd, accepted) /\ ~Some(session.inFlightHealth) /\ Some(session.pendingHealth)
    BY DEF RequestHealth, HealthTurn
  <1>3. cmd \in Command /\ IsHealth(cmd)
    <2>1. session.pendingHealth.ids \in SUBSET Devices
      BY <1>1 DEF SessionFields, HealthRefresh
    <2> QED BY <2>1, Constructors DEF StorageHealth, IsHealth
  <1>4. /\ accepted \in SessionFields /\ accepted.refreshInFlight = session.refreshInFlight
        /\ accepted.inFlightHealth = session.pendingHealth
    BY <1>1, SessionIsRecord DEF SessionFields
  <1>5. session.refreshInFlight \in BOOLEAN
    BY <1>1 DEF SessionFields
  <1> HIDE DEF cmd, accepted
  <1>6. ContractInv' /\ Tracked' /\ session' \in SessionFields
    BY <1>2, <1>3, <1>4, <1>5, RequestKeeps
  <1> QED BY <1>6 DEF RequestsInv, SessionTypeOK, SessionFields, ContractInv, RequestHealth

LEMMA RequestRefreshKeeps ==
  ASSUME RequestsInv, RequestRefresh
  PROVE  RequestsInv'
  <1> DEFINE cmd == Refresh(session.force)
             accepted == [session EXCEPT !.refreshInFlight = TRUE, !.force = FALSE, !.due = FALSE]
  <1>1. session \in SessionFields
    BY SessionIsRecord DEF RequestsInv
  <1>2. Request(cmd, accepted) /\ ~session.refreshInFlight
    BY DEF RequestRefresh, RefreshTurn
  <1>3. cmd \in Command /\ ~IsHealth(cmd)
    <2>1. session.force \in BOOLEAN
      BY <1>1 DEF SessionFields
    <2> QED BY <2>1, Constructors DEF Refresh, IsHealth
  <1>4. /\ accepted \in SessionFields /\ accepted.refreshInFlight = TRUE
        /\ accepted.inFlightHealth = session.inFlightHealth
    BY <1>1 DEF SessionFields
  <1> HIDE DEF cmd, accepted
  <1>5. ContractInv' /\ Tracked' /\ session' \in SessionFields
    BY <1>2, <1>3, <1>4, RequestKeeps
  <1> QED BY <1>5 DEF RequestsInv, SessionTypeOK, SessionFields, ContractInv, RequestRefresh

LEMMA MergedIsRefresh ==
  ASSUME session \in SessionFields, NEW reason \in Reason, NEW ids \in SUBSET Devices
  PROVE  Merged(ids \ Covered(reason), reason) \in HealthRefresh
  <1>1. session.pendingHealth \in HealthRefresh
    BY DEF SessionFields
  <1>2. (ids \ Covered(reason)) \in SUBSET Devices
    OBVIOUS
  <1> QED BY <1>1, <1>2 DEF Merged, HealthRefresh

(* The session stays one that is doing what it did. *)
FlagsStay ==
    /\ session' \in SessionFields
    /\ session'.refreshInFlight = session.refreshInFlight
    /\ session'.inFlightHealth = session.inFlightHealth
    /\ session'.step = session.step

LEMMA UserFlags ==
  ASSUME RequestsInv, User
  PROVE  /\ UserActs /\ UNCHANGED <<contract, shown>> /\ tainted' \in BOOLEAN
         /\ FlagsStay
  <1>1. session \in SessionFields
    BY SessionIsRecord DEF RequestsInv
  <1>2. UserActs /\ UNCHANGED <<contract, shown>> /\ tainted' \in BOOLEAN
    BY DEF User, TogglePaused, Rediscover, SetInterval, SetIdentifyingInformation,
           RefreshStorageHealth, RequestsInv, SessionTypeOK
  <1>3. FlagsStay
    <2>1. CASE TogglePaused \/ Rediscover \/ SetInterval
      BY <1>1, <2>1 DEF TogglePaused, Rediscover, SetInterval, SessionFields, FlagsStay
    <2>2. ASSUME NEW include \in BOOLEAN, SetIdentifyingInformation(include)
          PROVE  FlagsStay
      BY <1>1, <2>2 DEF SetIdentifyingInformation, SessionFields, Option, FlagsStay
    <2>3. ASSUME NEW ids \in SUBSET Devices \ {{}}, NEW reason \in Reason,
                 RefreshStorageHealth(ids, reason)
          PROVE  FlagsStay
      <3>1. Merged(ids \ Covered(reason), reason) \in HealthRefresh
        BY <1>1, MergedIsRefresh
      <3>2. \/ session' = session
            \/ session' = [session EXCEPT !.pendingHealth = Merged(ids \ Covered(reason), reason)]
        BY <2>3 DEF RefreshStorageHealth
      <3> HIDE DEF Merged
      <3> QED BY <1>1, <3>1, <3>2 DEF SessionFields, FlagsStay
    <2> QED BY <2>1, <2>2, <2>3 DEF User
  <1> QED BY <1>2, <1>3

LEMMA UserKeeps ==
  ASSUME RequestsInv, User
  PROVE  RequestsInv'
  <1>2. UserActs /\ UNCHANGED <<contract, shown>> /\ tainted' \in BOOLEAN
    BY UserFlags
  <1>3. FlagsStay
    BY UserFlags
  <1>4. Kept /\ alive' = alive /\ claimed' = claimed
    BY <1>2, ContractStays DEF contract, RequestsInv, ContractInv, ContractTypeOK
  <1>5. SessionTypeOK'
    <2>1. ContractTypeOK'
      BY <1>4 DEF Kept, ContractInv
    <2>2. events' \in 0..MaxEvents /\ sampled' \in BOOLEAN
      <3>1. MaxEvents \in Nat /\ events \in 0..MaxEvents
        BY SessionAssumption DEF SessionAssumption, RequestsInv, SessionTypeOK
      <3>2. events < MaxEvents /\ events' = events + 1 /\ sampled' = FALSE
        BY <1>2 DEF UserActs
      <3>3. events' \in 0..MaxEvents
        BY <3>1, <3>2
      <3> QED BY <3>2, <3>3
    <2> QED BY <1>2, <1>3, <2>1, <2>2 DEF SessionTypeOK, SessionFields, RequestsInv, FlagsStay
  <1>6. Tracked'
    <2>1. session'.step = "wished" => ~session.refreshInFlight
      BY <1>3 DEF RequestsInv, Tracked, FlagsStay
    <2> QED BY <1>3, <1>4, <2>1, NothingAsked DEF FlagsStay
  <1> QED BY <1>4, <1>5, <1>6 DEF RequestsInv, Kept

LEMMA MonitorKeeps ==
  ASSUME RequestsInv, Monitor
  PROVE  RequestsInv'
  <1>1. UNCHANGED ui /\ session \in SessionFields
    BY SessionIsRecord DEF RequestsInv, Monitor
  <1>2. CASE WorkerSteps \/ CollectHealth
    <2>1. OpenHealth <= 1
      <3>1. OpenHealth <= One(Some(session.inFlightHealth)) /\ Counts
        BY Counting DEF RequestsInv, Tracked, ContractInv
      <3> QED BY <3>1 DEF One, Counts
    <2>2. Kept
      BY <1>2, <2>1, WorkerKeeps DEF RequestsInv
    <2>3. alive' = alive /\ (claimed' => claimed)
      BY <1>2 DEF WorkerSteps, Take, DoRefresh, DoSetSensitive, DoStorageHealth, ReportHealth,
                  CollectHealth
    <2>4. Tracked'
      BY <1>1, <2>2, <2>3, NothingAsked DEF ui, RequestsInv, Tracked
    <2> QED BY <1>1, <2>2, <2>4 DEF RequestsInv, Kept, ContractInv, SessionTypeOK, ui
  <1>3. CASE Stop
    <2>1. ContractInv' /\ OpenRefreshes' <= OpenRefreshes /\ OpenHealth' <= OpenHealth /\ ~alive'
      BY <1>3, StopKeeps DEF RequestsInv
    <2>2. ~claimed'
      BY <2>1 DEF ContractInv
    <2>3. OpenRefreshes \in Nat /\ OpenHealth \in Nat /\ OpenRefreshes' \in Nat /\ OpenHealth' \in Nat
      BY <2>1, OpenAreNat DEF RequestsInv
    <2>4. Tracked'
      <3>1. /\ OpenRefreshes <= One(session.refreshInFlight)
            /\ OpenHealth <= One(Some(session.inFlightHealth))
            /\ session.step = "wished" => ~session.refreshInFlight
        BY DEF RequestsInv, Tracked
      <3> QED BY <1>1, <2>1, <2>2, <2>3, <3>1
              DEF Tracked, InFlightAccurate, HealthFreeWhenIdle, ui, One
    <2> QED BY <1>1, <2>1, <2>4 DEF RequestsInv, ContractInv, SessionTypeOK, ui
  <1> QED BY <1>2, <1>3 DEF Monitor

LEMMA RequestsInductive ==
  ASSUME RequestsInv, [SessionNext]_sessionVars
  PROVE  RequestsInv'
  <1>1. CASE UNCHANGED sessionVars
    <2>1. UNCHANGED contract /\ UNCHANGED ui
      BY <1>1 DEF sessionVars
    <2>2. Kept /\ alive' = alive /\ claimed' = claimed
      BY <2>1, ContractStays DEF contract, RequestsInv, ContractInv, ContractTypeOK
    <2>3. Tracked'
      BY <2>1, <2>2, NothingAsked, SessionIsRecord DEF ui, RequestsInv, Tracked
    <2> QED BY <2>1, <2>2, <2>3 DEF RequestsInv, Kept, ContractInv, SessionTypeOK, ui
  <1>2. CASE MainLoop
    BY <1>2, QuietLoop, PollEndsKeeps, ReceiveUpdateKeeps, WishSensitiveKeeps,
       RequestSensitiveKeeps, RequestHealthKeeps, RequestRefreshKeeps DEF MainLoop
  <1> QED BY <1>1, <1>2, QuietLoop, UserKeeps, MonitorKeeps DEF SessionNext

(* The flags of session.rs agree with what the monitor has outstanding,    *)
(* whatever the user asks for and in whatever order answers and health     *)
(* results come: no request is doubled, no answer is taken for another,    *)
(* and no flag stays set without an answer to come.                        *)
THEOREM RequestsAreTracked == SessionSpec => []RequestsTracked
  <1>1. RequestsInv => RequestsTracked
    BY DEF RequestsInv, Tracked, RequestsTracked
  <1> QED BY <1>1, RequestsStart, RequestsInductive, PTL DEF SessionSpec
-----------------------------------------------------------------------------
(* Pauses *)

Idle == OpenRefreshes = 0 /\ OpenHealth = 0

(* A refresh that was under way at a pause is marked for discarding; the   *)
(* last step counted a sample only while updates are received, and then    *)
(* either nothing was paused or nothing is under way, as at the start; and *)
(* before the start there is no request.                                   *)
Marked == tainted /\ OpenRefreshes # 0 => session.discard
SampledRightly ==
    sampled => /\ session.step = "receive" \/ ~session.started
               /\ (~tainted /\ ~session.paused) \/ Idle
NothingBefore ==
    ~session.started => /\ session.step = "between" /\ ~session.refreshInFlight
                        /\ ~Some(session.inFlightHealth)

PausedInv == Marked /\ SampledRightly /\ NothingBefore

LEMMA PausedStart == SessionInit => PausedInv
  BY DEF SessionInit, PausedInv, Marked, SampledRightly, NothingBefore, NoHealth, Some

LEMMA SameMessages ==
  ASSUME UNCHANGED <<inbox, doing, health, collected, outbox>>
  PROVE  OpenRefreshes' = OpenRefreshes /\ OpenHealth' = OpenHealth
  BY Zenon DEF OpenRefreshes, OpenHealth, Messages

(* A step after which no sample counts, and which pauses nothing. *)
LEMMA PausedStays ==
  ASSUME PausedInv, session.started, session'.started, ~sampled',
         OpenRefreshes' = OpenRefreshes \/ ~tainted', tainted' => tainted,
         session'.discard = session.discard
  PROVE  PausedInv'
  BY DEF PausedInv, Marked, SampledRightly, NothingBefore

LEMMA PausedInitialization ==
  ASSUME RequestsInv, PausedInv, FinishInitialization
  PROVE  PausedInv'
  <1>1. session \in SessionFields
    BY SessionIsRecord DEF RequestsInv
  <1>2. /\ ~session.started /\ session.step = "between"
        /\ ~session.refreshInFlight /\ ~Some(session.inFlightHealth)
        /\ UNCHANGED <<inbox, doing, health, collected, outbox, tainted>>
    BY DEF FinishInitialization, PausedInv, NothingBefore, contract
  <1>3. Idle'
    <2>1. One(session.refreshInFlight) = 0 /\ One(Some(session.inFlightHealth)) = 0
      BY <1>2, OneBounds
    <2>2. OpenRefreshes <= One(session.refreshInFlight) /\ OpenHealth <= One(Some(session.inFlightHealth))
      BY DEF RequestsInv, Tracked
    <2>3. OpenRefreshes \in Nat /\ OpenHealth \in Nat
      BY OpenAreNat DEF RequestsInv
    <2>4. OpenRefreshes = 0 /\ OpenHealth = 0
      BY <2>1, <2>2, <2>3
    <2> QED BY <1>2, <2>4, SameMessages DEF Idle
  <1>4. \/ session'.started /\ session'.step = "receive"
        \/ /\ ~session'.started /\ session'.step = session.step
           /\ session'.refreshInFlight = session.refreshInFlight
           /\ session'.inFlightHealth = session.inFlightHealth
    BY <1>1, <1>2 DEF FinishInitialization, SessionFields
  <1> QED BY <1>2, <1>3, <1>4 DEF PausedInv, Marked, SampledRightly, NothingBefore, Idle

(* Steps that neither ask nor answer, and leave the flags alone. *)
LEMMA PausedQuiet ==
  ASSUME RequestsInv, PausedInv,
         InitializationFails \/ Deadline \/ Tick \/ RequestNothing
  PROVE  PausedInv'
  <1>1. session \in SessionFields
    BY SessionIsRecord DEF RequestsInv
  <1>2. UNCHANGED <<inbox, doing, health, collected, outbox, tainted, sampled>>
    BY DEF InitializationFails, Deadline, Tick, RequestNothing, contract
  <1>3. OpenRefreshes' = OpenRefreshes /\ OpenHealth' = OpenHealth
    BY <1>2, SameMessages
  <1>4. CASE InitializationFails \/ Deadline
    <2>1. /\ session'.started = session.started /\ session'.step = session.step
          /\ session'.discard = session.discard /\ session'.paused = session.paused
          /\ session'.refreshInFlight = session.refreshInFlight
          /\ session'.inFlightHealth = session.inFlightHealth
      BY <1>1, <1>4 DEF InitializationFails, Deadline, SessionFields
    <2> QED BY <1>2, <1>3, <2>1 DEF PausedInv, Marked, SampledRightly, NothingBefore, Idle
  <1>5. CASE Tick \/ RequestNothing
    <2>1. /\ session'.started = session.started /\ session'.discard = session.discard
      BY <1>1, <1>5 DEF Tick, RequestNothing, SessionFields
    <2>2. session.started /\ ~sampled
      BY <1>5 DEF Tick, RequestNothing, PausedInv, NothingBefore, SampledRightly
    <2> QED BY <1>2, <1>3, <2>1, <2>2, PausedStays
  <1> QED BY <1>4, <1>5

LEMMA PausedUnasked ==
  ASSUME RequestsInv, PausedInv, PollEnds \/ WishSensitive
  PROVE  PausedInv'
  <1>1. session \in SessionFields
    BY SessionIsRecord DEF RequestsInv
  <1>2. UNCHANGED <<inbox, doing, health, collected, outbox, tainted>> /\ ~sampled'
    BY DEF PollEnds, WishSensitive, Wish, contract
  <1>3. /\ session.step # "between" /\ session'.started = session.started
        /\ session'.discard = session.discard
    BY <1>1 DEF PollEnds, WishSensitive, SessionFields
  <1>4. session.started
    BY <1>3 DEF PausedInv, NothingBefore
  <1> QED BY <1>2, <1>3, <1>4, SameMessages, PausedStays

(* What a request leaves of a pause's mark: an accepted one is new, and    *)
(* when none is accepted nothing changes.                                  *)
LEMMA PausedRequest ==
  ASSUME RequestsInv, PausedInv, NEW cmd \in Command, NEW accepted, Request(cmd, accepted),
         accepted \in SessionFields,
         accepted.started = session.started, accepted.discard = session.discard,
         session.step \in {"request", "wished"},
         sampled' = sampled,
         IsHealth(cmd) => tainted' = tainted,
         ~IsHealth(cmd) => /\ ~session.refreshInFlight /\ accepted.refreshInFlight
                           /\ tainted' = (tainted /\ ~session'.refreshInFlight)
  PROVE  PausedInv'
  <1>1. session \in SessionFields
    BY SessionIsRecord DEF RequestsInv
  <1>2. session.started /\ ~sampled
    BY DEF PausedInv, NothingBefore, SampledRightly
  <1>3. session'.started /\ session'.discard = session.discard
    BY <1>1, <1>2 DEF Request, SessionFields
  <1>4. tainted' => tainted
    BY Zenon
  <1>5. OpenRefreshes' = OpenRefreshes \/ ~tainted'
    <2>1. CASE Submit(cmd) /\ session' = [accepted EXCEPT !.step = "between"]
      <3>1. CASE IsHealth(cmd)
        <4>1. OpenRefreshes' = OpenRefreshes + One(~IsHealth(cmd))
          BY <2>1, SubmitCounts DEF RequestsInv
        <4>2. One(~IsHealth(cmd)) = 0
          BY Zenon, <3>1 DEF One
        <4>3. OpenRefreshes \in Nat /\ \A n \in Nat : n + 0 = n
          BY OpenAreNat DEF RequestsInv
        <4> QED BY Zenon, <4>1, <4>2, <4>3
      <3>2. CASE ~IsHealth(cmd)
        <4>1. session'.refreshInFlight = accepted.refreshInFlight
          BY <2>1 DEF SessionFields
        <4> QED BY <3>2, <4>1
      <3> QED BY <3>1, <3>2
    <2>2. CASE UNCHANGED contract
      <3>1. UNCHANGED <<inbox, doing, health, collected, outbox>>
        BY <2>2 DEF contract
      <3> QED BY <3>1, SameMessages
    <2> QED BY <2>1, <2>2 DEF Request
  <1> QED BY <1>2, <1>3, <1>4, <1>5, PausedStays

LEMMA PausedRequests ==
  ASSUME RequestsInv, PausedInv, RequestSensitive \/ RequestHealth \/ RequestRefresh
  PROVE  PausedInv'
  <1>1. session \in SessionFields
    BY SessionIsRecord DEF RequestsInv
  <1>2. CASE RequestSensitive
    <2>1. PICK include \in session.pending :
            Request(SetSensitive(include),
                    [session EXCEPT !.refreshInFlight = TRUE, !.inFlight = {include},
                                    !.pending = {}])
      BY <1>2 DEF RequestSensitive
    <2> DEFINE accepted == [session EXCEPT !.refreshInFlight = TRUE, !.inFlight = {include},
                                           !.pending = {}]
    <2>2. include \in BOOLEAN
      BY <1>1, <2>1 DEF SessionFields, Option
    <2>3. SetSensitive(include) \in Command /\ ~IsHealth(SetSensitive(include))
      BY <2>2, Constructors DEF SetSensitive, IsHealth
    <2>4. {include} \in Option /\ {} \in Option
      BY <2>2 DEF Option
    <2>5. /\ accepted \in SessionFields /\ accepted.refreshInFlight
          /\ accepted.started = session.started /\ accepted.discard = session.discard
      BY <1>1, <2>4 DEF SessionFields
    <2>6. /\ session.step = "wished" /\ ~session.refreshInFlight
          /\ tainted' = (tainted /\ ~session'.refreshInFlight) /\ sampled' = sampled
      BY <1>2 DEF RequestSensitive, RequestsInv, Tracked
    <2>7. Request(SetSensitive(include), accepted)
      BY <2>1
    <2> HIDE DEF accepted
    <2> QED BY <2>3, <2>5, <2>6, <2>7, PausedRequest
  <1>3. CASE RequestHealth
    <2> DEFINE cmd == StorageHealth(session.pendingHealth.ids)
               accepted == [session EXCEPT !.inFlightHealth = session.pendingHealth,
                                           !.pendingHealth = NoHealth]
    <2>1. /\ session.step = "request" /\ Request(cmd, accepted)
          /\ sampled' = sampled /\ tainted' = tainted
      BY <1>3 DEF RequestHealth
    <2>2. cmd \in Command /\ IsHealth(cmd)
      <3>1. session.pendingHealth.ids \in SUBSET Devices
        BY <1>1 DEF SessionFields, HealthRefresh
      <3> QED BY <3>1, Constructors DEF StorageHealth, IsHealth
    <2>3. /\ accepted \in SessionFields
          /\ accepted.started = session.started /\ accepted.discard = session.discard
      BY <1>1, SessionIsRecord DEF SessionFields
    <2> HIDE DEF cmd, accepted
    <2> QED BY <2>1, <2>2, <2>3, PausedRequest
  <1>4. CASE RequestRefresh
    <2> DEFINE cmd == Refresh(session.force)
               accepted == [session EXCEPT !.refreshInFlight = TRUE, !.force = FALSE, !.due = FALSE]
    <2>1. /\ session.step = "request" /\ Request(cmd, accepted) /\ ~session.refreshInFlight
          /\ sampled' = sampled /\ tainted' = (tainted /\ ~session'.refreshInFlight)
      BY <1>4 DEF RequestRefresh, RefreshTurn
    <2>2. cmd \in Command /\ ~IsHealth(cmd)
      <3>1. session.force \in BOOLEAN
        BY <1>1 DEF SessionFields
      <3> QED BY <3>1, Constructors DEF Refresh, IsHealth
    <2>3. /\ accepted \in SessionFields /\ accepted.refreshInFlight
          /\ accepted.started = session.started /\ accepted.discard = session.discard
      BY <1>1 DEF SessionFields
    <2> HIDE DEF cmd, accepted
    <2> QED BY <2>1, <2>2, <2>3, PausedRequest
  <1> QED BY <1>2, <1>3, <1>4

(* A sample counts only if it was asked for after the last pause, and no   *)
(* pause goes on: an answer to anything else is not one.                   *)
LEMMA CountedSample ==
  ASSUME RequestsInv, PausedInv, ReceiveUpdate, sampled'
  PROVE  ~tainted /\ ~session.paused
  <1> DEFINE update == Head(outbox)
  <1>1. Receive /\ sampled' = (Applies(update) /\ ~Administrative(update))
    BY DEF ReceiveUpdate
  <1>2. /\ ContractInv' /\ update \in Update
        /\ OpenRefreshes = OpenRefreshes' + One(~IsHealth(update))
        /\ OpenHealth = OpenHealth' + One(IsHealth(update))
    BY <1>1, ReceiveCounts DEF RequestsInv
  <1>3. Applies(update) /\ ~Administrative(update)
    BY <1>1
  <1>4. ~session.paused /\ ~session.discard
    BY <1>3 DEF Applies, Administrative
  <1>5. ~IsHealth(update)
    <2> SUFFICES ASSUME IsHealth(update) PROVE FALSE
      OBVIOUS
    <2>1. ~Some(session.inFlightHealth)
      BY <1>3 DEF Administrative
    <2>2. One(Some(session.inFlightHealth)) = 0 /\ One(IsHealth(update)) = 1
      BY <2>1, OneBounds
    <2>3. OpenHealth = OpenHealth' + 1
      BY Zenon, <1>2, <2>2
    <2>4. OpenHealth <= 0
      BY Zenon, <2>2 DEF RequestsInv, Tracked
    <2>5. OpenHealth' \in Nat
      BY <1>2, OpenAreNat
    <2>6. \A n \in Nat : ~(n + 1 <= 0)
      OBVIOUS
    <2> QED BY Zenon, <2>3, <2>4, <2>5, <2>6
  <1>6. OpenRefreshes # 0
    <2>1. One(~IsHealth(update)) = 1
      BY <1>5, OneBounds
    <2>2. OpenRefreshes = OpenRefreshes' + 1
      BY Zenon, <1>2, <2>1
    <2>3. OpenRefreshes' \in Nat
      BY <1>2, OpenAreNat
    <2>4. \A n \in Nat : n + 1 # 0
      OBVIOUS
    <2> QED BY Zenon, <2>2, <2>3, <2>4
  <1> QED BY <1>4, <1>6 DEF PausedInv, Marked

LEMMA PausedReceive ==
  ASSUME RequestsInv, PausedInv, ReceiveUpdate
  PROVE  PausedInv'
  <1> DEFINE update == Head(outbox)
  <1>1. /\ Receive /\ session.step = "receive" /\ session' = Cleared(update)
        /\ tainted' = tainted
    BY DEF ReceiveUpdate
  <1>2. /\ ContractInv'
        /\ OpenRefreshes = OpenRefreshes' + One(~IsHealth(update))
    BY <1>1, ReceiveCounts DEF RequestsInv
  <1>3. session \in SessionFields
    BY SessionIsRecord DEF RequestsInv
  <1>4. /\ session'.started = session.started /\ session'.paused = session.paused
        /\ session'.discard = (session.discard /\ IsHealth(update))
        /\ session'.step = "receive"
    BY <1>1, <1>3 DEF Cleared, SessionFields
  <1>5. session.started
    BY <1>1 DEF PausedInv, NothingBefore
  <1>6. SampledRightly'
    BY <1>1, <1>4, CountedSample DEF SampledRightly
  <1>7. Marked'
    <2>1. OpenRefreshes' \in Nat
      BY <1>2, OpenAreNat
    <2> HIDE DEF update
    <2>2. CASE IsHealth(update)
      <3>1. One(~IsHealth(update)) = 0
        BY <2>2, OneBounds
      <3>2. OpenRefreshes = OpenRefreshes' + 0
        BY Zenon, <1>2, <3>1
      <3>3. \A n \in Nat : n + 0 = n
        OBVIOUS
      <3>4. OpenRefreshes = OpenRefreshes'
        BY Zenon, <2>1, <3>2, <3>3
      <3> QED BY <1>1, <1>4, <2>2, <3>4 DEF PausedInv, Marked
    <2>3. CASE ~IsHealth(update)
      <3>1. One(~IsHealth(update)) = 1 /\ One(session.refreshInFlight) \in {0, 1}
        BY <2>3, OneBounds
      <3>2. OpenRefreshes = OpenRefreshes' + 1
        BY Zenon, <1>2, <3>1
      <3>3. OpenRefreshes <= One(session.refreshInFlight)
        BY DEF RequestsInv, Tracked
      <3>4. OpenRefreshes' = 0
        BY <2>1, <3>1, <3>2, <3>3
      <3> QED BY <3>4 DEF Marked
    <2> QED BY <2>2, <2>3
  <1> QED BY <1>4, <1>5, <1>6, <1>7 DEF PausedInv, NothingBefore

LEMMA PausedUser ==
  ASSUME RequestsInv, PausedInv, User
  PROVE  PausedInv'
  <1>1. session \in SessionFields
    BY SessionIsRecord DEF RequestsInv
  <1>2. FlagsStay /\ UserActs /\ UNCHANGED contract
    BY UserFlags
  <1>3. ~sampled' /\ UNCHANGED <<inbox, doing, health, collected, outbox>>
    BY <1>2 DEF UserActs, contract
  <1>4. OpenRefreshes' = OpenRefreshes
    BY <1>3, SameMessages
  <1>5. session'.started = session.started
    BY <1>1 DEF User, TogglePaused, Rediscover, SetInterval, SetIdentifyingInformation,
                RefreshStorageHealth, SessionFields
  <1>6. NothingBefore'
    BY <1>2, <1>5 DEF PausedInv, NothingBefore, FlagsStay
  <1>7. Marked'
    <2>1. CASE TogglePaused /\ ~session.paused
      <3>1. session'.discard = session.refreshInFlight
        BY <1>1, <2>1 DEF TogglePaused, SessionFields
      <3>2. OpenRefreshes # 0 => session.refreshInFlight
        <4>1. ~session.refreshInFlight => One(session.refreshInFlight) = 0
          BY OneBounds
        <4>2. OpenRefreshes <= One(session.refreshInFlight) /\ OpenRefreshes \in Nat
          BY OpenAreNat DEF RequestsInv, Tracked
        <4> QED BY <4>1, <4>2
      <3> QED BY <1>4, <3>1, <3>2 DEF Marked
    <2>2. CASE ~(TogglePaused /\ ~session.paused)
      <3>1. session'.discard = session.discard /\ tainted' = tainted
        BY <1>1, <2>2 DEF User, TogglePaused, Rediscover, SetInterval, SetIdentifyingInformation,
                          RefreshStorageHealth, SessionFields, RequestsInv, SessionTypeOK
      <3> QED BY <1>4, <3>1 DEF PausedInv, Marked
    <2> QED BY <2>1, <2>2
  <1> QED BY <1>3, <1>6, <1>7 DEF PausedInv, SampledRightly

LEMMA MonitorCounts ==
  ASSUME RequestsInv, Monitor
  PROVE  /\ OpenRefreshes' <= OpenRefreshes /\ OpenHealth' <= OpenHealth
         /\ {OpenRefreshes, OpenHealth, OpenRefreshes', OpenHealth'} \subseteq Nat
  <1>1. OpenRefreshes \in Nat /\ OpenHealth \in Nat
    BY OpenAreNat DEF RequestsInv
  <1>2. CASE WorkerSteps \/ CollectHealth
    <2>1. OpenHealth <= 1
      <3>1. OpenHealth <= One(Some(session.inFlightHealth))
        BY DEF RequestsInv, Tracked
      <3>2. One(Some(session.inFlightHealth)) \in {0, 1}
        BY OneBounds
      <3> QED BY <1>1, <3>1, <3>2
    <2>2. OpenRefreshes' = OpenRefreshes /\ OpenHealth' = OpenHealth
      BY <1>2, <2>1, WorkerKeeps DEF RequestsInv, Kept
    <2> QED BY <1>1, <2>2
  <1>3. CASE Stop
    <2>1. ContractInv' /\ OpenRefreshes' <= OpenRefreshes /\ OpenHealth' <= OpenHealth
      BY <1>3, StopKeeps DEF RequestsInv
    <2> QED BY <1>1, <2>1, OpenAreNat
  <1> QED BY <1>2, <1>3 DEF Monitor

LEMMA PausedMonitor ==
  ASSUME RequestsInv, PausedInv, Monitor
  PROVE  PausedInv'
  <1>1. OpenRefreshes # 0 \/ OpenRefreshes' = 0
    BY MonitorCounts
  <1>2. OpenHealth # 0 \/ OpenHealth' = 0
    BY MonitorCounts
  <1>3. session' = session /\ sampled' = sampled /\ tainted' = tainted
    BY DEF Monitor, ui
  <1> QED BY <1>1, <1>2, <1>3 DEF PausedInv, Marked, SampledRightly, NothingBefore, Idle

LEMMA PausedInductive ==
  ASSUME RequestsInv, PausedInv, [SessionNext]_sessionVars
  PROVE  PausedInv'
  <1>1. CASE UNCHANGED sessionVars
    <2>1. UNCHANGED <<inbox, doing, health, collected, outbox, session, sampled, tainted>>
      BY <1>1 DEF sessionVars, contract, ui
    <2> QED BY <2>1, SameMessages DEF PausedInv, Marked, SampledRightly, NothingBefore, Idle
  <1>2. CASE MainLoop
    BY <1>2, PausedInitialization, PausedQuiet, PausedUnasked, PausedRequests, PausedReceive
       DEF MainLoop
  <1> QED BY <1>1, <1>2, PausedQuiet, PausedUser, PausedMonitor DEF SessionNext

(* Whoever answers has had something to answer. *)
LEMMA AnswersWereAsked ==
  ASSUME RequestsInv, Monitor, outbox' # outbox
  PROVE  ~Idle
  <1>1. Counts /\ doing \in Seq(Command) /\ Len(doing) <= 1
        /\ collected \in Seq(Job) /\ Len(collected) <= 1
    BY Counting DEF RequestsInv, ContractInv, ContractTypeOK
  <1>2. doing # <<>> \/ collected # <<>>
    BY DEF Monitor, WorkerSteps, Take, DoRefresh, DoSetSensitive, DoStorageHealth, ReportHealth,
           CollectHealth, Stop, Carry
  <1>3. CASE doing # <<>>
    <2>1. doing = <<Head(doing)>>
      BY <1>1, <1>3, Single
    <2>2. /\ Healths(doing) = One(IsHealth(Head(doing)))
          /\ Refreshes(doing) = One(~IsHealth(Head(doing)))
      BY <2>1, CountOne
    <2>3. Healths(doing) = 1 \/ Refreshes(doing) = 1
      BY Zenon, <2>2, OneBounds
    <2>4. CASE Healths(doing) = 1
      <3>1. OpenHealth = Healths(inbox) + 1 + Healths(outbox) + Jobs(health) + Jobs(collected)
        BY <1>1, <2>4 DEF Counts
      <3>2. /\ Healths(inbox) \in Nat /\ Healths(outbox) \in Nat
            /\ Jobs(health) \in Nat /\ Jobs(collected) \in Nat
        BY <1>1 DEF Counts
      <3>3. OpenHealth # 0
        BY <3>1, <3>2
      <3> QED BY <3>3 DEF Idle
    <2>5. CASE Refreshes(doing) = 1
      <3>1. OpenRefreshes = Refreshes(inbox) + 1 + Refreshes(outbox)
        BY <1>1, <2>5 DEF Counts
      <3>2. Refreshes(inbox) \in Nat /\ Refreshes(outbox) \in Nat
        BY <1>1 DEF Counts
      <3>3. OpenRefreshes # 0
        BY <3>1, <3>2
      <3> QED BY <3>3 DEF Idle
    <2> QED BY <2>3, <2>4, <2>5
  <1>4. CASE collected # <<>>
    <2>1. Jobs(collected) = 1
      BY <1>1, <1>4, Single DEF Jobs
    <2>2. OpenHealth = Healths(inbox) + Healths(doing) + Healths(outbox) + Jobs(health) + 1
      BY <1>1, <2>1 DEF Counts
    <2>3. /\ Healths(inbox) \in Nat /\ Healths(doing) \in Nat /\ Healths(outbox) \in Nat
          /\ Jobs(health) \in Nat
      BY <1>1 DEF Counts
    <2>4. OpenHealth # 0
      BY <2>2, <2>3
    <2> QED BY <2>4 DEF Idle
  <1> QED BY <1>2, <1>3, <1>4

LEMMA PausedStep ==
  ASSUME RequestsInv, PausedInv, [SessionNext]_sessionVars, sampled', outbox' # outbox
  PROVE  ~tainted /\ ~session.paused
  <1>1. CASE ReceiveUpdate
    BY <1>1, CountedSample
  <1>2. CASE Monitor
    <2>1. sampled
      BY <1>2 DEF Monitor, ui
    <2> QED BY <1>2, <2>1, AnswersWereAsked DEF PausedInv, SampledRightly
  <1>3. CASE ~ReceiveUpdate /\ ~Monitor
    <2>1. outbox' = outbox
      BY <1>3 DEF SessionNext, MainLoop, User, FinishInitialization, InitializationFails, Tick,
                  PollEnds, WishSensitive, Wish, RequestSensitive, RequestHealth, RequestRefresh,
                  RequestNothing, Deadline, Request, Submit, TogglePaused, Rediscover,
                  SetInterval, SetIdentifyingInformation, RefreshStorageHealth,
                  contract, sessionVars
    <2> QED BY <2>1
  <1> QED BY <1>1, <1>2, <1>3

(* A sample that was under way when the user paused is never counted in    *)
(* the statistics, however often he pauses and resumes before it arrives,  *)
(* and none is counted during a pause (session.rs: discard_next_sample).   *)
THEOREM PausesKeepSamplesOut == SessionSpec => PausedSamplesDiscarded
  <1>1. SessionInit => RequestsInv /\ PausedInv
    BY RequestsStart, PausedStart
  <1>2. RequestsInv /\ PausedInv /\ [SessionNext]_sessionVars => (RequestsInv /\ PausedInv)'
    BY RequestsInductive, PausedInductive
  <1>3. RequestsInv /\ PausedInv /\ [SessionNext]_sessionVars
        => [sampled' /\ outbox' # outbox => ~tainted /\ ~session.paused]_sessionVars
    BY PausedStep
  <1> QED BY <1>1, <1>2, <1>3, PTL DEF SessionSpec, PausedSamplesDiscarded

-----------------------------------------------------------------------------
(* Identifying values *)

IsWish(message) == message.op = "SetSensitive"

(* The wishes of a channel are the one under way.                          *)
Tells(s, inFlight) == \A i \in DOMAIN s : IsWish(s[i]) => inFlight = {s[i].flag}
Answered(s) == \E i \in DOMAIN s : IsWish(s[i])

(* Nothing on its way identifies a device; if a wish is still under way,   *)
(* nothing that comes with its answer or after it.                         *)
Quiet(s, settled) ==
    \A i \in DOMAIN s :
        settled \/ (\E j \in 1..i : IsWish(s[j])) => ~s[i].identified

Hidden == ~state.sensitive /\ state.identified = {}

(* The wish that waits is the last one, and once it has been sent the      *)
(* monitor knows it; what is under way is what the channels carry.         *)
Wishing ==
    /\ Tells(inbox, session.inFlight)
    /\ Tells(doing, session.inFlight)
    /\ Tells(outbox, session.inFlight)
    /\ session.pending \subseteq {session.desired}
    /\ session.pending = {} => /\ wanted = session.desired
                               /\ session.inFlight \subseteq {session.desired}
    /\ session.step = "wished" => session.pending = {wanted}

Hiding == ~session.desired /\ session.pending = {}

HiddenInv ==
    Hiding =>
        /\ session.inFlight = {} => ~shown
        /\ session.inFlight = {} \/ Answered(outbox) => Hidden
        /\ Quiet(outbox, session.inFlight = {})

WishInv == Wishing /\ HiddenInv

(* Channels *)

LEMMA AppendedAnswer ==
  ASSUME NEW c \in Seq(Update), NEW u \in Update, NEW inFlight, NEW settled
  PROVE  /\ Tells(c, inFlight) /\ (IsWish(u) => inFlight = {u.flag})
              => Tells(Append(c, u), inFlight)
         /\ Answered(Append(c, u)) => Answered(c) \/ IsWish(u)
         /\ Quiet(c, settled) /\ (settled \/ Answered(c) \/ IsWish(u) => ~u.identified)
              => Quiet(Append(c, u), settled)
  <1> DEFINE d == Append(c, u)
  <1>1. /\ Len(c) \in Nat /\ DOMAIN c = 1..Len(c) /\ DOMAIN d = 1..(Len(c) + 1)
        /\ \A i \in 1..Len(c) : d[i] = c[i]
        /\ d[Len(c) + 1] = u
    OBVIOUS
  <1> DEFINE n == Len(c)
  <1>2. /\ n \in Nat /\ DOMAIN c = 1..n /\ DOMAIN d = 1..(n + 1)
        /\ \A i \in 1..n : d[i] = c[i]
        /\ d[n + 1] = u
    BY <1>1
  <1> HIDE DEF d, n
  <1>3. \A i \in DOMAIN d : \/ i \in 1..n /\ d[i] = c[i] /\ i \in DOMAIN c
                            \/ i = n + 1 /\ d[i] = u
    <2>1. \A i \in 1..(n + 1) : i \in 1..n \/ i = n + 1
      BY <1>2
    <2> QED BY <1>2, <2>1
  <1>4. Tells(c, inFlight) /\ (IsWish(u) => inFlight = {u.flag}) => Tells(d, inFlight)
    BY Zenon, <1>3 DEF Tells
  <1>5. Answered(d) => Answered(c) \/ IsWish(u)
    BY Zenon, <1>3 DEF Answered
  <1>6. ASSUME Quiet(c, settled), settled \/ Answered(c) \/ IsWish(u) => ~u.identified
        PROVE  Quiet(d, settled)
    <2> SUFFICES ASSUME NEW i \in DOMAIN d, settled \/ \E j \in 1..i : IsWish(d[j])
                 PROVE  ~d[i].identified
      BY DEF Quiet
    <2>1. CASE i = n + 1 /\ d[i] = u
      <3>1. \A j \in 1..i : j \in DOMAIN d
        BY <1>2, <2>1
      <3>2. settled \/ Answered(d)
        BY <3>1 DEF Answered
      <3> QED BY <1>5, <1>6, <2>1, <3>2
    <2>2. CASE i \in 1..n /\ d[i] = c[i] /\ i \in DOMAIN c
      <3>1. \A j \in 1..i : d[j] = c[j]
        BY <1>2, <2>2
      <3>2. settled \/ \E j \in 1..i : IsWish(c[j])
        BY <3>1
      <3> QED BY <1>6, <2>2, <3>2 DEF Quiet
    <2> QED BY <1>3, <2>1, <2>2
  <1> QED BY <1>4, <1>5, <1>6 DEF d

LEMMA ReceivedAnswer ==
  ASSUME NEW c \in Seq(Update), c # <<>>, NEW inFlight, NEW settled
  PROVE  /\ Tells(c, inFlight) => Tells(Tail(c), inFlight)
         /\ Answered(Tail(c)) \/ IsWish(Head(c)) => Answered(c)
         /\ Quiet(c, settled) => /\ Quiet(Tail(c), settled \/ IsWish(Head(c)))
                                 /\ settled \/ IsWish(Head(c)) => ~Head(c).identified
         /\ Tells(c, inFlight) /\ IsWish(Head(c)) => inFlight = {Head(c).flag}
  <1> DEFINE d == Tail(c)
             h == Head(c)
             n == Len(c)
  <1>1. /\ n \in Nat /\ n # 0 /\ DOMAIN c = 1..n /\ DOMAIN d = 1..(n - 1)
        /\ \A i \in 1..(n - 1) : d[i] = c[i + 1]
        /\ h = c[1]
    OBVIOUS
  <1> HIDE DEF d, h, n
  <1>2. /\ 1 \in DOMAIN c /\ 1 \in 1..1
        /\ \A i \in DOMAIN d : /\ i + 1 \in DOMAIN c /\ d[i] = c[i + 1]
                               /\ 1 \in 1..(i + 1)
                               /\ \A j \in 1..i : j \in DOMAIN d /\ j + 1 \in 1..(i + 1)
    BY <1>1
  <1>3. Tells(c, inFlight) => Tells(d, inFlight)
    BY Zenon, <1>2 DEF Tells
  <1>4. Answered(d) \/ IsWish(h) => Answered(c)
    BY Zenon, <1>1, <1>2 DEF Answered
  <1>5. ASSUME Quiet(c, settled)
        PROVE  /\ Quiet(d, settled \/ IsWish(h))
               /\ settled \/ IsWish(h) => ~h.identified
    <2>1. settled \/ IsWish(h) => ~h.identified
      BY Zenon, <1>1, <1>2, <1>5 DEF Quiet
    <2>2. Quiet(d, settled \/ IsWish(h))
      <3> SUFFICES ASSUME NEW i \in DOMAIN d,
                          (settled \/ IsWish(h)) \/ \E j \in 1..i : IsWish(d[j])
                   PROVE  ~d[i].identified
        BY Zenon DEF Quiet
      <3>1. settled \/ \E j \in 1..(i + 1) : IsWish(c[j])
        BY Zenon, <1>1, <1>2
      <3> QED BY Zenon, <1>2, <1>5, <3>1 DEF Quiet
    <2> QED BY <2>1, <2>2
  <1>6. Tells(c, inFlight) /\ IsWish(h) => inFlight = {h.flag}
    BY Zenon, <1>1, <1>2 DEF Tells
  <1> QED BY <1>3, <1>4, <1>5, <1>6 DEF d, h

(* One command, or none. *)
LEMMA FewCommands ==
  ASSUME NEW m, NEW inFlight
  PROVE  /\ (IsWish(m) => inFlight = {m.flag}) => Tells(<<m>>, inFlight)
         /\ Tells(<<m>>, inFlight) /\ IsWish(m) => inFlight = {m.flag}
         /\ Tells(<<>>, inFlight)
  <1>1. DOMAIN <<m>> = {1} /\ <<m>>[1] = m /\ DOMAIN <<>> = {}
    OBVIOUS
  <1> QED BY Zenon, <1>1 DEF Tells

LEMMA NoWish ==
  ASSUME NEW S, NEW s \in Seq(S), Refreshes(s) = 0
  PROVE  ~Answered(s) /\ \A inFlight : Tells(s, inFlight)
  <1> DEFINE R == {i \in DOMAIN s : ~IsHealth(s[i])}
  <1>1. Len(s) \in Nat /\ DOMAIN s = 1..Len(s)
    OBVIOUS
  <1>2. IsFiniteSet(1..Len(s))
    BY <1>1, FS_Interval
  <1>3. R \subseteq 1..Len(s)
    BY <1>1
  <1>4. IsFiniteSet(R)
    BY <1>2, <1>3, FS_Subset
  <1>5. Cardinality(R) = 0
    BY Zenon DEF Refreshes
  <1> HIDE DEF R
  <1>6. R = {}
    BY <1>4, <1>5, FS_EmptySet
  <1>7. \A i \in DOMAIN s : IsHealth(s[i])
    BY <1>6 DEF R
  <1>8. \A i \in DOMAIN s : ~IsWish(s[i])
    BY <1>7 DEF IsHealth, IsWish
  <1> QED BY Zenon, <1>8 DEF Answered, Tells

(* With no refresh under way, no channel carries a wish. *)
LEMMA NoWishes ==
    /\ ContractInv /\ OpenRefreshes = 0 =>
          /\ ~Answered(inbox) /\ ~Answered(doing) /\ ~Answered(outbox)
          /\ \A inFlight : /\ Tells(inbox, inFlight)
                           /\ Tells(doing, inFlight)
                           /\ Tells(outbox, inFlight)
    /\ ContractInv' /\ OpenRefreshes' = 0 =>
          /\ ~Answered(inbox') /\ ~Answered(doing') /\ ~Answered(outbox')
          /\ \A inFlight : /\ Tells(inbox', inFlight)
                           /\ Tells(doing', inFlight)
                           /\ Tells(outbox', inFlight)
  <1>1. ASSUME ContractInv, OpenRefreshes = 0
        PROVE  /\ ~Answered(inbox) /\ ~Answered(doing) /\ ~Answered(outbox)
               /\ \A inFlight : /\ Tells(inbox, inFlight)
                                /\ Tells(doing, inFlight)
                                /\ Tells(outbox, inFlight)
    <2>1. Counts
      BY <1>1, Counting DEF ContractInv
    <2>2. OpenRefreshes = Refreshes(inbox) + Refreshes(doing) + Refreshes(outbox)
      BY <2>1 DEF Counts
    <2>3. Refreshes(inbox) \in Nat /\ Refreshes(doing) \in Nat /\ Refreshes(outbox) \in Nat
      BY <2>1 DEF Counts
    <2>4. Refreshes(inbox) = 0 /\ Refreshes(doing) = 0 /\ Refreshes(outbox) = 0
      BY <1>1, <2>2, <2>3
    <2>5. inbox \in Seq(Command) /\ doing \in Seq(Command) /\ outbox \in Seq(Update)
      BY <1>1 DEF ContractInv, ContractTypeOK
    <2> QED BY <2>4, <2>5, NoWish
  <1>2. ASSUME ContractInv', OpenRefreshes' = 0
        PROVE  /\ ~Answered(inbox') /\ ~Answered(doing') /\ ~Answered(outbox')
               /\ \A inFlight : /\ Tells(inbox', inFlight)
                                /\ Tells(doing', inFlight)
                                /\ Tells(outbox', inFlight)
    <2>1. Counts'
      BY <1>2, Counting DEF ContractInv
    <2>2. OpenRefreshes' = Refreshes(inbox') + Refreshes(doing') + Refreshes(outbox')
      BY <2>1 DEF Counts
    <2>3. Refreshes(inbox') \in Nat /\ Refreshes(doing') \in Nat /\ Refreshes(outbox') \in Nat
      BY <2>1 DEF Counts
    <2>4. Refreshes(inbox') = 0 /\ Refreshes(doing') = 0 /\ Refreshes(outbox') = 0
      BY <1>2, <2>2, <2>3
    <2>5. inbox' \in Seq(Command) /\ doing' \in Seq(Command) /\ outbox' \in Seq(Update)
      BY <1>2 DEF ContractInv, ContractTypeOK
    <2> QED BY <2>4, <2>5, NoWish
  <1> QED BY <1>1, <1>2

(* Steps *)

LEMMA WishStart == SessionInit => WishInv
  <1> SUFFICES ASSUME SessionInit PROVE WishInv
    OBVIOUS
  <1>1. /\ inbox = <<>> /\ doing = <<>> /\ outbox = <<>> /\ wanted = state.sensitive
        /\ state \in NewCollectors
    BY DEF SessionInit, ContractInit
  <1>2. /\ session.desired = state.sensitive /\ session.pending = {} /\ session.inFlight = {}
        /\ session.step = "between" /\ shown = FALSE
    BY DEF SessionInit
  <1>3. Tells(inbox, {}) /\ Tells(doing, {}) /\ Tells(outbox, {})
    BY <1>1, FewCommands
  <1>4. Quiet(outbox, TRUE)
    BY <1>1 DEF Quiet
  <1>5. ~state.sensitive => Hidden
    BY <1>1 DEF NewCollectors, Hidden
  <1> QED BY <1>1, <1>2, <1>3, <1>4, <1>5 DEF WishInv, Wishing, HiddenInv, Hiding

(* What the monitor sees stays, and so does what the session wishes. *)
LEMMA WishStays ==
  ASSUME WishInv, UNCHANGED contract, shown' = shown,
         session'.desired = session.desired, session'.pending = session.pending,
         session'.inFlight = session.inFlight,
         session'.step = "wished" => session.step = "wished"
  PROVE  WishInv'
  <1>1. UNCHANGED <<inbox, doing, outbox, wanted, state>>
    BY DEF contract
  <1> QED BY <1>1 DEF WishInv, Wishing, HiddenInv, Hiding, Hidden

LEMMA WishQuiet ==
  ASSUME RequestsInv, WishInv,
         InitializationFails \/ Deadline \/ Tick \/ RequestNothing \/ PollEnds
  PROVE  WishInv'
  <1>1. session \in SessionFields
    BY SessionIsRecord DEF RequestsInv
  <1>2. UNCHANGED contract /\ shown' = shown
    BY DEF InitializationFails, Deadline, Tick, RequestNothing, PollEnds
  <1>3. /\ session'.desired = session.desired /\ session'.pending = session.pending
        /\ session'.inFlight = session.inFlight
        /\ session'.step = "wished" => session.step = "wished"
    BY <1>1 DEF InitializationFails, Deadline, Tick, RequestNothing, PollEnds, SessionFields
  <1> QED BY <1>2, <1>3, WishStays

LEMMA WishInitialization ==
  ASSUME RequestsInv, WishInv, FinishInitialization
  PROVE  WishInv'
  <1>1. session \in SessionFields
    BY SessionIsRecord DEF RequestsInv
  <1>2. UNCHANGED <<inbox, doing, outbox, wanted, state>> /\ shown' = Identified(state)
    BY DEF FinishInitialization, contract
  <1>3. /\ session'.desired = session.desired /\ session'.pending = session.pending
        /\ session'.inFlight = session.inFlight
        /\ session'.step = "wished" => session.step = "wished"
    BY <1>1 DEF FinishInitialization, SessionFields
  <1>4. Hidden => ~shown'
    BY <1>2 DEF Hidden, Identified
  <1> QED BY <1>2, <1>3, <1>4 DEF WishInv, Wishing, HiddenInv, Hiding, Hidden

LEMMA WishReceive ==
  ASSUME RequestsInv, WishInv, ReceiveUpdate
  PROVE  WishInv'
  <1> DEFINE update == Head(outbox)
             wish == IsWish(update)
             settled == session.inFlight = {}
  <1>1. /\ Receive /\ session.step = "receive" /\ session' = Cleared(update)
        /\ shown' = IF Applies(update) THEN update.identified ELSE shown
    BY DEF ReceiveUpdate
  <1>2. /\ outbox # <<>> /\ outbox' = Tail(outbox) /\ outbox \in Seq(Update)
        /\ UNCHANGED <<inbox, doing, wanted, state>>
    BY <1>1 DEF Receive, RequestsInv, ContractInv, ContractTypeOK
  <1>3. session \in SessionFields
    BY SessionIsRecord DEF RequestsInv
  <1>4. /\ session'.desired = session.desired /\ session'.pending = session.pending
        /\ session'.step = "receive"
        /\ session'.inFlight = IF wish THEN {} ELSE session.inFlight
    BY <1>1, <1>3 DEF Cleared, IsWish, SessionFields
  <1>5. /\ Tells(outbox, session.inFlight) => Tells(outbox', session.inFlight)
        /\ Answered(outbox') \/ wish => Answered(outbox)
        /\ Quiet(outbox, settled) => /\ Quiet(outbox', settled \/ wish)
                                     /\ settled \/ wish => ~update.identified
        /\ Tells(outbox, session.inFlight) /\ wish => session.inFlight = {update.flag}
    BY <1>2, ReceivedAnswer
  <1>6. ContractInv'
    BY <1>1, ReceiveCounts DEF RequestsInv
  <1>7. wish => OpenRefreshes' = 0
    <2> SUFFICES ASSUME wish PROVE OpenRefreshes' = 0
      OBVIOUS
    <2>1. ~IsHealth(update)
      BY DEF IsWish, IsHealth
    <2>2. One(~IsHealth(update)) = 1 /\ One(session.refreshInFlight) \in {0, 1}
      BY <2>1, OneBounds
    <2>3. OpenRefreshes = OpenRefreshes' + One(~IsHealth(update))
      BY <1>1, ReceiveCounts DEF RequestsInv
    <2>4. OpenRefreshes = OpenRefreshes' + 1
      BY Zenon, <2>2, <2>3
    <2>5. OpenRefreshes <= One(session.refreshInFlight) /\ OpenRefreshes' \in Nat
      BY <1>6, OpenAreNat DEF RequestsInv, Tracked
    <2> HIDE DEF update
    <2> QED BY <2>2, <2>4, <2>5
  <1>8. Wishing'
    <2>1. CASE wish
      <3>1. Tells(inbox', {}) /\ Tells(doing', {}) /\ Tells(outbox', {})
        BY <1>6, <1>7, <2>1, NoWishes
      <3>2. session'.inFlight = {}
        BY <1>4, <2>1
      <3> QED BY <1>2, <1>4, <3>1, <3>2 DEF WishInv, Wishing
    <2>2. CASE ~wish
      <3>1. session'.inFlight = session.inFlight
        BY <1>4, <2>2
      <3> QED BY <1>2, <1>4, <1>5, <3>1 DEF WishInv, Wishing
    <2> QED BY <2>1, <2>2
  <1>9. HiddenInv'
    <2> SUFFICES ASSUME Hiding'
                 PROVE  /\ session'.inFlight = {} => ~shown'
                        /\ session'.inFlight = {} \/ Answered(outbox') => Hidden'
                        /\ Quiet(outbox', session'.inFlight = {})
      BY DEF HiddenInv
    <2>1. Hiding
      BY <1>4 DEF Hiding
    <2>2. (session'.inFlight = {}) = (settled \/ wish)
      BY <1>4
    <2>3. Quiet(outbox', settled \/ wish) /\ (settled \/ wish => ~update.identified)
      BY <1>5, <2>1 DEF WishInv, HiddenInv
    <2>4. settled \/ wish \/ Answered(outbox') => Hidden
      BY <1>5, <2>1 DEF WishInv, HiddenInv
    <2>5. Hidden' = Hidden
      BY <1>2 DEF Hidden
    <2>6. session'.inFlight = {} => ~shown'
      <3> SUFFICES ASSUME settled \/ wish PROVE ~shown'
        BY <2>2
      <3>1. CASE Applies(update)
        BY <1>1, <2>3, <3>1
      <3>2. CASE ~Applies(update) /\ settled
        BY <1>1, <2>1, <3>2 DEF WishInv, HiddenInv
      <3>3. CASE ~settled /\ wish
        <4>1. session.inFlight = {update.flag} /\ session.inFlight \subseteq {session.desired}
          BY <1>5, <2>1, <3>3 DEF WishInv, Wishing, Hiding
        <4>2. update.flag = session.desired
          BY <4>1
        <4>3. Applies(update)
          BY <3>3, <4>2 DEF Applies, SensitiveChanged, IsWish
        <4> QED BY <1>1, <2>3, <3>3, <4>3
      <3> QED BY <3>1, <3>2, <3>3
    <2> QED BY <2>2, <2>3, <2>4, <2>5, <2>6
  <1> QED BY <1>8, <1>9 DEF WishInv

LEMMA WishWish ==
  ASSUME RequestsInv, WishInv, WishSensitive
  PROVE  WishInv'
  <1>1. session \in SessionFields
    BY SessionIsRecord DEF RequestsInv
  <1>2. PICK include \in session.pending : Wish(include)
    BY DEF WishSensitive
  <1>3. /\ session'.desired = session.desired /\ session'.pending = session.pending
        /\ session'.inFlight = session.inFlight
    BY <1>1 DEF WishSensitive, SessionFields
  <1>4. UNCHANGED <<inbox, doing, outbox>> /\ wanted' = include
    BY <1>2 DEF Wish
  <1>5. session.pending # {} /\ session.pending = {include}
    BY <1>2 DEF WishInv, Wishing
  <1> QED BY <1>3, <1>4, <1>5 DEF WishInv, Wishing, HiddenInv, Hiding

LEMMA WishSend ==
  ASSUME RequestsInv, WishInv, RequestSensitive
  PROVE  WishInv'
  <1>1. session \in SessionFields /\ shown' = shown
    BY SessionIsRecord DEF RequestsInv, RequestSensitive
  <1>2. PICK include \in session.pending :
          Request(SetSensitive(include),
                  [session EXCEPT !.refreshInFlight = TRUE, !.inFlight = {include},
                                  !.pending = {}])
    BY DEF RequestSensitive
  <1>3. /\ session.pending = {include} /\ include = session.desired /\ wanted = include
        /\ ~session.refreshInFlight
    BY <1>2 DEF RequestSensitive, RequestsInv, Tracked, WishInv, Wishing
  <1>4. CASE /\ Submit(SetSensitive(include))
             /\ session' = [session EXCEPT !.refreshInFlight = TRUE, !.inFlight = {include},
                                           !.pending = {}, !.step = "between"]
    <2>1. /\ inbox' = <<SetSensitive(include)>> /\ UNCHANGED <<doing, outbox, wanted, state>>
      BY <1>4 DEF Submit
    <2>2. /\ session'.desired = session.desired /\ session'.pending = {}
          /\ session'.inFlight = {include} /\ session'.step = "between"
      BY <1>1, <1>4 DEF SessionFields
    <2>3. OpenRefreshes = 0
      <3>1. One(session.refreshInFlight) = 0
        BY <1>3, OneBounds
      <3>2. OpenRefreshes <= One(session.refreshInFlight) /\ OpenRefreshes \in Nat
        BY OpenAreNat DEF RequestsInv, Tracked
      <3> QED BY <3>1, <3>2
    <2>4. ~Answered(outbox) /\ Tells(doing, {include}) /\ Tells(outbox, {include})
      BY <2>3, NoWishes DEF RequestsInv
    <2>5. Tells(inbox', {include})
      <3>1. SetSensitive(include).flag = include
        BY DEF SetSensitive
      <3> QED BY <2>1, <3>1, FewCommands
    <2>6. Wishing'
      BY <1>3, <2>1, <2>2, <2>4, <2>5 DEF Wishing
    <2>7. Quiet(outbox, FALSE)
      <3>1. \A i \in DOMAIN outbox : \A j \in 1..i : j \in DOMAIN outbox
        <4>1. outbox \in Seq(Update)
          BY DEF RequestsInv, ContractInv, ContractTypeOK
        <4>2. Len(outbox) \in Nat /\ DOMAIN outbox = 1..Len(outbox)
          BY <4>1
        <4> QED BY <4>2
      <3> QED BY <2>4, <3>1 DEF Quiet, Answered
    <2>8. HiddenInv'
      BY <2>1, <2>2, <2>4, <2>7 DEF HiddenInv
    <2> QED BY <2>6, <2>8 DEF WishInv
  <1>5. CASE /\ UNCHANGED contract
             /\ \/ session' = [session EXCEPT !.step = "between"]
                \/ session' = [session EXCEPT !.step = "between", !.disconnected = TRUE]
    <2>1. /\ session'.desired = session.desired /\ session'.pending = session.pending
          /\ session'.inFlight = session.inFlight /\ session'.step = "between"
      BY <1>1, <1>5 DEF SessionFields
    <2> QED BY <1>1, <1>5, <2>1, WishStays
  <1> QED BY <1>2, <1>4, <1>5 DEF Request

LEMMA WishOthers ==
  ASSUME RequestsInv, WishInv, RequestHealth \/ RequestRefresh
  PROVE  WishInv'
  <1>1. session \in SessionFields /\ shown' = shown
    BY SessionIsRecord DEF RequestsInv, RequestHealth, RequestRefresh
  <1>2. /\ session'.desired = session.desired /\ session'.pending = session.pending
        /\ session'.inFlight = session.inFlight /\ session'.step = "between"
    BY <1>1 DEF RequestHealth, RequestRefresh, Request, SessionFields
  <1>3. \/ UNCHANGED contract
        \/ \E cmd : Submit(cmd) /\ ~IsWish(cmd)
    BY DEF RequestHealth, RequestRefresh, Request, Refresh, StorageHealth, IsWish
  <1>4. CASE UNCHANGED contract
    BY <1>1, <1>2, <1>4, WishStays
  <1>5. CASE \E cmd : Submit(cmd) /\ ~IsWish(cmd)
    <2>1. PICK cmd : Submit(cmd) /\ ~IsWish(cmd)
      BY <1>5
    <2>2. inbox' = <<cmd>> /\ UNCHANGED <<doing, outbox, wanted, state>>
      BY <2>1 DEF Submit
    <2>3. Tells(inbox', session.inFlight)
      BY <2>1, <2>2, FewCommands
    <2> QED BY <1>1, <1>2, <2>2, <2>3 DEF WishInv, Wishing, HiddenInv, Hiding, Hidden
  <1> QED BY <1>3, <1>4, <1>5

LEMMA WishUser ==
  ASSUME RequestsInv, WishInv, User
  PROVE  WishInv'
  <1>1. session \in SessionFields
    BY SessionIsRecord DEF RequestsInv
  <1>2. UserActs /\ UNCHANGED contract /\ shown' = shown /\ session'.step = session.step
    BY UserFlags DEF FlagsStay
  <1>3. CASE \E include \in BOOLEAN : SetIdentifyingInformation(include)
    <2>1. PICK include \in BOOLEAN : SetIdentifyingInformation(include)
      BY <1>3
    <2>2. /\ session'.desired = include /\ session'.pending = {include}
          /\ session'.inFlight = session.inFlight /\ session'.step = "between"
      BY <1>1, <1>2, <2>1 DEF SetIdentifyingInformation, UserActs, SessionFields
    <2>3. UNCHANGED <<inbox, doing, outbox>>
      BY <1>2 DEF contract
    <2> QED BY <2>2, <2>3 DEF WishInv, Wishing, HiddenInv, Hiding
  <1>4. CASE ~\E include \in BOOLEAN : SetIdentifyingInformation(include)
    <2>1. /\ session'.desired = session.desired /\ session'.pending = session.pending
          /\ session'.inFlight = session.inFlight
      BY <1>1, <1>4 DEF User, TogglePaused, Rediscover, SetInterval, RefreshStorageHealth,
                        SessionFields
    <2> QED BY <1>2, <2>1, WishStays
  <1> QED BY <1>3, <1>4

(* An answer leaves the monitor: hidden whenever it matters. *)
LEMMA WishAnswered ==
  ASSUME RequestsInv, WishInv, UNCHANGED <<ui, inbox, wanted>>, NEW cmd \in Command,
         state' \in Collector,
         outbox' = Append(outbox, Answer(cmd, state')),
         Tells(doing', session.inFlight),
         IsWish(cmd) => session.inFlight = {cmd.flag},
         Hiding /\ (session.inFlight = {} \/ Answered(outbox) \/ IsWish(cmd)) => Hidden'
  PROVE  WishInv'
  <1> DEFINE answer == Answer(cmd, state')
             settled == session.inFlight = {}
  <1>1. session' = session /\ shown' = shown
    BY DEF ui
  <1>2. /\ answer \in Update /\ answer.flag = cmd.flag /\ (IsWish(answer) <=> IsWish(cmd))
        /\ Hidden' => ~answer.identified
    <2>1. answer \in Update
      BY Constructors
    <2> QED BY <2>1 DEF Answer, IsWish, Hidden
  <1>3. outbox \in Seq(Update) /\ outbox' = Append(outbox, answer)
    BY DEF RequestsInv, ContractInv, ContractTypeOK
  <1> HIDE DEF answer
  <1>4. /\ Tells(outbox, session.inFlight) /\ (IsWish(answer) => session.inFlight = {answer.flag})
             => Tells(outbox', session.inFlight)
        /\ Answered(outbox') => Answered(outbox) \/ IsWish(answer)
        /\ Quiet(outbox, settled) /\ (settled \/ Answered(outbox) \/ IsWish(answer) => ~answer.identified)
             => Quiet(outbox', settled)
    BY <1>2, <1>3, AppendedAnswer
  <1>5. Wishing'
    <2>1. Tells(outbox', session.inFlight)
      BY <1>2, <1>4 DEF WishInv, Wishing
    <2> QED BY <1>1, <2>1 DEF WishInv, Wishing
  <1>6. HiddenInv'
    <2> SUFFICES ASSUME Hiding
                 PROVE  /\ session.inFlight = {} => ~shown
                        /\ session.inFlight = {} \/ Answered(outbox') => Hidden'
                        /\ Quiet(outbox', session.inFlight = {})
      BY <1>1 DEF HiddenInv, Hiding
    <2>1. session.inFlight = {} => ~shown
      BY DEF WishInv, HiddenInv
    <2>2. session.inFlight = {} \/ Answered(outbox') => Hidden'
      BY <1>2, <1>4
    <2>3. settled \/ Answered(outbox) \/ IsWish(answer) => ~answer.identified
      BY <1>2
    <2>4. Quiet(outbox, settled)
      BY DEF WishInv, HiddenInv
    <2> QED BY <1>4, <2>1, <2>2, <2>3, <2>4
  <1> QED BY <1>5, <1>6 DEF WishInv

(* A step of the monitor that answers nothing and keeps the collector. *)
LEMMA WishMoves ==
  ASSUME WishInv, UNCHANGED <<ui, outbox, wanted, state>>,
         Tells(inbox', session.inFlight), Tells(doing', session.inFlight)
  PROVE  WishInv'
  BY DEF ui, WishInv, Wishing, HiddenInv, Hiding, Hidden

(* The command being carried out. *)
LEMMA Carried ==
  ASSUME RequestsInv, WishInv, doing # <<>>
  PROVE  /\ Head(doing) \in Command
         /\ IsWish(Head(doing)) => session.inFlight = {Head(doing).flag}
  <1>1. Head(doing) \in Command /\ doing = <<Head(doing)>>
    BY Single DEF RequestsInv, ContractInv, ContractTypeOK
  <1>2. Tells(doing, session.inFlight)
    BY DEF WishInv, Wishing
  <1> QED BY <1>1, <1>2, FewCommands

LEMMA WishMonitor ==
  ASSUME RequestsInv, WishInv, Monitor
  PROVE  WishInv'
  <1>1. UNCHANGED ui /\ open /\ state \in Collector /\ wanted \in BOOLEAN
    BY DEF Monitor, RequestsInv, ContractInv, ContractTypeOK
  <1>2. Tells(<<>>, session.inFlight)
    BY FewCommands
  <1>3. Tells(inbox, session.inFlight) /\ Tells(doing, session.inFlight)
    BY DEF WishInv, Wishing
  <1>4. CASE Take
    <2>1. doing' = inbox /\ inbox' = <<>> /\ UNCHANGED <<outbox, wanted, state>>
      BY <1>4 DEF Take
    <2> QED BY <1>1, <1>2, <1>3, <2>1, WishMoves
  <1>5. CASE CollectHealth
    <2>1. UNCHANGED <<inbox, doing, outbox, wanted, state>>
      BY <1>5 DEF CollectHealth
    <2> QED BY <1>1, <1>3, <2>1, WishMoves
  <1>6. CASE Stop
    <2>1. doing' = <<>> /\ inbox' = <<>> /\ UNCHANGED <<outbox, wanted, state>>
      BY <1>6 DEF Stop
    <2> QED BY <1>1, <1>2, <2>1, WishMoves
  <1>7. CASE DoRefresh
    <2> DEFINE cmd == Head(doing)
    <2>1. /\ doing # <<>> /\ cmd.op = "Refresh" /\ state' \in Refreshed(state, cmd.flag)
          /\ outbox' = Append(outbox, Answer(cmd, state')) /\ doing' = <<>>
          /\ UNCHANGED <<inbox, wanted>>
      BY <1>1, <1>7 DEF DoRefresh, Carry, Deliver
    <2>2. cmd \in Command /\ ~IsWish(cmd)
      BY <2>1, Carried DEF IsWish
    <2> HIDE DEF cmd
    <2>3. state' \in Collector /\ (Hidden => Hidden')
      BY <1>1, <2>1, CollectorOperations DEF Hidden
    <2>4. Hiding /\ (session.inFlight = {} \/ Answered(outbox) \/ IsWish(cmd)) => Hidden'
      BY <2>2, <2>3 DEF WishInv, HiddenInv
    <2> QED BY <1>1, <1>2, <2>1, <2>2, <2>3, <2>4, WishAnswered
  <1>8. CASE DoSetSensitive
    <2> DEFINE cmd == Head(doing)
    <2>1. /\ doing # <<>> /\ cmd.op = "SetSensitive" /\ state' \in SensitiveSet(state, cmd.flag)
          /\ outbox' = Append(outbox, Answer(cmd, state')) /\ doing' = <<>>
          /\ UNCHANGED <<inbox, wanted>>
      BY <1>1, <1>8 DEF DoSetSensitive, Carry, Deliver
    <2>2. cmd \in Command /\ session.inFlight = {cmd.flag}
      BY <2>1, Carried DEF IsWish
    <2> HIDE DEF cmd
    <2>3. cmd.flag \in BOOLEAN
      BY <2>2 DEF Command
    <2>4. state' \in Collector /\ (~cmd.flag => Hidden')
      BY <1>1, <2>1, <2>3, CollectorOperations DEF Hidden
    <2>5. Hiding => ~cmd.flag
      BY <2>2 DEF Hiding, WishInv, Wishing
    <2> QED BY <1>1, <1>2, <2>1, <2>2, <2>4, <2>5, WishAnswered
  <1>9. CASE DoStorageHealth
    <2> DEFINE cmd == Head(doing)
    <2>1. doing # <<>> /\ cmd.op = "StorageHealth" /\ doing' = <<>> /\ UNCHANGED <<inbox, wanted, state>>
      BY <1>9 DEF DoStorageHealth, Carry
    <2>2. cmd \in Command /\ ~IsWish(cmd)
      BY <2>1, Carried DEF IsWish
    <2>3. outbox' = outbox \/ outbox' = Append(outbox, Answer(cmd, state))
      BY <1>1, <1>9 DEF DoStorageHealth, Deliver
    <2> HIDE DEF cmd
    <2>4. CASE outbox' = outbox
      BY <1>1, <1>2, <1>3, <2>1, <2>4, WishMoves
    <2>5. CASE outbox' = Append(outbox, Answer(cmd, state))
      <3>1. state' = state
        BY <2>1
      <3>2. state' \in Collector /\ outbox' = Append(outbox, Answer(cmd, state'))
        BY <1>1, <2>5, <3>1
      <3>3. Hiding /\ (session.inFlight = {} \/ Answered(outbox) \/ IsWish(cmd)) => Hidden'
        BY <2>2, <3>1 DEF WishInv, HiddenInv, Hidden
      <3> QED BY <1>1, <1>2, <2>1, <2>2, <3>2, <3>3, WishAnswered
    <2> QED BY <2>3, <2>4, <2>5
  <1>10. CASE ReportHealth
    <2> DEFINE job == Head(collected)
               cmd == StorageHealth(job.ids)
    <2>1. /\ collected # <<>> /\ state' \in HealthApplied(state, job, wanted)
          /\ outbox' = Append(outbox, Answer(cmd, state'))
          /\ UNCHANGED <<inbox, doing, wanted>>
      BY <1>1, <1>10 DEF ReportHealth, Deliver
    <2>2. job \in Job
      BY <2>1, Single DEF RequestsInv, ContractInv, ContractTypeOK
    <2>3. cmd \in Command /\ ~IsWish(cmd)
      <3>1. job.ids \in SUBSET Devices
        BY <2>2 DEF Job
      <3> QED BY <3>1, Constructors DEF StorageHealth, IsWish
    <2> HIDE DEF job, cmd
    <2>4. /\ state' \in Collector
          /\ Hidden /\ ~wanted => Hidden'
      BY <1>1, <2>1, <2>2, HealthKept DEF Hidden
    <2>5. Hiding => ~wanted
      BY DEF Hiding, WishInv, Wishing
    <2>6. Hiding /\ (session.inFlight = {} \/ Answered(outbox) \/ IsWish(cmd)) => Hidden'
      BY <2>3, <2>4, <2>5 DEF WishInv, HiddenInv
    <2> QED BY <1>1, <1>3, <2>1, <2>3, <2>4, <2>6, WishAnswered
  <1> QED BY <1>4, <1>5, <1>6, <1>7, <1>8, <1>9, <1>10 DEF Monitor, WorkerSteps

LEMMA WishInductive ==
  ASSUME RequestsInv, WishInv, [SessionNext]_sessionVars
  PROVE  WishInv'
  <1>1. CASE UNCHANGED sessionVars
    <2>1. UNCHANGED contract /\ UNCHANGED <<session, shown>>
      BY <1>1 DEF sessionVars, ui
    <2> QED BY <2>1, WishStays
  <1>2. CASE MainLoop
    BY <1>2, WishInitialization, WishQuiet, WishReceive, WishWish, WishSend, WishOthers
       DEF MainLoop
  <1> QED BY <1>1, <1>2, WishQuiet, WishUser, WishMonitor DEF SessionNext

(* Once hiding identifying values has been carried out, none is displayed  *)
(* and none is on its way, whatever refreshes and health results were      *)
(* under way when the user asked for it (session.rs and the worker of      *)
(* monitor.rs together).                                                   *)
THEOREM SettledHidingHides == SessionSpec => []HiddenWhenSettled
  <1>1. SessionInit => RequestsInv /\ WishInv
    BY RequestsStart, WishStart
  <1>2. RequestsInv /\ WishInv /\ [SessionNext]_sessionVars => (RequestsInv /\ WishInv)'
    BY RequestsInductive, WishInductive
  <1>3. WishInv => HiddenWhenSettled
    BY DEF WishInv, HiddenInv, Hiding, Quiet, HiddenWhenSettled
  <1> QED BY <1>1, <1>2, <1>3, PTL DEF SessionSpec
=============================================================================
