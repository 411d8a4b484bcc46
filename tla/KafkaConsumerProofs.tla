------------------------- MODULE KafkaConsumerProofs -------------------------
(* Theorems of KafkaConsumer, for every group, partition and set of        *)
(* messages that do not decode, and without the bounds of the runs: the    *)
(* bounded counters occur in guards only.                                  *)
EXTENDS KafkaConsumer, TLAPS

\* The strengthening holds of the first states.
LEMMA InitIInv == Init => IInv
BY KafkaAssumption DEF KafkaAssumption, Init, IInv, TypeOK, PrefixHanded,
   CommittedHanded, FetchedHanded, NoPoisonHanded, HandedBelow, Offsets

(* A step that hands out nothing keeps what is handed below any position.  *)
LEMMA LoopIInv ==
  ASSUME IInv, NEW m \in Members, Start(m) \/ Loop(m)
  PROVE  IInv'
<1> USE KafkaAssumption DEF KafkaAssumption, IInv, TypeOK, PrefixHanded,
      CommittedHanded, FetchedHanded, NoPoisonHanded, HandedBelow, Offsets,
      group, goroutine, receiver, history, bounds
<1>1. CASE Start(m)
  BY <1>1 DEF Start
<1>2. CASE SelectDone(m)
  BY <1>2 DEF SelectDone
<1>3. CASE Fetch(m)
  <2>1. CASE pos[m] \in Poison
    BY <1>3, <2>1 DEF Fetch
  <2>2. CASE pos[m] \notin Poison
    BY <1>3, <2>2 DEF Fetch
  <2> QED BY <2>1, <2>2
<1>4. CASE FetchError(m)
  BY <1>4 DEF FetchError
<1> QED BY <1>1, <1>2, <1>3, <1>4 DEF Loop

(* The handover adds one message, and every earlier one was added before.  *)
LEMMA HandOverIInv ==
  ASSUME IInv, NEW m \in Members, HandOver(m)
  PROVE  IInv'
<1> USE KafkaAssumption DEF KafkaAssumption, IInv, TypeOK, Offsets, HandedBelow,
      group, goroutine, receiver, history, bounds, HandOver
<1>1. hand[m] \in Offsets \ Poison /\ HandedBelow(hand[m])
  BY DEF FetchedHanded
<1>2. tried' = tried \cup {hand[m]} /\ UNCHANGED <<committed, pos, hand, owner>>
  OBVIOUS
<1>3. TypeOK'
  BY <1>1
<1>4. PrefixHanded' /\ NoPoisonHanded'
  BY <1>1, <1>2 DEF PrefixHanded, NoPoisonHanded
<1>5. CommittedHanded'
  BY <1>2 DEF CommittedHanded
<1>6. FetchedHanded'
  <2> SUFFICES ASSUME NEW n \in Members
               PROVE  /\ loop'[n] \in {"idle", "top", "fetch"} /\ owner = n
                           => HandedBelow(pos[n])'
                      /\ loop'[n] = "send" => /\ HandedBelow(hand[n])'
                                              /\ hand[n] \in Offsets \ Poison
                      /\ loop'[n] = "send" /\ owner = n
                           => pos[n] <= hand[n] + 1 \/ HandedBelow(pos[n])'
                      /\ work'[n] \in {"process", "commit"}
                           => task'[n] \in tried'
    BY <1>2 DEF FetchedHanded
  <2>1. CASE n = m
    BY <1>1, <1>2, <2>1 DEF FetchedHanded
  <2>2. CASE n # m
    BY <1>2, <2>2 DEF FetchedHanded
  <2> QED BY <2>1, <2>2
<1> QED BY <1>3, <1>4, <1>5, <1>6

(* The receiver commits nothing above a message it was handed.             *)
LEMMA ReceiverIInv ==
  ASSUME IInv, NEW m \in Members, Receiver(m)
  PROVE  IInv'
<1> USE KafkaAssumption DEF KafkaAssumption, IInv, TypeOK, PrefixHanded,
      CommittedHanded, FetchedHanded, NoPoisonHanded, HandedBelow, Offsets,
      group, goroutine, receiver, history, bounds
<1>1. CASE Process(m)
  BY <1>1 DEF Process
<1>2. CASE CommitMessage(m)
  <2>1. CASE committed' = committed
    BY <1>2, <2>1 DEF CommitMessage
  <2>2. CASE committed' # committed
    <3>1. committed' = task[m] + 1 /\ task[m] \in tried
      BY <1>2, <2>2 DEF CommitMessage
    <3>2. committed' \in 0..N
      BY <3>1
    <3>3. CommittedHanded'
      <4> SUFFICES ASSUME NEW k \in 0..(N-1), k < task[m] + 1
                   PROVE  k \in tried
        BY <1>2, <3>1 DEF CommitMessage
      <4>1. k < task[m] \/ k = task[m]
        BY <3>1
      <4> QED BY <3>1, <4>1
    <3> QED BY <1>2, <3>2, <3>3 DEF CommitMessage
  <2> QED BY <2>1, <2>2
<1>3. CASE ReceiverEnds(m)
  BY <1>3 DEF ReceiverEnds
<1> QED BY <1>1, <1>2, <1>3 DEF Receiver

(* A new owner starts at the committed position, below which all is handed. *)
LEMMA EnvironmentIInv ==
  ASSUME IInv, NEW m \in Members, Environment(m)
  PROVE  IInv'
<1> USE KafkaAssumption DEF KafkaAssumption, IInv, TypeOK, PrefixHanded,
      CommittedHanded, FetchedHanded, NoPoisonHanded, HandedBelow, Offsets,
      group, goroutine, receiver, history, bounds
<1>1. CASE Assign(m)
  BY <1>1 DEF Assign
<1>2. CASE Cancel(m)
  BY <1>2 DEF Cancel
<1>3. CASE Close(m)
  BY <1>3 DEF Close
<1>4. CASE Crash(m)
  BY <1>4 DEF Crash
<1> QED BY <1>1, <1>2, <1>3, <1>4 DEF Environment

(* Nothing is committed, fetched or held before all below it was handed to *)
(* Process (consumer.go:49-71).                                            *)
THEOREM ConsumerInvariant == Spec => []IInv
<1>1. IInv /\ UNCHANGED vars => IInv'
  BY DEF vars, IInv, TypeOK, PrefixHanded, CommittedHanded, FetchedHanded,
         NoPoisonHanded, HandedBelow
<1>2. IInv /\ [Next]_vars => IInv'
  BY <1>1, LoopIInv, HandOverIInv, ReceiverIInv, EnvironmentIInv DEF Next
<1> QED BY InitIInv, <1>2, PTL DEF Spec

(* At least once: no committed position skips a message (consumer.go:79).  *)
THEOREM NoMessageSkippedHolds == Spec => []NoMessageSkipped
<1>1. IInv => NoMessageSkipped
  BY DEF IInv, CommittedHanded, HandedBelow, NoMessageSkipped
<1> QED BY <1>1, ConsumerInvariant, PTL

(* A message that does not decode ends its partition (consumer.go:62-66).  *)
THEOREM PoisonBlocksHolds == Spec => []PoisonBlocks
<1>1. IInv => PoisonBlocks
  <2> SUFFICES ASSUME IInv, NEW o \in Poison
               PROVE  committed <= o /\ \A k \in tried : k < o
    BY DEF PoisonBlocks
  <2> USE KafkaAssumption DEF KafkaAssumption, IInv, TypeOK, NoPoisonHanded,
        Offsets, HandedBelow
  <2>1. o \in Offsets /\ o \notin tried
    OBVIOUS
  <2>2. committed <= o
    BY <2>1 DEF CommittedHanded
  <2>3. ASSUME NEW k \in tried PROVE k < o
    BY <2>1 DEF PrefixHanded
  <2> QED BY <2>2, <2>3
<1> QED BY <1>1, ConsumerInvariant, PTL
-----------------------------------------------------------------------------
(* Every step is a handover, a commit, or hidden from AtLeastOnce.         *)
LEMMA StepRefines ==
  ASSUME IInv, [Next]_vars
  PROVE  [Log!ANext]_<<tried, committed>>
<1> USE KafkaAssumption DEF KafkaAssumption, IInv, TypeOK, HandedBelow, Offsets,
      group, goroutine, receiver, history, bounds
<1>1. ASSUME NEW m \in Members, HandOver(m)
      PROVE  \E o \in 0..(N-1) : Log!HandOut(o)
  <2>1. Log!HandOut(hand[m])
    BY <1>1 DEF HandOver, FetchedHanded, Log!HandOut
  <2>2. hand[m] \in 0..(N-1)
    BY <1>1 DEF HandOver, FetchedHanded
  <2> QED BY <2>1, <2>2
<1>2. ASSUME NEW m \in Members, CommitMessage(m), committed' # committed
      PROVE  \E c \in 0..N : Log!Commit(c)
  <2>1. committed' = task[m] + 1 /\ task[m] \in tried /\ UNCHANGED tried
    BY <1>2 DEF CommitMessage, FetchedHanded
  <2>2. Log!Commit(task[m] + 1) /\ task[m] + 1 \in 0..N
    BY <2>1 DEF PrefixHanded, Log!Commit
  <2> QED BY <2>2
<1>3. ASSUME NEW m \in Members,
             \/ Start(m) \/ Loop(m) \/ Process(m) \/ ReceiverEnds(m)
             \/ Environment(m)
      PROVE  UNCHANGED <<tried, committed>>
  BY <1>3 DEF Start, Loop, SelectDone, Fetch, FetchError, Process, ReceiverEnds,
     Environment, Assign, Cancel, Close, Crash
<1>4. ASSUME NEW m \in Members, CommitMessage(m), committed' = committed
      PROVE  UNCHANGED <<tried, committed>>
  BY <1>4 DEF CommitMessage
<1>5. CASE UNCHANGED vars
  BY <1>5 DEF vars
<1> HIDE DEF IInv, TypeOK, HandedBelow, Offsets
<1> QED
  BY <1>1, <1>2, <1>3, <1>4, <1>5 DEF Next, Receiver, Log!ANext

(* The group keeps the at-least-once promise of messaging.md:108-111.      *)
THEOREM ConsumerImplementsAtLeastOnce == Spec => ImplementsAtLeastOnce
<1>1. Init => Log!AInit
  BY DEF Init, Log!AInit
<1>2. IInv /\ [Next]_vars => [Log!ANext]_<<tried, committed>>
  BY StepRefines
<1> QED
  BY <1>1, <1>2, ConsumerInvariant, PTL DEF Spec, ImplementsAtLeastOnce, Log!ASpec
=============================================================================
