---------------------------- MODULE KafkaConsumer ----------------------------
(***************************************************************************)
(* pkg/lib/kafka/consumer.go: NewConsumer, Consume, Commit and Close, in a *)
(* consumer group that reads one partition. Each member is a process with  *)
(*   - the goroutine Consume starts (loop), which fetches, decodes and     *)
(*     sends on an unbuffered channel it alone closes;                     *)
(*   - the receiver (work), external: the loop of kafka_test.go, with the  *)
(*     Process of .kiro/steering/messaging.md for a body.                  *)
(* The broker, the reader of kafka-go and the group are external: a reader *)
(* starts at the committed position when its member becomes the owner.     *)
(***************************************************************************)
EXTENDS Naturals

CONSTANTS Members,    \* processes of the group
          N,          \* the partition holds the offsets 0 .. N-1
          Poison,     \* the offsets Unmarshal rejects
          None,       \* no owner
          MaxCrashes, \* bound: crashes, closed readers included
          MaxMoves,   \* bound: rebalances away from a living owner
          MaxCancels, \* bound: cancelled contexts
          Drains      \* does the receiver drain the channel after ctx.Done?

ASSUME KafkaAssumption == /\ N \in Nat
                          /\ Poison \subseteq 0..(N-1)
                          /\ None \notin Members
                          /\ Drains \in BOOLEAN

VARIABLES
  owner,     \* the member the partition is assigned to
  committed, \* the group's committed position
  pos,       \* member -> the offset its reader fetches next
  reader,    \* member -> "none", "open", "closed"
  ctx,       \* member -> "live", "done"
  loop,      \* member -> the goroutine of consumer.go:41-74
  hand,      \* member -> the offset that goroutine holds in "send"
  work,      \* member -> the receiver
  task,      \* member -> the offset the receiver holds
  tried,     \* history: the offsets handed to Process
  failed,    \* history: the offsets whose last Process returned an error
  crashes, moves, cancels

vars == <<owner, committed, pos, reader, ctx, loop, hand, work, task, tried,
          failed, crashes, moves, cancels>>
bounds == <<crashes, moves, cancels>>
history == <<tried, failed>>
group == <<owner, committed>>
goroutine == <<pos, loop, hand>>
receiver == <<work, task>>

Offsets == 0..(N-1)

TypeOK ==
  /\ owner \in Members \cup {None}
  /\ committed \in 0..N
  /\ pos \in [Members -> 0..N]
  /\ reader \in [Members -> {"none", "open", "closed"}]
  /\ ctx \in [Members -> {"live", "done"}]
  /\ loop \in [Members -> {"idle", "top", "fetch", "send", "stopped"}]
  /\ hand \in [Members -> 0..N]
  /\ work \in [Members -> {"idle", "receive", "process", "commit", "ended"}]
  /\ task \in [Members -> 0..N]
  /\ tried \subseteq Offsets
  /\ failed \subseteq Offsets

Init ==
  /\ owner = None /\ committed = 0
  /\ pos = [m \in Members |-> 0]
  /\ reader = [m \in Members |-> "none"]
  /\ ctx = [m \in Members |-> "live"]
  /\ loop = [m \in Members |-> "idle"]
  /\ hand = [m \in Members |-> 0]
  /\ work = [m \in Members |-> "idle"]
  /\ task = [m \in Members |-> 0]
  /\ tried = {} /\ failed = {}
  /\ crashes = 0 /\ moves = 0 /\ cancels = 0
-----------------------------------------------------------------------------
(* The goroutine of Consume.                                               *)

\* consumer.go:87-151 and 39-41. A broker that cannot be dialled or a missing
\* topic is an error that starts nothing; otherwise reader and loop exist.
Start(m) ==
  /\ loop[m] = "idle"
  /\ reader' = [reader EXCEPT ![m] = "open"]
  /\ loop' = [loop EXCEPT ![m] = "top"]
  /\ work' = [work EXCEPT ![m] = "receive"]
  /\ UNCHANGED <<group, pos, ctx, hand, task, history, bounds>>

\* Mutant: the loop does not look at ctx.
SelectNeverDone(m) ==
  /\ loop[m] = "top"
  /\ loop' = [loop EXCEPT ![m] = "fetch"]
  /\ UNCHANGED <<group, pos, reader, ctx, hand, receiver, history, bounds>>

\* consumer.go:43-49. Done ctx: close(ch) and return; otherwise fetch.
SelectDone(m) ==
  /\ loop[m] = "top"
  /\ loop' = [loop EXCEPT ![m] = IF ctx[m] = "done" THEN "stopped" ELSE "fetch"]
  /\ UNCHANGED <<group, pos, reader, ctx, hand, receiver, history, bounds>>

\* Mutant: a message that does not decode is skipped.
FetchSkippingPoison(m) ==
  /\ loop[m] = "fetch" /\ reader[m] = "open"
  /\ owner = m /\ pos[m] < N
  /\ pos' = [pos EXCEPT ![m] = @ + 1]
  /\ loop' = [loop EXCEPT ![m] = IF pos[m] \in Poison THEN "top" ELSE "send"]
  /\ hand' = [hand EXCEPT ![m] = pos[m]]
  /\ UNCHANGED <<group, reader, ctx, receiver, history, bounds>>

\* consumer.go:49,60-71. A message arrives (even while ctx is being cancelled):
\* one that does not decode closes the channel for good.
Fetch(m) ==
  /\ loop[m] = "fetch" /\ reader[m] = "open"
  /\ owner = m /\ pos[m] < N
  /\ pos' = [pos EXCEPT ![m] = @ + 1]
  /\ IF pos[m] \in Poison
     THEN loop' = [loop EXCEPT ![m] = "stopped"] /\ UNCHANGED hand
     ELSE /\ loop' = [loop EXCEPT ![m] = "send"]
          /\ hand' = [hand EXCEPT ![m] = pos[m]]
  /\ UNCHANGED <<group, reader, ctx, receiver, history, bounds>>

\* consumer.go:50-58. io.EOF of a closed reader ends the loop; any other error,
\* that of a done ctx among them, is logged and tried again at once.
FetchError(m) ==
  /\ loop[m] = "fetch"
  /\ loop' = [loop EXCEPT ![m] = IF reader[m] = "closed" THEN "stopped"
                                                         ELSE "top"]
  /\ UNCHANGED <<group, pos, reader, ctx, hand, receiver, history, bounds>>

\* Mutant: a send that does not wait drops what the receiver is not ready for.
HandOverOrDrop(m) ==
  /\ loop[m] = "send"
  /\ loop' = [loop EXCEPT ![m] = "top"]
  /\ IF work[m] = "receive"
     THEN /\ work' = [work EXCEPT ![m] = "process"]
          /\ task' = [task EXCEPT ![m] = hand[m]]
          /\ tried' = tried \cup {hand[m]}
     ELSE UNCHANGED <<work, task, tried>>
  /\ UNCHANGED <<group, pos, reader, ctx, hand, failed, bounds>>

\* consumer.go:67-71 meets the receive: the send looks at no ctx.
HandOver(m) ==
  /\ loop[m] = "send" /\ work[m] = "receive"
  /\ loop' = [loop EXCEPT ![m] = "top"]
  /\ work' = [work EXCEPT ![m] = "process"]
  /\ task' = [task EXCEPT ![m] = hand[m]]
  /\ tried' = tried \cup {hand[m]}
  /\ UNCHANGED <<group, pos, reader, ctx, hand, failed, bounds>>
-----------------------------------------------------------------------------
(* The receiver.                                                           *)

\* messaging.md:54-70,110. nil is committed; an error only skips the commit.
Process(m) ==
  /\ work[m] = "process"
  /\ \/ /\ work' = [work EXCEPT ![m] = "commit"]
        /\ failed' = failed \ {task[m]}
     \/ /\ work' = [work EXCEPT ![m] = "receive"]
        /\ failed' = failed \cup {task[m]}
  /\ UNCHANGED <<group, reader, ctx, goroutine, task, tried, bounds>>

\* Mutant: what is committed is the position of the reader.
CommitReaderPosition(m) ==
  /\ work[m] = "commit"
  /\ work' = [work EXCEPT ![m] = "receive"]
  /\ \/ reader[m] = "open" /\ committed' = pos[m]
     \/ UNCHANGED committed
  /\ UNCHANGED <<owner, reader, ctx, goroutine, task, history, bounds>>

\* consumer.go:79-81, kafka_test.go:140-143. The broker takes any position, that
\* of a former owner too; an error is logged and the loop goes on, although
\* the request may have been applied.
CommitMessage(m) ==
  /\ work[m] = "commit"
  /\ work' = [work EXCEPT ![m] = "receive"]
  /\ \/ reader[m] = "open" /\ committed' = task[m] + 1
     \/ UNCHANGED committed
  /\ UNCHANGED <<owner, reader, ctx, goroutine, task, history, bounds>>

\* The closed channel ends the range; a receiver that selects on ctx as well
\* may leave before that.
ReceiverEnds(m) ==
  /\ work[m] = "receive"
  /\ loop[m] = "stopped" \/ (ctx[m] = "done" /\ ~Drains)
  /\ work' = [work EXCEPT ![m] = "ended"]
  /\ UNCHANGED <<group, reader, ctx, goroutine, task, history, bounds>>
-----------------------------------------------------------------------------
(* The group and the processes.                                            *)

\* The partition goes to a member, whose reader starts where the group stands.
Assign(m) ==
  /\ reader[m] = "open" /\ owner # m
  /\ \/ owner = None /\ UNCHANGED moves
     \/ owner # None /\ moves < MaxMoves /\ moves' = moves + 1
  /\ owner' = m
  /\ pos' = [pos EXCEPT ![m] = committed]
  /\ UNCHANGED <<committed, reader, ctx, loop, hand, receiver, history, crashes,
                 cancels>>

\* The ctx of the process is cancelled (main.go:21).
Cancel(m) ==
  /\ loop[m] # "idle" /\ ctx[m] = "live" /\ cancels < MaxCancels
  /\ cancels' = cancels + 1
  /\ ctx' = [ctx EXCEPT ![m] = "done"]
  /\ UNCHANGED <<group, reader, goroutine, receiver, history, crashes, moves>>

\* consumer.go:83-85. Close leaves the group; a later fetch finds io.EOF.
Close(m) ==
  /\ reader[m] = "open" /\ crashes < MaxCrashes
  /\ crashes' = crashes + 1
  /\ reader' = [reader EXCEPT ![m] = "closed"]
  /\ owner' = IF owner = m THEN None ELSE owner
  /\ UNCHANGED <<committed, ctx, goroutine, receiver, history, moves, cancels>>

\* The process dies, by a crash or because main returned, and is started anew.
Crash(m) ==
  /\ loop[m] # "idle" /\ crashes < MaxCrashes
  /\ crashes' = crashes + 1
  /\ reader' = [reader EXCEPT ![m] = "none"]
  /\ ctx' = [ctx EXCEPT ![m] = "live"]
  /\ loop' = [loop EXCEPT ![m] = "idle"]
  /\ work' = [work EXCEPT ![m] = "idle"]
  /\ owner' = IF owner = m THEN None ELSE owner
  /\ UNCHANGED <<committed, pos, hand, task, history, moves, cancels>>
-----------------------------------------------------------------------------
Loop(m) == SelectDone(m) \/ Fetch(m) \/ FetchError(m)
Receiver(m) == Process(m) \/ CommitMessage(m) \/ ReceiverEnds(m)
Environment(m) == Assign(m) \/ Cancel(m) \/ Close(m) \/ Crash(m)

Next == \E m \in Members :
          Start(m) \/ Loop(m) \/ HandOver(m) \/ Receiver(m) \/ Environment(m)

Spec == Init /\ [][Next]_vars

\* Goroutines are scheduled, Process returns, a process is restarted, and a
\* broker that is asked again and again answers (SF): fetch errors are finite.
Fairness ==
  \A m \in Members :
    /\ WF_vars(Start(m)) /\ WF_vars(Loop(m)) /\ WF_vars(HandOver(m))
    /\ WF_vars(Receiver(m)) /\ WF_vars(owner = None /\ Assign(m))
    /\ SF_vars(Fetch(m))

FairSpec == Spec /\ Fairness
-----------------------------------------------------------------------------
(* The inductive invariant: everything below the committed position, below *)
(* what a reader fetches next, and below what a goroutine or a receiver    *)
(* holds has been handed to Process.                                       *)

HandedBelow(p) == \A k \in Offsets : k < p => k \in tried

PrefixHanded == \A o \in tried : HandedBelow(o)

CommittedHanded == HandedBelow(committed)

FetchedHanded ==
  \A m \in Members :
    /\ loop[m] \in {"idle", "top", "fetch"} /\ owner = m => HandedBelow(pos[m])
    /\ loop[m] = "send" => HandedBelow(hand[m]) /\ hand[m] \in Offsets \ Poison
    /\ loop[m] = "send" /\ owner = m => pos[m] <= hand[m] + 1 \/ HandedBelow(pos[m])
    /\ work[m] \in {"process", "commit"} => task[m] \in tried

NoPoisonHanded == tried \cap Poison = {}

IInv == /\ TypeOK
        /\ PrefixHanded /\ CommittedHanded /\ FetchedHanded /\ NoPoisonHanded
-----------------------------------------------------------------------------
(* At least once: a position is committed only when every message below it *)
(* was handed to Process by some member, whatever crashed, was reassigned  *)
(* or committed late (consumer.go:79-81).                                  *)
NoMessageSkipped == \A o \in Offsets : o < committed => o \in tried

(* A message that does not decode blocks its partition: the position stays *)
(* in front of it and nothing behind it is handed out (consumer.go:62-66). *)
PoisonBlocks ==
  \A o \in Poison : committed <= o /\ \A k \in tried : k < o

(* messaging.md:110: "Returning an error from `Process` triggers           *)
(* redelivery". A message whose Process failed is still to be read by the  *)
(* next owner.                                                             *)
ErrorIsRedelivered == \A o \in failed : committed <= o

(* No message in front of an undecodable one waits for ever while some     *)
(* members stay up: crashes, reassignments, failing fetches and failing    *)
(* handlers only delay it (consumer.go:42-73).                             *)
EveryMessageHanded ==
  <>[](\A m \in Members : ctx[m] = "live" /\ reader[m] # "closed")
    => \A o \in Offsets : (\A p \in Poison : o < p) => <>(o \in tried)

(* Once its ctx is done the goroutine returns and closes the channel,      *)
(* provided that its receiver keeps receiving (consumer.go:43-47).         *)
CancelStopsLoop ==
  \A m \in Members : ctx[m] = "done" ~> loop[m] \in {"stopped", "idle"}

(* The group implements AtLeastOnce.                                       *)
Log == INSTANCE AtLeastOnce WITH handed <- tried

ImplementsAtLeastOnce == Log!ASpec
=============================================================================
