----------------------------- MODULE AtLeastOnce -----------------------------
(***************************************************************************)
(* What a consumer group promises about one partition whose messages have  *)
(* the offsets 0 .. N-1 (.kiro/steering/messaging.md, "Semantics"): a      *)
(* message is handed to Process only when every earlier one has been, and  *)
(* the committed position never passes a message that was not handed out.  *)
(* The position may move backwards: that only means a redelivery.          *)
(***************************************************************************)
EXTENDS Naturals

CONSTANT N

VARIABLES handed,    \* the offsets that were handed to Process at least once
          committed  \* the next offset a new owner of the partition reads

AInit == handed = {} /\ committed = 0

HandOut(o) == /\ \A k \in 0..(N-1) : k < o => k \in handed
              /\ handed' = handed \cup {o}
              /\ UNCHANGED committed

Commit(c) == /\ \A k \in 0..(N-1) : k < c => k \in handed
             /\ committed' = c
             /\ UNCHANGED handed

ANext == \/ \E o \in 0..(N-1) : HandOut(o)
         \/ \E c \in 0..N : Commit(c)

ASpec == AInit /\ [][ANext]_<<handed, committed>>
=============================================================================
