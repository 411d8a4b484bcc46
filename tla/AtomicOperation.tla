--------------------------- MODULE AtomicOperation ---------------------------
(***************************************************************************)
(* What the caller of a multi-write operation may rely on                  *)
(* (repository.md, "runs its steps inside one transaction and              *)
(* commits/rolls back atomically"): all of its writes happen or none, they *)
(* happen before it is answered, and the answer fits. A 005 leaves open    *)
(* which of the two it was, but not the outcome itself.                    *)
(***************************************************************************)
CONSTANT Callers

VARIABLES effect,  \* caller -> "open", "all", "nothing"
          told     \* caller -> "none", "ok", "005", "other"

AInit == /\ effect = [c \in Callers |-> "open"]
         /\ told = [c \in Callers |-> "none"]

\* Decide an outcome e that is open, or give the answer a, or both at once.
Progress(c, e, a) ==
  /\ told[c] = "none" /\ effect[c] \in {"open", e}
  /\ a = "ok" => e = "all"
  /\ a = "005" => e # "open"
  /\ a = "other" => e # "all"
  /\ effect' = [effect EXCEPT ![c] = e]
  /\ told' = [told EXCEPT ![c] = a]

\* What is open may fail at any time, also behind an answer, where it can no
\* longer succeed.
Undo(c) == /\ effect[c] = "open"
           /\ effect' = [effect EXCEPT ![c] = "nothing"]
           /\ UNCHANGED told

\* Only a 005 is an invitation to begin again.
Repeat(c) == /\ told[c] = "005"
             /\ effect' = [effect EXCEPT ![c] = "open"]
             /\ told' = [told EXCEPT ![c] = "none"]

ANext == \E c \in Callers :
           \/ \E e \in {"open", "all", "nothing"}, a \in {"none", "ok", "005", "other"} :
                Progress(c, e, a)
           \/ Undo(c) \/ Repeat(c)

ASpec == AInit /\ [][ANext]_<<effect, told>>
=============================================================================
