--------------------------- MODULE TransactorProofs ---------------------------
(* Theorems of Transactor, for any callers, writes and connections, whether *)
(* a caller's ctx ends with its request or never does.                     *)
EXTENDS Transactor, TLAPS

\* The strengthening holds of the first states.
LEMMA InitIInv == Init => IInv
BY TransactorAssumption DEF TransactorAssumption, Init, IInv, TypeOK, PC, Phases

(* Every step of one caller preserves the invariant of all.                *)
LEMMA CallerIInv ==
  ASSUME IInv, NEW c \in Callers,
         Call(c) \/ Execute(c) \/ CtxDone(c) \/ AwaitDone(c) \/ Retry(c)
  PROVE  IInv'
<1> USE TransactorAssumption DEF TransactorAssumption, IInv, TypeOK, PC, Phases,
        Goto, Fail, AnswerOf
<1>1. CASE Call(c)
  BY <1>1 DEF Call
<1>2. CASE Begin(c)
  BY <1>2 DEF Begin
<1>3. CASE Write(c)
  BY <1>3 DEF Write
<1>4. CASE BodyFails(c)
  BY <1>4 DEF BodyFails
<1>5. CASE BodyPanics(c)
  BY <1>5 DEF BodyPanics
<1>6. CASE BodyReturns(c)
  BY <1>6 DEF BodyReturns
<1>7. CASE Commit(c)
  BY <1>7 DEF Commit
<1>8. CASE Rollback(c)
  BY <1>8 DEF Rollback
<1>9. CASE Recover(c)
  BY <1>9 DEF Recover
<1>10. CASE CtxDone(c)
  BY <1>10 DEF CtxDone
<1>11. CASE AwaitDone(c)
  BY <1>11 DEF AwaitDone
<1>12. CASE Retry(c)
  BY <1>12 DEF Retry
<1> QED
  BY <1>1, <1>2, <1>3, <1>4, <1>5, <1>6, <1>7, <1>8, <1>9, <1>10, <1>11, <1>12
  DEF Execute

(* At each point of Execute the transaction is in the state the code there *)
(* relies on (transactor.go:25-46).                                        *)
THEOREM TransactorInvariant == Spec => []IInv
<1>1. IInv /\ UNCHANGED vars => IInv'
  BY DEF vars, IInv, TypeOK, PC, Phases
<1>2. IInv /\ [Next]_vars => IInv'
  BY <1>1, CallerIInv DEF Next
<1> QED BY InitIInv, <1>2, PTL DEF Spec

(* A body that failed or panicked leaves no write behind.                  *)
THEOREM FailedBodyIsUndoneHolds == Spec => []FailedBodyIsUndone
<1>1. IInv => FailedBodyIsUndone
  BY DEF IInv, TypeOK, PC, Phases, FailedBodyIsUndone
<1> QED BY <1>1, TransactorInvariant, PTL

(* Execute never returns, but by a panic, with its connection still held.  *)
THEOREM ConnectionGivenBackHolds == Spec => []ReturnGivesConnectionBack
<1>1. IInv => ReturnGivesConnectionBack
  BY DEF IInv, Phases, ReturnGivesConnectionBack
<1> QED BY <1>1, TransactorInvariant, PTL
-----------------------------------------------------------------------------
(* A step of one caller leaves the others' outcomes alone.                 *)
LEMMA OthersOutcome ==
  ASSUME IInv, NEW c \in Callers,
         Call(c) \/ Execute(c) \/ CtxDone(c) \/ AwaitDone(c) \/ Retry(c)
  PROVE  \A d \in Callers \ {c} : Outcome(d)' = Outcome(d)
<1> SUFFICES ASSUME NEW d \in Callers \ {c}
             PROVE  Outcome(d)' = Outcome(d)
  OBVIOUS
<1>1. UNCHANGED <<pc[d], tx[d], writes[d]>>
  BY DEF IInv, TypeOK, Goto, Call, Execute, Begin, Write, BodyFails, BodyPanics,
     BodyReturns, Commit, Rollback, Recover, CtxDone, AwaitDone, Retry
<1> QED BY <1>1 DEF Outcome

(* Then the outcomes of all change at the caller's place at most.          *)
LEMMA OutcomesChange ==
  ASSUME NEW c \in Callers, \A d \in Callers \ {c} : Outcome(d)' = Outcome(d)
  PROVE  [d \in Callers |-> Outcome(d)]'
           = [[d \in Callers |-> Outcome(d)] EXCEPT ![c] = Outcome(c)']
<1> HIDE DEF Outcome
<1> QED OBVIOUS

(* What one step of Execute, or of what surrounds it, is to the caller:    *)
(* progress from open to an outcome, an undoing, a repetition or nothing.  *)
LEMMA CallerRefines ==
  ASSUME IInv, NEW c \in Callers,
         Call(c) \/ Execute(c) \/ CtxDone(c) \/ AwaitDone(c) \/ Retry(c)
  PROVE  Operation!ANext \/ UNCHANGED <<[d \in Callers |-> Outcome(d)], answer>>
<1> DEFINE Progressed(e, a) ==
      /\ answer[c] = "none" /\ Outcome(c) \in {"open", e} /\ Outcome(c)' = e
      /\ answer' = [answer EXCEPT ![c] = a]
      /\ a = "ok" => e = "all"
      /\ a = "005" => e # "open"
      /\ a = "other" => e # "all"
<1>1. [d \in Callers |-> Outcome(d)]'
        = [[d \in Callers |-> Outcome(d)] EXCEPT ![c] = Outcome(c)']
  BY OthersOutcome, OutcomesChange
<1>2. ASSUME NEW e \in {"open", "all", "nothing"},
             NEW a \in {"none", "ok", "005", "other"}, Progressed(e, a)
      PROVE  Operation!ANext
  <2> HIDE DEF Outcome
  <2>1. Operation!Progress(c, e, a)
    BY <1>1, <1>2 DEF Operation!Progress
  <2> QED BY <2>1 DEF Operation!ANext
<1>3. ASSUME Outcome(c)' = Outcome(c), answer' = answer
      PROVE  UNCHANGED <<[d \in Callers |-> Outcome(d)], answer>>
  <2> HIDE DEF Outcome
  <2> QED BY <1>1, <1>3
<1> USE DEF IInv, TypeOK, PC, Phases, Goto, Fail, AnswerOf, Outcome
<1>4. CASE Call(c) \/ Write(c) \/ BodyFails(c) \/ BodyPanics(c) \/ BodyReturns(c) \/ CtxDone(c)
  <2>1. Outcome(c)' = Outcome(c) /\ answer' = answer
    BY <1>4 DEF Call, Write, BodyFails, BodyPanics, BodyReturns, CtxDone
  <2> QED BY <2>1, <1>3
<1>5. CASE Begin(c)
  <2>1. \/ Outcome(c)' = Outcome(c) /\ answer' = answer
        \/ Progressed("nothing", "005")
    BY <1>5 DEF Begin
  <2> QED BY <2>1, <1>2, <1>3
<1>6. CASE Commit(c)
  <2>1. \/ Progressed("all", "ok") \/ Progressed("all", "none")
        \/ Progressed("nothing", "none")
    BY <1>6 DEF Commit
  <2> QED BY <2>1, <1>2
<1>7. CASE Rollback(c)
  <2>1. \/ Progressed("all", "005") \/ Progressed("nothing", "005")
        \/ Progressed("nothing", "other")
    BY <1>7 DEF Rollback
  <2> QED BY <2>1, <1>2
<1>8. CASE Recover(c)
  <2>1. Progressed("open", "other") \/ Progressed("nothing", "other")
    BY <1>8 DEF Recover
  <2> QED BY <2>1, <1>2
<1>9. CASE AwaitDone(c)
  <2>1. Outcome(c) = "open" /\ Outcome(c)' = "nothing" /\ answer' = answer
    BY <1>9 DEF AwaitDone
  <2>2. Operation!Undo(c)
    BY <1>1, <2>1 DEF Operation!Undo
  <2> QED BY <2>2 DEF Operation!ANext
<1>10. CASE Retry(c)
  <2>1. /\ answer[c] = "005" /\ Outcome(c)' = "open"
        /\ answer' = [answer EXCEPT ![c] = "none"]
    BY <1>10 DEF Retry
  <2>2. Operation!Repeat(c)
    BY <1>1, <2>1 DEF Operation!Repeat
  <2> QED BY <2>2 DEF Operation!ANext
<1> HIDE DEF IInv, TypeOK, PC, Phases, Outcome
<1> QED BY <1>4, <1>5, <1>6, <1>7, <1>8, <1>9, <1>10 DEF Execute

(* A call is atomic to who makes it, whatever fails, however often it is   *)
(* repeated (transactor.go:25-46, repository.md:104-105).                  *)
THEOREM TransactorImplementsAtomicOperation == Spec => ImplementsAtomicOperation
<1>1. Init => Operation!AInit
  BY DEF Init, Outcome, Operation!AInit
<1>2. IInv /\ [Next]_vars
      => [Operation!ANext]_<<[c \in Callers |-> Outcome(c)], answer>>
  <2>1. UNCHANGED vars => UNCHANGED <<[c \in Callers |-> Outcome(c)], answer>>
    BY DEF vars, Outcome
  <2> QED BY <2>1, CallerRefines DEF Next
<1> QED
  BY <1>1, <1>2, TransactorInvariant, PTL
  DEF Spec, ImplementsAtomicOperation, Operation!ASpec
=============================================================================
