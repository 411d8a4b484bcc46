------------------------------ MODULE Transactor ------------------------------
(***************************************************************************)
(* internal/adapters/repository/postgres/transactor.go: Execute with its   *)
(* deferred rollback, called by the requests of several clients, together  *)
(* with what becomes of its error: dberror.go makes an uncoded one         *)
(* NZQ-8001, which errorcatalog answers as responseCode 005.               *)
(* External: the body (a repository method of several writes), Postgres,   *)
(* database/sql, gin's Recovery and a client that retries after a 005.     *)
(***************************************************************************)
EXTENDS Naturals, FiniteSets

CONSTANTS Callers,
          Steps,      \* writes of the body
          Capacity,   \* connections Postgres grants
          MaxRetries  \* bound: retries of a client

ASSUME TransactorAssumption == /\ Steps \in Nat /\ Capacity \in Nat
                               /\ MaxRetries \in Nat

VARIABLES pc,      \* caller -> where its call of Execute is
          err,     \* caller -> what the call failed with
          tx,      \* caller -> its transaction: an active one holds a connection
          writes,  \* caller -> writes done by the body
          kind,    \* caller -> the ctx its handler passes on: the "gin" Context
                   \* of the template (handler.md:73,83), whose Done never fires,
                   \* or that of the "request", which ends with the request
          ctx,     \* caller -> "live", "done"
          answer,  \* caller -> what the client was told
          retries

vars == <<pc, err, tx, writes, kind, ctx, answer, retries>>

PC == {"idle", "begin", "body", "commit", "rollback", "panic", "answered"}

TypeOK ==
  /\ pc \in [Callers -> PC]
  /\ err \in [Callers -> {"none", "begin", "body", "coded", "commit", "panic"}]
  /\ tx \in [Callers -> {"none", "active", "committed", "aborted"}]
  /\ writes \in [Callers -> 0..Steps]
  /\ kind \in [Callers -> {"gin", "request"}]
  /\ ctx \in [Callers -> {"live", "done"}]
  /\ answer \in [Callers -> {"none", "ok", "005", "other"}]
  /\ retries \in [Callers -> Nat]

Init == /\ pc = [c \in Callers |-> "idle"]
        /\ err = [c \in Callers |-> "none"]
        /\ tx = [c \in Callers |-> "none"]
        /\ writes = [c \in Callers |-> 0]
        /\ kind \in [Callers -> {"gin", "request"}]
        /\ ctx = [c \in Callers |-> "live"]
        /\ answer = [c \in Callers |-> "none"]
        /\ retries = [c \in Callers |-> 0]

\* The connections in use.
Open == {c \in Callers : tx[c] = "active"}

Goto(c, where) == pc' = [pc EXCEPT ![c] = where]
Fail(c, e) == err' = [err EXCEPT ![c] = e]

\* dberror.go:13-15, repository.md:99-100. Uncoded errors become 005.
AnswerOf(e) == IF e \in {"begin", "body", "commit"} THEN "005" ELSE "other"
-----------------------------------------------------------------------------
Call(c) == /\ pc[c] = "idle"
           /\ Goto(c, "begin")
           /\ UNCHANGED <<kind, err, tx, writes, ctx, answer, retries>>

\* transactor.go:26-29,48-55. A failing BeginTx returns before the defer.
Begin(c) ==
  /\ pc[c] = "begin"
  /\ \/ /\ Cardinality(Open) < Capacity /\ ctx[c] = "live"
        /\ tx' = [tx EXCEPT ![c] = "active"]
        /\ Goto(c, "body")
        /\ UNCHANGED <<err, answer>>
     \/ /\ Fail(c, "begin")
        /\ answer' = [answer EXCEPT ![c] = AnswerOf("begin")]
        /\ Goto(c, "answered")
        /\ UNCHANGED tx
  /\ UNCHANGED <<kind, writes, ctx, retries>>

\* transactor.go:39. The body writes on; a transaction database/sql rolled
\* back under it fails every further write.
Write(c) ==
  /\ pc[c] = "body" /\ tx[c] = "active" /\ writes[c] < Steps
  /\ writes' = [writes EXCEPT ![c] = @ + 1]
  /\ UNCHANGED <<kind, pc, err, tx, ctx, answer, retries>>

\* transactor.go:39-41. The body returns an error, of the driver or a coded one.
BodyFails(c) ==
  /\ pc[c] = "body"
  /\ \E e \in {"body", "coded"} : Fail(c, e)
  /\ Goto(c, "rollback")
  /\ UNCHANGED <<kind, tx, writes, ctx, answer, retries>>

\* transactor.go:30-39. err is nil when a panic runs the deferred function.
BodyPanics(c) ==
  /\ pc[c] = "body"
  /\ Fail(c, "panic")
  /\ Goto(c, "panic")
  /\ UNCHANGED <<kind, tx, writes, ctx, answer, retries>>

\* transactor.go:39,42.
BodyReturns(c) ==
  /\ pc[c] = "body" /\ writes[c] = Steps
  /\ Goto(c, "commit")
  /\ UNCHANGED <<kind, err, tx, writes, ctx, answer, retries>>

\* Mutant: the error of Commit is dropped.
CommitErrorDropped(c) ==
  /\ pc[c] = "commit"
  /\ tx' = [tx EXCEPT ![c] = IF @ = "active" THEN "committed" ELSE @]
  /\ answer' = [answer EXCEPT ![c] = "ok"]
  /\ Goto(c, "answered")
  /\ UNCHANGED <<kind, err, writes, ctx, retries>>

\* transactor.go:42-45,57-66. A commit may be done, be done without its answer
\* coming back, or not be done; each way its connection is given back.
Commit(c) ==
  /\ pc[c] = "commit"
  /\ \/ /\ tx[c] = "active"
        /\ tx' = [tx EXCEPT ![c] = "committed"]
        /\ \/ /\ answer' = [answer EXCEPT ![c] = "ok"]
              /\ Goto(c, "answered")
              /\ UNCHANGED err
           \/ /\ Fail(c, "commit")
              /\ Goto(c, "rollback")
              /\ UNCHANGED answer
     \/ /\ tx' = [tx EXCEPT ![c] = "aborted"]
        /\ Fail(c, "commit")
        /\ Goto(c, "rollback")
        /\ UNCHANGED answer
  /\ UNCHANGED <<kind, writes, ctx, retries>>

\* Mutant: the deferred function sees an err of its own, always nil.
RollbackSkipped(c) ==
  /\ pc[c] = "rollback"
  /\ answer' = [answer EXCEPT ![c] = AnswerOf(err[c])]
  /\ Goto(c, "answered")
  /\ UNCHANGED <<kind, err, tx, writes, ctx, retries>>

\* Mutant: the deferred function commits what the body left behind.
RollbackCommits(c) ==
  /\ pc[c] = "rollback"
  /\ tx' = [tx EXCEPT ![c] = IF @ = "active" THEN "committed" ELSE @]
  /\ answer' = [answer EXCEPT ![c] = AnswerOf(err[c])]
  /\ Goto(c, "answered")
  /\ UNCHANGED <<kind, err, writes, ctx, retries>>

\* transactor.go:30-38,68-77. After a failed commit the transaction is done
\* already and the rollback only adds an error to the joined one.
Rollback(c) ==
  /\ pc[c] = "rollback"
  /\ tx' = [tx EXCEPT ![c] = IF @ = "active" THEN "aborted" ELSE @]
  /\ answer' = [answer EXCEPT ![c] = AnswerOf(err[c])]
  /\ Goto(c, "answered")
  /\ UNCHANGED <<kind, err, writes, ctx, retries>>

\* middleware.go:28. Recovery answers for the panicking handler.
Recover(c) ==
  /\ pc[c] = "panic"
  /\ answer' = [answer EXCEPT ![c] = "other"]
  /\ Goto(c, "answered")
  /\ UNCHANGED <<kind, err, tx, writes, ctx, retries>>
-----------------------------------------------------------------------------
\* net/http ends the request's context when the client goes away during the
\* call, or when its handler has answered. Nothing ends a gin.Context.
CtxDone(c) ==
  /\ kind[c] = "request" /\ ctx[c] = "live" /\ pc[c] # "idle"
  /\ ctx' = [ctx EXCEPT ![c] = "done"]
  /\ UNCHANGED <<kind, pc, err, tx, writes, answer, retries>>

\* Mutant: BeginTx is given a background context.
AwaitBackground(c) == FALSE /\ ctx[c] = "done" /\ UNCHANGED vars

\* transactor.go:49. database/sql rolls back the transaction of a done ctx.
AwaitDone(c) ==
  /\ ctx[c] = "done" /\ tx[c] = "active"
  /\ tx' = [tx EXCEPT ![c] = "aborted"]
  /\ UNCHANGED <<kind, pc, err, writes, ctx, answer, retries>>

\* errors.md:35. 005 is "safe to retry": the client sends its operation again.
Retry(c) ==
  /\ pc[c] = "answered" /\ answer[c] = "005" /\ retries[c] < MaxRetries
  /\ retries' = [retries EXCEPT ![c] = @ + 1]
  /\ Goto(c, "begin")
  /\ err' = [err EXCEPT ![c] = "none"]
  /\ tx' = [tx EXCEPT ![c] = "none"]
  /\ writes' = [writes EXCEPT ![c] = 0]
  /\ ctx' = [ctx EXCEPT ![c] = "live"]
  /\ answer' = [answer EXCEPT ![c] = "none"]
  /\ UNCHANGED kind
-----------------------------------------------------------------------------
Execute(c) == \/ Begin(c) \/ Write(c) \/ BodyFails(c) \/ BodyPanics(c)
              \/ BodyReturns(c) \/ Commit(c) \/ Rollback(c) \/ Recover(c)

Next == \E c \in Callers : \/ Call(c) \/ Execute(c)
                           \/ CtxDone(c) \/ AwaitDone(c) \/ Retry(c)

Spec == Init /\ [][Next]_vars

\* Goroutines run on and bodies return or panic; net/http ends the context of
\* an answered request (CtxDone is never enabled for a gin.Context).
Fairness == \A c \in Callers :
              /\ WF_vars(Execute(c)) /\ WF_vars(AwaitDone(c))
              /\ WF_vars(pc[c] = "answered" /\ CtxDone(c))

FairSpec == Spec /\ Fairness
-----------------------------------------------------------------------------
(* What a transaction may be at each point of Execute.                     *)
Phases ==
  \A c \in Callers :
    /\ pc[c] \in {"idle", "begin"} => tx[c] = "none"
    /\ pc[c] \in {"body", "panic"} => tx[c] \in {"active", "aborted"}
    /\ pc[c] = "commit" => tx[c] \in {"active", "aborted"} /\ writes[c] = Steps
    /\ pc[c] = "rollback" =>
         /\ err[c] \in {"body", "coded"} => tx[c] \in {"active", "aborted"}
         /\ err[c] \in {"body", "coded", "commit"}
    /\ pc[c] \in {"rollback", "answered"} /\ err[c] = "commit"
         => tx[c] \in {"committed", "aborted"}
    /\ pc[c] \in {"idle", "begin", "body", "commit"} => err[c] = "none"
    /\ pc[c] = "panic" => err[c] = "panic"
    /\ answer[c] # "none" => pc[c] = "answered"
    /\ tx[c] = "committed" => writes[c] = Steps
    /\ tx[c] = "committed" /\ pc[c] = "answered" => err[c] \in {"none", "commit"}
    /\ pc[c] = "answered" /\ err[c] = "none" => tx[c] = "committed"
    /\ answer[c] = "ok" => err[c] = "none" /\ writes[c] = Steps
    /\ pc[c] = "answered" /\ tx[c] = "active" => err[c] = "panic"

IInv == TypeOK /\ Phases

(* A call whose body failed, panicked or never began leaves no write       *)
(* behind, whatever rolled its transaction back (transactor.go:30-41).     *)
FailedBodyIsUndone ==
  \A c \in Callers :
    err[c] \in {"begin", "body", "coded", "panic"} => tx[c] # "committed"

(* Whenever Execute returns it has given its connection back, after an     *)
(* error inside the body as after a failing commit (transactor.go:30-38).  *)
ReturnGivesConnectionBack ==
  \A c \in Callers : pc[c] = "answered" /\ err[c] # "panic" => tx[c] # "active"

(* repository.md:104-105: "a multi-write operation runs its steps inside   *)
(* one transaction and commits/rolls back atomically". No request that was *)
(* answered keeps its transaction open for ever, with one exception the    *)
(* code really has: after a panic (transactor.go:30-38 sees a nil err)     *)
(* only the ctx is left to end it, and the template's gin.Context never    *)
(* does.                                                                   *)
LostToPanic(c) == err[c] = "panic" /\ kind[c] = "gin"

TransactionEnds ==
  \A c \in Callers : pc[c] = "answered" ~> tx[c] # "active" \/ LostToPanic(c)

\* What came of a call. Writes committed in part would be no outcome at all.
Outcome(c) ==
  CASE tx[c] = "committed" -> IF writes[c] = Steps THEN "all" ELSE "some"
    [] tx[c] = "aborted" \/ (tx[c] = "none" /\ pc[c] = "answered") -> "nothing"
    [] OTHER -> "open"

(* A nil error means that every write is committed, a commit whose answer  *)
(* was lost is never taken for a failure that is final, and no write       *)
(* arrives after the answer (transactor.go:25-46, dberror.go:13-15): the   *)
(* calls implement AtomicOperation.                                        *)
Operation == INSTANCE AtomicOperation WITH
               effect <- [c \in Callers |-> Outcome(c)], told <- answer

ImplementsAtomicOperation == Operation!ASpec
=============================================================================
