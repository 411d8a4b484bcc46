---------------------------- MODULE ServiceProofs ----------------------------
(* Theorems of Service, for every set of requests and any bound on the     *)
(* signals: the safety properties the runs check, and the refinement of    *)
(* AcceptGate. All of them follow from the inductive invariant IInv.       *)
EXTENDS Service, TLAPS

(* The initial states satisfy the invariant.                               *)
LEMMA InitIInv == Init => IInv
BY MaxSignalsNat DEF MaxSignalsNat, Init, IInv, TypeOK, PC, ListenerPhase, PoolPhase, StopPhase,
   BeforeListening, PoolGivenBack, Stopping, Alive

(* However the process ends, its requests keep a legal status.             *)
LEMMA DieTypeOK ==
  ASSUME NEW how \in {"clean", "fatal", "panic", "killed"}, TypeOK, Die(how)
  PROVE  /\ pc' = "gone" /\ exit' = how
         /\ req' \in [Requests -> {"idle", "inflight", "answered", "cut"}]
BY DEF Die, TypeOK

(* Every step of the main goroutine preserves the invariant.               *)
LEMMA MainStepIInv == IInv /\ MainStep => IInv'
<1> SUFFICES ASSUME IInv, MainStep PROVE IInv'
  OBVIOUS
<1> USE DEF IInv, TypeOK, PC, ListenerPhase, PoolPhase, StopPhase, Alive,
            BeforeListening, PoolGivenBack, Stopping
<1>1. CASE LoadConfig
  <2>1. CASE Die("panic")
    BY <1>1, <2>1, DieTypeOK DEF LoadConfig
  <2>2. CASE pc' = "catalog" /\ UNCHANGED <<req, exit>>
    BY <1>1, <2>2 DEF LoadConfig
  <2> QED BY <1>1, <2>1, <2>2 DEF LoadConfig
<1>2. CASE LoadErrorCatalog
  BY <1>2 DEF LoadErrorCatalog
<1>3. CASE OpenDB
  BY <1>3 DEF OpenDB
<1>4. CASE PingDB
  BY <1>4 DEF PingDB
<1>5. CASE SpawnCloser
  BY <1>5 DEF SpawnCloser
<1>6. CASE ListenAndServe
  BY <1>6 DEF ListenAndServe
<1>7. CASE Bind
  BY <1>7 DEF Bind
<1>8. CASE TrackListener
  BY <1>8 DEF TrackListener
<1>9. CASE CloseDB
  BY <1>9 DEF CloseDB
<1>10. CASE StopNotify
  BY <1>10 DEF StopNotify
<1>11. CASE MainReturns
  BY <1>11, DieTypeOK DEF MainReturns
<1>12. CASE Fatal
  BY <1>12, DieTypeOK DEF Fatal
<1> QED
  BY <1>1, <1>2, <1>3, <1>4, <1>5, <1>6, <1>7, <1>8, <1>9, <1>10, <1>11, <1>12
  DEF MainStep

(* So do the shutdown goroutine and the environment.                       *)
LEMMA OtherStepIInv ==
  IInv /\ (\/ ServeReturns \/ CallShutdown \/ Drained \/ DrainTimeout
           \/ Signal \/ Kill \/ \E r \in Requests : Accept(r) \/ Answer(r))
    => IInv'
<1> SUFFICES ASSUME IInv,
                    \/ ServeReturns \/ CallShutdown \/ Drained \/ DrainTimeout
                    \/ Signal \/ Kill
                    \/ \E r \in Requests : Accept(r) \/ Answer(r)
             PROVE  IInv'
  OBVIOUS
<1> USE DEF IInv, TypeOK, PC, ListenerPhase, PoolPhase, StopPhase, Alive,
            BeforeListening, PoolGivenBack, Stopping
<1>1. CASE ServeReturns
  BY <1>1 DEF ServeReturns
<1>2. CASE CallShutdown
  BY <1>2 DEF CallShutdown
<1>3. CASE Drained
  BY <1>3 DEF Drained
<1>4. CASE DrainTimeout
  BY <1>4 DEF DrainTimeout
<1>5. CASE Signal
  <2>1. signals' \in 0..MaxSignals /\ signals' > 0
    BY <1>5, MaxSignalsNat DEF Signal, MaxSignalsNat
  <2>2. CASE pc \in {"config", "unhooked"}
    BY <1>5, <2>1, <2>2, DieTypeOK DEF Signal
  <2>3. CASE pc \notin {"config", "unhooked"}
    BY <1>5, <2>1, <2>3 DEF Signal
  <2> QED BY <2>2, <2>3
<1>6. CASE Kill
  BY <1>6, DieTypeOK DEF Kill
<1>7. ASSUME NEW r \in Requests, Accept(r) PROVE IInv'
  BY <1>7 DEF Accept
<1>8. ASSUME NEW r \in Requests, Answer(r) PROVE IInv'
  BY <1>8 DEF Answer
<1> QED
  BY <1>1, <1>2, <1>3, <1>4, <1>5, <1>6, <1>7, <1>8

(* The control points of main.go, app.go and http.go fit together in every *)
(* reachable state: this is the invariant the others rest on.              *)
THEOREM ServiceInvariant == Spec => []IInv
<1>1. IInv /\ UNCHANGED vars => IInv'
  BY DEF IInv, TypeOK, PC, ListenerPhase, PoolPhase, StopPhase, Alive,
         BeforeListening, PoolGivenBack, Stopping, vars
<1>2. IInv /\ [Next]_vars => IInv'
  BY <1>1, MainStepIInv, OtherStepIInv DEF Next
<1> QED
  BY InitIInv, <1>2, PTL DEF Spec

(* The pool is never given back while a listener can still let a request   *)
(* in (app.go:34 against http.go:41).                                      *)
THEOREM PoolOutlivesListenerHolds == Spec => []PoolOutlivesListener
<1>1. IInv => PoolOutlivesListener
  BY DEF IInv, PoolPhase, PoolOutlivesListener
<1> QED
  BY <1>1, ServiceInvariant, PTL

(* A process that ends by itself has closed the pool it opened             *)
(* (app.go:33-35, on both returns of Run).                                 *)
THEOREM NoLeakedPoolHolds == Spec => []NoLeakedPool
<1>1. IInv => NoLeakedPool
  BY DEF IInv, PoolPhase, NoLeakedPool
<1> QED
  BY <1>1, ServiceInvariant, PTL

(* Exit code 0 is only reached through a signal and a call of Shutdown     *)
(* (http.go:41-45).                                                        *)
THEOREM CleanExitWasRequestedHolds == Spec => []CleanExitWasRequested
<1>1. IInv => CleanExitWasRequested
  BY DEF IInv, TypeOK, StopPhase, CleanExitWasRequested, Stopping
<1> QED
  BY <1>1, ServiceInvariant, PTL
-----------------------------------------------------------------------------
(* The refinement of AcceptGate.                                           *)

\* A service that has not started is a gate nobody has come to.
LEMMA InitGate == Init => Gate!AInit
BY DEF Init, Gate!AInit, gateBar, poolBar

(* A step of the main goroutine takes or gives back the pool, opens or     *)
(* closes the gate, ends the process, or changes nothing the gate shows.   *)
LEMMA MainStepGate == IInv /\ MainStep => [Gate!ANext]_Gate!avars
<1> SUFFICES ASSUME IInv, MainStep PROVE [Gate!ANext]_Gate!avars
  OBVIOUS
<1> USE DEF IInv, TypeOK, PC, ListenerPhase, PoolPhase, StopPhase, Alive,
            BeforeListening, PoolGivenBack, Stopping, gateBar, poolBar, Die,
            Gate!avars
<1>1. CASE LoadConfig
  BY <1>1 DEF LoadConfig, Gate!ANext, Gate!StopItself
<1>2. CASE LoadErrorCatalog \/ OpenDB \/ SpawnCloser \/ ListenAndServe \/ StopNotify
  BY <1>2 DEF LoadErrorCatalog, OpenDB, SpawnCloser, ListenAndServe, StopNotify
<1>3. CASE PingDB
  BY <1>3 DEF PingDB, Gate!ANext, Gate!Acquire
<1>4. CASE Bind
  BY <1>4 DEF Bind
<1>5. CASE TrackListener
  <2>1. CASE Stopping
    <3>1. Gate!Close
      BY <1>5, <2>1 DEF TrackListener, Gate!Close
    <3> QED BY <3>1 DEF Gate!ANext
  <2>2. CASE ~Stopping
    <3>1. Gate!Open
      BY <1>5, <2>2 DEF TrackListener, Gate!Open
    <3> QED BY <3>1 DEF Gate!ANext
  <2> QED BY <2>1, <2>2
<1>6. CASE CloseDB
  <2>1. CASE db = "open"
    BY <1>6, <2>1 DEF CloseDB, Gate!ANext, Gate!Release
  <2>2. CASE db # "open"
    BY <1>6, <2>2 DEF CloseDB
  <2> QED BY <2>1, <2>2
<1>7. CASE MainReturns
  BY <1>7 DEF MainReturns, Gate!ANext, Gate!StopItself
<1>8. CASE Fatal
  BY <1>8 DEF Fatal, Gate!ANext, Gate!StopItself
<1> QED
  BY <1>1, <1>2, <1>3, <1>4, <1>5, <1>6, <1>7, <1>8 DEF MainStep

(* The other steps close the gate, admit a request, kill, or are hidden.   *)
LEMMA OtherStepGate ==
  IInv /\ (\/ ServeReturns \/ CallShutdown \/ Drained \/ DrainTimeout
           \/ Signal \/ Kill \/ \E r \in Requests : Accept(r) \/ Answer(r))
    => [Gate!ANext]_Gate!avars
<1> SUFFICES ASSUME IInv,
                    \/ ServeReturns \/ CallShutdown \/ Drained \/ DrainTimeout
                    \/ Signal \/ Kill
                    \/ \E r \in Requests : Accept(r) \/ Answer(r)
             PROVE  [Gate!ANext]_Gate!avars
  OBVIOUS
<1> USE DEF IInv, TypeOK, ListenerPhase, PoolPhase, Alive, gateBar, poolBar,
            Die, Gate!avars
<1>1. CASE ServeReturns
  BY <1>1 DEF ServeReturns, Gate!ANext, Gate!Close
<1>2. CASE CallShutdown
  BY <1>2 DEF CallShutdown, Gate!ANext, Gate!Close
<1>3. CASE Drained \/ DrainTimeout
  BY <1>3 DEF Drained, DrainTimeout
<1>4. CASE Signal
  BY <1>4 DEF Signal, Gate!ANext, Gate!GetKilled
<1>5. CASE Kill
  BY <1>5 DEF Kill, Gate!ANext, Gate!GetKilled
<1>6. ASSUME NEW r \in Requests, Accept(r) PROVE Gate!ANext
  BY <1>6 DEF Accept, Gate!ANext, Gate!Admit
<1>7. ASSUME NEW r \in Requests, Answer(r) PROVE UNCHANGED Gate!avars
  BY <1>7 DEF Answer
<1> QED
  BY <1>1, <1>2, <1>3, <1>4, <1>5, <1>6, <1>7

(* The process keeps the promise of AcceptGate about its listener, its     *)
(* pool and its end (main.go, app.go and http.go together).                *)
THEOREM ServiceImplementsGate == Spec => ImplementsAcceptGate
<1>1. UNCHANGED vars => UNCHANGED Gate!avars
  BY DEF vars, Gate!avars, gateBar, poolBar
<1>2. IInv /\ [Next]_vars => [Gate!ANext]_Gate!avars
  BY <1>1, MainStepGate, OtherStepGate DEF Next
<1> QED
  BY InitGate, <1>2, ServiceInvariant, PTL DEF Spec, ImplementsAcceptGate, Gate!ASpec
=============================================================================
