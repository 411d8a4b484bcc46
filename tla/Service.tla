------------------------------- MODULE Service -------------------------------
(***************************************************************************)
(* The process life cycle of a scaffolded service:                         *)
(*   cmd/api/main.go  main            the main goroutine, its signals      *)
(*   cmd/api/app.go   Run, tryOpenDB  the composition root, the pool       *)
(*   cmd/api/http.go  runHTTPServer   the listener, the shutdown goroutine *)
(* with net/http's ListenAndServe and Shutdown, the Go runtime's signals   *)
(* and the requests of the clients as the (external) environment.          *)
(*                                                                         *)
(* Two goroutines of the program run side by side: the main one (pc) and   *)
(* the one http.go:31 starts, which waits for ctx and calls Shutdown       *)
(* (closer). Each request is served by a goroutine of net/http.            *)
(***************************************************************************)
EXTENDS Naturals

CONSTANTS Requests,    \* the requests clients may send
          MaxSignals   \* bound: SIGINT/SIGTERM deliveries explored

ASSUME MaxSignalsNat == MaxSignals \in Nat

VARIABLES
  pc,        \* the main goroutine
  ctx,       \* the context of signal.NotifyContext: "live" or "done"
  signals,   \* SIGINT/SIGTERM delivered so far
  closer,    \* the goroutine of http.go:31-39
  listener,  \* "none", "bound" (net.Listen), "tracked" (Serve), "closed"
  postgres,  \* external: "up", "refusing" or "hanging", fixed in a behaviour
  db,        \* "none", "dialing", "open", "closed"
  req,       \* request -> "idle", "inflight", "answered", "cut"
  exit       \* "running", or how the process ended

vars == <<pc, ctx, signals, closer, listener, postgres, db,
          req, exit>>

PC == {"config", "catalog", "dial", "spawn", "listen", "bind", "track",
       "serve", "closed", "failed", "return", "fatal", "unhooked", "gone"}

TypeOK == /\ pc \in PC
          /\ ctx \in {"live", "done"}
          /\ signals \in 0..MaxSignals
          /\ closer \in {"unborn", "waiting", "draining", "drained", "timedout"}
          /\ listener \in {"none", "bound", "tracked", "closed"}
          /\ postgres \in {"up", "refusing", "hanging"}
          /\ db \in {"none", "dialing", "open", "closed"}
          /\ req \in [Requests -> {"idle", "inflight", "answered", "cut"}]
          /\ exit \in {"running", "clean", "fatal", "panic", "killed"}

Init == /\ pc = "config"
        /\ ctx = "live"
        /\ signals = 0
        /\ closer = "unborn"
        /\ listener = "none"
        /\ postgres \in {"up", "refusing", "hanging"}
        /\ db = "none"
        /\ req = [r \in Requests |-> "idle"]
        /\ exit = "running"

Alive == exit = "running"

\* net/http's srv.inShutdown: Shutdown has been called.
Stopping == closer \in {"draining", "drained", "timedout"}

InFlight == {r \in Requests : req[r] = "inflight"}

\* The process ends: every request still in flight is cut off.
Die(how) == /\ exit' = how
            /\ pc' = "gone"
            /\ req' = [r \in Requests |-> IF req[r] = "inflight" THEN "cut"
                                                                 ELSE req[r]]
-----------------------------------------------------------------------------
(* The main goroutine, cmd/api/main.go and app.go.                         *)

\* main.go:16-21. MustLoad panics on a bad config; otherwise the signal
\* handler is installed and Run begins.
LoadConfig ==
  /\ Alive /\ pc = "config"
  /\ \/ Die("panic")
     \/ pc' = "catalog" /\ UNCHANGED <<req, exit>>
  /\ UNCHANGED <<ctx, signals, closer, listener, postgres, db>>

\* app.go:28-32. An invalid catalog makes Run return before anything is open.
LoadErrorCatalog ==
  /\ Alive /\ pc = "catalog"
  /\ pc' \in {"dial", "fatal"}
  /\ UNCHANGED <<ctx, signals, closer, listener, postgres, db,
                 req, exit>>

\* app.go:58-62. sql.Open connects to nothing; it fails on a bad DSN only.
OpenDB ==
  /\ Alive /\ pc = "dial" /\ db = "none"
  /\ \/ db' = "dialing" /\ UNCHANGED pc
     \/ pc' = "spawn" /\ UNCHANGED db
  /\ UNCHANGED <<ctx, signals, closer, listener, postgres, req, exit>>

\* Mutant: the ping is made with ctx itself, without the 2 s timeout.
PingWithoutTimeout ==
  /\ Alive /\ pc = "dial" /\ db = "dialing"
  /\ \/ postgres = "up" /\ db' = "open"
     \/ (postgres = "refusing" \/ ctx = "done") /\ db' = "none"
  /\ pc' = "spawn"
  /\ UNCHANGED <<ctx, signals, closer, listener, postgres, req, exit>>

\* Mutant: tryOpenDB defers db.Close itself, and returns a closed pool.
PingThenClose ==
  /\ Alive /\ pc = "dial" /\ db = "dialing"
  /\ db' = IF postgres = "up" THEN "closed" ELSE "none"
  /\ pc' = "spawn"
  /\ UNCHANGED <<ctx, signals, closer, listener, postgres, req, exit>>

\* app.go:63-70. PingContext ends by an answer, by the 2 s timeout or by ctx;
\* the pool of a failed ping is closed again, and the service goes on without.
PingDB ==
  /\ Alive /\ pc = "dial" /\ db = "dialing"
  /\ \/ postgres = "up" /\ db' = "open"
     \/ postgres \in {"refusing", "hanging"} /\ db' = "none"
     \/ ctx = "done" /\ db' = "none"
  /\ pc' = "spawn"
  /\ UNCHANGED <<ctx, signals, closer, listener, postgres, req, exit>>

\* http.go:25-39. The goroutine that will call Shutdown is started first.
SpawnCloser ==
  /\ Alive /\ pc = "spawn"
  /\ closer' = "waiting"
  /\ pc' = "listen"
  /\ UNCHANGED <<ctx, signals, listener, postgres, db, req,
                 exit>>

\* http.go:41, net/http. ListenAndServe refuses a server already shut down.
ListenAndServe ==
  /\ Alive /\ pc = "listen"
  /\ pc' = IF Stopping THEN "closed" ELSE "bind"
  /\ UNCHANGED <<ctx, signals, closer, listener, postgres, db,
                 req, exit>>

\* http.go:41, net/http. net.Listen: the port may be taken.
Bind ==
  /\ Alive /\ pc = "bind"
  /\ \/ listener' = "bound" /\ pc' = "track"
     \/ pc' = "failed" /\ UNCHANGED listener
  /\ UNCHANGED <<ctx, signals, closer, postgres, db, req, exit>>

\* http.go:41, net/http. Serve registers its listener unless Shutdown ran.
TrackListener ==
  /\ Alive /\ pc = "track"
  /\ IF Stopping THEN listener' = "closed" /\ pc' = "closed"
                 ELSE listener' = "tracked" /\ pc' = "serve"
  /\ UNCHANGED <<ctx, signals, closer, postgres, db, req, exit>>

\* Mutant: runHTTPServer logs the error of ListenAndServe and returns nil.
ServeErrorSwallowed ==
  /\ Alive /\ pc = "serve"
  /\ listener' = "closed"
  /\ pc' = "closed"
  /\ UNCHANGED <<ctx, signals, closer, postgres, db, req, exit>>

\* http.go:41-43, net/http. The accept loop ends with ErrServerClosed once
\* Shutdown has begun, and may fail for good before that.
ServeReturns ==
  /\ Alive /\ pc = "serve"
  /\ listener' = "closed"
  /\ pc' = IF Stopping THEN "closed" ELSE "failed"
  /\ UNCHANGED <<ctx, signals, closer, postgres, db, req, exit>>

\* Mutant: the pool is closed after runHTTPServer, only when it returned nil.
CloseDBOnSuccess ==
  /\ Alive /\ pc \in {"closed", "failed"}
  /\ db' = IF db = "open" /\ pc = "closed" THEN "closed" ELSE db
  /\ pc' = IF pc = "closed" THEN "return" ELSE "fatal"
  /\ UNCHANGED <<ctx, signals, closer, listener, postgres, req, exit>>

\* app.go:34. Run's deferred Close, on the nil and on the error return.
CloseDB ==
  /\ Alive /\ pc \in {"closed", "failed"}
  /\ db' = IF db = "open" THEN "closed" ELSE db
  /\ pc' = IF pc = "closed" THEN "return" ELSE "fatal"
  /\ UNCHANGED <<ctx, signals, closer, listener, postgres, req, exit>>

\* main.go:22. stop() undoes NotifyContext: ctx is done, signals kill again.
StopNotify ==
  /\ Alive /\ pc = "return"
  /\ ctx' = "done"
  /\ pc' = "unhooked"
  /\ UNCHANGED <<signals, closer, listener, postgres, db, req, exit>>

\* main.go:18-19,27. The last defers run and main returns.
MainReturns ==
  /\ Alive /\ pc = "unhooked"
  /\ Die("clean")
  /\ UNCHANGED <<ctx, signals, closer, listener, postgres, db>>

\* main.go:24-26. logger.Fatal exits the process at once.
Fatal ==
  /\ Alive /\ pc = "fatal"
  /\ Die("fatal")
  /\ UNCHANGED <<ctx, signals, closer, listener, postgres, db>>

MainStep == \/ LoadConfig \/ LoadErrorCatalog \/ OpenDB \/ PingDB
            \/ SpawnCloser \/ ListenAndServe \/ Bind \/ TrackListener
            \/ CloseDB \/ StopNotify \/ MainReturns \/ Fatal

\* ServeReturns only has to happen when Shutdown made it happen.
ServeClosed == Stopping /\ ServeReturns
-----------------------------------------------------------------------------
(* The shutdown goroutine, cmd/api/http.go:31-39.                          *)

\* Mutant: a stop request is dropped when nothing is listening yet.
CallShutdownIfServing ==
  /\ Alive /\ closer = "waiting" /\ ctx = "done"
  /\ closer' = IF listener = "tracked" THEN "draining" ELSE "unborn"
  /\ listener' = IF listener = "tracked" THEN "closed" ELSE listener
  /\ UNCHANGED <<pc, ctx, signals, postgres, db, req, exit>>

\* http.go:32-36, net/http. Shutdown marks the server and closes listeners.
CallShutdown ==
  /\ Alive /\ closer = "waiting" /\ ctx = "done"
  /\ closer' = "draining"
  /\ listener' = IF listener = "tracked" THEN "closed" ELSE listener
  /\ UNCHANGED <<pc, ctx, signals, postgres, db, req, exit>>

\* http.go:36, net/http. Shutdown returns when no request is in flight ...
Drained ==
  /\ Alive /\ closer = "draining" /\ InFlight = {}
  /\ closer' = "drained"
  /\ UNCHANGED <<pc, ctx, signals, listener, postgres, db, req,
                 exit>>

\* http.go:36-38. ... or when ShutdownTimeout is over, which is logged.
DrainTimeout ==
  /\ Alive /\ closer = "draining" /\ InFlight # {}
  /\ closer' = "timedout"
  /\ UNCHANGED <<pc, ctx, signals, listener, postgres, db, req,
                 exit>>
-----------------------------------------------------------------------------
(* The environment.                                                        *)

\* SIGINT or SIGTERM. Between NotifyContext and stop() it cancels ctx, and
\* every later one is swallowed; outside of that window it kills.
Signal ==
  /\ Alive /\ signals < MaxSignals
  /\ signals' = signals + 1
  /\ IF pc \in {"config", "unhooked"}
     THEN Die("killed") /\ UNCHANGED ctx
     ELSE ctx' = "done" /\ UNCHANGED <<pc, req, exit>>
  /\ UNCHANGED <<closer, listener, postgres, db>>

\* SIGKILL, the out-of-memory killer, or a lost machine.
Kill ==
  /\ Alive
  /\ Die("killed")
  /\ UNCHANGED <<ctx, signals, closer, listener, postgres, db>>

Accept(r) ==
  /\ Alive /\ pc = "serve" /\ listener = "tracked" /\ req[r] = "idle"
  /\ req' = [req EXCEPT ![r] = "inflight"]
  /\ UNCHANGED <<pc, ctx, signals, closer, listener, postgres,
                 db, exit>>

\* A handler may also run for ever: Answer carries no fairness.
Answer(r) ==
  /\ Alive /\ req[r] = "inflight"
  /\ req' = [req EXCEPT ![r] = "answered"]
  /\ UNCHANGED <<pc, ctx, signals, closer, listener, postgres,
                 db, exit>>
-----------------------------------------------------------------------------
Next == \/ MainStep \/ ServeReturns
        \/ CallShutdown \/ Drained \/ DrainTimeout
        \/ Signal \/ Kill
        \/ \E r \in Requests : Accept(r) \/ Answer(r)

Spec == Init /\ [][Next]_vars

\* The Go scheduler runs every runnable goroutine; the ping and the drain end
\* by their timeouts. Clients, signals, handlers and accept errors owe nothing.
Fairness == /\ WF_vars(MainStep) /\ WF_vars(ServeClosed)
            /\ WF_vars(CallShutdown)

FairSpec == Spec /\ Fairness
-----------------------------------------------------------------------------
(* The inductive invariant behind the safety properties: which values of   *)
(* the listener, the pool and the shutdown goroutine go with which point   *)
(* of the main goroutine.                                                  *)

BeforeListening == {"config", "catalog", "dial", "spawn", "listen", "bind"}
PoolGivenBack   == {"return", "fatal", "unhooked"}

ListenerPhase ==
  /\ pc = "gone" <=> ~Alive
  /\ pc \in BeforeListening => listener = "none"
  /\ pc = "track" => listener = "bound"
  /\ listener = "bound" => pc \in {"track", "gone"}
  /\ listener = "tracked" => pc \in {"serve", "gone"} /\ ~Stopping

PoolPhase ==
  /\ pc = "config" \/ pc = "catalog" => db = "none"
  /\ db = "dialing" => pc \in {"dial", "gone"}
  /\ db = "closed" => /\ pc \in PoolGivenBack \cup {"gone"}
                      /\ listener \notin {"bound", "tracked"}
  /\ pc \in PoolGivenBack \/ exit \in {"clean", "fatal", "panic"}
       => db \in {"none", "closed"} /\ listener # "tracked"

StopPhase ==
  /\ ctx = "done" \/ Stopping => signals > 0
  /\ pc \in {"closed", "return", "unhooked"} \/ exit = "clean" => Stopping

IInv == TypeOK /\ ListenerPhase /\ PoolPhase /\ StopPhase
-----------------------------------------------------------------------------
(* The pool is closed only after the last admission: once it is given back *)
(* (app.go:34) no listener can let a request in that would need it.        *)
PoolOutlivesListener ==
  db = "closed" => listener \notin {"bound", "tracked"}

(* A process that ended by itself has closed the pool it opened, on every  *)
(* path, the failing ones included (app.go:33-35 before main.go:25).       *)
NoLeakedPool == exit \in {"clean", "fatal", "panic"} => db \notin {"open", "dialing"}

(* The process reports success only when it was asked to stop and Shutdown *)
(* was called: it never just falls out of main (http.go:41-45).            *)
CleanExitWasRequested ==
  exit = "clean" => signals > 0 /\ closer \notin {"unborn", "waiting"}

(* A stop request ends the process, wherever it meets it: while dialing    *)
(* Postgres, before, between or after the steps of ListenAndServe, or with *)
(* a handler that never returns (http.go:31-45).                           *)
SignalStopsProcess == signals > 0 ~> exit # "running"

(* Postgres is best effort: whatever state it is in, a process that starts *)
(* dialing goes on to serve unless it is stopped or cannot bind            *)
(* (app.go:57-71).                                                         *)
ServesWithoutPostgres ==
  pc = "dial" ~> (listener = "tracked" \/ signals > 0 \/ exit # "running")

(* http.go:2: "run the server with graceful shutdown". A request that was  *)
(* accepted is cut off only by a kill, a fatal error or the drain timeout. *)
GracefulShutdown ==
  exit = "clean" /\ closer # "timedout" => \A r \in Requests : req[r] # "cut"
-----------------------------------------------------------------------------
(* The life cycle implements the promise of AcceptGate: the gate is the    *)
(* registered listener of net/http (cmd/api/http.go:41). The order it      *)
(* promises, pool first and gate second, is that of app.go:33-36; app.go:2 *)
(* and 21-23 describe a server that listens first and dials afterwards,    *)
(* which this refinement rules out.                                        *)
gateBar == CASE listener = "tracked" -> "open"
             [] listener = "closed" -> "closed"
             [] OTHER -> "shut"

poolBar == CASE db \in {"none", "dialing"} -> "absent"
             [] db = "open" -> "held"
             [] OTHER -> "released"

Gate == INSTANCE AcceptGate
          WITH gate <- gateBar, pool <- poolBar, outcome <- exit,
               admitted <- {r \in Requests : req[r] # "idle"}

ImplementsAcceptGate == Gate!ASpec
=============================================================================
