----------------------------- MODULE AcceptGate -----------------------------
(***************************************************************************)
(* What the composition root (cmd/api) promises about its three resources: *)
(* the HTTP listener (the gate), the Postgres pool and the process itself. *)
(*                                                                         *)
(*  - the gate opens at most once and never reopens;                       *)
(*  - a request is admitted only through an open gate;                     *)
(*  - the pool is taken before the gate opens and never given back while   *)
(*    it is open or may still open: no admission meets a pool given back.  *)
(*    Taking it first is the order of the code (app.go:33 before :36): the *)
(*    comments of app.go:1-2 and 21-23 tell the opposite order, which      *)
(*    Acquire forbids and the README reports as a disagreement;            *)
(*  - a process that stops by itself has closed the gate and holds no      *)
(*    pool; only a kill may end it earlier.                                *)
(*                                                                         *)
(* The module is abstract: it knows no goroutine, signal or timeout.       *)
(***************************************************************************)
CONSTANT Requests

VARIABLES gate,      \* "shut" before the first accept, then "open", "closed"
          pool,      \* "absent", "held" or "released"
          admitted,  \* the requests that were ever admitted
          outcome    \* "running", or how the process ended

avars == <<gate, pool, admitted, outcome>>

Endings == {"clean", "fatal", "panic", "killed"}

AInit == /\ gate = "shut"
         /\ pool = "absent"
         /\ admitted = {}
         /\ outcome = "running"

Acquire == /\ outcome = "running"
           /\ gate = "shut" /\ pool = "absent"
           /\ pool' = "held"
           /\ UNCHANGED <<gate, admitted, outcome>>

Open == /\ outcome = "running"
        /\ gate = "shut" /\ pool # "released"
        /\ gate' = "open"
        /\ UNCHANGED <<pool, admitted, outcome>>

Admit(r) == /\ outcome = "running"
            /\ gate = "open"
            /\ r \notin admitted
            /\ admitted' = admitted \cup {r}
            /\ UNCHANGED <<gate, pool, outcome>>

\* A gate may also close without ever having opened.
Close == /\ outcome = "running"
         /\ gate # "closed"
         /\ gate' = "closed"
         /\ UNCHANGED <<pool, admitted, outcome>>

Release == /\ outcome = "running"
           /\ gate # "open" /\ pool = "held"
           /\ pool' = "released"
           /\ UNCHANGED <<gate, admitted, outcome>>

StopItself == /\ outcome = "running"
              /\ gate # "open" /\ pool # "held"
              /\ outcome' \in {"clean", "fatal", "panic"}
              /\ UNCHANGED <<gate, pool, admitted>>

GetKilled == /\ outcome = "running"
             /\ outcome' = "killed"
             /\ UNCHANGED <<gate, pool, admitted>>

ANext == \/ Acquire \/ Open \/ Close \/ Release \/ StopItself \/ GetKilled
         \/ \E r \in Requests : Admit(r)

ASpec == AInit /\ [][ANext]_avars
=============================================================================
