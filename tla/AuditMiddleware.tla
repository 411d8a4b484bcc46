--------------------------- MODULE AuditMiddleware ---------------------------
(***************************************************************************)
(* skills/http-audit-log, middleware/audit.go.tmpl: the gin middleware     *)
(* that records one audit_log row per request, around the rest of the      *)
(* chain (LoggingMiddleware, ErrorHandler, Recovery, handler).             *)
(* Bodies are counted in bytes.                                            *)
(* External: the handlers, gin's writer and router, net/http's buffers,    *)
(* Postgres, which refuses text that is not valid UTF-8, and may hang.     *)
(***************************************************************************)
EXTENDS Integers

CONSTANTS Requests,
          Routes,    \* subset of {"registered", "unmatched"}
          Texts,     \* request bodies: subset of {"utf8", "binary"}
          Limit,     \* maxAuditBodyLimit
          NetBuffer, \* what net/http holds back of a response
          DbFails,   \* may an insert fail for reasons of its own?
          MaxBytes,  \* bound: bytes a handler writes
          MaxCrashes \* bound

ASSUME AuditAssumption ==
  /\ Limit \in Nat /\ NetBuffer \in Nat
  /\ MaxBytes \in Nat /\ MaxCrashes \in Nat /\ DbFails \in BOOLEAN
  /\ Routes \subseteq {"registered", "unmatched"}
  /\ Texts \subseteq {"utf8", "binary"}

VARIABLES pc,      \* request -> where it is
          req,     \* request -> [size, declared, route, text]
          raw,     \* request -> what raw_request will hold
          wrapped, \* request -> captureResponseWriter.status, 0 at first
          header,  \* request -> the status of gin's own writer
          written, \* request -> has gin's writer fixed that status?
          late,    \* history: a success was named after it was fixed
          out,     \* request -> bytes of the response written
          aside,   \* history: those of them that went past the wrapper
          body,    \* request -> bytes captured
          marked,  \* request -> was the capture cut, and through a character?
          client,  \* request -> how much of the response the client has
          rows,    \* request -> number of its rows of audit_log
          status,  \* request -> the status its row holds
          logged,  \* request -> was a failed insert logged?
          database, \* Postgres "answers" an insert, or "hangs" and may not
          crashes

heads == <<wrapped, header, late>>
bytes == <<written, out, aside, body, marked>>
response == <<heads, bytes>>
record == <<rows, status, logged>>
vars == <<pc, req, raw, response, client, record, database, crashes>>

Codes == {200, 400, 404, 413, 500}
Request == [size : 0..(Limit + 1), declared : {"yes", "no"},
            route : Routes, text : Texts]

TypeOK ==
  /\ pc \in [Requests -> {"new", "check", "next", "error", "persist", "end",
                          "answered", "cut"}]
  /\ req \in [Requests -> Request]
  /\ raw \in [Requests -> {"empty", "body", "marker"}]
  /\ wrapped \in [Requests -> Codes \union {0}]
  /\ header \in [Requests -> Codes]
  /\ written \in [Requests -> BOOLEAN] /\ late \in [Requests -> BOOLEAN]
  /\ out \in [Requests -> Nat] /\ body \in [Requests -> Nat]
  /\ aside \in [Requests -> Nat]
  /\ marked \in [Requests -> {"no", "clean", "split"}]
  /\ client \in [Requests -> {"nothing", "part", "all"}]
  /\ rows \in [Requests -> Nat]
  /\ status \in [Requests -> {"none", "SUCCESS", "FAILED"}]
  /\ logged \in [Requests -> {"no", "yes"}]
  /\ database \in {"answers", "hangs"}
  /\ crashes \in 0..MaxCrashes

Init ==
  /\ pc = [r \in Requests |-> "new"]
  /\ req \in [Requests -> Request]
  /\ raw = [r \in Requests |-> "empty"]
  /\ wrapped = [r \in Requests |-> 0]
  /\ header = [r \in Requests |-> 200]
  /\ written = [r \in Requests |-> FALSE]
  /\ late = [r \in Requests |-> FALSE]
  /\ out = [r \in Requests |-> 0]
  /\ aside = [r \in Requests |-> 0]
  /\ body = [r \in Requests |-> 0]
  /\ marked = [r \in Requests |-> "no"]
  /\ client = [r \in Requests |-> "nothing"]
  /\ rows = [r \in Requests |-> 0]
  /\ status = [r \in Requests |-> "none"]
  /\ logged = [r \in Requests |-> "no"]
  /\ database \in {"answers", "hangs"}
  /\ crashes = 0

Goto(r, where) == pc' = [pc EXCEPT ![r] = where]
Least(m, n) == IF m < n THEN m ELSE n
-----------------------------------------------------------------------------
(* captureResponseWriter over gin's writer, which keeps the last status    *)
(* named before it was written to, by a write of no bytes too.             *)

\* gin writes n bytes, and fixes the status of the response.
Forward(r, n) == /\ out' = [out EXCEPT ![r] = @ + n]
                 /\ written' = [written EXCEPT ![r] = TRUE]

\* Mutant: a write is kept whole as long as the cap is not yet reached.
WriteUncut(r, n) ==
  /\ Forward(r, n)
  /\ body' = [body EXCEPT ![r] = IF @ < Limit THEN @ + n ELSE @]
  /\ UNCHANGED <<aside, marked>>

\* audit.go.tmpl:37-48.
Write(r, n) ==
  LET kept == Least(n, Limit - body[r])
  IN /\ Forward(r, n)
     /\ body' = [body EXCEPT ![r] = IF @ < Limit THEN @ + kept ELSE @]
     /\ \E cut \in {"clean", "split"} :
          marked' = [marked EXCEPT ![r] =
                       IF body[r] < Limit /\ kept < n THEN cut ELSE @]
     /\ UNCHANGED aside

\* audit.go.tmpl:29-30. WriteString is gin's own, promoted from the embedded
\* writer: io.WriteString and server-sent events go past the capture.
WriteString(r, n) ==
  /\ Forward(r, n)
  /\ aside' = [aside EXCEPT ![r] = @ + n]
  /\ UNCHANGED <<body, marked>>

\* gin ignores a status that is named after the first write.
Named(r, code) ==
  /\ header' = [header EXCEPT ![r] = IF written[r] THEN @ ELSE code]
  /\ late' = [late EXCEPT ![r] = @ \/ (written[r] /\ code < 400)]

\* Mutant: the wrapper only forwards the status.
WriteHeaderUncaptured(r, code) == Named(r, code) /\ UNCHANGED wrapped

\* audit.go.tmpl:51-54. The wrapper takes every status, also a late one.
WriteHeader(r, code) ==
  /\ wrapped' = [wrapped EXCEPT ![r] = code]
  /\ Named(r, code)

\* audit.go.tmpl:58-63.
Status(r) == IF wrapped[r] = 0 THEN 200 ELSE wrapped[r]

\* audit.go.tmpl:171-176.
auditStatus(code) == IF code < 400 THEN "SUCCESS" ELSE "FAILED"
-----------------------------------------------------------------------------
(* Before c.Next().                                                        *)

Arrive(r) == /\ pc[r] = "new"
             /\ Goto(r, "check")
             /\ UNCHANGED <<req, raw, response, client, record, database, crashes>>

\* Mutant: a rejected request is not recorded.
RejectUnrecorded(r) ==
  /\ pc[r] = "check" /\ req[r].size > Limit
  /\ header' = [header EXCEPT ![r] = 413]
  /\ Forward(r, 1)
  /\ raw' = [raw EXCEPT ![r] = "marker"]
  /\ Goto(r, "end")
  /\ UNCHANGED <<req, wrapped, late, aside, body, marked, client, record, database, crashes>>

\* audit.go.tmpl:74-83,115-133. Too long by its Content-Length, or by what was
\* read of it. The 413 goes to gin's writer: there is no wrapper yet.
RejectOversized(r) ==
  /\ pc[r] = "check" /\ req[r].size > Limit
  /\ header' = [header EXCEPT ![r] = 413]
  /\ Forward(r, 1)
  /\ raw' = [raw EXCEPT ![r] = "marker"]
  /\ Goto(r, "persist")
  /\ UNCHANGED <<req, wrapped, late, aside, body, marked, client, record, database, crashes>>

\* audit.go.tmpl:153-167. A body that cannot be read is recorded as empty,
\* which also spares an undeclared long one its 413.
Capture(r) ==
  /\ pc[r] = "check"
  /\ \/ req[r].size <= Limit /\ raw' = [raw EXCEPT ![r] = "body"]
     \/ ~(req[r].declared = "yes" /\ req[r].size > Limit) /\ UNCHANGED raw
  /\ Goto(r, "next")
  /\ UNCHANGED <<req, response, client, record, database, crashes>>
-----------------------------------------------------------------------------
(* c.Next(). Without a route nothing writes.                               *)

\* A handler names a status before its body, behind it, or several times.
HandlerSetsStatus(r) ==
  /\ pc[r] = "next" /\ req[r].route = "registered"
  /\ \E code \in {200, 400} : WriteHeader(r, code)
  /\ UNCHANGED <<pc, req, raw, bytes, client, record, database, crashes>>

\* Bytes of the body, or none to fix the status only.
HandlerWrites(r) ==
  /\ pc[r] = "next" /\ req[r].route = "registered"
  /\ \E n \in 0..(MaxBytes - out[r]) : Write(r, n)
  /\ UNCHANGED <<pc, req, raw, heads, client, record, database, crashes>>

HandlerWritesString(r) ==
  /\ pc[r] = "next" /\ req[r].route = "registered"
  /\ \E n \in 1..(MaxBytes - out[r]) : WriteString(r, n)
  /\ UNCHANGED <<pc, req, raw, heads, client, record, database, crashes>>

\* An error pushed by the handler, or a panic that Recovery turned into one.
HandlerFails(r) ==
  /\ pc[r] = "next" /\ req[r].route = "registered"
  /\ Goto(r, "error")
  /\ UNCHANGED <<req, raw, response, client, record, database, crashes>>

\* middleware.go:19-22. Rendered through the wrapper, also after a handler
\* that had begun its answer.
ErrorHandler(r) ==
  /\ pc[r] = "error"
  /\ WriteHeader(r, 500) /\ Write(r, 1)
  /\ Goto(r, "persist")
  /\ UNCHANGED <<req, raw, client, record, database, crashes>>

Return(r) == /\ pc[r] = "next"
             /\ Goto(r, "persist")
             /\ UNCHANGED <<req, raw, response, client, record, database, crashes>>
-----------------------------------------------------------------------------
(* After c.Next().                                                         *)

\* audit.go.tmpl:90-108,118-131. Of the row its status is kept.
AuditLog(r) == IF raw[r] = "marker" THEN "FAILED" ELSE auditStatus(Status(r))

\* A body that is not UTF-8, or was cut through a character, is refused.
Storable(r) == /\ raw[r] = "body" => req[r].text = "utf8"
               /\ marked[r] # "split"

\* Mutant: an insert that fails is tried until it is done.
persistInsists(r) ==
  /\ pc[r] = "persist" /\ Storable(r)
  /\ rows' = [rows EXCEPT ![r] = @ + 1]
  /\ status' = [status EXCEPT ![r] = AuditLog(r)]
  /\ \/ Goto(r, "end") /\ UNCHANGED logged
     \/ DbFails /\ logged' = [logged EXCEPT ![r] = "yes"] /\ UNCHANGED pc
  /\ UNCHANGED <<req, raw, response, client, database, crashes>>

\* audit.go.tmpl:137-148, postgres/audit_log.go.tmpl:22-27. An insert may be
\* done although its answer is lost.
persistAuditLog(r) ==
  /\ pc[r] = "persist"
  /\ LET insert == /\ rows' = [rows EXCEPT ![r] = @ + 1]
                   /\ status' = [status EXCEPT ![r] = AuditLog(r)]
         log == logged' = [logged EXCEPT ![r] = "yes"]
     IN \/ Storable(r) /\ insert /\ UNCHANGED logged
        \/ Storable(r) /\ DbFails /\ insert /\ log
        \/ (DbFails \/ ~Storable(r)) /\ UNCHANGED <<rows, status>> /\ log
  /\ Goto(r, "end")
  /\ UNCHANGED <<req, raw, response, client, database, crashes>>

\* gin answers a request without a route once the chain is through, and
\* net/http sends what it still holds.
unrouted(r) == req[r].route = "unmatched" /\ raw[r] # "marker"

Finish(r) ==
  /\ pc[r] = "end"
  /\ header' = [header EXCEPT ![r] = IF unrouted(r) THEN 404 ELSE @]
  /\ out' = [out EXCEPT ![r] = IF unrouted(r) THEN 1 ELSE @]
  /\ client' = [client EXCEPT ![r] = "all"]
  /\ Goto(r, "answered")
  /\ UNCHANGED <<req, raw, wrapped, late, written, aside, body, marked, record, database, crashes>>

\* net/http sends the head and the first bytes once its buffers are full.
Flush(r) ==
  /\ pc[r] \in {"next", "error", "persist", "end"}
  /\ client[r] = "nothing" /\ out[r] > NetBuffer
  /\ client' = [client EXCEPT ![r] = "part"]
  /\ UNCHANGED <<pc, req, raw, response, record, database, crashes>>

Crash ==
  /\ crashes < MaxCrashes
  /\ crashes' = crashes + 1
  /\ pc' = [r \in Requests |->
              IF pc[r] \in {"new", "answered"} THEN pc[r] ELSE "cut"]
  /\ UNCHANGED <<req, raw, response, client, record, database>>
-----------------------------------------------------------------------------
Serve(r) == \/ RejectOversized(r) \/ Capture(r) \/ HandlerFails(r)
            \/ ErrorHandler(r) \/ Return(r) \/ persistAuditLog(r) \/ Finish(r)

Next == \/ \E r \in Requests : \/ Arrive(r) \/ Serve(r) \/ Flush(r)
                               \/ HandlerSetsStatus(r) \/ HandlerWrites(r)
                               \/ HandlerWritesString(r)
        \/ Crash

Spec == Init /\ [][Next]_vars

\* Goroutines run on and handlers return. An insert ends only if Postgres
\* answers it: audit.go.tmpl:141 sets no timeout, and its ctx never ends.
FairSpec ==
  Spec /\ \A r \in Requests :
            WF_vars((pc[r] = "persist" => database = "answers") /\ Serve(r))
-----------------------------------------------------------------------------
(* What the wrapper and the rows hold at each point.                       *)
Chain ==
  \A r \in Requests :
    /\ pc[r] \in {"new", "check"} => /\ raw[r] = "empty" /\ out[r] = 0
                                     /\ wrapped[r] = 0 /\ header[r] = 200
                                     /\ aside[r] = 0
    /\ body[r] = IF raw[r] = "marker" \/ unrouted(r)
                   THEN 0 ELSE Least(out[r] - aside[r], Limit)
    /\ marked[r] # "no" => raw[r] # "marker" /\ out[r] - aside[r] > body[r]
    /\ aside[r] <= out[r]
    /\ unrouted(r) => /\ wrapped[r] = 0 /\ aside[r] = 0
                      /\ pc[r] \in {"next", "error", "persist", "end"} =>
                           out[r] = 0 /\ header[r] = 200
                      /\ header[r] # 404 => out[r] = 0
    /\ header[r] = 413 => raw[r] = "marker"
    /\ header[r] = 404 => unrouted(r)
    /\ header[r] \in {400, 500} => wrapped[r] \in {400, 500} \/ late[r]
    /\ wrapped[r] \in {0, 200, 400, 500}
    /\ pc[r] = "error" => req[r].route = "registered"
    /\ raw[r] = "marker" => pc[r] \in {"persist", "end", "answered", "cut"}
    /\ rows[r] <= 1
    /\ pc[r] \in {"new", "check", "next", "error", "persist"} =>
         rows[r] = 0 /\ logged[r] = "no"
    /\ pc[r] \in {"end", "answered"} => rows[r] # 0 \/ logged[r] = "yes"
    /\ rows[r] # 0 => status[r] = AuditLog(r)

IInv == TypeOK /\ Chain

(* "One audit_log row per inbound HTTP request" as far as faults allow: an *)
(* answered request has a row or a logged failure, never two rows, also    *)
(* when it was too long, failed or panicked (audit.go.tmpl:74-110).        *)
AnsweredIsRecorded ==
  \A r \in Requests : /\ client[r] = "all" => rows[r] # 0 \/ logged[r] = "yes"
                      /\ rows[r] <= 1

Told(r, code) == client[r] # "nothing" /\ header[r] = code

(* A client that was told of an error on a registered route finds it       *)
(* recorded as FAILED, whoever in the chain wrote the error and however    *)
(* often a status was named (audit.go.tmpl:51-63,171-176), unless a        *)
(* success was named behind the first write: gin then keeps the error and  *)
(* the wrapper takes the success.                                          *)
RegisteredFailureIsRecorded ==
  \A r \in Requests :
    req[r].route = "registered" /\ rows[r] # 0 /\ ~late[r]
      /\ (\E code \in {400, 413, 500} : Told(r, code))
      => status[r] = "FAILED"

(* raw_response holds, up to the cap, all that was sent through Write,     *)
(* however the handler cut it into writes, and only a cut one is marked    *)
(* (audit.go.tmpl:35-48): it is the beginning of the response as long as   *)
(* nothing was sent with WriteString, which goes past it.                  *)
CapturedIsPrefix ==
  \A r \in Requests : raw[r] # "marker" /\ header[r] # 404 =>
    /\ body[r] = Least(out[r] - aside[r], Limit)
    /\ marked[r] # "no" => out[r] - aside[r] > Limit

(* Whatever Postgres makes of the row, the request goes on to its answer   *)
(* (audit.go.tmpl:135-148); only an insert that Postgres never answers     *)
(* keeps a request from it.                                                *)
OnlyAHangingInsertBlocks ==
  \A r \in Requests :
    pc[r] = "check" ~> \/ pc[r] \in {"answered", "cut"}
                       \/ pc[r] = "persist" /\ database = "hangs"
=============================================================================
