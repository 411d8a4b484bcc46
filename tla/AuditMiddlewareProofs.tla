------------------------ MODULE AuditMiddlewareProofs ------------------------
(* Theorems of AuditMiddleware, for any cap and any buffers below.         *)
EXTENDS AuditMiddleware, TLAPS

\* The strengthening holds of the first states.
LEMMA InitIInv == Init => IInv
BY AuditAssumption DEF AuditAssumption, Init, IInv, TypeOK, Chain, Codes,
   Least, unrouted

(* Every step of one request preserves the invariant of all.               *)
LEMMA RequestIInv ==
  ASSUME IInv, NEW r \in Requests,
         \/ Arrive(r) \/ Serve(r) \/ Flush(r)
         \/ HandlerSetsStatus(r) \/ HandlerWrites(r) \/ HandlerWritesString(r)
  PROVE  IInv'
<1> USE AuditAssumption DEF AuditAssumption, IInv, TypeOK, Chain, Codes, Goto,
        response, heads, bytes, record, unrouted, AuditLog, Status
<1>1. CASE Arrive(r)
  BY <1>1 DEF Arrive
<1>2. CASE RejectOversized(r)
  BY <1>2 DEF RejectOversized, Forward, Least
<1>3. CASE Capture(r)
  BY <1>3 DEF Capture
<1>4. CASE HandlerFails(r)
  BY <1>4 DEF HandlerFails
<1>5. CASE ErrorHandler(r)
  BY <1>5 DEF ErrorHandler, WriteHeader, Named, Write, Forward, Least
<1>6. CASE Return(r)
  BY <1>6 DEF Return
<1>7. CASE persistAuditLog(r)
  <2>1. /\ pc[r] = "persist" /\ rows[r] = 0 /\ logged[r] = "no"
        /\ UNCHANGED <<req, raw, response, client, database, crashes>>
    BY <1>7 DEF persistAuditLog
  <2>2. /\ \/ /\ rows' = [rows EXCEPT ![r] = @ + 1]
              /\ status' = [status EXCEPT ![r] = AuditLog(r)]
           \/ UNCHANGED <<rows, status>>
        /\ logged' \in {logged, [logged EXCEPT ![r] = "yes"]}
        /\ rows'[r] # 0 \/ logged'[r] = "yes"
        /\ pc' = [pc EXCEPT ![r] = "end"]
    BY <1>7, <2>1 DEF persistAuditLog
  <2>3. AuditLog(r) \in {"SUCCESS", "FAILED"}
    BY DEF auditStatus
  <2>4. TypeOK'
    <3> HIDE DEF AuditLog
    <3> QED BY <2>1, <2>2, <2>3
  <2>5. \A q \in Requests : AuditLog(q)' = AuditLog(q)
    BY <2>1
  <2>6. Chain'
    <3> HIDE DEF AuditLog
    <3> QED BY <2>1, <2>2, <2>3, <2>5
  <2> QED BY <2>4, <2>6
<1>8. CASE Finish(r)
  BY <1>8 DEF Finish
<1>9. CASE Flush(r)
  BY <1>9 DEF Flush
<1>10. CASE HandlerSetsStatus(r)
  BY <1>10 DEF HandlerSetsStatus, WriteHeader, Named
<1>11. CASE HandlerWrites(r)
  <2>1. PICK n \in Nat : Write(r, n)
    BY <1>11 DEF HandlerWrites
  <2>2. /\ pc[r] = "next" /\ ~unrouted(r)
        /\ UNCHANGED <<pc, req, raw, heads, client, record, database, crashes>>
    BY <1>11 DEF HandlerWrites
  <2>3. /\ body[r] = Least(out[r] - aside[r], Limit) /\ aside[r] <= out[r]
        /\ raw[r] # "marker" /\ header[r] # 404
    BY <2>2
  <2>4. /\ body'[r] = Least(out'[r] - aside[r], Limit)
        /\ marked'[r] # "no" => out'[r] - aside[r] > body'[r]
        /\ marked'[r] \in {"no", "clean", "split"}
        /\ out'[r] \in Nat /\ body'[r] \in Nat /\ aside[r] <= out'[r]
        /\ aside' = aside
    BY <2>1, <2>3 DEF Write, Forward, Least
  <2>5. \A q \in Requests \ {r} :
          out'[q] = out[q] /\ body'[q] = body[q] /\ marked'[q] = marked[q]
    BY <2>1 DEF Write, Forward
  <2>6. TypeOK'
    BY <2>1, <2>2, <2>4, <2>5 DEF Write, Forward
  <2>7. Chain'
    BY <2>2, <2>3, <2>4, <2>5
  <2> QED BY <2>6, <2>7
<1>12. CASE HandlerWritesString(r)
  <2>1. PICK n \in Nat : WriteString(r, n)
    BY <1>12 DEF HandlerWritesString
  <2>2. /\ pc[r] = "next" /\ ~unrouted(r)
        /\ UNCHANGED <<pc, req, raw, heads, client, record, database, crashes>>
    BY <1>12 DEF HandlerWritesString
  <2>3. TypeOK'
    BY <2>1, <2>2 DEF WriteString, Forward
  <2>4. /\ \A q \in Requests : out'[q] - aside'[q] = out[q] - aside[q]
        /\ aside'[r] <= out'[r]
        /\ \A q \in Requests \ {r} : out'[q] = out[q] /\ aside'[q] = aside[q]
        /\ UNCHANGED <<body, marked>>
    BY <2>1 DEF WriteString, Forward
  <2>5. /\ raw[r] # "marker" /\ header[r] # 404
        /\ body[r] = Least(out[r] - aside[r], Limit)
        /\ marked[r] # "no" => out[r] - aside[r] > body[r]
    BY <2>2
  <2>6. /\ body'[r] = Least(out'[r] - aside'[r], Limit)
        /\ marked'[r] # "no" => out'[r] - aside'[r] > body'[r]
        /\ aside'[r] <= out'[r]
    BY <2>4, <2>5
  <2>7. \A q \in Requests \ {r} :
          /\ out'[q] = out[q] /\ aside'[q] = aside[q]
          /\ body'[q] = body[q] /\ marked'[q] = marked[q]
    BY <2>4
  <2>8. Chain'
    BY <2>2, <2>5, <2>6, <2>7
  <2> QED BY <2>3, <2>8
<1> QED
  BY <1>1, <1>2, <1>3, <1>4, <1>5, <1>6, <1>7, <1>8, <1>9, <1>10, <1>11, <1>12
  DEF Serve

\* A crash of the process keeps the strengthening.
LEMMA CrashIInv == IInv /\ Crash => IInv'
BY AuditAssumption DEF AuditAssumption, IInv, TypeOK, Chain, Codes, response, heads, bytes, record,
   unrouted, AuditLog, Status, Crash

(* What the wrapper, the rows and the client hold at each point of a       *)
(* request (audit.go.tmpl:70-133).                                         *)
THEOREM AuditInvariant == Spec => []IInv
<1>1. IInv /\ UNCHANGED vars => IInv'
  BY DEF vars, response, heads, bytes, record, IInv, TypeOK, Chain, unrouted, AuditLog, Status
<1>2. IInv /\ [Next]_vars => IInv'
  BY <1>1, RequestIInv, CrashIInv DEF Next
<1> QED BY InitIInv, <1>2, PTL DEF Spec

(* An error told on a registered route is recorded as FAILED, unless a     *)
(* success was named behind the first write.                               *)
THEOREM RegisteredFailureHolds == Spec => []RegisteredFailureIsRecorded
<1>1. IInv => RegisteredFailureIsRecorded
  BY DEF IInv, TypeOK, Chain, unrouted, AuditLog, Status, auditStatus, Told,
     RegisteredFailureIsRecorded, Codes
<1> QED BY <1>1, AuditInvariant, PTL

(* raw_response is the first Limit bytes of what was sent through Write.   *)
THEOREM CapturedIsPrefixHolds == Spec => []CapturedIsPrefix
<1>1. IInv => CapturedIsPrefix
  BY AuditAssumption DEF AuditAssumption, IInv, TypeOK, Chain, unrouted, Least,
     CapturedIsPrefix, Codes
<1> QED BY <1>1, AuditInvariant, PTL

(* A client has a whole answer only of a request that is through.          *)
Answered == \A r \in Requests : client[r] = "all" => pc[r] = "answered"

\* No step gives a client the whole answer of a request that is not through.
LEMMA AnsweredStep ==
  ASSUME IInv, Answered, [Next]_vars
  PROVE  Answered'
<1> USE DEF IInv, TypeOK, Answered, Goto, response, heads, bytes, record
<1>1. CASE UNCHANGED vars
  BY <1>1 DEF vars
<1>2. CASE Crash
  BY <1>2 DEF Crash
<1>3. ASSUME NEW r \in Requests, Serve(r)
      PROVE  Answered'
  <2>1. CASE RejectOversized(r) \/ Capture(r)
    BY <2>1 DEF RejectOversized, Capture
  <2>2. CASE HandlerFails(r) \/ ErrorHandler(r) \/ Return(r)
    BY <2>2 DEF HandlerFails, ErrorHandler, Return
  <2>3. CASE persistAuditLog(r)
    BY <2>3 DEF persistAuditLog
  <2>4. CASE Finish(r)
    BY <2>4 DEF Finish
  <2> QED BY <1>3, <2>1, <2>2, <2>3, <2>4 DEF Serve
<1>4. ASSUME NEW r \in Requests,
             \/ Arrive(r) \/ Flush(r) \/ HandlerSetsStatus(r)
             \/ HandlerWrites(r) \/ HandlerWritesString(r)
      PROVE  Answered'
  BY <1>4 DEF Arrive, Flush, HandlerSetsStatus, HandlerWrites, HandlerWritesString
<1> QED BY <1>1, <1>2, <1>3, <1>4 DEF Next

(* Whoever has a whole answer left a row or a logged failure behind, and   *)
(* never two rows (audit.go.tmpl:74-110).                                  *)
THEOREM AnsweredIsRecordedHolds == Spec => []AnsweredIsRecorded
<1>1. Init => Answered
  BY DEF Init, Answered
<1>2. IInv /\ Answered /\ [Next]_vars => Answered'
  BY AnsweredStep
<1>3. IInv /\ Answered => AnsweredIsRecorded
  BY DEF IInv, TypeOK, Chain, Answered, AnsweredIsRecorded
<1> QED BY <1>1, <1>2, <1>3, AuditInvariant, PTL DEF Spec
=============================================================================
