---------------------------- MODULE AppServerClient ----------------------------
(***************************************************************************)
(* scripts/test-codex-install.js: listSkills talks to a codex app-server   *)
(* over its stdio, main checks what it lists and the exit code tells CI.   *)
(* An event handler runs to its end, with the promise continuations it     *)
(* wakes, before the next one: both are one action here. What a handler    *)
(* throws nobody catches: node ends at once, without any finally.          *)
(* External: the server, the codex CLI, node's child process and loop.     *)
(***************************************************************************)
EXTENDS Naturals

CONSTANTS MaySignal \* may a signal of somebody else kill the server?

ASSUME ClientAssumption == MaySignal \in BOOLEAN

VARIABLES at,      \* "setup", "request", "wait" for the exit, "main", "over"
          pending, \* the ids of unsettled requests, each with a timer
          wire,    \* request -> "unsent", "sent", "answered", "refused", "read"
          garbage, \* a line on its stdout that is no answer: "none", "text"
                   \* that is no JSON, or the JSON "null"
          stdin,   \* the server's: "open", "closed" by it, or "broken": written
                   \* to after nobody read it any more
          obeys,   \* does the server end by a SIGTERM?
          server,  \* "none", "running", "exited", "signalled"
          seen,    \* how node has told of its end: "none", "exit", "signal"
          killed,  \* has the client killed it?
          result,  \* of listSkills: "none", "listed", "failed"
          dir,     \* the temporary directory: "there", "removed"
          passed,  \* has PASSED been printed?
          thrown,  \* has an event handler thrown?
          exit     \* "running", "zero", "one"

clientVars == <<at, pending, wire, garbage, stdin, obeys, server, seen, killed,
                result, dir, passed, thrown, exit>>
pipe == <<wire, garbage>>
child == <<server, seen, killed>>
outcome == <<dir, passed, thrown, exit>>

Ids == {1, 2}

ClientTypeOK ==
  /\ at \in {"setup", "request", "wait", "main", "over"}
  /\ pending \subseteq Ids
  /\ wire \in [Ids -> {"unsent", "sent", "answered", "refused", "read"}]
  /\ garbage \in {"none", "text", "null"}
  /\ stdin \in {"open", "closed", "broken"}
  /\ obeys \in {"yes", "no"}
  /\ server \in {"none", "running", "exited", "signalled"}
  /\ seen \in {"none", "exit", "signal"}
  /\ killed \in {"no", "yes"}
  /\ result \in {"none", "listed", "failed"}
  /\ dir \in {"there", "removed"}
  /\ passed \in {"no", "yes"}
  /\ thrown \in {"no", "yes"}
  /\ exit \in {"running", "zero", "one"}

ClientInit == /\ at = "setup" /\ pending = {}
        /\ wire = [i \in Ids |-> "unsent"] /\ garbage = "none"
        /\ stdin = "open" /\ obeys \in {"yes", "no"} /\ thrown = "no"
        /\ server = "none" /\ seen = "none" /\ killed = "no"
        /\ result = "none"
        /\ dir = "there" /\ passed = "no" /\ exit = "running"

\* test-codex-install.js:104-109. main's finally, then the exit code.
Leave(code) == /\ dir' = "removed" /\ exit' = code /\ at' = "over"
               /\ UNCHANGED thrown

\* An exception no frame of this file is there to catch.
Throw == /\ at' = "over" /\ exit' = "one" /\ thrown' = "yes"
         /\ UNCHANGED <<dir, passed>>
-----------------------------------------------------------------------------
(* The app-server.                                                         *)

Answer(i) == /\ server = "running" /\ wire[i] = "sent"
             /\ \E a \in {"answered", "refused"} : wire' = [wire EXCEPT ![i] = a]
             /\ UNCHANGED <<at, pending, garbage, stdin, obeys, child, result, outcome>>

Babble == /\ server = "running" /\ garbage = "none" /\ at = "request"
          /\ garbage' \in {"text", "null"}
          /\ UNCHANGED <<at, pending, wire, stdin, obeys, child, result, outcome>>

\* A server may close its stdin and run on.
CloseStdin == /\ server = "running" /\ stdin = "open"
              /\ stdin' = "closed"
              /\ UNCHANGED <<at, pending, pipe, obeys, child, result, outcome>>

\* By itself, by the client's kill (which it may turn into an exit of its
\* own), or by a signal of somebody else.
Die == /\ server = "running"
       /\ server' \in {"exited"} \union
                      (IF killed = "yes" \/ MaySignal THEN {"signalled"} ELSE {})
       /\ UNCHANGED <<at, pending, pipe, stdin, obeys, seen, killed, result, outcome>>
-----------------------------------------------------------------------------
(* main and listSkills.                                                    *)

\* test-codex-install.js:17-29,50-64,77-88. A spawn that fails is a child that
\* exited at once; a server may be gone, or deaf, before the first write.
Setup == /\ at = "setup"
         /\ \/ /\ at' = "request" /\ pending' = {1}
               /\ wire' = [wire EXCEPT ![1] = "sent"]
               /\ \/ server' = "running" /\ stdin' \in {"open", "broken"}
                  \/ server' = "exited" /\ stdin' = "broken"
               /\ UNCHANGED outcome
            \/ Leave("one") /\ UNCHANGED <<pending, wire, stdin, server, passed>>
         /\ UNCHANGED <<garbage, obeys, seen, killed, result>>

\* Mutant: the child is left to itself.
FinallyWithoutKill(r) == /\ result' = r
                         /\ at' = "main"
                         /\ UNCHANGED killed

\* test-codex-install.js:67-74. exitCode is null before the end of the child
\* has been told, and stays so when it was a signal.
Finally(r) ==
  /\ result' = r
  /\ IF seen' = "exit" THEN at' = "main" /\ UNCHANGED killed
                       ELSE at' = "wait" /\ killed' = "yes"

\* test-codex-install.js:34-37. The request under way fails.
rejectPending == pending' = {} /\ Finally("failed")

\* test-codex-install.js:60. What a write does to the pipe to the server.
written == IF server = "running" /\ stdin = "open" THEN "open" ELSE "broken"

\* test-codex-install.js:40-49,64-66. The continuation of the first answer
\* sends the second request before any other event is handled; a line of text
\* that came in one chunk with the answer is handled before, and rejects nothing.
OnLine(i) ==
  /\ at = "request" /\ i \in pending /\ wire[i] \in {"answered", "refused"}
  /\ UNCHANGED seen
  /\ \/ /\ wire[i] = "answered" /\ i = 1
        /\ pending' = {2}
        /\ wire' = [wire EXCEPT ![1] = "read", ![2] = "sent"]
        /\ stdin' = written
        /\ UNCHANGED <<at, killed, result>>
     \/ /\ wire[i] = "answered" /\ i = 2
        /\ pending' = {}
        /\ wire' = [wire EXCEPT ![2] = "read"]
        /\ Finally("listed")
        /\ UNCHANGED stdin
     \/ /\ wire[i] = "refused"
        /\ wire' = [wire EXCEPT ![i] = "read"]
        /\ rejectPending
        /\ UNCHANGED stdin
  /\ garbage' \in {garbage} \union (IF garbage = "text" THEN {"none"} ELSE {})
  /\ UNCHANGED <<obeys, server, outcome>>

\* test-codex-install.js:41-43.
OnGarbage == /\ at = "request" /\ garbage = "text"
             /\ garbage' = "none"
             /\ UNCHANGED seen
             /\ rejectPending
             /\ UNCHANGED <<wire, stdin, obeys, server, outcome>>

\* test-codex-install.js:42-44. null parses, and message.id throws.
OnNull == /\ at = "request" /\ garbage = "null"
          /\ garbage' = "none"
          /\ Throw
          /\ UNCHANGED <<pending, wire, stdin, obeys, child, result>>

\* Mutant: no timer is armed.
NeverTimesOut == at = "setup" /\ at # "setup" /\ UNCHANGED clientVars

\* test-codex-install.js:52-55.
OnTimeout == /\ at = "request"
             /\ UNCHANGED seen
             /\ rejectPending
             /\ UNCHANGED <<pipe, stdin, obeys, server, outcome>>

\* test-codex-install.js:38-39,70-72. The end of the child is told once, to
\* rejectPending or to the listener that waits for it.
OnExit ==
  /\ at \in {"request", "wait"} /\ seen = "none"
  /\ server \in {"exited", "signalled"}
  /\ seen' = IF server = "exited" THEN "exit" ELSE "signal"
  /\ IF at = "request" THEN rejectPending
     ELSE at' = "main" /\ UNCHANGED <<pending, killed, result>>
  /\ UNCHANGED <<pipe, stdin, obeys, server, outcome>>

\* test-codex-install.js:60,65. A write to a child that is gone, or that has
\* closed its stdin, raises an error event nobody listens to.
Epipe == /\ at \in {"request", "wait"} /\ stdin = "broken" /\ seen = "none"
         /\ Throw
         /\ UNCHANGED <<pending, pipe, stdin, obeys, child, result>>

\* test-codex-install.js:88-109. What was listed is right or not.
Check == /\ at = "main"
         /\ \/ result = "listed" /\ passed' = "yes" /\ Leave("zero")
            \/ UNCHANGED passed /\ Leave("one")
         /\ UNCHANGED <<pending, pipe, stdin, obeys, child, result>>

\* Nothing is left that could settle the promise listSkills waits for: the
\* loop is empty and node ends with the exit code nobody has set.
LoopEmpty == /\ at = "wait" /\ seen # "none"
             /\ at' = "over" /\ exit' = "zero"
             /\ UNCHANGED <<pending, pipe, stdin, obeys, child, result, dir, passed, thrown>>
-----------------------------------------------------------------------------
Events == \/ \E i \in Ids : OnLine(i)
          \/ OnGarbage \/ OnNull \/ OnTimeout \/ OnExit \/ Epipe

ClientNext == \/ \E i \in Ids : Answer(i)
        \/ Babble \/ CloseStdin \/ Die
        \/ Setup \/ Events \/ Check \/ LoopEmpty

ClientSpec == ClientInit /\ [][ClientNext]_clientVars

\* The loop runs on and timers fire; a child that was killed ends if SIGTERM
\* ends it, which the client cannot know.
FairClientSpec == /\ ClientSpec
            /\ WF_clientVars(Setup \/ Check \/ LoopEmpty) /\ WF_clientVars(OnExit)
            /\ WF_clientVars(OnTimeout) /\ WF_clientVars(killed = "yes" /\ obeys = "yes" /\ Die)
-----------------------------------------------------------------------------
(* One request is pending while listSkills asks, and none afterwards; its  *)
(* end is told to it at the latest when it waits for it.                   *)
Phases ==
  /\ at = "request" => \E i \in Ids : pending = {i} /\ wire[i] # "unsent"
  /\ at \in {"wait", "main"} => pending = {} /\ result # "none"
  /\ at \in {"setup", "request"} => killed = "no" /\ result = "none"
  /\ at = "setup" => server = "none"
  /\ at = "request" => seen = "none" /\ server # "none"
  /\ at = "wait" => killed = "yes" /\ server # "none" /\ seen # "exit"
  /\ at = "main" => seen # "none"
  /\ seen = "exit" => server = "exited"
  /\ seen = "signal" => server = "signalled"
  /\ at = "over" <=> exit # "running"
  /\ passed = "yes" => result = "listed" /\ exit = "zero"
  /\ server = "signalled" => killed = "yes" \/ MaySignal
  /\ (at = "wait" /\ seen = "signal") => MaySignal
  /\ exit = "zero" => passed = "yes" \/ (MaySignal /\ result # "none")
  /\ at = "over" /\ thrown = "no" => server # "running"
  /\ thrown = "yes" => exit = "one"

ClientIInv == ClientTypeOK /\ Phases

(* A run leaves no app-server behind, whether a request was answered,      *)
(* refused, timed out or met garbage (test-codex-install.js:67-74), unless *)
(* an event handler threw: the finally is not on that way out.             *)
NoServerLeft == exit # "running" /\ thrown = "no" => server # "running"

\* test-codex-install.js:70-72. An exit event is awaited that has no reason to
\* come.
Stuck == at = "wait" /\ server = "running" /\ obeys = "no"

(* The test ends, whatever the server says or does not say                 *)
(* (test-codex-install.js:52-55,69-73), unless it is left waiting for a    *)
(* server that SIGTERM does not end; if that one ends later, so does the   *)
(* test.                                                                   *)
Ends == <>[](exit # "running" \/ Stuck)

(* test-codex-install.js:2: "check the host loads every neo skill". CI     *)
(* looks at the exit code (test-plugin-install.yml:58): zero means that    *)
(* the skills were listed and checked.                                     *)
GreenMeansChecked == exit = "zero" => passed = "yes"
=============================================================================
