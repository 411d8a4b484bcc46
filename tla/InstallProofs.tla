----------------------------- MODULE InstallProofs -----------------------------
(***************************************************************************)
(* Theorems of the two programs that bring the pack to a host: of          *)
(* InstallPack, for any skills, any retired names and any number of        *)
(* releases, runs and cuts; and of AppServerClient, which tries out what   *)
(* was installed, whether strange signals come or not.                     *)
(***************************************************************************)
EXTENDS InstallPack, AppServerClient, TLAPS

\* The strengthening holds of the first states.
LEMMA InitIInv == Init => IInv
BY InstallAssumption DEF InstallAssumption, Init, IInv, TypeOK, Loops, Covered, Ours

\* Every step keeps the strengthening.
LEMMA NextIInv == IInv /\ [Next]_vars => IInv'
<1> USE InstallAssumption DEF InstallAssumption, IInv, TypeOK, Loops, Covered,
        Ours, releases
<1> SUFFICES ASSUME IInv, [Next]_vars PROVE IInv'
  OBVIOUS
<1>1. CASE Release
  BY <1>1 DEF Release
<1>2. CASE User
  BY <1>2 DEF User
<1>3. CASE Collect
  BY <1>3 DEF Collect
<1>4. CASE ReadManifest
  BY <1>4 DEF ReadManifest
<1>5. CASE StartCopies
  BY <1>5 DEF StartCopies
<1>6. CASE WriteManifest
  BY <1>6 DEF WriteManifest
<1>7. CASE Exit
  BY <1>7 DEF Exit
<1>8. ASSUME NEW n \in Names, prune_one(n) PROVE IInv'
  BY <1>8 DEF prune_one
<1>9. ASSUME NEW n \in Names, Copy(n) PROVE IInv'
  BY <1>9 DEF Copy
<1>10. CASE CutOff
  BY <1>10 DEF CutOff
<1>11. CASE UNCHANGED vars
  BY <1>11 DEF vars
<1> QED
  BY <1>1, <1>2, <1>3, <1>4, <1>5, <1>6, <1>7, <1>8, <1>9, <1>10, <1>11 DEF Next

(* Where the directories of the pack are at each step, and that none is    *)
(* lost to the manifest (install-cursor-cloud.sh:94-154).                  *)
THEOREM InstallInvariant == Spec => []IInv
BY InitIInv, NextIInv, PTL DEF Spec

(* Provided that a run that was cut off is repeated before the next        *)
(* release, a run that ends leaves its release and nothing stale.          *)
THEOREM DoneIsReleaseHolds ==
  ASSUME AlwaysRetried PROVE Spec => []DoneIsRelease
<1>1. IInv => DoneIsRelease
  BY AlwaysRetried DEF IInv, TypeOK, Loops, Covered, Ours, DoneIsRelease
<1> QED BY <1>1, InstallInvariant, PTL

(* The manifest records shipped names only.                                *)
THEOREM ManifestIsOursHolds == Spec => []ManifestIsOurs
<1>1. IInv => ManifestIsOurs
  BY DEF IInv, Loops, ManifestIsOurs
<1> QED BY <1>1, InstallInvariant, PTL

(* A run leaves every directory alone that no release shipped and that is  *)
(* not retired.                                                            *)
THEOREM OthersStayHolds == Spec => OthersStay
<1>1. IInv /\ [Next]_vars =>
        [pc # "idle" => \A n \in Names \ (shipped \union Retired) :
                          disk'[n] = disk[n]]_vars
  <2> USE DEF IInv, TypeOK, Loops, releases
  <2> SUFFICES ASSUME IInv, [Next]_vars, pc # "idle",
                      NEW m \in Names \ (shipped \union Retired)
               PROVE  disk'[m] = disk[m]
    OBVIOUS
  <2>1. ASSUME NEW n \in Names, prune_one(n) PROVE disk'[m] = disk[m]
    BY <2>1 DEF prune_one
  <2>2. ASSUME NEW n \in Names, Copy(n) PROVE disk'[m] = disk[m]
    BY <2>2 DEF Copy
  <2>3. CASE CutOff
    BY <2>3 DEF CutOff
  <2> QED
    BY <2>1, <2>2, <2>3 DEF Next, Release, User, Collect, ReadManifest,
       StartCopies, WriteManifest, Exit, vars
<1> QED BY <1>1, InstallInvariant, PTL DEF Spec, OthersStay
-----------------------------------------------------------------------------
\* The same for the first states of the client.
LEMMA ClientInitIInv == ClientInit => ClientIInv
BY DEF ClientInit, ClientIInv, ClientTypeOK, Phases, Ids

\* The cleanup keeps the strengthening.
LEMMA FinallyIInv ==
  ASSUME ClientIInv, at = "request", NEW r \in {"listed", "failed"}, Finally(r),
         pending' = {}, wire' \in [Ids -> {"unsent", "sent", "answered", "refused", "read"}],
         garbage' \in {"none", "text", "null"},
         UNCHANGED <<stdin, obeys, server, outcome>>,
         \/ UNCHANGED seen
         \/ seen' = "exit" /\ server = "exited"
         \/ seen' = "signal" /\ server = "signalled"
  PROVE  ClientIInv'
BY ClientAssumption DEF ClientAssumption, ClientIInv, ClientTypeOK, Phases, Ids, Finally, outcome

\* Every step of the client keeps it.
LEMMA ClientNextIInv == ClientIInv /\ [ClientNext]_clientVars => ClientIInv'
<1> USE ClientAssumption DEF ClientAssumption, pipe, child, outcome
<1> SUFFICES ASSUME ClientIInv, [ClientNext]_clientVars PROVE ClientIInv'
  OBVIOUS
<1>1. ASSUME NEW i \in Ids, Answer(i) PROVE ClientIInv'
  BY <1>1 DEF Answer, ClientIInv, ClientTypeOK, Phases, Ids
<1>2. CASE Babble
  BY <1>2 DEF Babble, ClientIInv, ClientTypeOK, Phases, Ids
<1>3. CASE Die
  BY <1>3 DEF Die, ClientIInv, ClientTypeOK, Phases, Ids
<1>4. CASE Setup
  BY <1>4 DEF Setup, Leave, ClientIInv, ClientTypeOK, Phases, Ids
<1>5. ASSUME NEW i \in Ids, OnLine(i) PROVE ClientIInv'
  <2>1. CASE wire[i] = "answered" /\ i = 1 /\ pending' = {2} /\ UNCHANGED <<at, killed, result>>
                /\ wire' = [wire EXCEPT ![1] = "read", ![2] = "sent"]
    BY <1>5, <2>1 DEF OnLine, written, ClientIInv, ClientTypeOK, Phases, Ids
  <2>2. ASSUME NEW r \in {"listed", "failed"}, pending' = {}, Finally(r),
               UNCHANGED stdin, wire' = [wire EXCEPT ![i] = "read"]
        PROVE  ClientIInv'
    BY <1>5, <2>2, FinallyIInv DEF OnLine, ClientIInv, ClientTypeOK, Ids
  <2> QED
    BY <1>5, <2>1, <2>2 DEF OnLine, rejectPending
<1>6. CASE OnGarbage
  BY <1>6, FinallyIInv DEF OnGarbage, rejectPending, ClientIInv, ClientTypeOK
<1>7. CASE OnTimeout
  BY <1>7, FinallyIInv DEF OnTimeout, rejectPending, ClientIInv, ClientTypeOK
<1>8. CASE OnExit
  <2>1. CASE at = "request"
    BY <1>8, <2>1, FinallyIInv DEF OnExit, rejectPending, ClientIInv, ClientTypeOK
  <2>2. CASE at = "wait"
    BY <1>8, <2>2 DEF OnExit, ClientIInv, ClientTypeOK, Phases, Ids
  <2> QED
    BY <1>8, <2>1, <2>2 DEF OnExit
<1>9. CASE Epipe
  BY <1>9 DEF Epipe, Throw, ClientIInv, ClientTypeOK, Phases, Ids
<1>10. CASE Check
  BY <1>10 DEF Check, Leave, ClientIInv, ClientTypeOK, Phases, Ids
<1>11. CASE LoopEmpty
  BY <1>11 DEF LoopEmpty, ClientIInv, ClientTypeOK, Phases, Ids
<1>12. CASE CloseStdin
  BY <1>12 DEF CloseStdin, ClientIInv, ClientTypeOK, Phases, Ids
<1>13. CASE OnNull
  BY <1>13 DEF OnNull, Throw, ClientIInv, ClientTypeOK, Phases, Ids
<1>14. CASE UNCHANGED clientVars
  BY <1>14 DEF clientVars, ClientIInv, ClientTypeOK, Phases, Ids
<1> QED
  BY <1>1, <1>2, <1>3, <1>4, <1>5, <1>6, <1>7, <1>8, <1>9, <1>10, <1>11, <1>12, <1>13, <1>14
     DEF ClientNext, Events

(* What each phase of listSkills and main knows of its requests and of the *)
(* child (test-codex-install.js:26-109).                                   *)
THEOREM ClientInvariant == ClientSpec => []ClientIInv
BY ClientInitIInv, ClientNextIInv, PTL DEF ClientSpec

(* A run that ends by main or with an empty loop, and not by an exception  *)
(* of an event handler, has ended its app-server                           *)
(* (test-codex-install.js:67-74).                                          *)
THEOREM NoServerLeftHolds == ClientSpec => []NoServerLeft
<1>1. ClientIInv => NoServerLeft
  BY DEF ClientIInv, Phases, NoServerLeft
<1> QED BY <1>1, ClientInvariant, PTL

(* As long as nobody but the client signals the server, a green run is one *)
(* that listed and checked the skills: such a signal is the only way to a  *)
(* false green (test-codex-install.js:69-72).                              *)
THEOREM GreenUnlessSignalled ==
  ASSUME ~MaySignal PROVE ClientSpec => []GreenMeansChecked
<1>1. ClientIInv => GreenMeansChecked
  BY ~MaySignal DEF ClientIInv, Phases, GreenMeansChecked
<1> QED BY <1>1, ClientInvariant, PTL
=============================================================================
