---------------------------- MODULE ScaffoldProofs ----------------------------
(* Theorems of Scaffold, for any template, identities, flags and any       *)
(* number of runs, cuts and acts of the user.                              *)
EXTENDS Scaffold, TLAPS

(* A go.mod as it was copied has a sentinel that was not chosen: the check *)
(* sees it (initcheck.py:163-168).                                         *)
LEMMA CopiedIsLeftover ==
  ASSUME NEW i \in Identities, disk[GoMod] = "template" PROVE leftover(i)
<1>1. GoMod \in Names /\ Holds[GoMod] \subseteq Keys /\ ~(Holds[GoMod] \subseteq Chosen[i])
  BY ScaffoldAssumption DEF ScaffoldAssumption
<1>2. PICK k \in Holds[GoMod] : k \notin Chosen[i]
  BY <1>1
<1>3. text(GoMod) = Holds[GoMod]
  BY DEF text
<1> QED BY <1>1, <1>2, <1>3 DEF leftover

\* The strengthening holds of the first states.
LEMMA InitIInv == Init => IInv
BY ScaffoldAssumption DEF ScaffoldAssumption, Init, IInv, TypeOK, Loops,
     OneIdentity, OthersFiles, Checked, Flags, YesNo, Ends

\* Every step keeps the strengthening.
LEMMA NextIInv == IInv /\ [Next]_vars => IInv'
<1> USE ScaffoldAssumption DEF ScaffoldAssumption, IInv, TypeOK, Loops,
      OneIdentity, OthersFiles, Checked, tellsApart, Whole, YesNo, Ends, target, check
<1> SUFFICES ASSUME IInv, [Next]_vars PROVE IInv'
  OBVIOUS
<1>1. CASE User
  <2>1. ASSUME NEW f \in Names \ {GoMod}, NEW v \in {"none", "own", "quoting"},
               disk' = [disk EXCEPT ![f] = v], git' = git
        PROVE  IInv'
    <3>1. \A g \in Names : disk'[g] = disk[g] \/ disk'[g] = v
      BY <2>1
    <3>2. disk' \in [Names -> {"none", "template", "done", "partial", "own", "quoting", "changed"}]
      BY <2>1
    <3> QED BY <1>1, <2>1, <3>1, <3>2 DEF User
  <2>2. CASE disk' = [f \in Names |-> "none"]
    BY <1>1, <2>2 DEF User
  <2>3. CASE UNCHANGED disk
    BY <1>1, <2>3 DEF User
  <2> QED BY <1>1, <2>1, <2>2, <2>3 DEF User
<1>2. CASE Begin
  <2>1. CASE preflightFails(opt'.force)
    BY <1>2, <2>1 DEF Begin
  <2>2. CASE ~preflightFails(opt'.force)
    BY <1>2, <2>2 DEF Begin, preflightFails, Present, Flags
  <2> QED BY <2>1, <2>2
<1>3. ASSUME NEW f \in Names, Copy(f) PROVE IInv'
  BY <1>3 DEF Copy
<1>4. CASE StartRewriting
  BY <1>4 DEF StartRewriting, Present
<1>5. ASSUME NEW f \in Names, Rewrite(f) PROVE IInv'
  <2>1. CASE disk[f] = "template" /\ Holds[f] # {}
    <3>1. f \in Template
      BY <2>1
    <3>2. /\ disk' = [disk EXCEPT ![f] = "done"] /\ ident' = [ident EXCEPT ![f] = chosen]
          /\ pc = "rewrite" /\ f \in todo /\ todo' = todo \ {f}
      BY <1>5, <2>1 DEF Rewrite
    <3>3. \A g \in Template : disk'[g] = "done" => ident'[g] = chosen
      BY <3>1, <3>2
    <3>4. Loops' /\ OthersFiles'
      BY <1>5, <3>1, <3>2 DEF Rewrite
    <3> QED BY <1>5, <3>1, <3>2, <3>3, <3>4 DEF Rewrite
  <2>2. CASE ~(disk[f] = "template" /\ Holds[f] # {})
    <3>1. /\ pc = "rewrite" /\ f \in todo /\ todo' = todo \ {f}
          /\ UNCHANGED <<pc, opt, chosen, ident, git, access, last, check, runs>>
          /\ \/ disk[f] = "quoting" /\ disk' = [disk EXCEPT ![f] = "changed"]
             \/ UNCHANGED disk
      BY <1>5, <2>2 DEF Rewrite
    <3>2. \A g \in Names :
            disk'[g] = disk[g] \/ (g = f /\ disk[f] = "quoting" /\ disk'[f] = "changed")
      BY <3>1
    <3>3. TypeOK'
      BY <3>1
    <3>4. Loops'
      BY <2>2, <3>1, <3>2
    <3>5. OneIdentity' /\ OthersFiles' /\ Checked'
      BY <3>1, <3>2
    <3> QED BY <3>3, <3>4, <3>5
  <2> QED BY <2>1, <2>2
<1>6. CASE Tidy
  BY <1>6 DEF Tidy
<1>7. CASE GitInit
  BY <1>7 DEF GitInit
<1>8. CASE Build
  BY <1>8 DEF Build
<1>9. CASE CutOff
  <2>1. CASE UNCHANGED disk
    BY <1>9, <2>1 DEF CutOff
  <2>2. ASSUME NEW f \in todo, disk' = [disk EXCEPT ![f] = "partial"] PROVE IInv'
    <3>1. \A g \in Names : disk'[g] = disk[g] \/ disk'[g] = "partial"
      BY <2>2
    <3>2. disk' \in [Names -> {"none", "template", "done", "partial", "own", "quoting", "changed"}]
      BY <2>2
    <3> QED BY <1>9, <2>2, <3>1, <3>2 DEF CutOff
  <2> QED BY <1>9, <2>1, <2>2 DEF CutOff
<1>10. ASSUME NEW i \in Identities, InitCheck(i) PROVE IInv'
  <2>1. disk[GoMod] = "template" => leftover(i)
    BY CopiedIsLeftover
  <2>2. verdict' = "pass" => disk[GoMod] = "done" /\ ~tellsApart(i)
    BY <1>10, <2>1 DEF InitCheck
  <2>3. verdict' \in {"pass", "fail"}
    BY <1>10 DEF InitCheck
  <2> QED BY <1>10, <2>2, <2>3 DEF InitCheck
<1>11. CASE UNCHANGED vars
  BY <1>11 DEF vars
<1> QED
  BY <1>1, <1>2, <1>3, <1>4, <1>5, <1>6, <1>7, <1>8, <1>9, <1>10, <1>11 DEF Next, Step

(* What the target holds at each step of scaffold.py                       *)
(* (scaffold.py:133-185), and that no two identities ever meet in it.      *)
THEOREM ScaffoldInvariant == Spec => []IInv
BY InitIInv, NextIInv, PTL DEF Spec

(* A run that ends well, or fails at the build, leaves the whole template  *)
(* with its identity, whatever runs were cut off before                    *)
(* (scaffold.py:142-185).                                                  *)
THEOREM BuiltOrNotIsScaffoldHolds == Spec => []BuiltOrNotIsScaffold
<1>1. IInv => BuiltOrNotIsScaffold
  BY DEF IInv, Loops, BuiltOrNotIsScaffold
<1> QED BY <1>1, ScaffoldInvariant, PTL

(* When the check passes the files are of one identity, and the files it   *)
(* reads show that identity to be the one asked about, as far as they tell *)
(* it from others (initcheck.py:154-169,225,239).                          *)
THEOREM PassIsOneIdentityHolds == Spec => []PassIsOneIdentity
<1>1. ASSUME IInv, verdict = "pass"
      PROVE  \E i \in Identities :
               /\ \A f \in Template : disk[f] = "done" => ident[f] = i
               /\ \A f \in Manifest : f = GoMod \/ disk[f] = "done" => i \in Shows[f][asked]
  <2>1. /\ disk[GoMod] = "done" /\ GoMod \in Manifest /\ Manifest \subseteq Template
        /\ ident[GoMod] \in Identities
        /\ \A f \in Manifest : disk[f] = "done" => ident[f] \in Shows[f][asked]
    BY <1>1, ScaffoldAssumption DEF ScaffoldAssumption, IInv, TypeOK, Checked, tellsApart
  <2>2. \A f \in Template : disk[f] = "done" => ident[f] = ident[GoMod]
    BY <1>1, <2>1 DEF IInv, OneIdentity
  <2> QED BY <2>1, <2>2
<1>2. IInv => PassIsOneIdentity
  BY <1>1 DEF PassIsOneIdentity
<1> QED BY <1>2, ScaffoldInvariant, PTL

(* In a whole scaffold that no value spoils no sentinel is left over that  *)
(* the user did not choose, and the check has nothing to object to.        *)
LEMMA WholeIsAccepted ==
  ASSUME IInv, NEW i \in Identities, InitCheck(i), access = "yes",
         Present = Template, \A f \in Template : Whole(f, i),
         \A k \in Keys : Inside[i][k] \subseteq Chosen[i]
  PROVE  verdict' = "pass"
<1> USE ScaffoldAssumption DEF ScaffoldAssumption
<1>1. ~leftover(i)
  <2> SUFFICES ASSUME NEW k \in Keys \ Chosen[i], NEW f \in Names, k \in text(f)
               PROVE  FALSE
    BY DEF leftover
  <2>1. CASE f \notin Template
    <3>1. disk[f] = "none"
      BY <2>1 DEF Present
    <3> QED BY <3>1 DEF text
  <2>2. CASE f \in Template /\ disk[f] = "template" /\ Holds[f] = {}
    BY <2>2 DEF text
  <2>3. CASE f \in Template /\ disk[f] = "done" /\ ident[f] = i
    <3>1. text(f) = UNION {Inside[i][j] : j \in Holds[f]}
      BY <2>3 DEF text
    <3>2. PICK j \in Holds[f] : k \in Inside[i][j]
      BY <3>1
    <3>3. j \in Keys
      BY <2>3, <3>2
    <3> QED BY <3>2, <3>3
  <2> QED BY <2>1, <2>2, <2>3 DEF Whole
<1>2. GoMod \in Template /\ Holds[GoMod] # {}
  OBVIOUS
<1>3. disk[GoMod] = "done" /\ ident[GoMod] = i
  BY <1>2 DEF Whole
<1>4. \A f \in Manifest : disk[f] # "none"
  BY DEF Present
<1>5. ~tellsApart(i)
  BY DEF tellsApart, Whole
<1> QED BY <1>1, <1>3, <1>4, <1>5 DEF InitCheck

(* A finished scaffold nobody touched passes its check                     *)
(* (initcheck.py:143-303).                                                 *)
THEOREM FinishedPassesHolds == Spec => []FinishedPasses
<1>1. Init => FinishedPasses
  BY DEF Init, FinishedPasses
<1>2. ASSUME IInv, FinishedPasses, [Next]_vars
      PROVE  FinishedPasses'
  <2> USE <1>2
  <2>1. CASE User \/ Begin
    BY <2>1 DEF User, Begin, FinishedPasses
  <2>2. CASE pc # "idle" /\ Step
    <3>1. verdict' = "none"
      BY <2>2 DEF IInv, Loops, Step, Begin, StartRewriting, Tidy, GitInit, Build, CutOff,
         Copy, Rewrite, check
    <3> QED BY <3>1 DEF FinishedPasses
  <2>3. ASSUME NEW i \in Identities, InitCheck(i) PROVE FinishedPasses'
    <3> SUFFICES ASSUME last = "done", access = "yes", i = chosen, Present = Template,
                        \A k \in Keys : Inside[chosen][k] \subseteq Chosen[chosen]
                 PROVE  verdict' = "pass"
      BY <2>3 DEF InitCheck, FinishedPasses, target, Present
    <3>1. \A f \in Template : Whole(f, i)
      BY <2>3 DEF InitCheck, IInv, Loops
    <3> QED BY <2>3, <3>1, WholeIsAccepted
  <2>4. CASE UNCHANGED vars
    BY <2>4 DEF vars, target, check, FinishedPasses, Present
  <2>5. Step => Begin \/ pc # "idle"
    BY DEF Step, StartRewriting, Tidy, GitInit, Build, CutOff, Copy, Rewrite
  <2> QED BY <2>1, <2>2, <2>3, <2>4, <2>5 DEF Next
<1> QED BY <1>1, <1>2, ScaffoldInvariant, PTL DEF Spec

(* A run leaves the user's files alone: the copies go to names of the      *)
(* template, the rewriting to files that hold a sentinel                   *)
(* (scaffold.py:85-86,92,116-119).                                         *)
THEOREM OwnFilesStayHolds == Spec => OwnFilesStay
<1> DEFINE Kept(f) ==
      /\ disk[f] = "own" /\ (f \notin Template \/ opt.force = "no") => disk'[f] = "own"
      /\ disk[f] = "quoting" /\ opt.force = "no" => disk'[f] = "quoting"
<1>1. ASSUME IInv, [Next]_vars, pc # "idle", NEW f \in Names
      PROVE  Kept(f)
  <2> USE <1>1 DEF IInv, TypeOK, Loops, OthersFiles
  <2>1. opt.force = "no" => disk[f] \notin {"own", "quoting"}
    OBVIOUS
  <2>2. ASSUME disk[f] = "own", f \notin Template PROVE disk'[f] = "own"
    <3>1. ASSUME NEW g \in Names, Copy(g) PROVE disk'[f] = "own"
      BY <2>2, <3>1 DEF Copy
    <3>2. ASSUME NEW g \in Names, Rewrite(g) PROVE disk'[f] = "own"
      BY <2>2, <3>2 DEF Rewrite
    <3>3. CASE CutOff
      <4>1. CASE UNCHANGED disk
        BY <2>2, <4>1
      <4>2. ASSUME NEW g \in todo, disk' = [disk EXCEPT ![g] = "partial"],
                   pc = "copy" \/ disk[g] \in {"quoting", "template"}
            PROVE  disk'[f] = "own"
        BY <2>2, <4>2
      <4> QED BY <3>3, <4>1, <4>2 DEF CutOff
    <3>4. CASE StartRewriting \/ Tidy \/ GitInit \/ Build \/ UNCHANGED vars
      BY <2>2, <3>4 DEF StartRewriting, Tidy, GitInit, Build, vars, target
    <3>5. ~User /\ ~Begin /\ \A i \in Identities : ~InitCheck(i)
      BY DEF User, Begin, InitCheck
    <3> QED BY <3>1, <3>2, <3>3, <3>4, <3>5 DEF Next, Step
  <2> QED BY <2>1, <2>2
<1>2. IInv /\ [Next]_vars => [pc # "idle" => \A f \in Names : Kept(f)]_vars
  BY <1>1
<1> QED BY <1>2, ScaffoldInvariant, PTL DEF Spec, OwnFilesStay
=============================================================================
