------------------------------- MODULE Scaffold -------------------------------
(***************************************************************************)
(* skills/init-project/assets: scaffold.py turns the frozen template into  *)
(* a service, initcheck.py looks the result over. Runs follow each other   *)
(* on one target directory, with any flags, and may be cut off anywhere.   *)
(* Of a text only the sentinels in it are kept. Files that walk_texts      *)
(* skips or cannot decode count as files without any.                      *)
(* External: the user, who leaves go.mod alone, and the access to private  *)
(* modules that go needs.                                                  *)
(***************************************************************************)
EXTENDS Naturals

CONSTANTS Names,      \* of files
          Template,   \* the template's files
          Manifest,   \* those initcheck.py asks for
          GoMod,
          Keys,       \* the sentinels
          Holds,      \* template file -> the sentinels in it
          Identities, \* what the user may choose
          Shows,      \* manifest file -> identity -> those whose file the look-ups
                      \* of initcheck.py take for it: the same module path, the
                      \* same prefix, a service id that begins with its own
          Inside,     \* identity -> sentinel -> the sentinels in its replacement
          Chosen,     \* identity -> the sentinels that replace themselves
          MaxRuns     \* bound

ASSUME ScaffoldAssumption ==
  /\ Template \subseteq Names /\ Manifest \subseteq Template /\ GoMod \in Manifest
  /\ Holds \in [Template -> SUBSET Keys]
  /\ Inside \in [Identities -> [Keys -> SUBSET Keys]]
  /\ Chosen \in [Identities -> SUBSET Keys]
  /\ Shows \in [Manifest -> [Identities -> SUBSET Identities]]
  /\ \A f \in Manifest : \A i \in Identities : i \in Shows[f][i]
  /\ \A i \in Identities : /\ \A k \in Chosen[i] : Inside[i][k] = {k}
                           /\ ~(Holds[GoMod] \subseteq Chosen[i])
  /\ Identities # {} /\ MaxRuns \in Nat

VARIABLES pc,      \* the step of scaffold.py's main, "idle" between runs
          opt,     \* the flags of the run
          chosen,  \* the identity it was given
          todo,    \* files the loop at hand has not come to
          disk,    \* name -> "none", "template" (as copied), "done", "partial",
                   \* the user's "own", "quoting" (own, with a sentinel) or
                   \* "changed" (own, but rewritten)
          ident,   \* template file -> the identity a "done" file was given
          git,     \* is there a .git?
          access,  \* can go fetch private modules?
          last,    \* how the last run ended, if the user did nothing since
          verdict, \* of initcheck.py on what is there
          asked,   \* the identity it was given
          runs

target == <<disk, ident, git>>
check == <<verdict, asked>>
vars == <<pc, opt, chosen, todo, target, access, last, check, runs>>

YesNo == {"yes", "no"}
Flags == [force : YesNo, git : YesNo, build : YesNo]
Ends == {"none", "refused", "failed", "cut", "done"}

TypeOK ==
  /\ pc \in {"idle", "copy", "rewrite", "git", "build"}
  /\ opt \in Flags
  /\ chosen \in Identities /\ asked \in Identities
  /\ todo \subseteq Names
  /\ disk \in [Names -> {"none", "template", "done", "partial",
                         "own", "quoting", "changed"}]
  /\ ident \in [Template -> Identities]
  /\ git \in YesNo /\ access \in YesNo
  /\ last \in Ends
  /\ verdict \in {"none", "pass", "fail"}
  /\ runs \in 0..MaxRuns

Init == /\ pc = "idle" /\ todo = {}
        /\ opt = [force |-> "no", git |-> "yes", build |-> "yes"]
        /\ disk = [f \in Names |-> "none"]
        /\ chosen \in Identities /\ asked = chosen
        /\ ident = [f \in Template |-> chosen]
        /\ git = "no" /\ access \in YesNo
        /\ last = "none"
        /\ verdict = "none" /\ runs = 0

Present == {f \in Names : disk[f] # "none"}
-----------------------------------------------------------------------------
(* Between the runs.                                                       *)

User ==
  /\ pc = "idle"
  /\ \/ /\ \E f \in Names \ {GoMod} : \E v \in {"none", "own", "quoting"} :
             disk' = [disk EXCEPT ![f] = v]
        /\ UNCHANGED <<git, access>>
     \/ disk' = [f \in Names |-> "none"] /\ git' = "no" /\ UNCHANGED access
     \/ git' = "yes" /\ Present # {} /\ UNCHANGED <<disk, access>>
     \/ access' = "yes" /\ UNCHANGED <<disk, git>>
  /\ last' = "none" /\ verdict' = "none"
  /\ UNCHANGED <<opt, chosen, todo, pc, ident, asked, runs>>
-----------------------------------------------------------------------------
(* scaffold.py.                                                            *)

\* Mutant: a directory that is not empty is no obstacle.
refusedForGit(force) == git = "yes"

\* scaffold.py:82-86.
preflightFails(force) == git = "yes" \/ (Present # {} /\ force = "no")

\* scaffold.py:69-79,133-143. Arguments that validate rejects change nothing.
Begin ==
  /\ pc = "idle" /\ runs < MaxRuns
  /\ runs' = runs + 1
  /\ opt' \in Flags /\ chosen' \in Identities
  /\ verdict' = "none"
  /\ IF preflightFails(opt'.force)
     THEN last' = "refused" /\ UNCHANGED <<pc, todo>>
     ELSE pc' = "copy" /\ todo' = Template /\ last' = "none"
  /\ UNCHANGED <<target, access, asked>>

\* Mutant: what is there is not copied again.
CopyMissing(f) ==
  /\ pc = "copy" /\ f \in todo
  /\ todo' = todo \ {f}
  /\ disk' = IF disk[f] = "none" THEN [disk EXCEPT ![f] = "template"] ELSE disk
  /\ UNCHANGED <<pc, opt, chosen, ident, git, access, last, check, runs>>

\* scaffold.py:89-92.
Copy(f) ==
  /\ pc = "copy" /\ f \in todo
  /\ todo' = todo \ {f}
  /\ disk' = [disk EXCEPT ![f] = "template"]
  /\ UNCHANGED <<pc, opt, chosen, ident, git, access, last, check, runs>>

\* scaffold.py:95-115,143-147. The walk comes to every file of the target.
StartRewriting ==
  /\ pc = "copy" /\ todo = {}
  /\ pc' = "rewrite" /\ todo' = Present
  /\ UNCHANGED <<opt, chosen, target, access, last, check, runs>>

\* scaffold.py:115-121.
Rewrite(f) ==
  /\ pc = "rewrite" /\ f \in todo
  /\ todo' = todo \ {f}
  /\ \/ /\ disk[f] = "template" /\ Holds[f] # {}
        /\ disk' = [disk EXCEPT ![f] = "done"]
        /\ ident' = [ident EXCEPT ![f] = chosen]
     \/ /\ disk[f] = "quoting"
        /\ disk' = [disk EXCEPT ![f] = "changed"]
        /\ UNCHANGED ident
     \/ /\ disk[f] \notin {"template", "quoting"} \/ (disk[f] = "template" /\ Holds[f] = {})
        /\ UNCHANGED <<disk, ident>>
  /\ UNCHANGED <<pc, opt, chosen, git, access, last, check, runs>>

\* scaffold.py:122,147-168. go mod tidy may fail, the run goes on.
Tidy ==
  /\ pc = "rewrite" /\ todo = {}
  /\ pc' = "git"
  /\ UNCHANGED <<opt, chosen, todo, target, access, last, check, runs>>

\* scaffold.py:170-172. git init may fail, the run goes on.
GitInit ==
  /\ pc = "git"
  /\ git' \in IF opt.git = "yes" THEN {"yes", git} ELSE {git}
  /\ pc' = "build"
  /\ UNCHANGED <<opt, chosen, todo, disk, ident, access, last, check, runs>>

\* scaffold.py:174-185. A build may also fail for reasons of its own.
Build ==
  /\ pc = "build"
  /\ last' \in IF opt.build = "no" THEN {"done"}
               ELSE {"failed"} \union (IF access = "yes" THEN {"done"} ELSE {})
  /\ pc' = "idle"
  /\ UNCHANGED <<opt, chosen, todo, target, access, check, runs>>

\* A full disk, an unreadable file, an interrupt: one file may be half written.
CutOff ==
  /\ pc # "idle"
  /\ pc' = "idle" /\ todo' = {} /\ last' = "cut"
  /\ \/ UNCHANGED disk
     \/ \E f \in todo :
          /\ \/ pc = "copy"
             \/ /\ pc = "rewrite"
                /\ disk[f] = "quoting" \/ (disk[f] = "template" /\ Holds[f] # {})
          /\ disk' = [disk EXCEPT ![f] = "partial"]
  /\ UNCHANGED <<opt, chosen, ident, git, access, check, runs>>
-----------------------------------------------------------------------------
(* initcheck.py.                                                           *)

\* The sentinels in a file.
text(f) == CASE disk[f] = "template" -> Holds[f]
             [] disk[f] = "done" -> UNION {Inside[ident[f]][k] : k \in Holds[f]}
             [] disk[f] = "quoting" -> Keys
             [] OTHER -> {}

\* Mutant: a sentinel the user chose counts as left over.
leftoverOfAll(i) == \E k \in Keys : \E f \in Names : k \in text(f)

\* initcheck.py:69-79,147,160-169.
leftover(i) == \E k \in Keys \ Chosen[i] : \E f \in Names : k \in text(f)

\* The file is what a finished run with identity i makes of it.
Whole(f, i) == \/ disk[f] = "done" /\ ident[f] = i
               \/ disk[f] = "template" /\ Holds[f] = {}

\* initcheck.py:154-155,225,239. A file of an identity the look-ups tell from i:
\* they read the module path, the prefix and the service id, never the name.
tellsApart(i) == \E f \in Manifest : disk[f] = "done" /\ ident[f] \notin Shows[f][i]

\* initcheck.py:130-303. The other checks look for texts of the template: a
\* whole one passes them, what else there is may or may not be noticed.
InitCheck(i) ==
  /\ pc = "idle" /\ Present # {}
  /\ asked' = i
  /\ verdict' \in
       IF \/ access = "no" \/ leftover(i) \/ tellsApart(i)
          \/ \E f \in Manifest : disk[f] = "none"
          \/ disk[GoMod] \notin {"done", "template"}
       THEN {"fail"}
       ELSE IF Present = Template /\ \A f \in Template : Whole(f, i)
            THEN {"pass"} ELSE {"pass", "fail"}
  /\ UNCHANGED <<pc, opt, chosen, todo, target, access, last, runs>>
-----------------------------------------------------------------------------
Step == \/ Begin \/ StartRewriting \/ Tidy \/ GitInit \/ Build \/ CutOff
        \/ \E f \in Names : Copy(f) \/ Rewrite(f)

Next == User \/ Step \/ \E i \in Identities : InitCheck(i)

Spec == Init /\ [][Next]_vars
-----------------------------------------------------------------------------
(* What the target holds at each step.                                     *)
Loops ==
  /\ pc = "copy" => /\ todo \subseteq Template
                    /\ \A f \in Template \ todo : disk[f] = "template"
  /\ pc = "rewrite" => \A f \in Template : IF f \in todo THEN disk[f] = "template"
                                                         ELSE Whole(f, chosen)
  /\ pc \in {"git", "build"} => \A f \in Template : Whole(f, chosen)
  /\ pc \in {"copy", "rewrite"} => git = "no"
  /\ pc # "idle" => verdict = "none" /\ last = "none"
  /\ pc = "idle" /\ last \in {"done", "failed"} => \A f \in Template : Whole(f, chosen)

\* A run that stopped in its middle leaves no two identities.
OneIdentity ==
  \A f, g \in Template : disk[f] = "done" /\ disk[g] = "done" => ident[f] = ident[g]

OthersFiles ==
  /\ \A f \in Names \ Template : disk[f] \notin {"template", "done"}
  /\ pc # "idle" /\ opt.force = "no" =>
       \A f \in Names : disk[f] \notin {"own", "quoting", "changed"}

Checked == verdict = "pass" => disk[GoMod] = "done" /\ ~tellsApart(asked)

IInv == TypeOK /\ Loops /\ OneIdentity /\ OthersFiles /\ Checked

(* "Generation is a single deterministic string substitution"              *)
(* (scaffold.py:9-10): a run that ends well, or fails at its very end, the *)
(* build, leaves the whole template with its identity, whatever stopped on *)
(* this directory before. Nothing has to be made again after a failed      *)
(* build, and nothing can be: its .git (scaffold.py:171) refuses the       *)
(* second run that SKILL.md:105-106 asks for (scaffold.py:83-84).          *)
BuiltOrNotIsScaffold ==
  pc = "idle" /\ last \in {"done", "failed"} => \A f \in Template : Whole(f, chosen)

(* "Carries the right identity" (initcheck.py:4-5). When the check passes  *)
(* every file has the identity of one run, and go.mod, the catalog and     *)
(* config.yaml show what was asked for. The name and the schema of another *)
(* run with that module path, prefix and id are not noticed.               *)
PassIsOneIdentity ==
  verdict = "pass" =>
    \E i \in Identities :
      /\ \A f \in Template : disk[f] = "done" => ident[f] = i
      /\ \A f \in Manifest : f = GoMod \/ disk[f] = "done" => i \in Shows[f][asked]

(* A finished scaffold nobody touched passes, provided that no value holds *)
(* a sentinel other than itself (initcheck.py:162-169).                    *)
FinishedPasses ==
  (/\ last = "done" /\ access = "yes" /\ asked = chosen
   /\ Present = Template
   /\ \A k \in Keys : Inside[chosen][k] \subseteq Chosen[chosen])
  => verdict # "fail"

(* The user's files survive every run without --force, and with it unless  *)
(* the template has a file of that name or they quote a sentinel           *)
(* (scaffold.py:85-86,92,116-119).                                         *)
OwnFilesStay ==
  [][pc # "idle" => \A f \in Names :
       /\ disk[f] = "own" /\ (f \notin Template \/ opt.force = "no")
            => disk'[f] = "own"
       /\ disk[f] = "quoting" /\ opt.force = "no" => disk'[f] = "quoting"]_vars
=============================================================================
