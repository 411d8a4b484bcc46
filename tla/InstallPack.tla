----------------------------- MODULE InstallPack -----------------------------
(***************************************************************************)
(* scripts/install-cursor-cloud.sh: install_pack, run again and again over *)
(* one ~/.cursor/skills with the packs of successive releases. A run may   *)
(* be cut off at any step (a failing command under set -e, a killed VM).   *)
(* Names stand for safe_name ones, the only ones the script touches.       *)
(* External: what releases hold, and the user's own skill directories.     *)
(***************************************************************************)
EXTENDS Naturals

CONSTANTS Names,         \* of skill directories
          Retired,       \* RETIRED_SKILLS
          AlwaysRetried, \* is a run that was cut off repeated before the
                         \* next release?
          MaxReleases    \* bound

ASSUME InstallAssumption == /\ Retired \subseteq Names
                            /\ AlwaysRetried \in BOOLEAN /\ MaxReleases \in Nat

VARIABLES pc,       \* the step of install_pack, "idle" between runs
          disk,     \* name -> "none", "user", "partial" or "pack"
          copy,     \* name -> the release a "pack" directory came from
          manifest, \* names in ~/.cursor/.neo-skills
          pack,     \* the skills of the newest release
          release,  \* its number
          current,  \* current_skills of the run
          todo,     \* names the loop at hand has not come to
          complete, \* did the last run, of the newest release, come to its end?
          shipped   \* history: names any release held

releases == <<pack, release, complete, shipped>>
vars == <<pc, disk, copy, manifest, releases, current, todo>>

TypeOK ==
  /\ pc \in {"idle", "retired", "manifest", "copy", "done"}
  /\ disk \in [Names -> {"none", "user", "partial", "pack"}]
  /\ copy \in [Names -> 0..MaxReleases]
  /\ manifest \subseteq Names /\ pack \subseteq Names /\ current \subseteq Names
  /\ todo \subseteq Names /\ shipped \subseteq Names
  /\ release \in 0..MaxReleases
  /\ complete \in {"no", "yes"}

\* Retired skills may still be there from before there was a manifest.
Init == /\ pc = "idle"
        /\ disk \in {d \in [Names -> {"none", "pack"}] :
                      \A n \in Names \ Retired : d[n] = "none"}
        /\ copy = [n \in Names |-> 0]
        /\ manifest = {} /\ pack = {} /\ current = {} /\ todo = {} /\ shipped = {}
        /\ release = 0
        /\ complete = "yes"
-----------------------------------------------------------------------------
(* Between the runs.                                                       *)

Release == /\ pc = "idle" /\ release < MaxReleases
           /\ AlwaysRetried => complete = "yes"
           /\ release' = release + 1
           /\ pack' \in SUBSET Names
           /\ shipped' = shipped \union pack'
           /\ complete' = "no"
           /\ UNCHANGED <<pc, disk, copy, manifest, current, todo>>

\* The user writes a skill, or removes one, a skill of the pack as well.
User == /\ pc = "idle"
        /\ \E n \in Names, is \in {"user", "none"} :
             /\ disk[n] # is /\ (is = "user" => disk[n] = "none")
             /\ disk' = [disk EXCEPT ![n] = is]
        /\ UNCHANGED <<pc, copy, manifest, releases, current, todo>>
-----------------------------------------------------------------------------
(* install_pack.                                                           *)

\* install-cursor-cloud.sh:100-115,128. A pack without a skill is refused
\* before anything is removed.
Collect == /\ pc = "idle" /\ release > 0 /\ pack # {}
           /\ current' = pack
           /\ todo' = Retired
           /\ complete' = "no"
           /\ pc' = "retired"
           /\ UNCHANGED <<disk, copy, manifest, pack, release, shipped>>

\* Mutant: every directory without a current skill is taken for a stale one.
prune_all(n) ==
  /\ pc \in {"retired", "manifest"} /\ n \in todo
  /\ todo' = todo \ {n}
  /\ disk' = [m \in Names |-> IF m \in current THEN disk[m] ELSE "none"]
  /\ UNCHANGED <<pc, copy, manifest, releases, current>>

\* install-cursor-cloud.sh:80-92,117-126,128-138.
prune_one(n) ==
  /\ pc \in {"retired", "manifest"} /\ n \in todo
  /\ todo' = todo \ {n}
  /\ disk' = [disk EXCEPT ![n] = IF n \in current THEN @ ELSE "none"]
  /\ UNCHANGED <<pc, copy, manifest, releases, current>>

\* install-cursor-cloud.sh:130-137.
ReadManifest == /\ pc = "retired" /\ todo = {}
                /\ todo' = manifest
                /\ pc' = "manifest"
                /\ UNCHANGED <<disk, copy, manifest, releases, current>>

\* install-cursor-cloud.sh:137-140.
StartCopies == /\ pc = "manifest" /\ todo = {}
               /\ todo' = current
               /\ pc' = "copy"
               /\ UNCHANGED <<disk, copy, manifest, releases, current>>

\* Mutant: a directory that is there already is taken for the skill.
CopyMissing(n) ==
  /\ pc = "copy" /\ n \in todo
  /\ todo' = todo \ {n}
  /\ disk' = [disk EXCEPT ![n] = "pack"]
  /\ copy' = [copy EXCEPT ![n] = IF disk[n] = "none" THEN release ELSE @]
  /\ UNCHANGED <<pc, manifest, releases, current>>

\* install-cursor-cloud.sh:140-148.
Copy(n) == /\ pc = "copy" /\ n \in todo
           /\ todo' = todo \ {n}
           /\ disk' = [disk EXCEPT ![n] = "pack"]
           /\ copy' = [copy EXCEPT ![n] = release]
           /\ UNCHANGED <<pc, manifest, releases, current>>

\* install-cursor-cloud.sh:150-152.
WriteManifest == /\ pc = "copy" /\ todo = {}
                 /\ manifest' = current
                 /\ complete' = "yes"
                 /\ pc' = "done"
                 /\ UNCHANGED <<disk, copy, pack, release, shipped, current, todo>>

\* install-cursor-cloud.sh:188-197. The checks at the end change nothing.
Exit == /\ pc = "done"
        /\ pc' = "idle"
        /\ UNCHANGED <<disk, copy, manifest, releases, current, todo>>

\* The run is cut off, inside an rm or a cp of a directory or inside the mv of
\* the manifest, which copies when mktemp's directory is on another disk.
CutOff ==
  /\ pc \in {"retired", "manifest", "copy"}
  /\ pc' = "idle"
  /\ \/ UNCHANGED <<disk, manifest>>
     \/ /\ \E n \in todo : /\ pc = "copy" \/ (n \notin current /\ disk[n] # "none")
                           /\ disk' = [disk EXCEPT ![n] = "partial"]
        /\ UNCHANGED manifest
     \/ /\ pc = "copy" /\ todo = {}
        /\ manifest' \in SUBSET current
        /\ UNCHANGED disk
  /\ todo' = {}
  /\ UNCHANGED <<copy, releases, current>>
-----------------------------------------------------------------------------
Next == \/ Release \/ User
        \/ Collect \/ ReadManifest \/ StartCopies \/ WriteManifest \/ Exit
        \/ \E n \in Names : prune_one(n) \/ Copy(n)
        \/ CutOff

Spec == Init /\ [][Next]_vars
-----------------------------------------------------------------------------
Ours(n) == disk[n] \in {"partial", "pack"}

(* Where the directories of the pack can be at each step of a run.         *)
Loops ==
  /\ pc \in {"retired", "manifest", "copy"} => current = pack /\ complete = "no"
  /\ pc = "done" => current = pack /\ manifest = current /\ todo = {}
  /\ pc = "retired" => todo \subseteq Retired
  /\ pc = "manifest" => todo \subseteq manifest
  /\ pc = "copy" => todo \subseteq current
  /\ pc = "retired" => \A n \in Retired \ (todo \union current) : disk[n] = "none"
  /\ pc \in {"manifest", "copy", "done"} =>
       \A n \in Retired \ current : disk[n] = "none"
  /\ pc \in {"copy", "done"} =>
       \A n \in current \ todo : disk[n] = "pack" /\ copy[n] = release
  /\ complete = "yes" => manifest = pack
  /\ manifest \subseteq shipped /\ pack \subseteq shipped

(* Every directory of a pack is in the manifest or is still to be copied.  *)
Covered ==
  \A n \in Names : Ours(n) =>
    CASE pc \in {"idle", "retired"} -> n \in manifest \union pack \union Retired
      [] pc = "manifest" -> n \in todo \union current
      [] OTHER -> n \in current

IInv == TypeOK /\ Loops /\ (AlwaysRetried => Covered)

(* A run that comes to its end leaves its own release, whole, and nothing  *)
(* of an earlier one, whatever was cut off before it: "A later removal is  *)
(* pruned from that manifest" (install-cursor-cloud.sh:21-22,117-152).     *)
DoneIsRelease ==
  pc = "done" =>
    \A n \in Names :
      IF n \in current THEN disk[n] = "pack" /\ copy[n] = release
                       ELSE ~Ours(n) /\ (n \in Retired => disk[n] = "none")

(* "Other skill directories stay": no step of a run touches a directory    *)
(* that no release shipped and that is not retired (lines 22,94-154).      *)
OthersStay ==
  [][pc # "idle" => \A n \in Names \ (shipped \union Retired) : disk'[n] = disk[n]]_vars

(* The manifest never records "a skill this installer does not own"        *)
(* (install-cursor-cloud-test.sh:45-48), however a run ended.              *)
ManifestIsOurs == manifest \subseteq shipped
=============================================================================
