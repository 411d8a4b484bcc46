------------------------------ MODULE MCScaffold ------------------------------
(* Scaffold for TLC: a template of three files, two sentinels and two      *)
(* identities of one module path: one that keeps the sentinel of the       *)
(* service id, and one whose id begins with it, so that config.yaml of the *)
(* second is taken for the first, and not the other way round.             *)
EXTENDS Scaffold

MCNames == {"go.mod", "config.yaml", "LICENSE", "notes.md"}
MCTemplate == MCNames \ {"notes.md"}
MCManifest == {"go.mod", "config.yaml"}
MCKeys == {"module", "id"}
MCHolds == [f \in MCTemplate |-> CASE f = "go.mod" -> {"module"}
                                   [] f = "config.yaml" -> {"id"}
                                   [] OTHER -> {}]
MCIdentities == {"keeps", "extends"}
MCInside ==
  [i \in MCIdentities |-> [k \in MCKeys |-> IF k = "id" THEN {"id"} ELSE {}]]
MCChosen == [i \in MCIdentities |-> IF i = "keeps" THEN {"id"} ELSE {}]
MCShows ==
  [f \in MCManifest |-> [i \in MCIdentities |->
     IF f = "config.yaml" /\ i = "extends" THEN {"extends"} ELSE MCIdentities]]
=============================================================================
