------------------------------ MODULE Structure ------------------------------
(***************************************************************************)
(* skills/migrate-project/assets/structurecheck.py: does a repository have *)
(* the layout of the blueprint, and does its core stay inside? A tree is   *)
(* a record: dirs, the directories there are; code, those that hold .go or *)
(* .sql somewhere; flat, whether internal/domain holds .go itself; groups, *)
(* the capitalised directories below the layers; packages, each package    *)
(* with what its files import; and what the contract files hold. Test      *)
(* files and SKIP_DIRS are no part of it. Notes fail nothing; they are     *)
(* left out.                                                               *)
(***************************************************************************)
CONSTANTS Packages,   \* of the module
          LayerOf,    \* package -> "domain", "usecase", "adapters", "delivery"
                      \* or "other"
          Frameworks  \* CORE_FRAMEWORK_BANS

ASSUME StructureAssumption ==
  LayerOf \in [Packages -> {"domain", "usecase", "adapters", "delivery", "other"}]

RequiredDirs == {"cmd/api", "internal/core/domain", "internal/core/usecase",
                 "internal/delivery/http", "internal/adapters", "config"}

ResidueDirs == {"app", "internal/adapter", "external", "database", "internal/domain"}

Layout(tree) == RequiredDirs \ tree.dirs

Residue(tree) ==
  {d \in ResidueDirs \cap tree.dirs :
     IF d = "internal/domain" THEN tree.flat = "yes" ELSE d \in tree.code}

\* Mutant: a use case may call a handler.
OutwardOfDomain(layer) ==
  CASE layer = "domain" -> {"usecase", "adapters", "delivery"}
    [] layer = "usecase" -> {"adapters"}
    [] OTHER -> {}

Outward(layer) ==
  CASE layer = "domain" -> {"usecase", "adapters", "delivery"}
    [] layer = "usecase" -> {"adapters", "delivery"}
    [] OTHER -> {}

InLayer(layers) == {p \in Packages : LayerOf[p] \in layers}

\* go.mod may name no module: then the rule is skipped.
DependencyRule(tree) ==
  IF tree.module = "none" THEN {}
  ELSE UNION {{<<p, q>> : q \in {x \in tree.imports[p] :
                 x \in Frameworks \/ (x \in Packages /\ LayerOf[x] \in Outward(LayerOf[p]))}} :
                p \in InLayer({"domain", "usecase"})}

Contract(tree) ==
  {f \in {".golangci.yaml", ".kiro/steering/INDEX.md"} : f \notin tree.contract}
  \cup (tree.contract \cap {"sentinel module"})

Conforms(tree) == /\ Layout(tree) = {} /\ Residue(tree) = {} /\ tree.groups = {}
                  /\ DependencyRule(tree) = {} /\ Contract(tree) = {}
-----------------------------------------------------------------------------
\* The packages p is linked with: those it imports, theirs, and so on, which
\* is the smallest set that is closed under imports.
LinkedWith(tree, p) ==
  {q \in Packages :
     \A closed \in SUBSET Packages :
       (\A r \in closed \cup {p} : tree.imports[r] \cap Packages \subseteq closed) => q \in closed}

\* A chain of imports that leads out of a layer of the core leads over a
\* package outside the layers.
LeavesOverOthers(tree) ==
  LET linked == [p \in Packages |-> LinkedWith(tree, p)]
  IN  \A p \in InLayer({"domain", "usecase"}) : \A q \in linked[p] :
        LayerOf[q] \in Outward(LayerOf[p]) =>
          \E r \in linked[p] : LayerOf[r] = "other" /\ q \in linked[r]
=============================================================================
