-------------------------- MODULE ModuleResolution --------------------------
(***************************************************************************)
(* Install modules (core/module.py), GPU stacks (core/gpu_stacks.py) and   *)
(* the templates that select both (core/template.py): validation of a      *)
(* selection, its order, and what a template is once they are merged.      *)
(***************************************************************************)
EXTENDS Naturals, FiniteSets, SequencesExt

CONSTANTS Catalogue,  \* discover_modules(): the modules, sorted by slug
          Stacks,     \* gpu-stacks.toml: name -> its modules and llama.cpp variant
          LlamaModule \* variant_to_module

Categories == <<"base", "networking", "desktop", "dev-toolchain", "topic", "service">>
CategoryDeps == [c \in ToSet(Categories) |->
  CASE c = "base" -> {}
    [] c = "desktop" -> {"networking"}
    [] c = "topic" -> {"desktop"}
    [] c = "service" -> {"base", "networking"}
    [] OTHER -> {"base"}]

Slug == DOMAIN Catalogue
Category(s) == Catalogue[s].category

ASSUME CatalogueAssumption ==
  /\ Len(Catalogue) \in Nat /\ Slug = 1..Len(Catalogue)
  /\ \A s \in Slug : /\ Category(s) \in ToSet(Categories)
                    /\ Catalogue[s].role \in BOOLEAN
ASSUME StacksAssumption ==
  \A g \in DOMAIN Stacks : Stacks[g].variant \in DOMAIN LlamaModule \cup {""}

\* resolve_modules does not raise a ModuleError.
Resolvable(slugs) ==
  /\ slugs \subseteq Slug
  /\ \A s \in slugs :
       /\ Catalogue[s].requires \subseteq slugs
       /\ Catalogue[s].conflicts \cap slugs = {}
       /\ CategoryDeps[Category(s)] \subseteq {Category(t) : t \in slugs}
  /\ Cardinality({s \in slugs : Category(s) = "desktop"}) <= 1

\* sort_key: the category's place, then the slug.
Rank(s) == CHOOSE i \in DOMAIN Categories : Categories[i] = Category(s)
Precedes(s, t) == Rank(s) < Rank(t) \/ (Rank(s) = Rank(t) /\ s < t)

\* The place of a module among some, once they are sorted.
Place(s, slugs) == Cardinality({t \in slugs : t = s \/ Precedes(t, s)})

\* ResolvedModules.ansible_roles: the modules with a role, each at its place.
WithRole(slugs) == {s \in slugs : Catalogue[s].role}
Roles(slugs) == [n \in 1..Cardinality(WithRole(slugs)) |->
                   CHOOSE s \in WithRole(slugs) : Place(s, WithRole(slugs)) = n]

(***************************************************************************)
(* resolve_gpu_stacks: the variant "vulkan" wins, else the first named; the *)
(* modules of the others are ruled out.  A template is [name, include,     *)
(* stacks]; merged, it names the modules whose packages and services it has. *)
(***************************************************************************)
VariantsOf(stacks) ==
  SelectSeq([i \in DOMAIN stacks |-> Stacks[stacks[i]].variant], LAMBDA v : v # "")
Winner(stacks) ==
  IF "vulkan" \in ToSet(VariantsOf(stacks)) THEN "vulkan" ELSE Head(VariantsOf(stacks))
Excluded(stacks) ==
  {LlamaModule[v] : v \in {u \in ToSet(VariantsOf(stacks)) : u # Winner(stacks)}}
Extra(stacks) == UNION {Stacks[g].modules : g \in ToSet(stacks)} \ Excluded(stacks)

\* resolve_and_merge_modules
Effective(t) == (t.include \ Excluded(t.stacks)) \cup Extra(t.stacks)
Mergeable(t) == ToSet(t.stacks) \subseteq DOMAIN Stacks /\ Resolvable(Effective(t))
Merged(t) == [name |-> t.name, slugs |-> t.include,
              installed |-> Effective(t), roles |-> Roles(Effective(t))]

\* discover_templates: one that does not resolve hides them all.
Offered(templates) ==
  {Merged(t) : t \in {u \in templates : \A v \in templates : Mergeable(v)}}

\* What the pipeline relies on: the selection is consistent, and a role runs
\* after those of every category its own category depends on.
Coherent(t) ==
  /\ Resolvable(t.installed)
  /\ \A i, j \in DOMAIN t.roles :
       Category(t.roles[j]) \in CategoryDeps[Category(t.roles[i])] => j < i
=============================================================================
