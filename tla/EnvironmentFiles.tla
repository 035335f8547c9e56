---------------------------- MODULE EnvironmentFiles ---------------------------
(***************************************************************************)
(* The two files a group's deploys are decided from                        *)
(* (internal/environments): environments.yaml and each tier's import.yaml. *)
(*                                                                         *)
(* environments.yaml is [version, environments], a sequence of             *)
(*   [name, tier, project, sources, deploy, gate]                          *)
(* whose sources are [form, names]: "none", a "scalar" or a "list".        *)
(* An import.yaml is a sequence of                                         *)
(*   [hostname, git, setup, priority, shape, secret]                       *)
(* where git is "" (none), "public" (a repository the platform clones) or  *)
(* a repository of the group's own, shape stands for whatever else the     *)
(* declaration says, and secret for a <@ directive in it.                  *)
(***************************************************************************)
EXTENDS Integers, Sequences, FiniteSets, SequencesExt

Tiers == {"stage", "production"}

NoFile == [ok |-> FALSE, environments |-> <<>>]

\* readSources: `release` or a list of branches, each once.
WellSourced(sources) ==
  \/ sources.form = "none"
  \/ sources.form = "scalar" /\ sources.names = <<"release">>
  \/ /\ sources.form = "list" /\ IsInjective(sources.names)
     /\ \A i \in DOMAIN sources.names : sources.names[i] \notin {"", "release"}

\* build: production follows releases and a stage its branches.
WellBuilt(e) ==
  /\ e.tier \in Tiers /\ e.project # "" /\ e.deploy \in {"", "on-push", "on-request"}
  /\ WellSourced(e.sources)
  /\ e.tier = "production" => e.sources.form = "scalar"
  /\ e.tier = "stage" => e.sources.form = "list" /\ e.sources.names # <<>>

\* Deploying on a push is what an environment does unless it says otherwise.
Build(e) ==
  [name |-> e.name, tier |-> e.tier, project |-> e.project, gate |-> e.gate,
   release |-> e.tier = "production",
   branches |-> IF e.tier = "stage" THEN e.sources.names ELSE <<>>,
   deploy |-> IF e.deploy = "" THEN "on-push" ELSE e.deploy]

\* The whole file is refused for one bad environment.
Parse(doc) ==
  LET names == [i \in DOMAIN doc.environments |-> doc.environments[i].name]
  IN IF /\ doc.version = 1
        /\ IsInjective(names) /\ \A i \in DOMAIN names : names[i] # ""
        /\ \A i \in DOMAIN names : WellBuilt(doc.environments[i])
     THEN [ok |-> TRUE,
           environments |-> [i \in DOMAIN names |-> Build(doc.environments[i])]]
     ELSE NoFile

\* One source is deployed as it is, several are merged into a branch of the
\* environment's own.
Branch(e) == IF Len(e.branches) = 1 THEN e.branches[1] ELSE "env/" \o e.name

\* The places of a tier's environments; they are taken in the order of the file.
OfTier(file, tier) == {i \in DOMAIN file.environments : file.environments[i].tier = tier}

-----------------------------------------------------------------------------

PublicBuild(service) == service.git = "public"

\* The broker deploys what names a repository of the group's own and a setup.
Runtime(service) == service.git \notin {"", "public"} /\ service.setup # ""

WellFormed(recipe) ==
  LET names == [i \in DOMAIN recipe |-> recipe[i].hostname]
  IN recipe # <<>> /\ IsInjective(names) /\ \A i \in DOMAIN names : names[i] # ""

Hostnames(recipe) == {recipe[i].hostname : i \in DOMAIN recipe}
Service(services, h) == CHOOSE s \in services : s.hostname = h

\* A higher priority is built first; ties keep the file's order.
Order(recipe) ==
  LET first(i, j) == \/ recipe[i].priority > recipe[j].priority
                     \/ recipe[i].priority = recipe[j].priority /\ i < j
      places == SetToSortSeq(DOMAIN recipe, first)
  IN [k \in DOMAIN places |-> recipe[places[k]]]

Runtimes(recipe) == {s \in Range(Order(recipe)) : Runtime(s)}

\* A private repository cannot be cloned by the platform: its service starts
\* empty.  What is built from a public one keeps its build.
WithoutCode(service) ==
  [hostname |-> service.hostname, shape |-> service.shape,
   starts |-> IF PublicBuild(service) THEN "built" ELSE "empty"]

\* The import document; its preprocessor is on when a declaration has a directive.
StartWithoutCode(services) ==
  [services |-> {WithoutCode(s) : s \in services},
   preprocessed |-> \E s \in services : s.secret]
=============================================================================
