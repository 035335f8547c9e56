-------------------------------- MODULE Registry -------------------------------
(***************************************************************************)
(* The registry of groups (internal/registry/registry.go): the tag list of *)
(* the Gitea project, parsed.  A tag is a record whose field tag says which *)
(* prefix it has:                                                          *)
(*   [tag |-> "gn", id, slug]           a group and its slug               *)
(*   [tag |-> "gm", id, project, kind]  a project of a group               *)
(*   [tag |-> "release", id]            its Mates may release              *)
(*   [tag |-> "leaving", user]          a member being removed             *)
(*   [tag |-> "other"]                  a tag outside the registry         *)
(* A slug outside Slugs or a kind outside Kinds stands for a malformed tag.*)
(***************************************************************************)
EXTENDS Roles, Sequences, SequencesExt

Has(groups, id) == \E g \in groups : g.id = id
Group(groups, id) == CHOOSE g \in groups : g.id = id

IsRegistryTag(t) == t.tag \in {"gn", "gm", "release", "leaving"}

\* Pass one: the first tag that registers a slug has it, and a group keeps its
\* first slug.
Register(groups, t, slugs) ==
  IF /\ t.tag = "gn" /\ t.slug \in slugs
     /\ \A g \in groups : g.slug # t.slug /\ g.id # t.id
  THEN groups \union {[id |-> t.id, slug |-> t.slug, projects |-> {}, matesMayRelease |-> FALSE]}
  ELSE groups

\* Pass two: a project joins a group that is registered, once, and not as its
\* second production; a group's Mates may release.
Joins(groups, t) ==
  /\ t.tag = "gm" /\ t.kind \in Kinds /\ Has(groups, t.id)
  /\ LET g == Group(groups, t.id)
     IN /\ \A p \in g.projects : p.id # t.project
        /\ t.kind = "production" => OfKind(g, "production") = {}

With(groups, old, new) == (groups \ {old}) \union {new}

Place(groups, t) ==
  IF Joins(groups, t)
  THEN LET g == Group(groups, t.id)
       IN With(groups, g, [g EXCEPT !.projects = @ \union {[id |-> t.project, kind |-> t.kind]}])
  ELSE IF t.tag = "release" /\ Has(groups, t.id)
  THEN LET g == Group(groups, t.id) IN With(groups, g, [g EXCEPT !.matesMayRelease = TRUE])
  ELSE groups

Parse(tags, slugs) ==
  LET registered == FoldLeft(LAMBDA groups, t : Register(groups, t, slugs), {}, tags)
  IN [groups  |-> FoldLeft(Place, registered, tags),
      leaving |-> {tags[i].user : i \in {j \in DOMAIN tags : tags[j].tag = "leaving"}}]

\* The tags a registry is written as; sorted in the code, a set here.
TagsOf(registry) ==
  (UNION {{[tag |-> "gn", id |-> g.id, slug |-> g.slug]}
         \union {[tag |-> "gm", id |-> g.id, project |-> p.id, kind |-> p.kind] : p \in g.projects}
         \union (IF g.matesMayRelease THEN {[tag |-> "release", id |-> g.id]} ELSE {})
         : g \in registry.groups})
  \union {[tag |-> "leaving", user |-> u] : u \in registry.leaving}

\* The registry a tag list carries, in one form whatever the order of the tags.
Fingerprint(tags, slugs) == TagsOf(Parse(tags, slugs))

=============================================================================
