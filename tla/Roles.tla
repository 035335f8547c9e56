--------------------------------- MODULE Roles ---------------------------------
(***************************************************************************)
(* The role function (internal/roles/roles.go): what a person may do, from *)
(* their row of the organisation's member list, their own role on single   *)
(* projects and the registered groups.  A person is [active, role,         *)
(* canCreate]; their overrides are a function of some projects; a group is *)
(* [slug, projects] with projects a set of [id, kind].                     *)
(***************************************************************************)
EXTENDS Naturals

Rank == [NO_ACCESS |-> 0, READ_ONLY |-> 1, BASIC_USER |-> 2, ADMIN |-> 3, OWNER |-> 4]
RoleNames == DOMAIN Rank
AtLeast(r, other) == Rank[r] >= Rank[other]

Kinds == {"mate", "stage", "production"}
Flags == {"read", "write", "release"}

\* The projects of a kind; a group has at most one production (Registry).
OfKind(group, kind) == {p.id : p \in {q \in group.projects : q.kind = kind}}

\* The role a person holds on a project: their own there, or else the
\* organisation's.
Effective(person, overrides, project) ==
  IF ~person.active THEN "NO_ACCESS"
  ELSE IF project \in DOMAIN overrides THEN overrides[project]
  ELSE person.role

MayDeploy(person, overrides, project) ==
  AtLeast(Effective(person, overrides, project), "BASIC_USER")

Writes(person, overrides, group) ==
  person.active /\ \E p \in group.projects : MayDeploy(person, overrides, p.id)

Reads(person, overrides, group) ==
  \/ Writes(person, overrides, group)
  \/ person.active /\ AtLeast(person.role, "READ_ONLY")

\* Who releases: the deployers of production; before there is one, the
\* organisation's admins.
Releases(person, overrides, group) ==
  /\ person.active
  /\ IF OfKind(group, "production") # {}
     THEN \E id \in OfKind(group, "production") : MayDeploy(person, overrides, id)
     ELSE AtLeast(person.role, "ADMIN")

\* A group's flags, which are also the teams a person is in (TeamsFor).
TeamsFor(person, overrides, group) ==
  {f \in Flags : \/ f = "read" /\ Reads(person, overrides, group)
                 \/ f = "write" /\ Writes(person, overrides, group)
                 \/ f = "release" /\ Releases(person, overrides, group)}

SiteAdmin(person) == person.active /\ person.role = "OWNER"
CanCreate(person) == person.active /\ (AtLeast(person.role, "ADMIN") \/ person.canCreate)

\* What a person may do with a Mate's project.
MateState(person, overrides, project) ==
  IF MayDeploy(person, overrides, project) THEN "open"
  ELSE IF Effective(person, overrides, project) = "READ_ONLY" THEN "listed"
  ELSE "hidden"

\* The claims of a sign-in: <<slug, flag>>, and the owner's.
Claims(person, overrides, groups) ==
  (IF SiteAdmin(person) THEN {<<"org", "owner">>} ELSE {})
  \union UNION {{<<g.slug, f>> : f \in TeamsFor(person, overrides, g)} : g \in groups}

=============================================================================
