---------------------------- MODULE MCRightsMirror ----------------------------
EXTENDS RightsMirror

Row(active, role) == [active |-> active, role |-> role, canCreate |-> FALSE]
\* An owner, a member who reads, and an owner who is no longer active.
SomeRows == {Row(TRUE, "OWNER"), Row(TRUE, "READ_ONLY"), Row(FALSE, "OWNER")}
\* No own roles, and production's deployer.
SomeOverrides == {<<>>, [prod |-> "BASIC_USER"]}

GroupTag(id, slug) == [tag |-> "gn", id |-> id, slug |-> slug]
ProjectTag(id, project, kind) == [tag |-> "gm", id |-> id, project |-> project, kind |-> kind]

\* A group with its Mate; with production as well, in another order and with a
\* tag too many; and without its Mate.
JustMate == <<GroupTag("1", "acme"), ProjectTag("1", "nova", "mate")>>
WithProduction ==
  <<ProjectTag("1", "prod", "production"), [tag |-> "other"], GroupTag("1", "acme"),
    ProjectTag("1", "nova", "mate")>>
NoMate == <<GroupTag("1", "acme"), ProjectTag("1", "prod", "production")>>
SomeLists == {JustMate, WithProduction, NoMate}

\* A higher role, in the organisation or on a single project, takes no right
\* away: no team, no claim, no project of a Mate, with production or without.
ARow == [active : BOOLEAN, role : RoleNames, canCreate : BOOLEAN]
AnOverride == {<<>>} \union [{"prod", "nova"} -> RoleNames]
States == [hidden |-> 0, listed |-> 1, open |-> 2]
AtMostAs(m, n) ==
  AtLeast(n.role, m.role) /\ (m.active => n.active) /\ (m.canCreate => n.canCreate)
RolesWiden ==
  \A g \in UNION {Parse(list, Slugs).groups : list \in SomeLists} : \A m, n \in ARow : \A o, q \in AnOverride :
    AtMostAs(m, n) /\ DOMAIN o = DOMAIN q /\ (\A p \in DOMAIN o : AtLeast(q[p], o[p])) =>
      /\ TeamsFor(m, o, g) \subseteq TeamsFor(n, q, g)
      /\ Claims(m, o, {g}) \subseteq Claims(n, q, {g})
      /\ States[MateState(m, o, "nova")] <= States[MateState(n, q, "nova")]
      /\ CanCreate(m) => CanCreate(n)
ASSUME RolesAssumption == RolesWiden
=============================================================================
