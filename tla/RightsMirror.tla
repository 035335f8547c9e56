------------------------------ MODULE RightsMirror -----------------------------
(***************************************************************************)
(* The rights mirror (internal/mirror/mirror.go and plan.go): a pass reads *)
(* the organisation at Zerops and what Gitea holds, works out every write  *)
(* Gitea needs, holds back what would take away too much, and performs the *)
(* rest one call after the other.  A call that fails is passed over; the   *)
(* next pass plans again.                                                  *)
(*                                                                         *)
(* People sign in, roles change, projects are deleted and Mates propose    *)
(* recipes while a pass runs.  Passes do not overlap (RightsLoop).  The    *)
(* generations of a bot's token and the writes to a Mate's container are   *)
(* MateAccess's: here a bot holds a token or none.                         *)
(***************************************************************************)
EXTENDS Registry, FiniteSets

CONSTANTS Ids,          \* people, by user id, which is also their Gitea login
          TokenIds,     \* those that are an integration token's pseudo-member
          Rows,         \* rows of the member list
          OverrideMaps, \* a person's own roles on single projects
          TagLists,     \* the Gitea project's tags
          Slugs,        \* well-formed slugs
          Projects,     \* projects
          Cap,          \* the cap on what a pass takes away from a scope
          MaxEvents     \* bound: changes at Zerops and by people in Gitea, calls
                        \* that fail, restarts, projects misread as deleted

AdminLogin == "broker"
Bot(p) == "mate-" \o p   \* BotLogin
Bots == {Bot(p) : p \in Projects}
Logins == Ids \union Bots

ASSUME MirrorAssumption ==
  /\ TokenIds \subseteq Ids
  /\ Ids \intersect Bots = {} /\ AdminLogin \notin Logins
  /\ \A p, q \in Projects : Bot(p) = Bot(q) => p = q
  /\ IsFiniteSet(Ids) /\ "none" \notin Slugs /\ <<>> \in OverrideMaps
  /\ Cap \in Nat /\ MaxEvents \in Nat

NoRow == [active |-> FALSE, role |-> "NO_ACCESS", canCreate |-> FALSE, gone |-> TRUE]

\* What a group has in Gitea besides members: its org, its teams, its group
\* repository with the rules for main, env/* and v*, and the broker's hook.
Parts == {"org", "repo", "main", "env/*", "v*", "hook"} \union Flags

VARIABLES member,     \* the organisation's member list
          override,   \* people's own roles on projects
          gone,       \* deleted projects
          misread,    \* projects the platform wrongly says are not there
          tags,       \* the Gitea project's tags
          account,    \* Gitea accounts: none, active, off or prohibited
          shaped,     \* bots that are restricted and named as they should be
          admins,     \* site admins
          token,      \* a login's tokens: none, fresh or past their TTL
          made,       \* the parts of each group that are there as they should be
          team,       \* each group's teams
          writers,    \* who collaborates on the group repository
          requests,   \* open pull requests of bots on group repositories
          seen,       \* projects that answered projectNotFound: just now, or
                      \* DeadAfter ago (notFoundSince)
          pass,       \* the pass
          clean,      \* history: nothing changed or failed since the last pass began
          events      \* how many events have happened

zeropsVars == <<member, override, gone, misread, tags>>
accountVars == <<account, shaped, admins, token>>
groupVars == <<made, team, writers, requests>>
vars == <<zeropsVars, accountVars, groupVars, seen, pass, clean, events>>

Present(m) == "gone" \notin DOMAIN m
People(m) == {i \in Ids : Present(m[i]) /\ i \notin TokenIds}

RegistryOf == [list \in TagLists |-> Parse(list, Slugs).groups]
Registered == RegistryOf[tags]
\* Slugs and Projects hold what the tags name; a slug is one group's (Register).
ASSUME RegistryAssumption ==
  \A list \in TagLists : \A g \in RegistryOf[list] :
    /\ {"slug", "projects"} \subseteq DOMAIN g /\ g.slug \in Slugs
    /\ \A p \in g.projects : p.id \in Projects
    /\ \A h \in RegistryOf[list] : g.slug = h.slug => g = h
MatesOf(g) == OfKind(g, "mate")
BotsOf(g) == {Bot(p) : p \in MatesOf(g)}

\* A recipe request of a bot: it only adds files, changes some, carries nothing
\* main lacks, or adds files Gitea cannot merge.
RequestKinds == {"adds", "changes", "empty", "conflict"}

-----------------------------------------------------------------------------
(* What a pass wants written (plan.go).  An action is [kind, org, login,   *)
(* what]; one that belongs to no group has the org "none".                 *)

Act(kind, org, login, what) == [kind |-> kind, org |-> org, login |-> login, what |-> what]

\* The order Gitea accepts (planner.plan).
Order == <<"org", "team", "repo", "rule", "hook", "merge", "createBot", "shapeBot",
           "promote", "demote", "join", "leave", "write", "unwrite", "deactivate",
           "deleteTokens", "deliver", "expire", "retire">>
Step == [kind \in Range(Order) |-> CHOOSE n \in DOMAIN Order : Order[n] = kind]

PartKind(part) == IF part \in Flags THEN "team"
                  ELSE IF part \in {"main", "env/*", "v*"} THEN "rule" ELSE part

\* planStructure.
Structure(groups) ==
  UNION {{Act(PartKind(part), g.slug, "none", part) : part \in Parts \ made[g.slug]} : g \in groups}

\* planRecipePullRequests: a request of a bot of that group whose files, as
\* read, are all added.
RecipeMerges(groups) ==
  {Act("merge", r.org, r.by, "recipe") : r \in {q \in requests : \E g \in groups :
     q.org = g.slug /\ q.by \in BotsOf(g) /\ q.kind # "changes"}}

\* planBots.
BotShapes(groups) ==
  UNION {UNION {
    IF account[b] = "none" THEN {Act("createBot", g.slug, b, "none"), Act("shapeBot", g.slug, b, "none")}
    ELSE IF b \notin shaped THEN {Act("shapeBot", g.slug, b, "none")} ELSE {}
    : b \in BotsOf(g)} : g \in groups}

\* Who should be in a group's team: the people with an account and the right,
\* and in the read team the group's bots.
Desired(read, g, flag) ==
  {i \in People(read.member) : account[i] # "none" /\ flag \in TeamsFor(read.member[i], read.override[i], g)}
  \union IF flag = "read" THEN BotsOf(g) ELSE {}

\* Mutant: nobody is ever taken out of a team.
MembershipsOnlyAdded(read, groups, retired) ==
  UNION {UNION {{Act("join", g.slug, l, f) : l \in Desired(read, g, f) \ team[g.slug][f]}
    : f \in Flags} : g \in groups}

Memberships(read, groups, retired) ==
  UNION {UNION {{Act("join", g.slug, l, f) : l \in Desired(read, g, f) \ team[g.slug][f]}
         \union {Act("leave", g.slug, l, f) :
                   l \in team[g.slug][f] \ (Desired(read, g, f) \union retired \union {AdminLogin})}
    : f \in Flags} : g \in groups}

SiteAdmins(read) ==
  LET known == {i \in People(read.member) : account[i] # "none"}
  IN {Act("promote", "none", i, "none") : i \in {j \in known : SiteAdmin(read.member[j]) /\ j \notin admins}}
     \union {Act("demote", "none", i, "none") : i \in {j \in known : ~SiteAdmin(read.member[j]) /\ j \in admins}}

\* planGroupWriters: the group's bots write its group repository, no other bot
\* does, and people are left alone.
GroupWriters(groups, retired) ==
  UNION {{Act("write", g.slug, b, "none") : b \in BotsOf(g) \ writers[g.slug]}
         \union {Act("unwrite", g.slug, b, "none") :
                   b \in (writers[g.slug] \intersect Bots) \ (BotsOf(g) \union retired)}
    : g \in groups}

\* Mutant: an account that is off already is planned again.
DeparturesAgain(read) ==
  LET left == {i \in Ids : account[i] # "none"
                           /\ ~(i \in People(read.member) /\ read.member[i].active)}
  IN {Act("deactivate", "none", i, "none") : i \in left}
     \union {Act("deleteTokens", "none", i, "none") : i \in left}

\* planDepartures: who has an account and is not an active member is switched
\* off, and their tokens deleted; an account that is off is passed over.
Departures(read) ==
  LET left == {i \in Ids : account[i] = "active"
                           /\ ~(i \in People(read.member) /\ read.member[i].active)}
  IN {Act("deactivate", "none", i, "none") : i \in left}
     \union {Act("deleteTokens", "none", i, "none") : i \in left}

\* planMateAccess, reduced: the container can be read and holds no token.
Deliveries(groups) ==
  UNION {{Act("deliver", g.slug, Bot(p), "none") :
            p \in {q \in MatesOf(g) : q \notin gone \union misread /\ token[Bot(q)] = "none"}} : g \in groups}

\* planAppTokens: the tokens of active accounts, past their TTL.
AppTokens == {Act("expire", "none", i, "none") : i \in {j \in Ids : account[j] = "active" /\ token[j] = "old"}}

\* planRetirements.
Retirements(dead) ==
  {Act("retire", "none", Bot(p), "none") : p \in {q \in dead : account[Bot(q)] \notin {"none", "prohibited"}}}

Compute(read, groups, dead) ==
  LET retired == {Bot(p) : p \in dead}
  IN Structure(groups) \union RecipeMerges(groups) \union BotShapes(groups)
     \union SiteAdmins(read) \union Memberships(read, groups, retired)
     \union GroupWriters(groups, retired) \union Departures(read)
     \union Deliveries(groups) \union AppTokens \union Retirements(dead)

Destructive(a) == a.kind \in {"leave", "unwrite", "demote", "deactivate", "deleteTokens"}

\* What the plan takes away from a scope: a group, or what belongs to none.
Takes(plan, org) == Cardinality({a \in plan : a.org = org /\ Destructive(a)})

\* Mutant: only what belongs to no group is capped.
WithinGlobalCap(plan) == plan

\* What of a plan is performed: not the groups over the cap.
WithinCap(plan) == {a \in plan : a.org = "none" \/ Takes(plan, a.org) <= Cap}

-----------------------------------------------------------------------------
(* A pass.                                                                 *)

NoSnapshot == [team |-> <<>>, writers |-> <<>>, admins |-> {}, active |-> {}]
IdlePass == [at |-> "idle", member |-> <<>>, override |-> <<>>, listed |-> {}, groups |-> {},
             dead |-> {}, plan |-> {}, before |-> NoSnapshot]

\* What Gitea grants, to compare with what it granted when the plan was made.
Snapshot == [team |-> team, writers |-> writers, admins |-> admins,
             active |-> {i \in Ids : account[i] = "active"}]

At(phase) == pass.at = phase
Event == events < MaxEvents /\ events' = events + 1 /\ clean' = FALSE
NotThere == gone \union misread   \* what answers projectNotFound

TypeOK ==
  /\ member \in [Ids -> Rows \union {NoRow}]
  /\ override \in [Ids -> OverrideMaps]
  /\ gone \subseteq Projects /\ misread \subseteq Projects /\ tags \in TagLists
  /\ account \in [Logins -> {"none", "active", "off", "prohibited"}]
  /\ shaped \subseteq Bots /\ admins \subseteq Ids
  /\ token \in [Logins -> {"none", "fresh", "old"}]
  /\ made \in [Slugs -> SUBSET Parts]
  /\ team \in [Slugs -> [Flags -> SUBSET Logins]]
  /\ writers \in [Slugs -> SUBSET Logins]
  /\ requests \subseteq [org : Slugs, by : Bots, kind : RequestKinds]
  /\ seen \in [Projects -> {"no", "just", "ago"}]
  /\ pass.at \in {"idle", "projects", "registry", "gitea", "apply"}
  /\ pass.plan \subseteq [kind : Range(Order), org : Slugs \union {"none"},
                         login : Logins \union {"none"}, what : Parts \union {"none", "recipe"}]
  /\ clean \in BOOLEAN
  /\ events \in 0..MaxEvents

\* An organisation whose people have signed in, and whose groups are new or
\* stand already; or a new one in which nobody has.
Init ==
  /\ member \in [Ids -> {r \in Rows : r.active}] /\ override = [i \in Ids |-> <<>>]
  /\ gone = {} /\ misread = {} /\ tags \in TagLists
  /\ shaped = {} /\ admins = {} /\ token = [l \in Logins |-> "none"]
  /\ \E parts \in {{}, Parts}, here \in {Ids \ TokenIds, {}} :
       /\ made = [s \in Slugs |-> parts] /\ (here = {} => parts = {})
       /\ account = [l \in Logins |-> IF l \in here THEN "active" ELSE "none"]
  /\ team = [s \in Slugs |-> [f \in Flags |-> {}]]
  /\ writers = [s \in Slugs |-> {}] /\ requests = {}
  /\ seen = [p \in Projects |-> "no"]
  /\ pass = IdlePass /\ clean = FALSE
  /\ events = 0

\* ReadOrg: the member list ...
StartPass ==
  /\ At("idle")
  /\ pass' = [IdlePass EXCEPT !.at = "projects", !.member = member]
  /\ clean' = TRUE
  /\ UNCHANGED <<zeropsVars, accountVars, groupVars, seen, events>>

\* People's own roles come with the projects that are listed.
OverridesOn(listed) == [i \in Ids |-> Restrict(override[i], DOMAIN override[i] \intersect listed)]

\* ... the project search, with people's own roles ...
ReadProjects ==
  /\ At("projects")
  /\ pass' = [pass EXCEPT !.at = "registry", !.listed = Projects \ NotThere,
                          !.override = OverridesOn(Projects \ NotThere)]
  /\ UNCHANGED <<zeropsVars, accountVars, groupVars, seen, clean, events>>

\* Mutant: one projectNotFound is enough.
SightedOnce(p, listed) ==
  IF p \in listed \/ p \notin NotThere THEN "no" ELSE "ago"

\* A project that is not listed and not found was seen missing; a project that
\* is back is forgotten.
Sighted(p, listed) ==
  IF p \in listed \/ p \notin NotThere THEN "no"
  ELSE IF seen[p] = "no" THEN "just" ELSE seen[p]

ProjectsOf(groups) == UNION {{p.id : p \in g.projects} : g \in groups}

\* The registry without its deleted projects, and without a group that has
\* only deleted ones.
Excluded(groups, dead) ==
  {[g EXCEPT !.projects = {p \in @ : p.id \notin dead}] :
     g \in {h \in groups : h.projects = {} \/ ~ProjectsOf({h}) \subseteq dead}}

\* ... and the registry; excludeDeleted asks for each unlisted project.
ReadRegistry ==
  /\ At("registry")
  /\ LET registered == ProjectsOf(Registered)
     IN /\ seen' = [p \in Projects |-> IF p \in registered THEN Sighted(p, pass.listed) ELSE "no"]
        /\ LET dead == {p \in registered : seen'[p] = "ago"}
           IN pass' = [pass EXCEPT !.at = "gitea", !.groups = Excluded(Registered, dead), !.listed = {},
                                   !.dead = {p \in dead : \E g \in Registered : p \in MatesOf(g)}]
  /\ UNCHANGED <<zeropsVars, accountVars, groupVars, clean, events>>

\* gatherGitea, Compute and the cap: over the cap outside the groups, the pass
\* ends; over it in a group, nothing of that group is performed.
Plan ==
  /\ At("gitea")
  /\ LET plan == Compute([member |-> pass.member, override |-> pass.override], pass.groups, pass.dead)
         held == Takes(plan, "none") > Cap
     IN /\ pass' = IF held THEN IdlePass
                   ELSE [IdlePass EXCEPT !.at = "apply", !.plan = WithinCap(plan), !.before = Snapshot]
        /\ clean' = (clean /\ ~held /\ WithinCap(plan) = plan)
  /\ UNCHANGED <<zeropsVars, accountVars, groupVars, seen, events>>

\* A read fails or comes back short: the pass ends before it writes anything.
Unreadable ==
  /\ pass.at \in {"projects", "registry", "gitea"} /\ Event
  /\ pass' = IdlePass
  /\ UNCHANGED <<zeropsVars, accountVars, groupVars, seen>>

\* The next action; within a kind the code goes by group and login.
Due == LET next == CHOOSE a \in pass.plan : \A b \in pass.plan : Step[a.kind] <= Step[b.kind]
       IN {a \in pass.plan : At("apply") /\ a = next}
Done(a) == pass' = [pass EXCEPT !.plan = @ \ {a}]

Exists(l) == account[l] # "none"

\* Whether Gitea takes the next action as things are now.
Possible(a) ==
  CASE a.kind = "org" -> TRUE
    [] a.kind \in {"team", "repo", "hook"} -> "org" \in made[a.org]
    [] a.kind = "rule" -> "repo" \in made[a.org]
    [] a.kind = "merge" -> \E r \in requests : r.org = a.org /\ r.by = a.login /\ r.kind # "conflict"
    [] a.kind = "createBot" -> ~Exists(a.login)
    [] a.kind \in {"join", "leave"} -> a.what \in made[a.org] /\ Exists(a.login)
    [] a.kind \in {"write", "unwrite"} -> "repo" \in made[a.org] /\ Exists(a.login)
    [] a.kind = "deliver" -> "read" \in made[a.org]
    [] OTHER -> Exists(a.login)

Does(a, kinds) == a.kind \in kinds /\ Possible(a) /\ Done(a)

Make(a) ==
  /\ Does(a, {"org", "team", "repo", "rule", "hook"})
  /\ made' = [made EXCEPT ![a.org] = @ \union {a.what}]
  /\ UNCHANGED <<zeropsVars, accountVars, team, writers, requests, seen, clean, events>>

\* MergeRecipePullRequest: it merges the request as it is by now; an empty one
\* is closed.
Merge(a) ==
  /\ Does(a, {"merge"})
  /\ requests' = {r \in requests : ~(r.org = a.org /\ r.by = a.login)}
  /\ UNCHANGED <<zeropsVars, accountVars, made, team, writers, seen, clean, events>>

CreateBot(a) ==
  /\ Does(a, {"createBot"})
  /\ account' = [account EXCEPT ![a.login] = "active"]
  /\ UNCHANGED <<zeropsVars, shaped, admins, token, groupVars, seen, clean, events>>

ShapeBot(a) ==
  /\ Does(a, {"shapeBot"})
  /\ shaped' = shaped \union {a.login}
  /\ UNCHANGED <<zeropsVars, account, admins, token, groupVars, seen, clean, events>>

SetSiteAdmin(a) ==
  /\ Does(a, {"promote", "demote"})
  /\ admins' = IF a.kind = "promote" THEN admins \union {a.login} ELSE admins \ {a.login}
  /\ UNCHANGED <<zeropsVars, account, shaped, token, groupVars, seen, clean, events>>

SetMembership(a) ==
  /\ Does(a, {"join", "leave"})
  /\ team' = [team EXCEPT ![a.org][a.what] =
                IF a.kind = "join" THEN @ \union {a.login} ELSE @ \ {a.login}]
  /\ UNCHANGED <<zeropsVars, accountVars, made, writers, requests, seen, clean, events>>

SetWriter(a) ==
  /\ Does(a, {"write", "unwrite"})
  /\ writers' = [writers EXCEPT ![a.org] =
                   IF a.kind = "write" THEN @ \union {a.login} ELSE @ \ {a.login}]
  /\ UNCHANGED <<zeropsVars, accountVars, made, team, requests, seen, clean, events>>

Deactivate(a) ==
  /\ Does(a, {"deactivate"})
  /\ account' = [account EXCEPT ![a.login] = "off"]
  /\ UNCHANGED <<zeropsVars, shaped, admins, token, groupVars, seen, clean, events>>

\* DeletePersonTokens and DeletePersonToken.
DeleteTokens(a) ==
  /\ Does(a, {"deleteTokens", "expire"})
  /\ token' = [token EXCEPT ![a.login] = "none"]
  /\ UNCHANGED <<zeropsVars, account, shaped, admins, groupVars, seen, clean, events>>

\* deliverMateAccess, reduced: EnsureBot makes the bot true, allows it to sign
\* in and puts it in its read team; then it has a token.
Deliver(a) ==
  /\ Does(a, {"deliver"})
  /\ account' = [account EXCEPT ![a.login] = "active"]
  /\ shaped' = shaped \union {a.login}
  /\ team' = [team EXCEPT ![a.org]["read"] = @ \union {a.login}]
  /\ token' = [token EXCEPT ![a.login] = "fresh"]
  /\ UNCHANGED <<zeropsVars, admins, made, writers, requests, seen, clean, events>>

\* Mutant: the login is prohibited and the tokens stay.
RetireKeepsTokens(a) ==
  /\ Does(a, {"retire"})
  /\ account' = [account EXCEPT ![a.login] = "prohibited"]
  /\ UNCHANGED <<zeropsVars, shaped, admins, token, groupVars, seen, clean, events>>

\* RetireBot: its tokens first, then its login.
Retire(a) ==
  /\ Does(a, {"retire"})
  /\ token' = [token EXCEPT ![a.login] = "none"]
  /\ account' = [account EXCEPT ![a.login] = "prohibited"]
  /\ UNCHANGED <<zeropsVars, shaped, admins, groupVars, seen, clean, events>>

\* Gitea refuses the action, or the call fails: the pass goes on.  A delivery
\* may have made the bot true by then, a retirement have deleted the tokens.
Refused(a) ==
  /\ ~Possible(a) /\ Done(a)
  /\ clean' = FALSE
  /\ IF a.kind = "deliver"
     THEN /\ account' = [account EXCEPT ![a.login] = "active"]
          /\ shaped' = shaped \union {a.login}
     ELSE UNCHANGED <<account, shaped>>
  /\ UNCHANGED <<zeropsVars, admins, token, groupVars, seen, events>>

CallFails(a) ==
  /\ Event /\ Done(a)
  /\ \/ UNCHANGED token
     \/ a.kind = "retire" /\ token' = [token EXCEPT ![a.login] = "none"]
  /\ UNCHANGED <<zeropsVars, account, shaped, admins, groupVars, seen>>

EndPass ==
  /\ At("apply") /\ pass.plan = {}
  /\ pass' = IdlePass
  /\ UNCHANGED <<zeropsVars, accountVars, groupVars, seen, clean, events>>

\* The broker restarts: the pass is over, what it saw missing is forgotten.
Restart ==
  /\ Event /\ pass' = IdlePass
  /\ seen' = [p \in Projects |-> "no"]
  /\ UNCHANGED <<zeropsVars, accountVars, groupVars>>
-----------------------------------------------------------------------------
(* What happens beside the passes.                                         *)

OnlyZerops == UNCHANGED <<accountVars, groupVars, seen, pass>>

\* A person joins, leaves, or has another role or status.
ChangeRow(i, row) ==
  /\ Event /\ row # member[i]
  /\ member' = [member EXCEPT ![i] = row]
  /\ UNCHANGED <<override, gone, misread, tags>> /\ OnlyZerops

ChangeOverride(i, o) ==
  /\ Event /\ o # override[i]
  /\ override' = [override EXCEPT ![i] = o]
  /\ UNCHANGED <<member, gone, misread, tags>> /\ OnlyZerops

\* A group or a Mate is registered, moved or taken out.
Retag(list) ==
  /\ Event /\ list # tags
  /\ tags' = list
  /\ UNCHANGED <<member, override, gone, misread>> /\ OnlyZerops

DeleteProject(p) ==
  /\ Event /\ p \notin gone
  /\ gone' = gone \union {p}
  /\ UNCHANGED <<member, override, misread, tags>> /\ OnlyZerops

\* The platform answers projectNotFound for a project that is there.  Assumed:
\* it does so for less than DeadAfter, and not again before a pass saw the
\* project back; two such answers DeadAfter apart are what a deletion looks like.
Misread(p) ==
  /\ Event
  /\ p \notin NotThere /\ seen[p] = "no"
  /\ misread' = misread \union {p}
  /\ UNCHANGED <<member, override, gone, tags, accountVars, groupVars, seen, pass>>

ReadAgain(p) ==
  /\ p \in misread /\ misread' = misread \ {p} /\ clean' = FALSE
  /\ UNCHANGED <<member, override, gone, tags, accountVars, groupVars, seen, pass, events>>

\* DeadAfter passes; a misread lasts less than that.
SightingAges(p) ==
  /\ seen[p] = "just" /\ p \notin misread
  /\ seen' = [seen EXCEPT ![p] = "ago"] /\ clean' = FALSE
  /\ UNCHANGED <<zeropsVars, accountVars, groupVars, pass, events>>

\* A member's first sign-in makes their account.
SignIn(i) ==
  /\ Event /\ i \in People(member) /\ member[i].active /\ account[i] = "none"
  /\ account' = [account EXCEPT ![i] = "active"]
  /\ UNCHANGED <<zeropsVars, shaped, admins, token, groupVars, seen, pass>>

\* POST /person/token mints for an active member.
MintAppToken(i) ==
  /\ Event /\ i \in People(member) /\ member[i].active
  /\ account[i] = "active" /\ token[i] = "none"
  /\ token' = [token EXCEPT ![i] = "fresh"]
  /\ UNCHANGED <<zeropsVars, account, shaped, admins, groupVars, seen, pass>>

AppTokenAges(i) ==
  /\ token[i] = "fresh"
  /\ token' = [token EXCEPT ![i] = "old"] /\ clean' = FALSE
  /\ UNCHANGED <<zeropsVars, account, shaped, admins, groupVars, seen, pass, events>>

\* A site admin puts somebody into a team, or somebody onto the group
\* repository, or edits a rule away.
EditTeam(s, f, l) ==
  /\ Event /\ f \in made[s] /\ Exists(l) /\ l \notin team[s][f]
  /\ team' = [team EXCEPT ![s][f] = @ \union {l}]
  /\ UNCHANGED <<zeropsVars, accountVars, made, writers, requests, seen, pass>>

EditWriters(s, l) ==
  /\ Event /\ "repo" \in made[s] /\ Exists(l) /\ l \notin writers[s]
  /\ writers' = [writers EXCEPT ![s] = @ \union {l}]
  /\ UNCHANGED <<zeropsVars, accountVars, made, team, requests, seen, pass>>

EditRule(s, part) ==
  /\ Event /\ part \in made[s]
  /\ made' = [made EXCEPT ![s] = @ \ {part}]
  /\ UNCHANGED <<zeropsVars, accountVars, team, writers, requests, seen, pass>>

\* A Mate opens a request with its recipe, and may push to it afterwards.
Propose(s, b, kind) ==
  /\ Event /\ "repo" \in made[s] /\ b \in writers[s] /\ account[b] = "active"
  /\ \A r \in requests : r.org # s \/ r.by # b
  /\ requests' = requests \union {[org |-> s, by |-> b, kind |-> kind]}
  /\ UNCHANGED <<zeropsVars, accountVars, made, team, writers, seen, pass>>

Rework(r) ==
  /\ Event /\ r.kind # "changes"
  /\ requests' = (requests \ {r}) \union {[r EXCEPT !.kind = "changes"]}
  /\ UNCHANGED <<zeropsVars, accountVars, made, team, writers, seen, pass>>

-----------------------------------------------------------------------------
ReadsAndPlans == StartPass \/ ReadProjects \/ ReadRegistry \/ Plan
Performs ==
  \E a \in Due : \/ Make(a) \/ Merge(a) \/ CreateBot(a) \/ ShapeBot(a) \/ SetSiteAdmin(a)
                \/ SetMembership(a) \/ SetWriter(a) \/ Deactivate(a) \/ DeleteTokens(a)
                \/ Deliver(a) \/ Retire(a) \/ Refused(a)
PassStep == ReadsAndPlans \/ Performs \/ EndPass

World ==
  \/ \E i \in Ids, row \in Rows \union {NoRow} : ChangeRow(i, row)
  \/ \E i \in Ids, o \in OverrideMaps : ChangeOverride(i, o)
  \/ \E list \in TagLists : Retag(list)
  \/ \E p \in Projects : DeleteProject(p) \/ Misread(p) \/ ReadAgain(p) \/ SightingAges(p)
  \/ \E i \in Ids : SignIn(i) \/ MintAppToken(i) \/ AppTokenAges(i)
  \/ \E s \in Slugs, l \in Logins : EditWriters(s, l) \/ \E f \in Flags : EditTeam(s, f, l)
  \/ \E s \in Slugs, part \in {"env/*", "v*"} : EditRule(s, part)
  \/ \E s \in Slugs, b \in Bots, kind \in RequestKinds : Propose(s, b, kind)
  \/ \E r \in requests : Rework(r)

Next == PassStep \/ Unreadable \/ (\E a \in Due : CallFails(a)) \/ Restart \/ World

Spec == Init /\ [][Next]_vars

-----------------------------------------------------------------------------
(* Properties.                                                             *)

\* A Mate's bot is retired only when its project is deleted: a project that is
\* misread for less than DeadAfter never costs a Mate its bot (excludeDeleted).
RetiredIsDeleted == \A p \in Projects : account[Bot(p)] = "prohibited" => p \in gone

\* A retired bot holds no token, as no pass ever looks at it again (RetireBot).
RetiredHoldsNothing ==
  \A p \in Projects : account[Bot(p)] = "prohibited" => token[Bot(p)] = "none"

\* What the next pass would plan, were nothing to change.
NextPlan ==
  LET dead == {p \in ProjectsOf(Registered) : Sighted(p, Projects \ NotThere) = "ago"}
  IN Compute([member |-> member, override |-> OverridesOn(Projects \ NotThere)],
             Excluded(Registered, dead),
             {p \in dead : \E g \in Registered : p \in MatesOf(g)})

\* A pass that nothing disturbs leaves nothing to do: no two rules of the plan
\* undo each other, and no write is repeated on every pass.
OnePassSettles == At("idle") /\ clean => NextPlan = {}

\* While a pass performs, each group loses at most Cap memberships and
\* collaborators, and at most Cap accounts and site admins go: what the cap
\* promises, in terms of what people lose (ErrCapped, Mirror.Pass).
LossesWithinCap ==
  At("apply") =>
    /\ \A s \in Slugs :
         Cardinality((UNION {{<<f, l>> : l \in pass.before.team[s][f] \ team[s][f]} : f \in Flags})
                     \union {<<"writer", l>> : l \in pass.before.writers[s] \ writers[s]}) <= Cap
    /\ Cardinality(pass.before.admins \ admins)
       + Cardinality(pass.before.active \ {i \in Ids : account[i] = "active"}) <= Cap

\* Whether a group's teams, writers and parts are what the roles say, by what
\* is true now of the projects that are not known to be deleted.  A project
\* that Zerops does not list takes people's own roles on it along.
Mirrored(group) ==
  LET known == {i \in People(member) : account[i] # "none"}
      retired == {Bot(p) : p \in {q \in Projects : account[Bot(q)] = "prohibited" \/ seen[q] = "ago"}}
      own == OverridesOn(Projects \ NotThere)
      g == [group EXCEPT !.projects = {p \in @ : seen[p.id] # "ago"}]
  IN /\ made[g.slug] = Parts
     /\ \A f \in Flags :
          team[g.slug][f] \ retired =
            {i \in known : f \in TeamsFor(member[i], own[i], g)}
            \union (IF f = "read" THEN BotsOf(g) \ retired ELSE {})
     /\ (writers[g.slug] \ retired) \intersect Bots = BotsOf(g) \ retired

Departed == {i \in Ids : i \notin People(member) \/ ~member[i].active}

\* After a pass that nothing disturbed, and that held nothing back, every group
\* has in Gitea what the roles give as things are now: its teams, its writers,
\* its parts.  No departed person's account is on, the site admins are the
\* owners, and no Mate whose project is gone has a bot that may sign in, once
\* it was seen missing twice (Mirror.Pass).
MirrorsRoles ==
  At("idle") /\ clean =>
    /\ \A g \in Registered : ProjectsOf({g}) \subseteq gone \/ Mirrored(g)
    /\ \A i \in Departed : account[i] # "active"
    /\ \A i \in People(member) : Exists(i) => (i \in admins <=> SiteAdmin(member[i]))
    /\ \A g \in Registered, p \in gone :
         p \in MatesOf(g) /\ seen[p] = "ago" => account[Bot(p)] # "active"

\* A departed person's tokens go: "is switched off and their tokens deleted"
\* (planDepartures).  It does not hold: once the account is off no pass plans
\* for it again, so a deletion that failed, or never came, is not made up for.
DepartedHoldNothing ==
  At("idle") /\ clean => \A i \in Departed : token[i] = "none"

\* A recipe lands by itself only when it only adds files (plan.go, "is merged as
\* it is when it only adds files").  It does not hold: the merge names no
\* commit, and the Mate may have pushed since its files were read.
OnlyAdditionsLand ==
  [][\A r \in requests : \A a \in Due :
       a.kind = "merge" /\ Done(a) /\ r \notin requests' => r.kind # "changes"]_vars

=============================================================================
