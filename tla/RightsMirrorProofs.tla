-------------------------- MODULE RightsMirrorProofs ---------------------------
(***************************************************************************)
(* What the rights mirror never does, for any number of people, projects,  *)
(* groups, changes and failures: it retires the bot of no project that is  *)
(* there, a bot it retired holds no token, and no pass takes more from a   *)
(* group, or from the organisation, than the cap.  And what it achieves: a *)
(* pass that nothing disturbs leaves Gitea as the roles say, and nothing   *)
(* for the next to do.                                                     *)
(***************************************************************************)
EXTENDS RightsMirror, FiniteSetTheorems, WellFoundedInduction, TLAPS

Fields == DOMAIN IdlePass
IsPass(p) == p = [x \in Fields |-> p[x]]

\* What is read of Zerops is there, and what is updated is a function.
Types ==
  /\ tags \in TagLists
  /\ misread \subseteq Projects /\ gone \subseteq Projects
  /\ IsPass(pass)
  /\ account = [l \in Logins |-> account[l]]
  /\ token = [l \in Logins |-> token[l]]
  /\ seen = [p \in Projects |-> seen[p]]

\* A project that is misread now was not seen missing DeadAfter ago.
MisreadIsRecent == \A p \in misread : seen[p] # "ago"

\* A project that a pass takes for deleted is, and the bots it is to retire are
\* such projects'.
DeadIsGone == pass.dead \subseteq gone
RetiresDead == \A a \in pass.plan : a.kind = "retire" => \E p \in gone : a.login = Bot(p)

RetireInv ==
  /\ Types
  /\ MisreadIsRecent /\ DeadIsGone /\ RetiresDead
  /\ RetiredIsDeleted /\ RetiredHoldsNothing

-----------------------------------------------------------------------------
(* The parts of a pass.                                                    *)

\* The fields of a pass, and that an idle pass is one that plans nothing.
LEMMA FieldsAre ==
  /\ Fields = {"at", "member", "override", "listed", "groups", "dead", "plan", "before"}
  /\ IsPass(IdlePass) /\ IdlePass.at = "idle" /\ IdlePass.dead = {} /\ IdlePass.plan = {}
BY DEF Fields, IsPass, IdlePass

\* The next action is one of the plan.
LEMMA DueIsPlanned ==
  ASSUME NEW a \in Due
  PROVE  At("apply") /\ a \in pass.plan
BY DEF Due

\* Performing an action, or passing it over, takes it from the plan.
LEMMA DoneIs ==
  ASSUME Types, NEW a, Done(a)
  PROVE  /\ IsPass(pass')
         /\ pass'.at = pass.at /\ pass'.groups = pass.groups
         /\ pass'.dead = pass.dead /\ pass'.before = pass.before
         /\ pass'.plan = pass.plan \ {a}
BY FieldsAre DEF Types, IsPass, Done

\* What a plan is made of: a retirement is of the bot of a dead project.
LEMMA PlannedRetirements ==
  ASSUME NEW read, NEW groups, NEW dead, NEW a \in Compute(read, groups, dead), a.kind = "retire"
  PROVE  \E p \in dead : a.login = Bot(p)
<1>1. a \notin Structure(groups)
  BY DEF Structure, Act, PartKind, Parts, Flags
<1>2. a \notin RecipeMerges(groups) /\ a \notin BotShapes(groups)
  BY DEF RecipeMerges, BotShapes, Act
<1>3. a \notin SiteAdmins(read) /\ a \notin Departures(read)
  BY DEF SiteAdmins, Departures, Act
<1>4. a \notin Memberships(read, groups, {Bot(p) : p \in dead})
  BY DEF Memberships, Act
<1>5. a \notin GroupWriters(groups, {Bot(p) : p \in dead})
  BY DEF GroupWriters, Act
<1>6. a \notin Deliveries(groups) /\ a \notin AppTokens
  BY DEF Deliveries, AppTokens, Act
<1>7. a \in Retirements(dead)
  BY <1>1, <1>2, <1>3, <1>4, <1>5, <1>6 DEF Compute
<1>8. QED
  BY <1>7 DEF Retirements, Act

-----------------------------------------------------------------------------
(* Bots that are retired.                                                  *)

\* A step that leaves the accounts, the tokens, what is deleted and what was
\* seen missing alone, and plans no new retirement, preserves the invariant.
LEMMA AsideKeepsRetired ==
  ASSUME RetireInv, UNCHANGED <<tags, misread, gone, account, token, seen>>,
         IsPass(pass'), pass'.dead \subseteq pass.dead, pass'.plan \subseteq pass.plan
  PROVE  RetireInv'
BY DEF RetireInv, Types, MisreadIsRecent, DeadIsGone, RetiresDead, RetiredIsDeleted, RetiredHoldsNothing

\* A pass begins, reads people's roles, ends, or is cut off by a bad read.
LEMMA ReadingKeepsRetired ==
  ASSUME RetireInv, StartPass \/ ReadProjects \/ Unreadable \/ EndPass
  PROVE  RetireInv'
<1>1. UNCHANGED <<tags, misread, gone, account, token, seen>>
  BY DEF StartPass, ReadProjects, Unreadable, EndPass, zeropsVars, accountVars
<1>2. CASE StartPass
  <2>1. pass' = [IdlePass EXCEPT !.at = "projects", !.member = member]
    BY <1>2 DEF StartPass
  <2>2. IsPass(pass') /\ pass'.dead = {} /\ pass'.plan = {}
    BY <2>1, FieldsAre DEF IsPass
  <2>3. QED
    BY <1>1, <2>2, AsideKeepsRetired
<1>3. CASE ReadProjects
  <2>1. PICK listed, own : pass' = [pass EXCEPT !.at = "registry", !.listed = listed, !.override = own]
    BY <1>3 DEF ReadProjects
  <2>2. IsPass(pass') /\ pass'.dead = pass.dead /\ pass'.plan = pass.plan
    BY <2>1, FieldsAre DEF IsPass, RetireInv, Types
  <2>3. QED
    BY <1>1, <2>2, AsideKeepsRetired
<1>4. CASE Unreadable \/ EndPass
  BY <1>1, <1>4, FieldsAre, AsideKeepsRetired DEF Unreadable, EndPass
<1>5. QED
  BY <1>2, <1>3, <1>4

\* What is seen missing DeadAfter ago, and is missing still, is not misread.
LEMMA ReadRegistryKeepsRetired ==
  ASSUME RetireInv, ReadRegistry
  PROVE  RetireInv'
<1> DEFINE sighted == {p \in ProjectsOf(Registered) : seen'[p] = "ago"}
           groups == Excluded(Registered, sighted)
           dead == {p \in sighted : \E g \in Registered : p \in MatesOf(g)}
<1>1. /\ pass' = [pass EXCEPT !.at = "gitea", !.groups = groups, !.listed = {}, !.dead = dead]
      /\ \A p \in dead : p \in ProjectsOf(Registered) /\ seen'[p] = "ago"
  BY DEF ReadRegistry
<1> HIDE DEF groups, dead
<1>2. IsPass(pass') /\ pass'.dead = dead /\ pass'.plan = pass.plan
  BY <1>1, FieldsAre DEF IsPass, RetireInv, Types
<1>3. UNCHANGED <<tags, misread, gone, account, token>>
  BY DEF ReadRegistry, zeropsVars, accountVars
<1>4. ProjectsOf(Registered) \subseteq Projects
  BY RegistryAssumption DEF ProjectsOf, Registered, RetireInv, Types
<1>5. /\ seen' = [p \in Projects |-> seen'[p]]
      /\ \A p \in Projects : seen'[p] = "ago" => p \in gone \union misread /\ seen[p] = "ago"
  BY DEF ReadRegistry, Sighted, NotThere
<1>6. dead \subseteq gone
  BY <1>1, <1>4, <1>5 DEF RetireInv, MisreadIsRecent
<1>7. MisreadIsRecent'
  BY <1>3, <1>5 DEF RetireInv, Types, MisreadIsRecent
<1>8. QED
  BY <1>2, <1>3, <1>5, <1>6, <1>7
    DEF RetireInv, Types, DeadIsGone, RetiresDead, RetiredIsDeleted, RetiredHoldsNothing

\* The plan retires what was read as deleted.
LEMMA PlanKeepsRetired ==
  ASSUME RetireInv, Plan
  PROVE  RetireInv'
<1> DEFINE plan == Compute([member |-> pass.member, override |-> pass.override], pass.groups, pass.dead)
<1>1. \/ pass' = IdlePass
      \/ pass' = [IdlePass EXCEPT !.at = "apply", !.plan = WithinCap(plan), !.before = Snapshot]
  BY DEF Plan
<1>2. UNCHANGED <<tags, misread, gone, account, token, seen>>
  BY DEF Plan, zeropsVars, accountVars
<1>3. \A a \in plan : a.kind = "retire" => \E p \in pass.dead : a.login = Bot(p)
  BY PlannedRetirements
<1>4. WithinCap(plan) \subseteq plan
  BY DEF WithinCap
<1> HIDE DEF plan
<1>5. IsPass(pass') /\ pass'.dead = {} /\ pass'.plan \subseteq plan
  BY <1>1, <1>4, FieldsAre DEF IsPass
<1>6. RetiresDead'
  BY <1>2, <1>3, <1>5 DEF RetireInv, RetiresDead, DeadIsGone
<1>7. QED
  BY <1>2, <1>5, <1>6 DEF RetireInv, Types, MisreadIsRecent, DeadIsGone, RetiredIsDeleted, RetiredHoldsNothing

\* A call that changes no account and no token.
LEMMA CallsKeepRetired ==
  ASSUME RetireInv, NEW a \in Due,
         Make(a) \/ Merge(a) \/ ShapeBot(a) \/ SetSiteAdmin(a) \/ SetMembership(a) \/ SetWriter(a)
  PROVE  RetireInv'
<1>1. Done(a)
  BY DEF Make, Merge, ShapeBot, SetSiteAdmin, SetMembership, SetWriter, Does
<1>2. UNCHANGED <<tags, misread, gone, account, token, seen>>
  BY DEF Make, Merge, ShapeBot, SetSiteAdmin, SetMembership, SetWriter, zeropsVars, accountVars
<1>3. QED
  BY <1>1, <1>2, DoneIs, AsideKeepsRetired DEF RetireInv

\* A call that makes an account, or switches one on or off, retires nobody.
LEMMA AccountsKeepRetired ==
  ASSUME RetireInv, NEW a \in Due,
         CreateBot(a) \/ Deactivate(a) \/ DeleteTokens(a) \/ Deliver(a) \/ Refused(a) \/ CallFails(a)
  PROVE  RetireInv'
<1>1. Done(a)
  BY DEF CreateBot, Deactivate, DeleteTokens, Deliver, Refused, CallFails, Does
<1>2. UNCHANGED <<tags, misread, gone, seen>>
  BY DEF CreateBot, Deactivate, DeleteTokens, Deliver, Refused, CallFails, zeropsVars
<1>3. /\ account' = [l \in Logins |-> account'[l]]
      /\ token' = [l \in Logins |-> token'[l]]
  BY DEF CreateBot, Deactivate, DeleteTokens, Deliver, Refused, CallFails, accountVars, RetireInv, Types
<1>4. \A l \in Logins : account'[l] = "prohibited" =>
        account[l] = "prohibited" /\ token'[l] \in {token[l], "none"}
  BY DEF CreateBot, Deactivate, DeleteTokens, Deliver, Refused, CallFails, accountVars, RetireInv, Types
<1>5. RetiredIsDeleted' /\ RetiredHoldsNothing'
  BY <1>2, <1>4 DEF RetireInv, RetiredIsDeleted, RetiredHoldsNothing, Logins, Bots
<1>6. QED
  BY <1>1, <1>2, <1>3, <1>5, DoneIs DEF RetireInv, Types, MisreadIsRecent, DeadIsGone, RetiresDead

\* A bot is retired with its tokens, and is the bot of one project only.
LEMMA RetireKeepsRetired ==
  ASSUME RetireInv, NEW a \in Due, Retire(a)
  PROVE  RetireInv'
<1>1. Done(a) /\ a.kind = "retire" /\ UNCHANGED <<tags, misread, gone, seen>>
  BY DEF Retire, Does, zeropsVars
<1>2. /\ account' = [account EXCEPT ![a.login] = "prohibited"]
      /\ token' = [token EXCEPT ![a.login] = "none"]
  BY DEF Retire
<1>3. PICK q \in gone : a.login = Bot(q)
  BY <1>1, DueIsPlanned DEF RetireInv, RetiresDead
<1>4. \A p \in Projects : Bot(p) = Bot(q) => p = q
  BY <1>3, MirrorAssumption DEF RetireInv, Types
<1>5. RetiredIsDeleted' /\ RetiredHoldsNothing'
  BY <1>1, <1>2, <1>3, <1>4 DEF RetireInv, Types, RetiredIsDeleted, RetiredHoldsNothing, Logins, Bots
<1>6. QED
  BY <1>1, <1>2, <1>5, DoneIs DEF RetireInv, Types, MisreadIsRecent, DeadIsGone, RetiresDead

\* A restart forgets what was seen missing.
LEMMA RestartKeepsRetired ==
  ASSUME RetireInv, Restart
  PROVE  RetireInv'
BY FieldsAre DEF Restart, zeropsVars, accountVars, RetireInv, Types, MisreadIsRecent, DeadIsGone,
                 RetiresDead, RetiredIsDeleted, RetiredHoldsNothing

\* What happens beside the passes: a person's token is no bot's.
LEMMA WorldKeepsRetired ==
  ASSUME RetireInv, World
  PROVE  RetireInv'
<1> USE DEF RetireInv, Types, MisreadIsRecent, DeadIsGone, RetiresDead, RetiredIsDeleted, RetiredHoldsNothing
<1>1. ASSUME NEW i \in Ids, NEW row \in Rows \union {NoRow}, ChangeRow(i, row)
      PROVE  RetireInv'
  BY <1>1 DEF ChangeRow, OnlyZerops, accountVars
<1>2. ASSUME NEW i \in Ids, NEW o \in OverrideMaps, ChangeOverride(i, o)
      PROVE  RetireInv'
  BY <1>2 DEF ChangeOverride, OnlyZerops, accountVars
<1>3. ASSUME NEW list \in TagLists, Retag(list)
      PROVE  RetireInv'
  BY <1>3 DEF Retag, OnlyZerops, accountVars
<1>4. ASSUME NEW p \in Projects, DeleteProject(p)
      PROVE  RetireInv'
  BY <1>4 DEF DeleteProject, OnlyZerops, accountVars
<1>5. ASSUME NEW p \in Projects, Misread(p) \/ ReadAgain(p)
      PROVE  RetireInv'
  BY <1>5 DEF Misread, ReadAgain, accountVars
<1>6. ASSUME NEW p \in Projects, SightingAges(p)
      PROVE  RetireInv'
  BY <1>6 DEF SightingAges, zeropsVars, accountVars
<1>7. \A i \in Ids : i \in Logins /\ \A p \in Projects : Bot(p) # i /\ Bot(p) \in Logins
  BY MirrorAssumption DEF Logins, Bots
<1>8. ASSUME NEW i \in Ids, SignIn(i) \/ MintAppToken(i) \/ AppTokenAges(i)
      PROVE  RetireInv'
  BY <1>7, <1>8 DEF SignIn, MintAppToken, AppTokenAges, zeropsVars
<1>9. ASSUME NEW s \in Slugs, NEW l \in Logins, EditWriters(s, l) \/ \E f \in Flags : EditTeam(s, f, l)
      PROVE  RetireInv'
  BY <1>9 DEF EditWriters, EditTeam, zeropsVars, accountVars
<1>10. ASSUME NEW s \in Slugs, NEW part \in {"env/*", "v*"}, EditRule(s, part)
       PROVE  RetireInv'
  BY <1>10 DEF EditRule, zeropsVars, accountVars
<1>11. ASSUME NEW s \in Slugs, NEW b \in Bots, NEW kind \in RequestKinds, Propose(s, b, kind)
       PROVE  RetireInv'
  BY <1>11 DEF Propose, zeropsVars, accountVars
<1>12. ASSUME NEW r \in requests, Rework(r)
       PROVE  RetireInv'
  BY <1>12 DEF Rework, zeropsVars, accountVars
<1> HIDE DEF RetireInv, Types, MisreadIsRecent, DeadIsGone, RetiresDead, RetiredIsDeleted, RetiredHoldsNothing
<1>13. QED
  BY <1>1, <1>2, <1>3, <1>4, <1>5, <1>6, <1>8, <1>9, <1>10, <1>11, <1>12 DEF World

\* The invariant holds in every reachable state.
THEOREM RetireInvariant == Spec => []RetireInv
<1>1. Init => RetireInv
  <2> SUFFICES ASSUME Init
               PROVE  RetireInv
    OBVIOUS
  <2>1. Types /\ MisreadIsRecent /\ DeadIsGone /\ RetiresDead
    BY FieldsAre DEF Init, Types, MisreadIsRecent, DeadIsGone, RetiresDead
  <2>2. RetiredIsDeleted /\ RetiredHoldsNothing
    BY DEF Init, RetiredIsDeleted, RetiredHoldsNothing, Logins, Bots
  <2>3. QED
    BY <2>1, <2>2 DEF RetireInv
<1>2. RetireInv /\ [Next]_vars => RetireInv'
  <2> SUFFICES ASSUME RetireInv, [Next]_vars
               PROVE  RetireInv'
    OBVIOUS
  <2>1. CASE UNCHANGED vars
    BY <2>1 DEF vars, zeropsVars, accountVars, RetireInv, Types, MisreadIsRecent, DeadIsGone,
                RetiresDead, RetiredIsDeleted, RetiredHoldsNothing
  <2>2. CASE Performs
    BY <2>2, CallsKeepRetired, AccountsKeepRetired, RetireKeepsRetired DEF Performs
  <2>3. CASE \E a \in Due : CallFails(a)
    BY <2>3, AccountsKeepRetired
  <2>4. CASE ReadsAndPlans \/ EndPass \/ Unreadable \/ Restart \/ World
    BY <2>4, ReadingKeepsRetired, ReadRegistryKeepsRetired, PlanKeepsRetired, RestartKeepsRetired,
       WorldKeepsRetired DEF ReadsAndPlans
  <2>5. QED
    BY <2>1, <2>2, <2>3, <2>4 DEF Next, PassStep
<1>3. QED
  BY <1>1, <1>2, PTL DEF Spec

\* A bot is retired only when its project is deleted, however many projects are
\* misread, as long as a misread lasts less than DeadAfter (excludeDeleted).
THEOREM OnlyDeletedRetired == Spec => []RetiredIsDeleted
<1>1. RetireInv => RetiredIsDeleted
  BY DEF RetireInv
<1>2. QED
  BY <1>1, RetireInvariant, PTL

\* A retired bot holds no token, whatever call fails when (RetireBot).
THEOREM RetiredBotsHoldNothing == Spec => []RetiredHoldsNothing
<1>1. RetireInv => RetiredHoldsNothing
  BY DEF RetireInv
<1>2. QED
  BY <1>1, RetireInvariant, PTL

-----------------------------------------------------------------------------
(* The cap.                                                                *)

\* What a group has lost since the plan was made, what the organisation has,
\* and what the plan has still to take from either.
Lost(s) ==
  (UNION {{<<f, l>> : l \in pass.before.team[s][f] \ team[s][f]} : f \in Flags})
  \union {<<"writer", l>> : l \in pass.before.writers[s] \ writers[s]}
LostRights == pass.before.admins \ admins
LostAccounts == pass.before.active \ {i \in Ids : account[i] = "active"}
ToTake(plan, org) == {a \in plan : a.org = org /\ Destructive(a)}

\* Teams and collaborators are finite; the groups of a pass have slugs.
Sized ==
  /\ tags \in TagLists
  /\ IsPass(pass)
  /\ \A g \in pass.groups : g.slug \in Slugs
  /\ account = [l \in Logins |-> account[l]]
  /\ team = [s \in Slugs |-> [f \in Flags |-> team[s][f]]]
  /\ writers = [s \in Slugs |-> writers[s]]
  /\ \A s \in Slugs : IsFiniteSet(writers[s]) /\ \A f \in Flags : IsFiniteSet(team[s][f])

\* Whatever takes something away takes it from its scope.
Scoped(a) ==
  CASE a.kind \in {"leave", "unwrite"} -> a.org \in Slugs
    [] a.kind \in {"demote", "deactivate"} -> a.org = "none"
    [] OTHER -> TRUE

\* What is lost and what is still to be taken is within the cap together.
GroupsBounded ==
  \A s \in Slugs :
    /\ IsFiniteSet(Lost(s)) /\ IsFiniteSet(ToTake(pass.plan, s))
    /\ Cardinality(Lost(s)) + Cardinality(ToTake(pass.plan, s)) <= Cap
RestBounded ==
  /\ IsFiniteSet(LostRights) /\ IsFiniteSet(LostAccounts) /\ IsFiniteSet(ToTake(pass.plan, "none"))
  /\ Cardinality(LostRights) + Cardinality(LostAccounts) + Cardinality(ToTake(pass.plan, "none")) <= Cap

CapInv ==
  /\ Sized
  /\ At("apply") => (\A a \in pass.plan : Scoped(a)) /\ GroupsBounded /\ RestBounded

\* What is not more than before, and what is one more for one less to take.
LEMMA Less ==
  ASSUME NEW S, IsFiniteSet(S), NEW T, T \subseteq S
  PROVE  IsFiniteSet(T) /\ Cardinality(T) \in Nat /\ Cardinality(S) \in Nat /\ Cardinality(T) <= Cardinality(S)
BY FS_Subset, FS_CardinalityType

\* One member more is at most one more ...
LEMMA OneMore ==
  ASSUME NEW S, IsFiniteSet(S), NEW x, NEW T, T \subseteq S \union {x}
  PROVE  IsFiniteSet(T) /\ Cardinality(T) \in Nat /\ Cardinality(S) \in Nat /\ Cardinality(T) <= Cardinality(S) + 1
<1>1. IsFiniteSet(S \union {x}) /\ Cardinality(S \union {x}) <= Cardinality(S) + 1 /\ Cardinality(S) \in Nat
  BY FS_AddElement, FS_CardinalityType
<1>2. QED
  BY <1>1, Less

\* ... and one less is one less.
LEMMA OneLess ==
  ASSUME NEW S, IsFiniteSet(S), NEW x \in S
  PROVE  /\ IsFiniteSet(S \ {x}) /\ Cardinality(S) \in Nat
         /\ Cardinality(S \ {x}) \in Nat /\ Cardinality(S \ {x}) = Cardinality(S) - 1
<1>1. IsFiniteSet(S \ {x}) /\ Cardinality(S \ {x}) = Cardinality(S) - 1
  BY FS_RemoveElement
<1>2. QED
  BY <1>1, FS_CardinalityType

-----------------------------------------------------------------------------
(* What a plan takes away.                                                 *)

\* It takes memberships and collaborators from groups, and rights and accounts
\* from people.
LEMMA PlannedLosses ==
  ASSUME NEW read, NEW groups, NEW dead, NEW a \in Compute(read, groups, dead), Destructive(a)
  PROVE  \/ \E g \in groups : \E f \in Flags : \E l \in team[g.slug][f] : a = Act("leave", g.slug, l, f)
         \/ \E g \in groups : \E l \in writers[g.slug] : a = Act("unwrite", g.slug, l, "none")
         \/ \E i \in Ids, kind \in {"demote", "deactivate", "deleteTokens"} : a = Act(kind, "none", i, "none")
<1> USE DEF Destructive, Act
<1>1. a \notin Structure(groups)
  BY DEF Structure, PartKind, Parts, Flags
<1>2. a \notin RecipeMerges(groups) /\ a \notin BotShapes(groups)
  BY DEF RecipeMerges, BotShapes
<1>3. a \notin Deliveries(groups) /\ a \notin AppTokens /\ a \notin Retirements(dead)
  BY DEF Deliveries, AppTokens, Retirements
<1>4. CASE a \in SiteAdmins(read) \union Departures(read)
  BY <1>4 DEF SiteAdmins, Departures, People
<1>5. CASE a \in Memberships(read, groups, {Bot(p) : p \in dead})
  BY <1>5 DEF Memberships
<1>6. CASE a \in GroupWriters(groups, {Bot(p) : p \in dead})
  BY <1>6 DEF GroupWriters
<1>7. QED
  BY <1>1, <1>2, <1>3, <1>4, <1>5, <1>6 DEF Compute

\* Five things are finitely many.
LEMMA FiveAreFinite ==
  ASSUME NEW a, NEW b, NEW c, NEW d, NEW e
  PROVE  IsFiniteSet({a, b, c, d, e})
<1>1. IsFiniteSet({a})
  BY FS_Singleton
<1>2. IsFiniteSet({a} \union {b})
  BY <1>1, FS_AddElement
<1>3. IsFiniteSet(({a} \union {b}) \union {c})
  BY <1>2, FS_AddElement
<1>4. IsFiniteSet((({a} \union {b}) \union {c}) \union {d})
  BY <1>3, FS_AddElement
<1>5. IsFiniteSet(((({a} \union {b}) \union {c}) \union {d}) \union {e})
  BY <1>4, FS_AddElement
<1>6. {a, b, c, d, e} = ((({a} \union {b}) \union {c}) \union {d}) \union {e}
  OBVIOUS
<1>7. QED
  BY <1>5, <1>6

\* Finitely many losses of one scope, when they are of finitely many people.
LEMMA FinitelyMany ==
  ASSUME NEW T, NEW org, NEW Whose, IsFiniteSet(Whose),
         \A a \in T : \E kind \in {"leave", "unwrite", "demote", "deactivate", "deleteTokens"},
                         l \in Whose, w \in Flags \union {"none"} : a = Act(kind, org, l, w)
  PROVE  IsFiniteSet(T)
<1> DEFINE K == {"leave", "unwrite", "demote", "deactivate", "deleteTokens"}
           W == Flags \union {"none"}
           f == [a \in T |-> <<a.kind, <<a.login, a.what>>>>]
<1>1. IsFiniteSet(K)
  BY FiveAreFinite
<1>2. IsFiniteSet(W)
  <2>1. IsFiniteSet({"read", "write", "release", "none", "any"})
    BY FiveAreFinite
  <2>2. W \subseteq {"read", "write", "release", "none", "any"}
    BY DEF Flags
  <2> HIDE DEF W
  <2>3. QED
    BY <2>1, <2>2, Less
<1> HIDE DEF K, W
<1>3. IsFiniteSet(K \X (Whose \X W))
  BY <1>1, <1>2, FS_Product
<1>4. \A a \in T : /\ a = Act(a.kind, org, a.login, a.what)
                   /\ a.kind \in K /\ a.login \in Whose /\ a.what \in W
  BY DEF Act, K, W
<1>5. f \in [T -> K \X (Whose \X W)]
  BY <1>4
<1>6. \A a, b \in T : f[a] = f[b] => a = b
  <2> SUFFICES ASSUME NEW a \in T, NEW b \in T, f[a] = f[b]
               PROVE  a = b
    OBVIOUS
  <2>1. a.kind = b.kind /\ a.login = b.login /\ a.what = b.what
    OBVIOUS
  <2>2. QED
    BY <1>4, <2>1
<1>7. f \in Injection(T, K \X (Whose \X W))
  BY <1>5, <1>6 DEF Injection, IsInjective
<1> HIDE DEF f
<1>8. QED
  BY <1>3, <1>7, FS_Injection

\* A plan over groups that have slugs takes finitely much from each scope, and
\* takes it from that scope.
LEMMA PlanIsScoped ==
  ASSUME Sized, NEW read, NEW dead, NEW a \in Compute(read, pass.groups, dead)
  PROVE  Scoped(a)
<1>1. CASE Destructive(a)
  BY <1>1, PlannedLosses DEF Sized, Scoped, Act
<1>2. CASE ~Destructive(a)
  BY <1>2 DEF Scoped, Destructive
<1>3. QED
  BY <1>1, <1>2

\* A plan takes finitely much from every scope.
LEMMA PlanTakesFinitely ==
  ASSUME Sized, NEW read, NEW dead, NEW org \in Slugs \union {"none"}
  PROVE  IsFiniteSet(ToTake(Compute(read, pass.groups, dead), org))
<1> DEFINE T == ToTake(Compute(read, pass.groups, dead), org)
           L == IF org = "none" THEN Ids
                ELSE ((team[org]["read"] \union team[org]["write"]) \union team[org]["release"])
                     \union writers[org]
<1>1. IsFiniteSet(L)
  <2>1. CASE org = "none"
    BY <2>1, MirrorAssumption
  <2>2. CASE org \in Slugs
    <3>1. /\ IsFiniteSet(team[org]["read"]) /\ IsFiniteSet(team[org]["write"])
          /\ IsFiniteSet(team[org]["release"]) /\ IsFiniteSet(writers[org])
      BY <2>2 DEF Sized, Flags
    <3>2. org # "none"
      BY <2>2, MirrorAssumption
    <3>3. QED
      BY <3>1, <3>2, FS_Union
  <2>3. QED
    BY <2>1, <2>2
<1>2. ASSUME NEW a \in T
      PROVE  \E kind \in {"leave", "unwrite", "demote", "deactivate", "deleteTokens"},
                l \in L, w \in Flags \union {"none"} : a = Act(kind, org, l, w)
  <2>1. a \in Compute(read, pass.groups, dead) /\ Destructive(a) /\ a.org = org
    BY DEF ToTake
  <2>2. CASE \E g \in pass.groups : \E f \in Flags : \E l \in team[g.slug][f] : a = Act("leave", g.slug, l, f)
    <3>1. PICK g \in pass.groups : \E f \in Flags : \E l \in team[g.slug][f] : a = Act("leave", g.slug, l, f)
      BY <2>2
    <3>2. PICK f \in Flags : \E l \in team[g.slug][f] : a = Act("leave", g.slug, l, f)
      BY <3>1
    <3>3. PICK l \in team[g.slug][f] : a = Act("leave", g.slug, l, f)
      BY <3>2
    <3>4. g.slug = org /\ org # "none"
      BY <2>1, <3>3, MirrorAssumption DEF Act, Sized
    <3>5. l \in L
      BY <3>3, <3>4 DEF Flags
    <3>6. QED
      BY <3>3, <3>4, <3>5
  <2>3. CASE \E g \in pass.groups : \E l \in writers[g.slug] : a = Act("unwrite", g.slug, l, "none")
    <3>1. PICK g \in pass.groups : \E l \in writers[g.slug] : a = Act("unwrite", g.slug, l, "none")
      BY <2>3
    <3>2. PICK l \in writers[g.slug] : a = Act("unwrite", g.slug, l, "none")
      BY <3>1
    <3>3. g.slug = org /\ org # "none"
      BY <2>1, <3>2, MirrorAssumption DEF Act, Sized
    <3>4. l \in L
      BY <3>2, <3>3
    <3>5. QED
      BY <3>2, <3>3, <3>4
  <2>4. CASE \E i \in Ids, kind \in {"demote", "deactivate", "deleteTokens"} : a = Act(kind, "none", i, "none")
    <3>1. PICK i \in Ids : \E kind \in {"demote", "deactivate", "deleteTokens"} : a = Act(kind, "none", i, "none")
      BY <2>4
    <3>2. org = "none"
      BY <2>1, <3>1 DEF Act
    <3>3. i \in L
      BY <3>2
    <3>4. QED
      BY <3>1, <3>2, <3>3
  <2>5. QED
    BY <2>1, <2>2, <2>3, <2>4, PlannedLosses
<1> HIDE DEF T, L
<1>3. QED
  BY <1>1, <1>2, FinitelyMany DEF T

-----------------------------------------------------------------------------
(* Every step keeps what is lost and what is still to be taken together.   *)

\* A step that takes nothing away preserves the invariant.
LEMMA NothingLost ==
  ASSUME CapInv, Sized', pass'.at = "apply" => At("apply"),
         pass'.before = pass.before, pass'.plan \subseteq pass.plan,
         \A s \in Slugs : writers[s] \subseteq writers'[s] /\ \A f \in Flags : team[s][f] \subseteq team'[s][f],
         admins \subseteq admins',
         \A i \in Ids : account[i] = "active" => account'[i] = "active"
  PROVE  CapInv'
<1> SUFFICES ASSUME pass'.at = "apply"
             PROVE  (\A a \in pass'.plan : Scoped(a)) /\ GroupsBounded' /\ RestBounded'
  BY DEF CapInv, At, Scoped
<1>1. (\A a \in pass.plan : Scoped(a)) /\ GroupsBounded /\ RestBounded
  BY DEF CapInv
<1>2. \A org : ToTake(pass'.plan, org) \subseteq ToTake(pass.plan, org)
  BY DEF ToTake
<1>3. GroupsBounded'
  <2> SUFFICES ASSUME NEW s \in Slugs
               PROVE  /\ IsFiniteSet(Lost(s)') /\ IsFiniteSet(ToTake(pass'.plan, s))
                      /\ Cardinality(Lost(s)') + Cardinality(ToTake(pass'.plan, s)) <= Cap
    BY DEF GroupsBounded
  <2>1. Lost(s)' \subseteq Lost(s)
    BY DEF Lost
  <2>2. /\ IsFiniteSet(Lost(s)) /\ IsFiniteSet(ToTake(pass.plan, s))
        /\ Cardinality(Lost(s)) + Cardinality(ToTake(pass.plan, s)) <= Cap
    BY <1>1 DEF GroupsBounded
  <2>3. QED
    BY <1>2, <2>1, <2>2, Less, MirrorAssumption
<1>4. RestBounded'
  <2>1. LostRights' \subseteq LostRights /\ LostAccounts' \subseteq LostAccounts
    BY DEF LostRights, LostAccounts
  <2>2. QED
    BY <1>1, <1>2, <2>1, Less, MirrorAssumption DEF RestBounded
<1>5. QED
  BY <1>1, <1>3, <1>4

\* A step that takes one membership or collaborator from a group the plan said
\* it takes, preserves the invariant.
LEMMA TakenFromGroup ==
  ASSUME CapInv, Types, NEW a \in Due, Done(a), Sized', a.org \in Slugs, Destructive(a),
         UNCHANGED <<account, admins>>,
         NEW x, Lost(a.org)' \subseteq Lost(a.org) \union {x},
         \A s \in Slugs \ {a.org} : Lost(s)' \subseteq Lost(s)
  PROVE  CapInv'
<1>1. /\ (\A b \in pass.plan : Scoped(b)) /\ GroupsBounded /\ RestBounded
      /\ a \in pass.plan /\ pass'.plan = pass.plan \ {a} /\ pass'.before = pass.before
  BY DueIsPlanned, DoneIs DEF CapInv
<1>2. \A org : ToTake(pass'.plan, org) \subseteq ToTake(pass.plan, org)
  BY <1>1 DEF ToTake
<1>3. a \in ToTake(pass.plan, a.org) /\ ToTake(pass'.plan, a.org) = ToTake(pass.plan, a.org) \ {a}
  BY <1>1 DEF ToTake
<1>4. GroupsBounded'
  <2> SUFFICES ASSUME NEW s \in Slugs
               PROVE  /\ IsFiniteSet(Lost(s)') /\ IsFiniteSet(ToTake(pass'.plan, s))
                      /\ Cardinality(Lost(s)') + Cardinality(ToTake(pass'.plan, s)) <= Cap
    BY DEF GroupsBounded
  <2>1. /\ IsFiniteSet(Lost(s)) /\ IsFiniteSet(ToTake(pass.plan, s))
        /\ Cardinality(Lost(s)) + Cardinality(ToTake(pass.plan, s)) <= Cap
    BY <1>1 DEF GroupsBounded
  <2>2. CASE s = a.org
    <3>1. /\ IsFiniteSet(Lost(s)') /\ Cardinality(Lost(s)') \in Nat /\ Cardinality(Lost(s)) \in Nat
          /\ Cardinality(Lost(s)') <= Cardinality(Lost(s)) + 1
      BY <2>1, <2>2, OneMore
    <3>2. /\ IsFiniteSet(ToTake(pass'.plan, s))
          /\ Cardinality(ToTake(pass'.plan, s)) \in Nat /\ Cardinality(ToTake(pass.plan, s)) \in Nat
          /\ Cardinality(ToTake(pass'.plan, s)) = Cardinality(ToTake(pass.plan, s)) - 1
      BY <1>3, <2>1, <2>2, OneLess
    <3>3. QED
      BY <2>1, <3>1, <3>2, MirrorAssumption
  <2>3. CASE s # a.org
    <3>1. Lost(s)' \subseteq Lost(s)
      BY <2>3
    <3>2. QED
      BY <1>2, <2>1, <3>1, Less, MirrorAssumption
  <2>4. QED
    BY <2>2, <2>3
<1>5. RestBounded'
  <2>1. LostRights' = LostRights /\ LostAccounts' = LostAccounts
    BY <1>1 DEF LostRights, LostAccounts
  <2>2. /\ IsFiniteSet(LostRights) /\ IsFiniteSet(LostAccounts) /\ IsFiniteSet(ToTake(pass.plan, "none"))
        /\ Cardinality(LostRights) + Cardinality(LostAccounts) + Cardinality(ToTake(pass.plan, "none")) <= Cap
    BY <1>1 DEF RestBounded
  <2>3. /\ Cardinality(LostRights) \in Nat /\ Cardinality(LostAccounts) \in Nat
        /\ IsFiniteSet(ToTake(pass'.plan, "none")) /\ Cardinality(ToTake(pass'.plan, "none")) \in Nat
        /\ Cardinality(ToTake(pass.plan, "none")) \in Nat
        /\ Cardinality(ToTake(pass'.plan, "none")) <= Cardinality(ToTake(pass.plan, "none"))
    BY <1>2, <2>2, Less, FS_CardinalityType
  <2>4. QED
    BY <2>1, <2>2, <2>3, MirrorAssumption DEF RestBounded
<1>6. QED
  BY <1>1, <1>4, <1>5 DEF CapInv, Scoped

\* The same for a site admin or an account.
LEMMA TakenFromRest ==
  ASSUME CapInv, Types, NEW a \in Due, Done(a), Sized', a.org = "none", Destructive(a),
         UNCHANGED <<team, writers>>,
         NEW x, \/ LostRights' \subseteq LostRights \union {x} /\ LostAccounts' \subseteq LostAccounts
                \/ LostRights' \subseteq LostRights /\ LostAccounts' \subseteq LostAccounts \union {x}
  PROVE  CapInv'
<1>1. /\ (\A b \in pass.plan : Scoped(b)) /\ GroupsBounded /\ RestBounded
      /\ a \in pass.plan /\ pass'.plan = pass.plan \ {a} /\ pass'.before = pass.before
  BY DueIsPlanned, DoneIs DEF CapInv
<1>2. \A org : ToTake(pass'.plan, org) \subseteq ToTake(pass.plan, org)
  BY <1>1 DEF ToTake
<1>3. a \in ToTake(pass.plan, "none") /\ ToTake(pass'.plan, "none") = ToTake(pass.plan, "none") \ {a}
  BY <1>1 DEF ToTake
<1>4. GroupsBounded'
  <2> SUFFICES ASSUME NEW s \in Slugs
               PROVE  /\ IsFiniteSet(Lost(s)') /\ IsFiniteSet(ToTake(pass'.plan, s))
                      /\ Cardinality(Lost(s)') + Cardinality(ToTake(pass'.plan, s)) <= Cap
    BY DEF GroupsBounded
  <2>1. Lost(s)' = Lost(s)
    BY <1>1 DEF Lost
  <2>2. /\ IsFiniteSet(Lost(s)) /\ IsFiniteSet(ToTake(pass.plan, s))
        /\ Cardinality(Lost(s)) + Cardinality(ToTake(pass.plan, s)) <= Cap
    BY <1>1 DEF GroupsBounded
  <2>3. QED
    BY <1>2, <2>1, <2>2, Less, FS_CardinalityType, MirrorAssumption
<1>5. RestBounded'
  <2>1. /\ IsFiniteSet(LostRights) /\ IsFiniteSet(LostAccounts) /\ IsFiniteSet(ToTake(pass.plan, "none"))
        /\ Cardinality(LostRights) + Cardinality(LostAccounts) + Cardinality(ToTake(pass.plan, "none")) <= Cap
    BY <1>1 DEF RestBounded
  <2>2. /\ IsFiniteSet(ToTake(pass'.plan, "none"))
        /\ Cardinality(ToTake(pass'.plan, "none")) \in Nat /\ Cardinality(ToTake(pass.plan, "none")) \in Nat
        /\ Cardinality(ToTake(pass'.plan, "none")) = Cardinality(ToTake(pass.plan, "none")) - 1
    BY <1>3, <2>1, OneLess
  <2>3. CASE LostRights' \subseteq LostRights \union {x} /\ LostAccounts' \subseteq LostAccounts
    <3>1. /\ IsFiniteSet(LostRights') /\ Cardinality(LostRights') \in Nat /\ Cardinality(LostRights) \in Nat
          /\ Cardinality(LostRights') <= Cardinality(LostRights) + 1
      BY <2>1, <2>3, OneMore
    <3>2. /\ IsFiniteSet(LostAccounts') /\ Cardinality(LostAccounts') \in Nat
          /\ Cardinality(LostAccounts) \in Nat /\ Cardinality(LostAccounts') <= Cardinality(LostAccounts)
      BY <2>1, <2>3, Less
    <3>3. QED
      BY <2>1, <2>2, <3>1, <3>2, MirrorAssumption DEF RestBounded
  <2>4. CASE LostRights' \subseteq LostRights /\ LostAccounts' \subseteq LostAccounts \union {x}
    <3>1. /\ IsFiniteSet(LostAccounts') /\ Cardinality(LostAccounts') \in Nat
          /\ Cardinality(LostAccounts) \in Nat /\ Cardinality(LostAccounts') <= Cardinality(LostAccounts) + 1
      BY <2>1, <2>4, OneMore
    <3>2. /\ IsFiniteSet(LostRights') /\ Cardinality(LostRights') \in Nat
          /\ Cardinality(LostRights) \in Nat /\ Cardinality(LostRights') <= Cardinality(LostRights)
      BY <2>1, <2>4, Less
    <3>3. QED
      BY <2>1, <2>2, <3>1, <3>2, MirrorAssumption DEF RestBounded
  <2>5. QED
    BY <2>3, <2>4
<1>6. QED
  BY <1>1, <1>4, <1>5 DEF CapInv, Scoped

-----------------------------------------------------------------------------
(* The steps, one by one.                                                  *)

\* Teams and collaborators stay as they are, or have one more or one less.
LEMMA TeamsStaySized ==
  ASSUME Sized, NEW org, NEW what, NEW l, NEW changed,
         changed \in {(team[org][what]) \union {l}, (team[org][what]) \ {l}},
         team' = [team EXCEPT ![org][what] = changed]
  PROVE  /\ team' = [s \in Slugs |-> [f \in Flags |-> team'[s][f]]]
         /\ \A s \in Slugs, f \in Flags : IsFiniteSet(team'[s][f])
<1>1. team = [s \in Slugs |-> [f \in Flags |-> team[s][f]]]
  BY DEF Sized
<1>2. \A s \in Slugs, f \in Flags : team'[s][f] = IF s = org /\ f = what THEN changed ELSE team[s][f]
  BY <1>1
<1>3. team' = [s \in Slugs |-> [f \in Flags |-> team'[s][f]]]
  BY <1>1
<1>4. ASSUME NEW s \in Slugs, NEW f \in Flags
      PROVE  IsFiniteSet(team'[s][f])
  <2>1. IsFiniteSet(team[s][f])
    BY DEF Sized
  <2>2. CASE s = org /\ f = what
    BY <1>2, <2>1, <2>2, FS_AddElement, FS_RemoveElement, Less
  <2>3. CASE ~(s = org /\ f = what)
    BY <1>2, <2>1, <2>3
  <2>4. QED
    BY <2>2, <2>3
<1>5. QED
  BY <1>3, <1>4

\* The same of a group's writers.
LEMMA WritersStaySized ==
  ASSUME Sized, NEW org, NEW l, NEW changed, changed \in {writers[org] \union {l}, writers[org] \ {l}},
         writers' = [writers EXCEPT ![org] = changed]
  PROVE  /\ writers' = [s \in Slugs |-> writers'[s]]
         /\ \A s \in Slugs : IsFiniteSet(writers'[s])
<1>1. writers = [s \in Slugs |-> writers[s]] /\ \A s \in Slugs : IsFiniteSet(writers[s])
  BY DEF Sized
<1>2. \A s \in Slugs : writers'[s] = IF s = org THEN changed ELSE writers[s]
  BY <1>1
<1>3. writers' = [s \in Slugs |-> writers'[s]]
  BY <1>1
<1>4. ASSUME NEW s \in Slugs
      PROVE  IsFiniteSet(writers'[s])
  <2>1. CASE s = org
    BY <1>1, <1>2, <2>1, FS_AddElement, FS_RemoveElement, Less
  <2>2. CASE s # org
    BY <1>1, <1>2, <2>2
  <2>3. QED
    BY <2>1, <2>2
<1>5. QED
  BY <1>3, <1>4

\* A pass begins, reads, ends or is cut off: nothing is planned or taken.
LEMMA ReadingKeepsCap ==
  ASSUME CapInv, StartPass \/ ReadProjects \/ Unreadable \/ EndPass \/ Restart
  PROVE  CapInv'
<1>1. UNCHANGED <<tags, account, admins, team, writers>>
  BY DEF StartPass, ReadProjects, Unreadable, EndPass, Restart, zeropsVars, accountVars, groupVars
<1>2. IsPass(pass') /\ pass'.at # "apply" /\ \A g \in pass'.groups : g.slug \in Slugs
  <2>1. CASE StartPass
    <3>1. pass' = [IdlePass EXCEPT !.at = "projects", !.member = member]
      BY <2>1 DEF StartPass
    <3>2. IdlePass.groups = {}
      BY DEF IdlePass
    <3>3. QED
      BY <3>1, <3>2, FieldsAre DEF IsPass
  <2>2. CASE ReadProjects
    <3>1. PICK listed, own : pass' = [pass EXCEPT !.at = "registry", !.listed = listed, !.override = own]
      BY <2>2 DEF ReadProjects
    <3>2. QED
      BY <3>1, FieldsAre DEF IsPass, CapInv, Sized
  <2>3. CASE pass' = IdlePass
    <3>1. IdlePass.groups = {}
      BY DEF IdlePass
    <3>2. QED
      BY <2>3, <3>1, FieldsAre
  <2>4. QED
    BY <2>1, <2>2, <2>3 DEF Unreadable, EndPass, Restart
<1>3. Sized'
  BY <1>1, <1>2 DEF CapInv, Sized
<1>4. QED
  BY <1>2, <1>3 DEF CapInv, At

\* The groups a pass works on are registered ones.
LEMMA ReadRegistryKeepsCap ==
  ASSUME CapInv, ReadRegistry
  PROVE  CapInv'
<1> DEFINE sighted == {p \in ProjectsOf(Registered) : seen'[p] = "ago"}
           groups == Excluded(Registered, sighted)
           dead == {p \in sighted : \E g \in Registered : p \in MatesOf(g)}
<1>1. pass' = [pass EXCEPT !.at = "gitea", !.groups = groups, !.listed = {}, !.dead = dead]
  BY DEF ReadRegistry
<1>2. \A g \in groups : g.slug \in Slugs
  <2>1. \A g \in Registered : "slug" \in DOMAIN g /\ g.slug \in Slugs
    BY RegistryAssumption DEF Registered, CapInv, Sized
  <2>2. QED
    BY <2>1 DEF Excluded
<1> HIDE DEF groups, dead
<1>3. IsPass(pass') /\ pass'.at = "gitea" /\ pass'.groups = groups
  BY <1>1, FieldsAre DEF IsPass, CapInv, Sized
<1>4. UNCHANGED <<tags, account, team, writers>>
  BY DEF ReadRegistry, zeropsVars, accountVars, groupVars
<1>5. QED
  BY <1>2, <1>3, <1>4 DEF CapInv, Sized, At

\* A plan is within the cap in every scope when nothing is lost yet.
LEMMA PlanKeepsCap ==
  ASSUME CapInv, Plan
  PROVE  CapInv'
<1> DEFINE read == [member |-> pass.member, override |-> pass.override]
           plan == Compute(read, pass.groups, pass.dead)
<1>1. UNCHANGED <<tags, account, admins, team, writers>>
  BY DEF Plan, zeropsVars, accountVars, groupVars
<1>2. \/ pass' = IdlePass
      \/ /\ pass' = [IdlePass EXCEPT !.at = "apply", !.plan = WithinCap(plan), !.before = Snapshot]
         /\ ~(Takes(plan, "none") > Cap)
  BY DEF Plan
<1>3. /\ \A a \in plan : Scoped(a)
      /\ \A org \in Slugs \union {"none"} : IsFiniteSet(ToTake(plan, org))
  BY PlanIsScoped, PlanTakesFinitely DEF CapInv
<1>4. \A org : Takes(plan, org) = Cardinality(ToTake(plan, org))
  BY DEF Takes, ToTake
<1> HIDE DEF plan
<1>5. IdlePass.groups = {} /\ IdlePass.before = NoSnapshot
  BY DEF IdlePass
<1>6. IsPass(pass') /\ pass'.groups = {}
  BY <1>2, <1>5, FieldsAre DEF IsPass
<1>7. Sized'
  BY <1>1, <1>6 DEF CapInv, Sized
<1>8. CASE pass' = IdlePass
  BY <1>7, <1>8, FieldsAre DEF CapInv, At
<1>9. CASE /\ pass' = [IdlePass EXCEPT !.at = "apply", !.plan = WithinCap(plan), !.before = Snapshot]
           /\ ~(Takes(plan, "none") > Cap)
  <2>1. pass'.plan = WithinCap(plan) /\ pass'.before = Snapshot /\ pass'.at = "apply"
    BY <1>9, FieldsAre DEF Fields
  <2>2. \A s \in Slugs : Lost(s)' = {}
    BY <1>1, <2>1 DEF Lost, Snapshot
  <2>3. LostRights' = {} /\ LostAccounts' = {}
    BY <1>1, <2>1 DEF LostRights, LostAccounts, Snapshot
  <2>4. ASSUME NEW org \in Slugs \union {"none"}
        PROVE  /\ IsFiniteSet(ToTake(pass'.plan, org))
               /\ Cardinality(ToTake(pass'.plan, org)) \in Nat /\ Cardinality(ToTake(pass'.plan, org)) <= Cap
    <3>1. Cardinality(ToTake(plan, org)) \in Nat /\ IsFiniteSet(ToTake(plan, org))
      BY <1>3, FS_CardinalityType
    <3>2. CASE Takes(plan, org) <= Cap
      <4>1. ToTake(pass'.plan, org) \subseteq ToTake(plan, org)
        BY <2>1 DEF ToTake, WithinCap
      <4>2. QED
        BY <1>4, <3>1, <3>2, <4>1, Less, MirrorAssumption
    <3>3. CASE ~(Takes(plan, org) <= Cap)
      <4>1. org # "none"
        BY <1>4, <1>9, <3>1, <3>3, MirrorAssumption
      <4>2. ToTake(pass'.plan, org) = {}
        BY <2>1, <3>3, <4>1 DEF ToTake, WithinCap
      <4>3. QED
        BY <4>2, FS_EmptySet, MirrorAssumption
    <3>4. QED
      BY <3>2, <3>3
  <2>5. GroupsBounded'
    <3>1. ASSUME NEW s \in Slugs
          PROVE  /\ IsFiniteSet(Lost(s)') /\ IsFiniteSet(ToTake(pass'.plan, s))
                 /\ Cardinality(Lost(s)') + Cardinality(ToTake(pass'.plan, s)) <= Cap
      <4>1. IsFiniteSet(Lost(s)') /\ Cardinality(Lost(s)') = 0
        BY <2>2, FS_EmptySet
      <4>2. QED
        BY <2>4, <4>1, MirrorAssumption
    <3>2. QED
      BY <3>1 DEF GroupsBounded
  <2>6. RestBounded'
    BY <2>3, <2>4, FS_EmptySet, MirrorAssumption DEF RestBounded
  <2>7. \A a \in pass'.plan : Scoped(a)
    BY <1>3, <2>1 DEF WithinCap
  <2>8. QED
    BY <1>7, <2>5, <2>6, <2>7 DEF CapInv, Scoped
<1>10. QED
  BY <1>2, <1>8, <1>9

\* Performing an action leaves the pass what it is but for its plan.
LEMMA DoneKeepsSized ==
  ASSUME CapInv, Types, NEW a \in Due, Done(a), UNCHANGED tags,
         account' = [l \in Logins |-> account'[l]],
         team' = [s \in Slugs |-> [f \in Flags |-> team'[s][f]]],
         \A s \in Slugs, f \in Flags : IsFiniteSet(team'[s][f]),
         writers' = [s \in Slugs |-> writers'[s]],
         \A s \in Slugs : IsFiniteSet(writers'[s])
  PROVE  Sized'
BY DoneIs DEF CapInv, Sized

\* An action that changes no team and no collaborator takes nothing away, or
\* is one that switches off or demotes.
LEMMA RestKeepsCap ==
  ASSUME CapInv, RetireInv, NEW a \in Due, Done(a), UNCHANGED <<tags, team, writers>>,
         \/ UNCHANGED admins /\ \/ UNCHANGED account
                                \/ account' = [account EXCEPT ![a.login] = "active"]
                                \/ a.kind = "retire" /\ account' = [account EXCEPT ![a.login] = "prohibited"]
                                \/ a.kind = "deactivate" /\ account' = [account EXCEPT ![a.login] = "off"]
         \/ UNCHANGED account /\ \/ admins' = admins \union {a.login}
                                 \/ a.kind = "demote" /\ admins' = admins \ {a.login}
  PROVE  CapInv'
<1>1. Types /\ Sized
  BY DEF RetireInv, CapInv
<1>2. account = [l \in Logins |-> account[l]] /\ account' = [l \in Logins |-> account'[l]]
  BY <1>1 DEF Types
<1>3. Sized'
  <2>1. UNCHANGED <<team, writers, tags>>
    OBVIOUS
  <2>2. /\ team = [s \in Slugs |-> [f \in Flags |-> team[s][f]]]
        /\ writers = [s \in Slugs |-> writers[s]]
        /\ \A s \in Slugs : IsFiniteSet(writers[s]) /\ \A f \in Flags : IsFiniteSet(team[s][f])
    BY <1>1 DEF Sized
  <2>3. QED
    BY <1>1, <1>2, <2>1, <2>2, DoneKeepsSized
<1>4. /\ pass'.at = "apply" => At("apply")
      /\ pass'.before = pass.before /\ pass'.plan \subseteq pass.plan
  BY <1>1, DoneIs, DueIsPlanned
<1>5. CASE a.kind = "deactivate" /\ account' = [account EXCEPT ![a.login] = "off"] /\ UNCHANGED admins
  <2>1. a.org = "none" /\ Destructive(a)
    BY <1>5, DueIsPlanned DEF CapInv, Scoped, Destructive
  <2>2. LostRights' \subseteq LostRights /\ LostAccounts' \subseteq LostAccounts \union {a.login}
    BY <1>2, <1>4, <1>5 DEF LostRights, LostAccounts, Logins
  <2>3. QED
    BY <1>1, <1>3, <2>1, <2>2, TakenFromRest
<1>6. CASE a.kind = "demote" /\ admins' = admins \ {a.login} /\ UNCHANGED account
  <2>1. a.org = "none" /\ Destructive(a)
    BY <1>6, DueIsPlanned DEF CapInv, Scoped, Destructive
  <2>2. LostRights' \subseteq LostRights \union {a.login} /\ LostAccounts' \subseteq LostAccounts
    BY <1>4, <1>6 DEF LostRights, LostAccounts
  <2>3. QED
    BY <1>1, <1>3, <2>1, <2>2, TakenFromRest
<1>7. CASE /\ admins \subseteq admins'
           /\ \A i \in Ids : account[i] = "active" => account'[i] = "active"
  BY <1>3, <1>4, <1>7, NothingLost
<1>8. CASE a.kind = "retire" /\ account' = [account EXCEPT ![a.login] = "prohibited"] /\ UNCHANGED admins
  <2>1. PICK p \in gone : a.login = Bot(p)
    BY <1>8, DueIsPlanned DEF RetireInv, RetiresDead
  <2>2. a.login \notin Ids
    BY <1>1, <2>1, MirrorAssumption DEF Types, Bots
  <2>3. \A i \in Ids : account[i] = "active" => account'[i] = "active"
    BY <1>2, <1>8, <2>2 DEF Logins
  <2>4. QED
    BY <1>7, <1>8, <2>3
<1>9. CASE account' = [account EXCEPT ![a.login] = "active"] /\ UNCHANGED admins
  BY <1>2, <1>7, <1>9 DEF Logins
<1>10. CASE UNCHANGED account /\ (admins' = admins \/ admins' = admins \union {a.login})
  BY <1>7, <1>10
<1>11. QED
  BY <1>5, <1>6, <1>8, <1>9, <1>10

\* A membership that goes is one the plan takes from its group.
LEMMA SetMembershipKeepsCap ==
  ASSUME CapInv, RetireInv, NEW a \in Due, SetMembership(a)
  PROVE  CapInv'
<1> DEFINE changed == IF a.kind = "join" THEN (team[a.org][a.what]) \union {a.login}
                      ELSE (team[a.org][a.what]) \ {a.login}
<1>1. /\ Done(a) /\ a.kind \in {"join", "leave"}
      /\ UNCHANGED <<tags, account, admins, writers>>
      /\ team' = [team EXCEPT ![a.org][a.what] = changed]
  BY DEF SetMembership, Does, zeropsVars, accountVars
<1>2. /\ Types /\ Sized
      /\ team = [s \in Slugs |-> [f \in Flags |-> team[s][f]]]
      /\ writers = [s \in Slugs |-> writers[s]] /\ account = [l \in Logins |-> account[l]]
      /\ \A s \in Slugs : IsFiniteSet(writers[s])
  BY DEF RetireInv, CapInv, Sized
<1>3. Sized'
  <2>1. changed \in {(team[a.org][a.what]) \union {a.login}, (team[a.org][a.what]) \ {a.login}}
    OBVIOUS
  <2> HIDE DEF changed
  <2>2. /\ team' = [s \in Slugs |-> [f \in Flags |-> team'[s][f]]]
        /\ \A s \in Slugs, f \in Flags : IsFiniteSet(team'[s][f])
    <3>1. Sized
      BY <1>2
    <3>2. team' = [team EXCEPT ![a.org][a.what] = changed]
      BY <1>1
    <3>3. QED
      BY <2>1, <3>1, <3>2, TeamsStaySized
  <2>3. QED
    BY <1>1, <1>2, <2>2, DoneKeepsSized
<1>4. /\ pass'.at = "apply" => At("apply")
      /\ pass'.before = pass.before /\ pass'.plan \subseteq pass.plan
  BY <1>1, <1>2, DoneIs, DueIsPlanned
<1>5. \A s \in Slugs, f \in Flags :
        team'[s][f] = IF s = a.org /\ f = a.what THEN changed ELSE team[s][f]
  BY <1>1, <1>2
<1>6. CASE a.kind = "join"
  <2>1. \A s \in Slugs : writers[s] \subseteq writers'[s] /\ \A f \in Flags : team[s][f] \subseteq team'[s][f]
    BY <1>1, <1>5, <1>6
  <2>2. QED
    BY <1>1, <1>3, <1>4, <2>1, NothingLost
<1>7. CASE a.kind = "leave"
  <2>1. a.org \in Slugs /\ Destructive(a)
    BY <1>7, DueIsPlanned DEF CapInv, Scoped, Destructive
  <2>2. Lost(a.org)' \subseteq Lost(a.org) \union {<<a.what, a.login>>}
    <3> SUFFICES ASSUME NEW x \in Lost(a.org)'
                 PROVE  x \in Lost(a.org) \/ x = <<a.what, a.login>>
      OBVIOUS
    <3>1. CASE \E l \in (pass.before.writers[a.org] \ writers[a.org])' : x = <<"writer", l>>
      BY <1>1, <1>4, <3>1 DEF Lost
    <3>2. CASE \E f \in Flags : \E l \in (pass.before.team[a.org][f] \ team[a.org][f])' : x = <<f, l>>
      <4>1. PICK f \in Flags : \E l \in (pass.before.team[a.org][f] \ team[a.org][f])' : x = <<f, l>>
        BY <3>2
      <4>2. PICK l \in (pass.before.team[a.org][f] \ team[a.org][f])' : x = <<f, l>>
        BY <4>1
      <4>3. CASE f = a.what
        BY <1>4, <1>5, <1>7, <2>1, <4>2, <4>3 DEF Lost
      <4>4. CASE f # a.what
        BY <1>4, <1>5, <2>1, <4>2, <4>4 DEF Lost
      <4>5. QED
        BY <4>3, <4>4
    <3>3. QED
      BY <3>1, <3>2 DEF Lost
  <2>3. \A s \in Slugs \ {a.org} : Lost(s)' \subseteq Lost(s)
    BY <1>1, <1>4, <1>5 DEF Lost
  <2>4. QED
    BY <1>1, <1>2, <1>3, <2>1, <2>2, <2>3, TakenFromGroup
<1>8. QED
  BY <1>1, <1>6, <1>7

\* So is a collaborator.
LEMMA SetWriterKeepsCap ==
  ASSUME CapInv, RetireInv, NEW a \in Due, SetWriter(a)
  PROVE  CapInv'
<1> DEFINE changed == IF a.kind = "write" THEN writers[a.org] \union {a.login}
                      ELSE writers[a.org] \ {a.login}
<1>1. /\ Done(a) /\ a.kind \in {"write", "unwrite"}
      /\ UNCHANGED <<tags, account, admins, team>>
      /\ writers' = [writers EXCEPT ![a.org] = changed]
  BY DEF SetWriter, Does, zeropsVars, accountVars
<1>2. /\ Types /\ Sized
      /\ team = [s \in Slugs |-> [f \in Flags |-> team[s][f]]]
      /\ writers = [s \in Slugs |-> writers[s]] /\ account = [l \in Logins |-> account[l]]
      /\ \A s \in Slugs, f \in Flags : IsFiniteSet(team[s][f])
  BY DEF RetireInv, CapInv, Sized
<1>3. Sized'
  <2>1. changed \in {writers[a.org] \union {a.login}, writers[a.org] \ {a.login}}
    OBVIOUS
  <2> HIDE DEF changed
  <2>2. /\ writers' = [s \in Slugs |-> writers'[s]]
        /\ \A s \in Slugs : IsFiniteSet(writers'[s])
    BY <1>1, <1>2, <2>1, WritersStaySized
  <2>3. QED
    BY <1>1, <1>2, <2>2, DoneKeepsSized
<1>4. /\ pass'.at = "apply" => At("apply")
      /\ pass'.before = pass.before /\ pass'.plan \subseteq pass.plan
  BY <1>1, <1>2, DoneIs, DueIsPlanned
<1>5. \A s \in Slugs : writers'[s] = IF s = a.org THEN changed ELSE writers[s]
  BY <1>1, <1>2
<1>6. CASE a.kind = "write"
  <2>1. \A s \in Slugs : writers[s] \subseteq writers'[s] /\ \A f \in Flags : team[s][f] \subseteq team'[s][f]
    BY <1>1, <1>5, <1>6
  <2>2. QED
    BY <1>1, <1>3, <1>4, <2>1, NothingLost
<1>7. CASE a.kind = "unwrite"
  <2>1. a.org \in Slugs /\ Destructive(a)
    BY <1>7, DueIsPlanned DEF CapInv, Scoped, Destructive
  <2>2. Lost(a.org)' \subseteq Lost(a.org) \union {<<"writer", a.login>>}
    BY <1>1, <1>4, <1>5, <1>7, <2>1 DEF Lost
  <2>3. \A s \in Slugs \ {a.org} : Lost(s)' \subseteq Lost(s)
    BY <1>1, <1>4, <1>5 DEF Lost
  <2>4. QED
    BY <1>1, <1>2, <1>3, <2>1, <2>2, <2>3, TakenFromGroup
<1>8. QED
  BY <1>1, <1>6, <1>7

\* A delivery gives; it takes nothing.
LEMMA DeliverKeepsCap ==
  ASSUME CapInv, RetireInv, NEW a \in Due, Deliver(a)
  PROVE  CapInv'
<1> DEFINE changed == (team[a.org]["read"]) \union {a.login}
<1>1. /\ Done(a) /\ UNCHANGED <<tags, admins, writers>>
      /\ account' = [account EXCEPT ![a.login] = "active"]
      /\ team' = [team EXCEPT ![a.org]["read"] = changed]
  BY DEF Deliver, Does, zeropsVars
<1>2. /\ Types /\ Sized
      /\ team = [s \in Slugs |-> [f \in Flags |-> team[s][f]]]
      /\ writers = [s \in Slugs |-> writers[s]] /\ account = [l \in Logins |-> account[l]]
      /\ \A s \in Slugs : IsFiniteSet(writers[s])
  BY DEF RetireInv, CapInv, Sized
<1>3. /\ account' = [l \in Logins |-> account'[l]]
      /\ \A i \in Ids : account[i] = "active" => account'[i] = "active"
  BY <1>1, <1>2 DEF Logins
<1>4. \A s \in Slugs, f \in Flags : team[s][f] \subseteq team'[s][f]
  BY <1>1, <1>2
<1>5. changed \in {(team[a.org]["read"]) \union {a.login}, (team[a.org]["read"]) \ {a.login}}
  OBVIOUS
<1> HIDE DEF changed
<1>6. /\ team' = [s \in Slugs |-> [f \in Flags |-> team'[s][f]]]
      /\ \A s \in Slugs, f \in Flags : IsFiniteSet(team'[s][f])
  <2>1. Sized
    BY <1>2
  <2>2. team' = [team EXCEPT ![a.org]["read"] = changed]
    BY <1>1
  <2>3. QED
    BY <1>5, <2>1, <2>2, TeamsStaySized
<1>7. Sized'
  BY <1>1, <1>2, <1>3, <1>6, DoneKeepsSized
<1>8. /\ pass'.at = "apply" => At("apply")
      /\ pass'.before = pass.before /\ pass'.plan \subseteq pass.plan
  BY <1>1, <1>2, DoneIs, DueIsPlanned
<1>9. QED
  BY <1>1, <1>3, <1>4, <1>7, <1>8, NothingLost

\* Every other action.
LEMMA PerformsKeepsCap ==
  ASSUME CapInv, RetireInv, NEW a \in Due,
         \/ Make(a) \/ Merge(a) \/ CreateBot(a) \/ ShapeBot(a) \/ SetSiteAdmin(a) \/ SetMembership(a)
         \/ SetWriter(a) \/ Deactivate(a) \/ DeleteTokens(a) \/ Deliver(a) \/ Retire(a) \/ Refused(a)
         \/ CallFails(a)
  PROVE  CapInv'
<1>1. CASE Make(a) \/ Merge(a) \/ ShapeBot(a) \/ DeleteTokens(a) \/ CallFails(a)
  <2>1. Done(a) /\ UNCHANGED <<tags, team, writers, admins, account>>
    BY <1>1 DEF Make, Merge, ShapeBot, DeleteTokens, CallFails, Does, zeropsVars, accountVars, groupVars
  <2>2. QED
    BY <2>1, RestKeepsCap
<1>2. CASE CreateBot(a) \/ Refused(a)
  <2>1. /\ Done(a) /\ UNCHANGED <<tags, team, writers, admins>>
        /\ account' = account \/ account' = [account EXCEPT ![a.login] = "active"]
    BY <1>2 DEF CreateBot, Refused, Does, zeropsVars, groupVars
  <2>2. QED
    BY <2>1, RestKeepsCap
<1>3. CASE SetSiteAdmin(a)
  <2>1. /\ Done(a) /\ UNCHANGED <<tags, team, writers, account>>
        /\ \/ admins' = admins \union {a.login}
           \/ a.kind = "demote" /\ admins' = admins \ {a.login}
    BY <1>3 DEF SetSiteAdmin, Does, zeropsVars, groupVars
  <2>2. QED
    BY <2>1, RestKeepsCap
<1>4. CASE Deactivate(a) \/ Retire(a)
  <2>1. /\ Done(a) /\ UNCHANGED <<tags, team, writers, admins>>
        /\ \/ a.kind = "retire" /\ account' = [account EXCEPT ![a.login] = "prohibited"]
           \/ a.kind = "deactivate" /\ account' = [account EXCEPT ![a.login] = "off"]
    BY <1>4 DEF Deactivate, Retire, Does, zeropsVars, groupVars
  <2>2. QED
    BY <2>1, RestKeepsCap
<1>5. QED
  BY <1>1, <1>2, <1>3, <1>4, SetMembershipKeepsCap, SetWriterKeepsCap, DeliverKeepsCap

\* What happens beside a pass takes nothing away.
LEMMA WorldKeepsCap ==
  ASSUME CapInv, World
  PROVE  CapInv'
<1>1. ASSUME UNCHANGED <<team, writers, admins, pass>>, tags' \in TagLists,
             account' = [l \in Logins |-> account'[l]],
             \A i \in Ids : account[i] = "active" => account'[i] = "active"
      PROVE  CapInv'
  <2>1. Sized'
    BY <1>1 DEF CapInv, Sized
  <2>2. QED
    BY <1>1, <2>1, NothingLost DEF At
<1>2. account = [l \in Logins |-> account[l]] /\ tags \in TagLists
  BY DEF CapInv, Sized
<1>3. ASSUME UNCHANGED <<team, writers, admins, pass, account, tags>>
      PROVE  CapInv'
  BY <1>1, <1>2, <1>3
<1>4. ASSUME NEW i \in Ids, NEW row \in Rows \union {NoRow}, ChangeRow(i, row)
      PROVE  CapInv'
  BY <1>3, <1>4 DEF ChangeRow, OnlyZerops, accountVars, groupVars
<1>5. ASSUME NEW i \in Ids, NEW o \in OverrideMaps, ChangeOverride(i, o)
      PROVE  CapInv'
  BY <1>3, <1>5 DEF ChangeOverride, OnlyZerops, accountVars, groupVars
<1>6. ASSUME NEW list \in TagLists, Retag(list)
      PROVE  CapInv'
  BY <1>1, <1>2, <1>6 DEF Retag, OnlyZerops, accountVars, groupVars
<1>7. ASSUME NEW p \in Projects, DeleteProject(p) \/ Misread(p) \/ ReadAgain(p) \/ SightingAges(p)
      PROVE  CapInv'
  BY <1>3, <1>7 DEF DeleteProject, Misread, ReadAgain, SightingAges, OnlyZerops,
                    zeropsVars, accountVars, groupVars
<1>8. ASSUME NEW i \in Ids, SignIn(i)
      PROVE  CapInv'
  <2>1. UNCHANGED <<team, writers, admins, pass, tags>> /\ account' = [account EXCEPT ![i] = "active"]
    BY <1>8 DEF SignIn, zeropsVars, groupVars
  <2>2. /\ account' = [l \in Logins |-> account'[l]]
        /\ \A j \in Ids : account[j] = "active" => account'[j] = "active"
    BY <1>2, <2>1 DEF Logins
  <2>3. QED
    BY <1>1, <1>2, <2>1, <2>2
<1>9. ASSUME NEW i \in Ids, MintAppToken(i) \/ AppTokenAges(i)
      PROVE  CapInv'
  BY <1>3, <1>9 DEF MintAppToken, AppTokenAges, zeropsVars, groupVars
<1>10. ASSUME NEW s \in Slugs, NEW part \in {"env/*", "v*"}, EditRule(s, part)
       PROVE  CapInv'
  BY <1>3, <1>10 DEF EditRule, zeropsVars, accountVars
<1>11. ASSUME NEW s \in Slugs, NEW b \in Bots, NEW kind \in RequestKinds, Propose(s, b, kind)
       PROVE  CapInv'
  BY <1>3, <1>11 DEF Propose, zeropsVars, accountVars
<1>12. ASSUME NEW r \in requests, Rework(r)
       PROVE  CapInv'
  BY <1>3, <1>12 DEF Rework, zeropsVars, accountVars
<1>13. ASSUME NEW s \in Slugs, NEW l \in Logins, NEW f \in Flags, EditTeam(s, f, l)
       PROVE  CapInv'
  <2> DEFINE changed == (team[s][f]) \union {l}
  <2>1. UNCHANGED <<tags, account, admins, writers, pass>> /\ team' = [team EXCEPT ![s][f] = changed]
    BY <1>13 DEF EditTeam, zeropsVars, accountVars
  <2>2. \A t \in Slugs, g \in Flags : team[t][g] \subseteq team'[t][g]
    BY <2>1 DEF CapInv, Sized
  <2>3. changed \in {(team[s][f]) \union {l}, (team[s][f]) \ {l}}
    OBVIOUS
  <2> HIDE DEF changed
  <2>4. Sized'
    <3>1. Sized
      BY DEF CapInv
    <3>2. /\ team' = [t \in Slugs |-> [g \in Flags |-> team'[t][g]]]
          /\ \A t \in Slugs, g \in Flags : IsFiniteSet(team'[t][g])
      BY <2>1, <2>3, <3>1, TeamsStaySized
    <3>3. QED
      BY <2>1, <3>1, <3>2 DEF Sized
  <2>5. QED
    BY <2>1, <2>2, <2>4, NothingLost DEF At
<1>14. ASSUME NEW s \in Slugs, NEW l \in Logins, EditWriters(s, l)
       PROVE  CapInv'
  <2> DEFINE changed == writers[s] \union {l}
  <2>1. UNCHANGED <<tags, account, admins, team, pass>> /\ writers' = [writers EXCEPT ![s] = changed]
    BY <1>14 DEF EditWriters, zeropsVars, accountVars
  <2>2. \A t \in Slugs : writers[t] \subseteq writers'[t]
    BY <2>1 DEF CapInv, Sized
  <2>3. changed \in {writers[s] \union {l}, writers[s] \ {l}}
    OBVIOUS
  <2> HIDE DEF changed
  <2>4. Sized'
    <3>1. Sized
      BY DEF CapInv
    <3>2. writers' = [t \in Slugs |-> writers'[t]] /\ \A t \in Slugs : IsFiniteSet(writers'[t])
      BY <2>1, <2>3, <3>1, WritersStaySized
    <3>3. QED
      BY <2>1, <3>1, <3>2 DEF Sized
  <2>5. QED
    BY <2>1, <2>2, <2>4, NothingLost DEF At
<1>15. QED
  BY <1>4, <1>5, <1>6, <1>7, <1>8, <1>9, <1>10, <1>11, <1>12, <1>13, <1>14 DEF World

\* What is lost and what is still planned is within the cap in every state.
THEOREM CapInvariant == Spec => []CapInv
<1>1. Init => CapInv
  <2> SUFFICES ASSUME Init
               PROVE  CapInv
    OBVIOUS
  <2>1. IdlePass.groups = {}
    BY DEF IdlePass
  <2>2. pass = IdlePass /\ tags \in TagLists /\ account = [l \in Logins |-> account[l]]
    BY DEF Init
  <2>3. /\ team = [s \in Slugs |-> [f \in Flags |-> team[s][f]]] /\ writers = [s \in Slugs |-> writers[s]]
        /\ \A s \in Slugs : IsFiniteSet(writers[s]) /\ \A f \in Flags : IsFiniteSet(team[s][f])
    BY FS_EmptySet DEF Init
  <2>4. QED
    BY <2>1, <2>2, <2>3, FieldsAre DEF CapInv, Sized, At
<1>2. RetireInv /\ CapInv /\ [Next]_vars => CapInv'
  <2> SUFFICES ASSUME RetireInv, CapInv, [Next]_vars
               PROVE  CapInv'
    OBVIOUS
  <2>1. CASE UNCHANGED vars
    <3>1. UNCHANGED <<tags, account, admins, team, writers, pass>>
      BY <2>1 DEF vars, zeropsVars, accountVars, groupVars
    <3>2. Sized'
      BY <3>1 DEF CapInv, Sized
    <3>3. QED
      BY <3>1, <3>2, NothingLost DEF At
  <2>2. CASE Performs \/ \E a \in Due : CallFails(a)
    BY <2>2, PerformsKeepsCap DEF Performs
  <2>3. CASE ReadsAndPlans \/ EndPass \/ Unreadable \/ Restart \/ World
    BY <2>3, ReadingKeepsCap, ReadRegistryKeepsCap, PlanKeepsCap, WorldKeepsCap DEF ReadsAndPlans
  <2>4. QED
    BY <2>1, <2>2, <2>3 DEF Next, PassStep
<1>3. QED
  BY <1>1, <1>2, RetireInvariant, PTL DEF Spec

\* No pass takes more from a group, or from the organisation, than the cap,
\* whatever fails and whoever else changes Gitea meanwhile (ErrCapped).
THEOREM NoScopeLosesMoreThanCap == Spec => []LossesWithinCap
<1>1. CapInv => LossesWithinCap
  <2> SUFFICES ASSUME CapInv, At("apply")
               PROVE  LossesWithinCap
    BY DEF LossesWithinCap
  <2>1. GroupsBounded /\ RestBounded
    BY DEF CapInv
  <2>2. \A s \in Slugs : Cardinality(Lost(s)) <= Cap
    BY <2>1, FS_CardinalityType, MirrorAssumption DEF GroupsBounded
  <2>3. Cardinality(LostRights) + Cardinality(LostAccounts) <= Cap
    BY <2>1, FS_CardinalityType, MirrorAssumption DEF RestBounded
  <2>4. QED
    BY <2>2, <2>3 DEF LossesWithinCap, Lost, LostRights, LostAccounts
<1>2. QED
  BY <1>1, CapInvariant, PTL

-----------------------------------------------------------------------------
(* Types.                                                                  *)

\* What an action of each kind names.
Typed(a) ==
  /\ a = Act(a.kind, a.org, a.login, a.what)
  /\ \/ /\ a.kind \in {"org", "team", "repo", "rule", "hook"}
        /\ a.org \in Slugs /\ a.login = "none" /\ a.what \in Parts
     \/ a.kind = "merge" /\ a.org \in Slugs /\ a.login \in Bots /\ a.what = "recipe"
     \/ /\ a.kind \in {"createBot", "shapeBot", "deliver", "write", "unwrite"}
        /\ a.org \in Slugs /\ a.login \in Bots /\ a.what = "none"
     \/ a.kind \in {"join", "leave"} /\ a.org \in Slugs /\ a.login \in Logins /\ a.what \in Flags
     \/ /\ a.kind \in {"promote", "demote", "deactivate", "deleteTokens", "expire"}
        /\ a.org = "none" /\ a.login \in Ids /\ a.what = "none"
     \/ a.kind = "retire" /\ a.org = "none" /\ a.login \in Bots /\ a.what = "none"

GroupTyped(g) == g.slug \in Slugs /\ \A p \in g.projects : p.id \in Projects

MirrorTypes ==
  /\ TypeOK /\ IsPass(pass)
  /\ \A g \in pass.groups : GroupTyped(g)
  /\ pass.dead \subseteq Projects
  /\ \A a \in pass.plan : Typed(a)

\* The kinds of actions.
LEMMA KindsAre ==
  Range(Order) = {"org", "team", "repo", "rule", "hook", "merge", "createBot", "shapeBot",
                  "promote", "demote", "join", "leave", "write", "unwrite", "deactivate",
                  "deleteTokens", "deliver", "expire", "retire"}
  BY DEF Range, Order

\* What is typed by its kind is an action.
LEMMA TypedIsAction ==
  ASSUME NEW a, Typed(a)
  PROVE  a \in [kind : Range(Order), org : Slugs \union {"none"},
                login : Logins \union {"none"}, what : Parts \union {"none", "recipe"}]
  BY KindsAre DEF Typed, Act, Logins, Parts

\* A typed group's Mates are projects, and their bots are bots.
LEMMA BotsTyped ==
  ASSUME NEW g, GroupTyped(g)
  PROVE  BotsOf(g) \subseteq Bots /\ MatesOf(g) \subseteq Projects
  BY DEF GroupTyped, BotsOf, MatesOf, OfKind, Bots

\* The registry's groups are typed, and stay so without their deleted projects.
LEMMA RegistryTyped ==
  ASSUME tags \in TagLists, NEW dead, NEW g \in Excluded(Registered, dead)
  PROVE  GroupTyped(g)
<1>1. PICK h \in Registered : g = [h EXCEPT !.projects = {p \in @ : p.id \notin dead}]
  BY DEF Excluded
<1>2. {"slug", "projects"} \subseteq DOMAIN h /\ GroupTyped(h)
  BY RegistryAssumption DEF Registered, GroupTyped
<1>3. g.slug = h.slug /\ g.projects = {p \in h.projects : p.id \notin dead}
  BY <1>1, <1>2
<1>. QED
  BY <1>2, <1>3 DEF GroupTyped

\* What a plan is made of.
LEMMA PlanTyped ==
  ASSUME TypeOK, NEW read, NEW groups, \A g \in groups : GroupTyped(g),
         NEW dead, dead \subseteq Projects, NEW a \in Compute(read, groups, dead)
  PROVE  Typed(a)
<1> DEFINE retired == {Bot(p) : p \in dead}
<1>1. CASE a \in Structure(groups)
  <2>1. PICK g \in groups, part \in Parts : a = Act(PartKind(part), g.slug, "none", part)
    BY <1>1 DEF Structure
  <2>2. PartKind(part) \in {"org", "team", "repo", "rule", "hook"} /\ g.slug \in Slugs
    BY DEF PartKind, Parts, GroupTyped
  <2>. QED
    BY <2>1, <2>2 DEF Typed, Act
<1>2. CASE a \in RecipeMerges(groups)
  <2>1. PICK r \in requests : a = Act("merge", r.org, r.by, "recipe")
    BY <1>2 DEF RecipeMerges
  <2>2. r.org \in Slugs /\ r.by \in Bots
    BY DEF TypeOK
  <2>. QED
    BY <2>1, <2>2 DEF Typed, Act
<1>3. CASE a \in BotShapes(groups)
  <2>0. PICK g \in groups : \E b \in BotsOf(g), kind \in {"createBot", "shapeBot"} :
          a = Act(kind, g.slug, b, "none")
    BY <1>3 DEF BotShapes
  <2>1. PICK b \in BotsOf(g), kind \in {"createBot", "shapeBot"} :
          a = Act(kind, g.slug, b, "none")
    BY <2>0
  <2>2. g.slug \in Slugs /\ b \in Bots
    BY BotsTyped DEF GroupTyped
  <2>. QED
    BY <2>1, <2>2 DEF Typed, Act
<1>4. CASE a \in SiteAdmins(read) \union Departures(read) \union AppTokens
  <2>1. PICK i \in Ids, kind \in {"promote", "demote", "deactivate", "deleteTokens", "expire"} :
          a = Act(kind, "none", i, "none")
    BY <1>4 DEF SiteAdmins, Departures, AppTokens, People
  <2>. QED
    BY <2>1 DEF Typed, Act
<1>5. CASE a \in Memberships(read, groups, retired)
  <2>1. PICK g \in groups, f \in Flags :
          \E l \in Desired(read, g, f) \union team[g.slug][f], kind \in {"join", "leave"} :
            a = Act(kind, g.slug, l, f)
    BY <1>5 DEF Memberships
  <2>2. PICK l \in Desired(read, g, f) \union team[g.slug][f], kind \in {"join", "leave"} :
          a = Act(kind, g.slug, l, f)
    BY <2>1
  <2>3. g.slug \in Slugs /\ l \in Logins
    BY BotsTyped DEF GroupTyped, Desired, People, Logins, TypeOK
  <2>. QED
    BY <2>2, <2>3 DEF Typed, Act
<1>6. CASE a \in GroupWriters(groups, retired)
  <2>0. PICK g \in groups : \E b \in BotsOf(g) \union Bots, kind \in {"write", "unwrite"} :
          a = Act(kind, g.slug, b, "none")
    BY <1>6 DEF GroupWriters
  <2>1. PICK b \in BotsOf(g) \union Bots, kind \in {"write", "unwrite"} :
          a = Act(kind, g.slug, b, "none")
    BY <2>0
  <2>2. g.slug \in Slugs /\ b \in Bots
    BY BotsTyped DEF GroupTyped
  <2>. QED
    BY <2>1, <2>2 DEF Typed, Act
<1>7. CASE a \in Deliveries(groups)
  <2>0. PICK g \in groups : \E p \in MatesOf(g) :
          a = Act("deliver", g.slug, Bot(p), "none")
    BY <1>7 DEF Deliveries
  <2>1. PICK p \in MatesOf(g) :
          a = Act("deliver", g.slug, Bot(p), "none")
    BY <2>0
  <2>2. g.slug \in Slugs /\ Bot(p) \in Bots
    BY BotsTyped DEF GroupTyped, Bots
  <2>. QED
    BY <2>1, <2>2 DEF Typed, Act
<1>8. CASE a \in Retirements(dead)
  <2>1. PICK p \in dead : a = Act("retire", "none", Bot(p), "none")
    BY <1>8 DEF Retirements
  <2>. QED
    BY <2>1 DEF Typed, Act, Bots
<1>. QED
  BY <1>1, <1>2, <1>3, <1>4, <1>5, <1>6, <1>7, <1>8 DEF Compute

-----------------------------------------------------------------------------
(* Each step keeps the types.                                              *)

\* What of the types is about the pass.
PassTyped(p) ==
  /\ IsPass(p) /\ p.at \in {"idle", "projects", "registry", "gitea", "apply"}
  /\ \A g \in p.groups : GroupTyped(g)
  /\ p.dead \subseteq Projects
  /\ \A a \in p.plan : Typed(a)

\* And what is about everything else.
StateTyped ==
  /\ member \in [Ids -> Rows \union {NoRow}]
  /\ override \in [Ids -> OverrideMaps]
  /\ gone \subseteq Projects /\ misread \subseteq Projects /\ tags \in TagLists
  /\ account \in [Logins -> {"none", "active", "off", "prohibited"}]
  /\ shaped \subseteq Bots /\ admins \subseteq Ids
  /\ token \in [Logins -> {"none", "fresh", "old"}]
  /\ made \in [Slugs -> SUBSET Parts]
  /\ team \in [Slugs -> [Flags -> SUBSET Logins]]
  /\ writers \in [Slugs -> SUBSET Logins]
  /\ requests \subseteq [org : Slugs, by : Bots, kind : RequestKinds]
  /\ seen \in [Projects -> {"no", "just", "ago"}]
HistoryTyped == clean \in BOOLEAN /\ events \in 0..MaxEvents

\* The types in three parts: the pass, the rest of the state, the history.
LEMMA TypesSplit ==
  ASSUME MirrorTypes
  PROVE  PassTyped(pass) /\ StateTyped /\ HistoryTyped
  BY DEF MirrorTypes, PassTyped, StateTyped, HistoryTyped, TypeOK

\* And put together again.
LEMMA TypesJoin ==
  ASSUME PassTyped(pass'), StateTyped', HistoryTyped'
  PROVE  MirrorTypes'
<1>1. pass'.plan \subseteq [kind : Range(Order), org : Slugs \union {"none"},
                           login : Logins \union {"none"}, what : Parts \union {"none", "recipe"}]
  BY TypedIsAction DEF PassTyped
<1>. QED
  BY <1>1 DEF MirrorTypes, PassTyped, StateTyped, HistoryTyped, TypeOK

\* An event is counted, and whoever else sets the history leaves the count alone.
LEMMA HistoryKept ==
  ASSUME HistoryTyped, Event \/ (clean' \in BOOLEAN /\ UNCHANGED events)
  PROVE  HistoryTyped'
<1>1. clean' \in BOOLEAN
  BY DEF HistoryTyped, Event
<1>2. events' \in 0..MaxEvents
  <2>1. events \in Nat /\ events <= MaxEvents /\ (events' = events \/ (events < MaxEvents /\ events' = events + 1))
    BY MirrorAssumption DEF HistoryTyped, Event
  <2>. QED
    BY <2>1, MirrorAssumption
<1>. QED
  BY <1>1, <1>2 DEF HistoryTyped

\* A pass that is over is typed.
LEMMA IdleTyped == PassTyped(IdlePass)
  BY FieldsAre DEF PassTyped, IdlePass

\* An action that is done with leaves the pass typed.
LEMMA DoneTyped ==
  ASSUME MirrorTypes, NEW a, Done(a)
  PROVE  PassTyped(pass') /\ pass'.at = pass.at /\ pass'.plan = pass.plan \ {a}
<1>1. IsPass(pass') /\ pass'.at = pass.at /\ pass'.groups = pass.groups /\ pass'.dead = pass.dead
      /\ pass'.plan = pass.plan \ {a}
  BY DoneIs DEF MirrorTypes, TypeOK, Types
<1>. QED
  BY <1>1, TypesSplit DEF PassTyped

\* The steps that read, and those that end a pass.
LEMMA ReadingTyped ==
  ASSUME MirrorTypes, StartPass \/ ReadProjects \/ Unreadable \/ EndPass \/ Restart
  PROVE  MirrorTypes'
<1>s. PassTyped(pass) /\ StateTyped /\ HistoryTyped
  BY TypesSplit
<1>1. StateTyped'
  BY <1>s DEF StateTyped, StartPass, ReadProjects, Unreadable, EndPass, Restart, zeropsVars, accountVars,
     groupVars
<1>h. HistoryTyped'
  <2>1. Event \/ (clean' \in BOOLEAN /\ UNCHANGED events)
    BY <1>s DEF HistoryTyped, StartPass, ReadProjects, Unreadable, EndPass, Restart
  <2>. QED
    BY <1>s, <2>1, HistoryKept
<1>2. PassTyped(pass')
  <2>1. CASE StartPass
    <3>1. pass' = [IdlePass EXCEPT !.at = "projects", !.member = member]
      BY <2>1 DEF StartPass
    <3>2. IdlePass.groups = {}
      BY DEF IdlePass
    <3>. QED
      BY <3>1, <3>2, FieldsAre DEF PassTyped, IsPass
  <2>2. CASE ReadProjects
    <3>1. PICK listed, own : pass' = [pass EXCEPT !.at = "registry", !.listed = listed, !.override = own]
      BY <2>2 DEF ReadProjects
    <3>. QED
      BY <3>1, <1>s, FieldsAre DEF PassTyped, IsPass
  <2>3. CASE Unreadable \/ EndPass \/ Restart
    BY <2>3, IdleTyped DEF Unreadable, EndPass, Restart
  <2>. QED
    BY <2>1, <2>2, <2>3
<1>. QED
  BY <1>1, <1>2, <1>h, TypesJoin

\* Reading the registry, without the projects that are deleted.
LEMMA ReadRegistryTyped ==
  ASSUME MirrorTypes, ReadRegistry
  PROVE  MirrorTypes'
<1>s. PassTyped(pass) /\ StateTyped /\ HistoryTyped
  BY TypesSplit
<1> DEFINE sighted == {p \in ProjectsOf(Registered) : seen'[p] = "ago"}
           groups == Excluded(Registered, sighted)
           dead == {p \in sighted : \E g \in Registered : p \in MatesOf(g)}
<1>1. pass' = [pass EXCEPT !.at = "gitea", !.groups = groups, !.listed = {}, !.dead = dead]
  BY DEF ReadRegistry
<1>2. \A g \in groups : GroupTyped(g)
  BY <1>s, RegistryTyped DEF StateTyped
<1>3. dead \subseteq Projects
  BY <1>s, RegistryAssumption DEF StateTyped, ProjectsOf, Registered
<1>. HIDE DEF groups, dead
<1>4. PassTyped(pass')
  BY <1>s, <1>1, <1>2, <1>3, FieldsAre DEF PassTyped, IsPass
<1>5. StateTyped'
  <2>1. seen' \in [Projects -> {"no", "just", "ago"}]
    BY <1>s DEF ReadRegistry, Sighted, StateTyped
  <2>. QED
    BY <1>s, <2>1 DEF StateTyped, ReadRegistry, zeropsVars, accountVars, groupVars
<1>6. HistoryTyped'
  BY <1>s, HistoryKept DEF HistoryTyped, ReadRegistry
<1>. QED
  BY <1>4, <1>5, <1>6, TypesJoin

\* Making the plan.
LEMMA PlanStepTyped ==
  ASSUME MirrorTypes, Plan
  PROVE  MirrorTypes'
<1>s. PassTyped(pass) /\ StateTyped /\ HistoryTyped
  BY TypesSplit
<1> DEFINE plan == Compute([member |-> pass.member, override |-> pass.override], pass.groups, pass.dead)
<1>1. \/ pass' = IdlePass
      \/ pass' = [IdlePass EXCEPT !.at = "apply", !.plan = WithinCap(plan), !.before = Snapshot]
  BY DEF Plan
<1>2. \A a \in plan : Typed(a)
  BY <1>s, PlanTyped DEF MirrorTypes, PassTyped
<1>3. WithinCap(plan) \subseteq plan
  BY DEF WithinCap
<1>. HIDE DEF plan
<1>4. PassTyped(pass')
  BY <1>1, <1>2, <1>3, IdleTyped, FieldsAre DEF PassTyped, IsPass
<1>5. StateTyped'
  BY <1>s DEF StateTyped, Plan, zeropsVars, accountVars, groupVars
<1>6. HistoryTyped'
  <2>1. clean' \in BOOLEAN /\ UNCHANGED events
    BY DEF Plan
  <2>. QED
    BY <1>s, <2>1, HistoryKept
<1>. QED
  BY <1>4, <1>5, <1>6, TypesJoin

\* Performing an action, or passing it over.
LEMMA PerformTyped ==
  ASSUME MirrorTypes, NEW a \in Due,
         \/ Make(a) \/ Merge(a) \/ CreateBot(a) \/ ShapeBot(a) \/ SetSiteAdmin(a)
         \/ SetMembership(a) \/ SetWriter(a) \/ Deactivate(a) \/ DeleteTokens(a)
         \/ Deliver(a) \/ Retire(a) \/ Refused(a) \/ CallFails(a)
  PROVE  MirrorTypes'
<1>s. PassTyped(pass) /\ StateTyped /\ HistoryTyped
  BY TypesSplit
<1>1. Typed(a)
  BY <1>s, DueIsPlanned DEF PassTyped
<1>2. PassTyped(pass')
  <2>1. Done(a)
    BY DEF Make, Merge, CreateBot, ShapeBot, SetSiteAdmin, SetMembership, SetWriter, Deactivate,
           DeleteTokens, Deliver, Retire, Refused, CallFails, Does
  <2>. QED
    BY <2>1, DoneTyped
<1>3. HistoryTyped'
  <2>1. Event \/ (clean' \in BOOLEAN /\ UNCHANGED events)
    BY <1>s DEF HistoryTyped, Make, Merge, CreateBot, ShapeBot, SetSiteAdmin, SetMembership, SetWriter,
           Deactivate, DeleteTokens, Deliver, Retire, Refused, CallFails
  <2>. QED
    BY <1>s, <2>1, HistoryKept
<1>4. StateTyped'
  <2>. USE DEF StateTyped, Does, Typed, zeropsVars, accountVars, groupVars
  <2>1. CASE Make(a)
    BY <1>s, <1>1, <2>1 DEF Make
  <2>2. CASE Merge(a)
    BY <1>s, <2>2 DEF Merge
  <2>3. CASE CreateBot(a) \/ ShapeBot(a)
    BY <1>s, <1>1, <2>3 DEF CreateBot, ShapeBot
  <2>4. CASE SetSiteAdmin(a)
    BY <1>s, <1>1, <2>4 DEF SetSiteAdmin
  <2>5. CASE SetMembership(a)
    <3>0. a.kind \in {"join", "leave"}
      BY <2>5 DEF SetMembership
    <3>4. a.org \in Slugs /\ a.login \in Logins /\ a.what \in Flags
      BY <1>1, <3>0
    <3>1. \E changed \in SUBSET Logins : team' = [team EXCEPT ![a.org][a.what] = changed]
      <4>1. team[a.org][a.what] \subseteq Logins
        BY <1>s, <3>4
      <4>2. team' = [team EXCEPT ![a.org][a.what] = team'[a.org][a.what]] /\ team'[a.org][a.what] \subseteq Logins
        BY <1>s, <2>5, <3>4, <4>1 DEF SetMembership
      <4>. QED
        BY <4>2
    <3>2. team' \in [Slugs -> [Flags -> SUBSET Logins]]
      BY <1>s, <3>1, <3>4
    <3>. QED
      BY <1>s, <2>5, <3>2 DEF SetMembership
  <2>6. CASE SetWriter(a)
    <3>1. a.org \in Slugs /\ a.login \in Logins
      BY <1>1, <2>6 DEF SetWriter, Logins
    <3>2. writers[a.org] \union {a.login} \in SUBSET Logins /\ writers[a.org] \ {a.login} \in SUBSET Logins
      BY <1>s, <3>1
    <3>3. writers' \in [Slugs -> SUBSET Logins]
      BY <1>s, <2>6, <3>1, <3>2 DEF SetWriter
    <3>. QED
      BY <1>s, <2>6, <3>3 DEF SetWriter
  <2>7. CASE Deactivate(a) \/ DeleteTokens(a) \/ Retire(a)
    <3>1. a.login \in Logins
      BY <1>1, <2>7 DEF Deactivate, DeleteTokens, Retire, Logins
    <3>2. CASE Deactivate(a)
      BY <1>s, <3>1, <3>2 DEF Deactivate
    <3>3. CASE DeleteTokens(a)
      BY <1>s, <3>1, <3>3 DEF DeleteTokens
    <3>4. CASE Retire(a)
      BY <1>s, <3>1, <3>4 DEF Retire
    <3>. QED
      BY <2>7, <3>2, <3>3, <3>4
  <2>8. CASE Deliver(a)
    <3>1. a.org \in Slugs /\ a.login \in Bots /\ a.login \in Logins
      BY <1>1, <2>8 DEF Deliver, Logins
    <3>2. team' \in [Slugs -> [Flags -> SUBSET Logins]]
      BY <1>s, <2>8, <3>1 DEF Deliver, Flags
    <3>. QED
      BY <1>s, <2>8, <3>1, <3>2 DEF Deliver
  <2>9. CASE Refused(a)
    BY <1>s, <1>1, <2>9 DEF Refused
  <2>10. CASE CallFails(a)
    BY <1>s, <1>1, <2>10 DEF CallFails
  <2>. QED
    BY <2>1, <2>2, <2>3, <2>4, <2>5, <2>6, <2>7, <2>8, <2>9, <2>10
<1>. QED
  BY <1>2, <1>3, <1>4, TypesJoin

\* What happens beside the passes.
LEMMA WorldTyped ==
  ASSUME MirrorTypes, World
  PROVE  MirrorTypes'
<1>s. PassTyped(pass) /\ StateTyped /\ HistoryTyped
  BY TypesSplit
<1>. USE DEF StateTyped, OnlyZerops, zeropsVars, accountVars, groupVars
<1>1. ASSUME NEW i \in Ids, NEW row \in Rows \union {NoRow}, ChangeRow(i, row)
      PROVE  StateTyped' /\ Event /\ UNCHANGED pass
  BY <1>s, <1>1 DEF ChangeRow
<1>2. ASSUME NEW i \in Ids, NEW o \in OverrideMaps, ChangeOverride(i, o)
      PROVE  StateTyped' /\ Event /\ UNCHANGED pass
  BY <1>s, <1>2 DEF ChangeOverride
<1>3. ASSUME NEW list \in TagLists, Retag(list)
      PROVE  StateTyped' /\ Event /\ UNCHANGED pass
  BY <1>s, <1>3 DEF Retag
<1>4. ASSUME NEW p \in Projects, DeleteProject(p) \/ Misread(p)
      PROVE  StateTyped' /\ Event /\ UNCHANGED pass
  BY <1>s, <1>4 DEF DeleteProject, Misread
<1>5. ASSUME NEW p \in Projects, ReadAgain(p) \/ SightingAges(p)
      PROVE  StateTyped' /\ clean' = FALSE /\ UNCHANGED <<pass, events>>
  BY <1>s, <1>5 DEF ReadAgain, SightingAges
<1>6. ASSUME NEW i \in Ids, SignIn(i) \/ MintAppToken(i)
      PROVE  StateTyped' /\ Event /\ UNCHANGED pass
  BY <1>s, <1>6 DEF SignIn, MintAppToken, Logins
<1>7. ASSUME NEW i \in Ids, AppTokenAges(i)
      PROVE  StateTyped' /\ clean' = FALSE /\ UNCHANGED <<pass, events>>
  BY <1>s, <1>7 DEF AppTokenAges, Logins
<1>8. ASSUME NEW s \in Slugs, NEW l \in Logins, EditWriters(s, l) \/ \E f \in Flags : EditTeam(s, f, l)
      PROVE  StateTyped' /\ Event /\ UNCHANGED pass
  <2>1. CASE EditWriters(s, l)
    BY <1>s, <2>1 DEF EditWriters
  <2>2. ASSUME NEW f \in Flags, EditTeam(s, f, l)
        PROVE  StateTyped' /\ Event /\ UNCHANGED pass
    <3>1. team' \in [Slugs -> [Flags -> SUBSET Logins]]
      BY <1>s, <2>2 DEF EditTeam
    <3>. QED
      BY <1>s, <2>2, <3>1 DEF EditTeam
  <2>. QED
    BY <1>8, <2>1, <2>2
<1>9. ASSUME NEW s \in Slugs, NEW part \in {"env/*", "v*"}, EditRule(s, part)
      PROVE  StateTyped' /\ Event /\ UNCHANGED pass
  BY <1>s, <1>9 DEF EditRule
<1>10. ASSUME NEW s \in Slugs, NEW b \in Bots, NEW kind \in RequestKinds, Propose(s, b, kind)
       PROVE  StateTyped' /\ Event /\ UNCHANGED pass
  BY <1>s, <1>10 DEF Propose
<1>11. ASSUME NEW r \in requests, Rework(r)
       PROVE  StateTyped' /\ Event /\ UNCHANGED pass
  BY <1>s, <1>11 DEF Rework, RequestKinds
<1>12. StateTyped' /\ UNCHANGED pass /\ (Event \/ (clean' = FALSE /\ UNCHANGED events))
  BY <1>1, <1>2, <1>3, <1>4, <1>5, <1>6, <1>7, <1>8, <1>9, <1>10, <1>11 DEF World
<1>. QED
  BY <1>s, <1>12, HistoryKept, TypesJoin

\* The types hold at first ...
LEMMA InitTyped == Init => MirrorTypes
<1>. SUFFICES ASSUME Init PROVE MirrorTypes
  OBVIOUS
<1>1. PassTyped(pass)
  BY IdleTyped DEF Init
<1>2. StateTyped
  <2>1. member \in [Ids -> Rows \union {NoRow}]
    BY DEF Init
  <2>2. override \in [Ids -> OverrideMaps]
    BY MirrorAssumption DEF Init
  <2>3. /\ gone \subseteq Projects /\ misread \subseteq Projects /\ tags \in TagLists
        /\ shaped \subseteq Bots /\ admins \subseteq Ids
        /\ token \in [Logins -> {"none", "fresh", "old"}]
        /\ requests \subseteq [org : Slugs, by : Bots, kind : RequestKinds]
        /\ seen \in [Projects -> {"no", "just", "ago"}]
    BY DEF Init
  <2>4. /\ account \in [Logins -> {"none", "active", "off", "prohibited"}]
        /\ made \in [Slugs -> SUBSET Parts]
    <3>1. PICK parts \in {{}, Parts}, here \in {Ids \ TokenIds, {}} :
            /\ made = [s \in Slugs |-> parts]
            /\ account = [l \in Logins |-> IF l \in here THEN "active" ELSE "none"]
      BY DEF Init
    <3>2. parts \in SUBSET Parts
      OBVIOUS
    <3>. HIDE DEF Parts
    <3>. QED
      BY <3>1, <3>2
  <2>5. /\ team \in [Slugs -> [Flags -> SUBSET Logins]]
        /\ writers \in [Slugs -> SUBSET Logins]
    BY DEF Init
  <2>. QED
    BY <2>1, <2>2, <2>3, <2>4, <2>5 DEF StateTyped
<1>3. HistoryTyped
  <2>1. events = 0 /\ clean \in BOOLEAN
    BY DEF Init
  <2>2. 0 \in 0..MaxEvents
    BY MirrorAssumption
  <2>. QED
    BY <2>1, <2>2 DEF HistoryTyped
<1>. QED
  BY <1>1, <1>2, <1>3, TypedIsAction DEF MirrorTypes, PassTyped, StateTyped, HistoryTyped, TypeOK

\* ... and every step keeps them.
LEMMA NextTyped == MirrorTypes /\ [Next]_vars => MirrorTypes'
<1>. SUFFICES ASSUME MirrorTypes, [Next]_vars PROVE MirrorTypes'
  OBVIOUS
<1>1. CASE UNCHANGED vars
  BY <1>1 DEF vars, zeropsVars, accountVars, groupVars, MirrorTypes, TypeOK
<1>2. CASE Performs \/ \E a \in Due : CallFails(a)
  BY <1>2, PerformTyped DEF Performs
<1>3. CASE ReadsAndPlans \/ EndPass \/ Unreadable \/ Restart \/ World
  BY <1>3, ReadingTyped, ReadRegistryTyped, PlanStepTyped, WorldTyped DEF ReadsAndPlans
<1>. QED
  BY <1>1, <1>2, <1>3 DEF Next, PassStep

\* Every reachable state is typed, and so is every action of a plan.
THEOREM MirrorTyped == Spec => []TypeOK
<1>1. MirrorTypes => TypeOK
  BY DEF MirrorTypes
<1>. QED
  BY <1>1, InitTyped, NextTyped, PTL DEF Spec

-----------------------------------------------------------------------------
(* What a pass would plan that read everything at this moment.             *)

ReadNow == [member |-> member, override |-> OverridesOn(Projects \ NotThere)]
DeadNow == {p \in ProjectsOf(Registered) : p \in NotThere /\ seen[p] = "ago"}
GroupsNow == Excluded(Registered, DeadNow)
DeadMatesNow == {p \in DeadNow : \E g \in Registered : p \in MatesOf(g)}
PlanNow == Compute(ReadNow, GroupsNow, DeadMatesNow)

\* The group with a slug, as that pass sees it, and who belongs into its teams.
Own(slug) == {g \in GroupsNow : g.slug = slug}
BotOf(slug, l) == \E g \in Own(slug) : l \in BotsOf(g)
Member(slug, f, l) == \E g \in Own(slug) : l \in Desired(ReadNow, g, f)
Readable(slug, l) == \E g \in Own(slug) : \E p \in MatesOf(g) : l = Bot(p) /\ p \notin NotThere
RetiredNow(l) == \E p \in DeadMatesNow : l = Bot(p)

\* Why an action is planned, kind by kind.
Wanted(a) ==
  \/ /\ a.kind = PartKind(a.what) /\ a.login = "none"
     /\ Own(a.org) # {} /\ a.what \in Parts \ made[a.org]
  \/ /\ a.kind = "merge" /\ a.what = "recipe" /\ BotOf(a.org, a.login)
     /\ \E r \in requests : r.org = a.org /\ r.by = a.login /\ r.kind # "changes"
  \/ /\ a.kind = "createBot" /\ a.what = "none" /\ BotOf(a.org, a.login)
     /\ account[a.login] = "none"
  \/ /\ a.kind = "shapeBot" /\ a.what = "none" /\ BotOf(a.org, a.login)
     /\ account[a.login] = "none" \/ a.login \notin shaped
  \/ /\ a.kind = "promote" /\ a.org = "none" /\ a.what = "none"
     /\ a.login \in People(member) /\ account[a.login] # "none"
     /\ SiteAdmin(member[a.login]) /\ a.login \notin admins
  \/ /\ a.kind = "demote" /\ a.org = "none" /\ a.what = "none"
     /\ a.login \in People(member) /\ account[a.login] # "none"
     /\ ~SiteAdmin(member[a.login]) /\ a.login \in admins
  \/ /\ a.kind = "join" /\ a.what \in Flags /\ Member(a.org, a.what, a.login)
     /\ a.login \notin team[a.org][a.what]
  \/ /\ a.kind = "leave" /\ a.what \in Flags /\ Own(a.org) # {}
     /\ a.login \in team[a.org][a.what] /\ ~Member(a.org, a.what, a.login)
     /\ ~RetiredNow(a.login) /\ a.login # AdminLogin
  \/ /\ a.kind = "write" /\ a.what = "none" /\ BotOf(a.org, a.login)
     /\ a.login \notin writers[a.org]
  \/ /\ a.kind = "unwrite" /\ a.what = "none" /\ Own(a.org) # {} /\ ~BotOf(a.org, a.login)
     /\ a.login \in writers[a.org] \intersect Bots /\ ~RetiredNow(a.login)
  \/ /\ a.kind \in {"deactivate", "deleteTokens"} /\ a.org = "none" /\ a.what = "none"
     /\ a.login \in Ids /\ account[a.login] = "active"
     /\ ~(a.login \in People(member) /\ member[a.login].active)
  \/ /\ a.kind = "deliver" /\ a.what = "none" /\ Readable(a.org, a.login)
     /\ token[a.login] = "none"
  \/ /\ a.kind = "expire" /\ a.org = "none" /\ a.what = "none"
     /\ a.login \in Ids /\ account[a.login] = "active" /\ token[a.login] = "old"
  \/ /\ a.kind = "retire" /\ a.org = "none" /\ a.what = "none"
     /\ RetiredNow(a.login) /\ account[a.login] \notin {"none", "prohibited"}

PlanIsWanted == \A a : a \in PlanNow <=> a = Act(a.kind, a.org, a.login, a.what) /\ Wanted(a)

\* A slug is one group's, and a group of a pass has none of the projects that
\* are taken for deleted.
LEMMA GroupsAre ==
  ASSUME tags \in TagLists
  PROVE  /\ \A g \in GroupsNow : GroupTyped(g)
         /\ \A g, h \in GroupsNow : g.slug = h.slug => g = h
         /\ \A g \in GroupsNow : \A p \in MatesOf(g) : p \notin DeadNow
         /\ DeadMatesNow \subseteq Projects /\ DeadNow \subseteq Projects
<1>1. \A g \in GroupsNow : GroupTyped(g)
  BY RegistryTyped DEF GroupsNow
<1>2. ASSUME NEW g \in GroupsNow
      PROVE  \E h \in Registered : /\ g = [h EXCEPT !.projects = {p \in h.projects : p.id \notin DeadNow}]
                                   /\ {"slug", "projects"} \subseteq DOMAIN h
                                   /\ g.slug = h.slug /\ g.projects = {p \in h.projects : p.id \notin DeadNow}
  <2>1. PICK h \in Registered : g = [h EXCEPT !.projects = {p \in @ : p.id \notin DeadNow}]
    BY DEF GroupsNow, Excluded
  <2>2. {"slug", "projects"} \subseteq DOMAIN h
    BY RegistryAssumption DEF Registered
  <2>. QED
    BY <2>1, <2>2
<1>3. ASSUME NEW g \in GroupsNow, NEW h \in GroupsNow, g.slug = h.slug
      PROVE  g = h
  <2>1. PICK k \in Registered : /\ g = [k EXCEPT !.projects = {p \in k.projects : p.id \notin DeadNow}]
                                /\ g.slug = k.slug
    BY <1>2
  <2>2. PICK m \in Registered : /\ h = [m EXCEPT !.projects = {p \in m.projects : p.id \notin DeadNow}]
                                /\ h.slug = m.slug
    BY <1>2
  <2>3. k = m
    BY <1>3, <2>1, <2>2, RegistryAssumption DEF Registered
  <2>. QED
    BY <2>1, <2>2, <2>3
<1>4. ASSUME NEW g \in GroupsNow, NEW p \in MatesOf(g) PROVE p \notin DeadNow
  <2>1. PICK q \in g.projects : p = q.id
    BY DEF MatesOf, OfKind
  <2>. QED
    BY <2>1, <1>2
<1>5. DeadNow \subseteq Projects
  BY RegistryAssumption DEF DeadNow, ProjectsOf, Registered
<1>. QED
  BY <1>1, <1>3, <1>4, <1>5 DEF DeadMatesNow

\* What is planned is what is wanted.
LEMMA PlanIsWhatIsWanted == MirrorTypes => PlanIsWanted
<1>. SUFFICES ASSUME MirrorTypes, NEW a
              PROVE  a \in PlanNow <=> a = Act(a.kind, a.org, a.login, a.what) /\ Wanted(a)
  BY DEF PlanIsWanted
<1>t. TypeOK /\ tags \in TagLists
  BY DEF MirrorTypes, TypeOK
<1> DEFINE retired == {Bot(p) : p \in DeadMatesNow}
<1>r. \A l : l \in retired <=> RetiredNow(l)
  BY DEF RetiredNow
<1>o. \A s : \A g \in Own(s) : /\ \A l : BotOf(s, l) <=> l \in BotsOf(g)
                               /\ \A f, l : Member(s, f, l) <=> l \in Desired(ReadNow, g, f)
                               /\ g \in GroupsNow /\ g.slug = s
  BY <1>t, GroupsAre DEF Own, BotOf, Member
<1>w. \A g \in GroupsNow : g \in Own(g.slug)
  BY DEF Own
<1>. HIDE DEF retired
<1>1. ASSUME a \in PlanNow
      PROVE  a = Act(a.kind, a.org, a.login, a.what) /\ Wanted(a)
  <2>t. Typed(a)
    BY <1>t, <1>1, GroupsAre, PlanTyped DEF PlanNow
  <2>a. a = Act(a.kind, a.org, a.login, a.what)
    BY <2>t DEF Typed
  <2>1. CASE a \in Structure(GroupsNow)
    <3>1. PICK g \in GroupsNow, part \in Parts :
            part \notin made[g.slug] /\ a = Act(PartKind(part), g.slug, "none", part)
      BY <2>1 DEF Structure
    <3>. QED
      BY <3>1, <1>w, <2>a DEF Wanted, Act
  <2>2. CASE a \in RecipeMerges(GroupsNow)
    <3>1. PICK r \in requests : /\ a = Act("merge", r.org, r.by, "recipe") /\ r.kind # "changes"
                                /\ \E g \in GroupsNow : r.org = g.slug /\ r.by \in BotsOf(g)
      BY <2>2 DEF RecipeMerges
    <3>. QED
      BY <3>1, <1>w, <1>o, <2>a DEF Wanted, Act
  <2>3. CASE a \in BotShapes(GroupsNow)
    <3>1. PICK g \in GroupsNow : \E b \in BotsOf(g) :
            \/ a = Act("createBot", g.slug, b, "none") /\ account[b] = "none"
            \/ a = Act("shapeBot", g.slug, b, "none") /\ (account[b] = "none" \/ b \notin shaped)
      BY <2>3 DEF BotShapes
    <3>2. PICK b \in BotsOf(g) :
            \/ a = Act("createBot", g.slug, b, "none") /\ account[b] = "none"
            \/ a = Act("shapeBot", g.slug, b, "none") /\ (account[b] = "none" \/ b \notin shaped)
      BY <3>1
    <3>3. BotOf(g.slug, b)
      BY <1>w, <1>o
    <3>. QED
      BY <3>2, <3>3, <2>a DEF Wanted, Act
  <2>4. CASE a \in SiteAdmins(ReadNow)
    BY <2>4, <2>a DEF SiteAdmins, ReadNow, Wanted, Act
  <2>5. CASE a \in Memberships(ReadNow, GroupsNow, retired)
    <3>1. PICK g \in GroupsNow, f \in Flags :
            \E l : \/ a = Act("join", g.slug, l, f) /\ l \in Desired(ReadNow, g, f) \ team[g.slug][f]
                   \/ a = Act("leave", g.slug, l, f)
                      /\ l \in team[g.slug][f] \ (Desired(ReadNow, g, f) \union retired \union {AdminLogin})
      BY <2>5 DEF Memberships
    <3>2. \/ a.kind = "join" /\ a.login \in Desired(ReadNow, g, f) \ team[g.slug][f]
          \/ a.kind = "leave"
             /\ a.login \in team[g.slug][f] \ (Desired(ReadNow, g, f) \union retired \union {AdminLogin})
      BY <3>1 DEF Act
    <3>3. a.org = g.slug /\ a.what = f
      BY <3>1 DEF Act
    <3>. QED
      BY <3>2, <3>3, <1>w, <1>o, <1>r, <2>a DEF Wanted
  <2>6. CASE a \in GroupWriters(GroupsNow, retired)
    <3>1. PICK g \in GroupsNow :
            \E b : \/ a = Act("write", g.slug, b, "none") /\ b \in BotsOf(g) \ writers[g.slug]
                   \/ a = Act("unwrite", g.slug, b, "none")
                      /\ b \in (writers[g.slug] \intersect Bots) \ (BotsOf(g) \union retired)
      BY <2>6 DEF GroupWriters
    <3>2. \/ a.kind = "write" /\ a.login \in BotsOf(g) \ writers[g.slug]
          \/ a.kind = "unwrite" /\ a.login \in (writers[g.slug] \intersect Bots) \ (BotsOf(g) \union retired)
      BY <3>1 DEF Act
    <3>3. a.org = g.slug /\ a.what = "none"
      BY <3>1 DEF Act
    <3>. QED
      BY <3>2, <3>3, <1>w, <1>o, <1>r, <2>a DEF Wanted
  <2>7. CASE a \in Departures(ReadNow)
    BY <2>7, <2>a DEF Departures, ReadNow, Wanted, Act
  <2>8. CASE a \in Deliveries(GroupsNow)
    <3>1. PICK g \in GroupsNow : \E p \in MatesOf(g) :
            a = Act("deliver", g.slug, Bot(p), "none") /\ p \notin NotThere /\ token[Bot(p)] = "none"
      BY <2>8 DEF Deliveries, NotThere
    <3>2. PICK p \in MatesOf(g) :
            a = Act("deliver", g.slug, Bot(p), "none") /\ p \notin NotThere /\ token[Bot(p)] = "none"
      BY <3>1
    <3>3. Readable(g.slug, Bot(p))
      BY <3>2, <1>w DEF Readable
    <3>. QED
      BY <3>2, <3>3, <2>a DEF Wanted, Act
  <2>9. CASE a \in AppTokens
    BY <2>9, <2>a DEF AppTokens, Wanted, Act
  <2>10. CASE a \in Retirements(DeadMatesNow)
    BY <2>10, <2>a DEF Retirements, RetiredNow, Wanted, Act
  <2>. QED
    BY <1>1, <2>1, <2>2, <2>3, <2>4, <2>5, <2>6, <2>7, <2>8, <2>9, <2>10 DEF PlanNow, Compute, retired
<1>2. ASSUME a = Act(a.kind, a.org, a.login, a.what), Wanted(a)
      PROVE  a \in PlanNow
  <2>n. \A s : Own(s) # {} => \E g \in GroupsNow : g.slug = s /\ g \in Own(s)
    BY DEF Own
  <2>b. \A s, l : BotOf(s, l) => Own(s) # {}
    BY DEF BotOf
  <2>m. \A s, f, l : Member(s, f, l) => Own(s) # {}
    BY DEF Member
  <2>1. CASE a.kind = PartKind(a.what) /\ a.login = "none" /\ Own(a.org) # {} /\ a.what \in Parts \ made[a.org]
    <3>1. a \in Structure(GroupsNow)
      BY <1>2, <2>1, <2>n DEF Structure
    <3>. QED
      BY <3>1 DEF PlanNow, Compute
  <2>2. CASE /\ a.kind = "merge" /\ a.what = "recipe" /\ BotOf(a.org, a.login)
             /\ \E r \in requests : r.org = a.org /\ r.by = a.login /\ r.kind # "changes"
    <3>1. PICK r \in requests : r.org = a.org /\ r.by = a.login /\ r.kind # "changes"
      BY <2>2
    <3>2. \E g \in GroupsNow : r.org = g.slug /\ r.by \in BotsOf(g)
      BY <2>2, <3>1 DEF BotOf, Own
    <3>3. a = Act("merge", r.org, r.by, "recipe")
      BY <1>2, <2>2, <3>1
    <3>4. a \in RecipeMerges(GroupsNow)
      BY <3>1, <3>2, <3>3 DEF RecipeMerges
    <3>. QED
      BY <3>4 DEF PlanNow, Compute
  <2>3. CASE /\ a.kind \in {"createBot", "shapeBot"} /\ a.what = "none" /\ BotOf(a.org, a.login)
             /\ account[a.login] = "none" \/ (a.kind = "shapeBot" /\ a.login \notin shaped)
    <3>1. PICK g \in GroupsNow : a.org = g.slug /\ a.login \in BotsOf(g)
      BY <2>3 DEF BotOf, Own
    <3>2. a \in IF account[a.login] = "none"
                THEN {Act("createBot", g.slug, a.login, "none"), Act("shapeBot", g.slug, a.login, "none")}
                ELSE IF a.login \notin shaped THEN {Act("shapeBot", g.slug, a.login, "none")} ELSE {}
      BY <1>2, <2>3, <3>1
    <3>3. a \in BotShapes(GroupsNow)
      BY <3>1, <3>2 DEF BotShapes
    <3>. QED
      BY <3>3 DEF PlanNow, Compute
  <2>4. CASE /\ a.kind \in {"promote", "demote"} /\ a.org = "none" /\ a.what = "none"
             /\ a.login \in People(member) /\ account[a.login] # "none"
             /\ \/ a.kind = "promote" /\ SiteAdmin(member[a.login]) /\ a.login \notin admins
                \/ a.kind = "demote" /\ ~SiteAdmin(member[a.login]) /\ a.login \in admins
    <3>1. a \in SiteAdmins(ReadNow)
      BY <1>2, <2>4 DEF SiteAdmins, ReadNow
    <3>. QED
      BY <3>1 DEF PlanNow, Compute
  <2>5. CASE /\ a.kind \in {"join", "leave"} /\ a.what \in Flags /\ Own(a.org) # {}
             /\ \/ /\ a.kind = "join" /\ Member(a.org, a.what, a.login)
                   /\ a.login \notin team[a.org][a.what]
                \/ /\ a.kind = "leave" /\ a.login \in team[a.org][a.what]
                   /\ ~Member(a.org, a.what, a.login) /\ ~RetiredNow(a.login) /\ a.login # AdminLogin
    <3>1. PICK g \in GroupsNow : a.org = g.slug /\ g \in Own(a.org)
      BY <2>5, <2>n
    <3>2. \/ /\ a = Act("join", g.slug, a.login, a.what)
             /\ a.login \in Desired(ReadNow, g, a.what) \ team[g.slug][a.what]
          \/ /\ a = Act("leave", g.slug, a.login, a.what)
             /\ a.login \in team[g.slug][a.what]
                            \ (Desired(ReadNow, g, a.what) \union retired \union {AdminLogin})
      BY <1>2, <2>5, <3>1, <1>o, <1>r
    <3>3. a \in Memberships(ReadNow, GroupsNow, retired)
      BY <2>5, <3>2 DEF Memberships
    <3>. QED
      BY <3>3 DEF PlanNow, Compute, retired
  <2>6. CASE /\ a.kind \in {"write", "unwrite"} /\ a.what = "none" /\ Own(a.org) # {}
             /\ \/ a.kind = "write" /\ BotOf(a.org, a.login) /\ a.login \notin writers[a.org]
                \/ /\ a.kind = "unwrite" /\ ~BotOf(a.org, a.login)
                   /\ a.login \in writers[a.org] \intersect Bots /\ ~RetiredNow(a.login)
    <3>1. PICK g \in GroupsNow : a.org = g.slug /\ g \in Own(a.org)
      BY <2>6, <2>n
    <3>2. \/ a = Act("write", g.slug, a.login, "none") /\ a.login \in BotsOf(g) \ writers[g.slug]
          \/ /\ a = Act("unwrite", g.slug, a.login, "none")
             /\ a.login \in (writers[g.slug] \intersect Bots) \ (BotsOf(g) \union retired)
      BY <1>2, <2>6, <3>1, <1>o, <1>r
    <3>3. a \in GroupWriters(GroupsNow, retired)
      BY <3>2 DEF GroupWriters
    <3>. QED
      BY <3>3 DEF PlanNow, Compute, retired
  <2>7. CASE /\ a.kind \in {"deactivate", "deleteTokens"} /\ a.org = "none" /\ a.what = "none"
             /\ a.login \in Ids /\ account[a.login] = "active"
             /\ ~(a.login \in People(member) /\ member[a.login].active)
    <3>1. a \in Departures(ReadNow)
      BY <1>2, <2>7 DEF Departures, ReadNow
    <3>. QED
      BY <3>1 DEF PlanNow, Compute
  <2>8. CASE /\ a.kind = "deliver" /\ a.what = "none" /\ Readable(a.org, a.login)
             /\ token[a.login] = "none"
    <3>1. PICK g \in Own(a.org) : \E p \in MatesOf(g) : a.login = Bot(p) /\ p \notin NotThere
      BY <2>8 DEF Readable
    <3>2. PICK p \in MatesOf(g) : a.login = Bot(p) /\ p \notin NotThere
      BY <3>1
    <3>3. a = Act("deliver", g.slug, Bot(p), "none") /\ g \in GroupsNow
      BY <1>2, <2>8, <3>2 DEF Own
    <3>4. a \in Deliveries(GroupsNow)
      BY <2>8, <3>2, <3>3 DEF Deliveries, NotThere
    <3>. QED
      BY <3>4 DEF PlanNow, Compute
  <2>9. CASE /\ a.kind = "expire" /\ a.org = "none" /\ a.what = "none"
             /\ a.login \in Ids /\ account[a.login] = "active" /\ token[a.login] = "old"
    <3>1. a \in AppTokens
      BY <1>2, <2>9 DEF AppTokens
    <3>. QED
      BY <3>1 DEF PlanNow, Compute
  <2>10. CASE /\ a.kind = "retire" /\ a.org = "none" /\ a.what = "none"
              /\ RetiredNow(a.login) /\ account[a.login] \notin {"none", "prohibited"}
    <3>1. PICK p \in DeadMatesNow : a.login = Bot(p)
      BY <2>10 DEF RetiredNow
    <3>2. a \in Retirements(DeadMatesNow)
      BY <1>2, <2>10, <3>1 DEF Retirements
    <3>. QED
      BY <3>2 DEF PlanNow, Compute
  <2>. QED
    BY <1>2, <2>1, <2>2, <2>3, <2>4, <2>5, <2>6, <2>7, <2>8, <2>9, <2>10, <2>b, <2>m DEF Wanted
<1>. QED
  BY <1>1, <1>2

\* The same after a step.
LEMMA PlanIsWhatIsWantedNext == MirrorTypes' => PlanIsWanted'
  BY PlanIsWhatIsWanted, PTL

-----------------------------------------------------------------------------
(* The invariant of a pass that nothing disturbs.                          *)

\* Only projects of the registry that are not there are counted missing.
SeenMissing == \A p \in Projects : seen[p] # "no" => p \in NotThere /\ p \in ProjectsOf(Registered)

\* What an action of the plan is for holds until it is performed.
Fits(a) ==
  /\ a.kind \in {"createBot", "shapeBot", "deliver", "write"} => BotOf(a.org, a.login)
  /\ a.kind = "unwrite" => ~BotOf(a.org, a.login)
  /\ a.kind = "join" => Member(a.org, a.what, a.login)
  /\ a.kind = "leave" => ~Member(a.org, a.what, a.login)
  /\ a.kind = "promote" => SiteAdmin(member[a.login])
  /\ a.kind = "demote" => ~SiteAdmin(member[a.login])
  /\ a.kind = "retire" => RetiredNow(a.login)

\* What was read is what is true now, and what is left of the plan is all that
\* is wanted.
Undisturbed ==
  /\ At("projects") => pass.member = member
  /\ At("registry") => /\ pass.member = member /\ pass.listed = Projects \ NotThere
                       /\ pass.override = OverridesOn(Projects \ NotThere)
  /\ At("gitea") => /\ pass.member = member /\ pass.override = OverridesOn(Projects \ NotThere)
                    /\ pass.groups = GroupsNow /\ pass.dead = DeadMatesNow /\ SeenMissing
  /\ At("apply") => SeenMissing /\ PlanNow \subseteq pass.plan /\ \A a \in pass.plan : Fits(a)
  /\ At("idle") => SeenMissing /\ PlanNow = {}
SettleInv == MirrorTypes /\ (clean => Undisturbed)

\* What a pass reads of Zerops does not change while it performs.
NowSame ==
  /\ NotThere' = NotThere /\ member' = member /\ (SeenMissing => SeenMissing')
  /\ GroupsNow' = GroupsNow /\ DeadMatesNow' = DeadMatesNow
  /\ \A s : Own(s)' = Own(s)
  /\ \A s, l : BotOf(s, l)' <=> BotOf(s, l)
  /\ \A s, f, l : Member(s, f, l)' <=> Member(s, f, l)
  /\ \A s, l : Readable(s, l)' <=> Readable(s, l)
  /\ \A l : RetiredNow(l)' <=> RetiredNow(l)

\* It stays as long as nobody signs in for the first time.
LEMMA NowKept ==
  ASSUME UNCHANGED <<zeropsVars, seen>>,
         \A i \in Ids : account'[i] = "none" <=> account[i] = "none"
  PROVE  NowSame
<1>1. /\ member' = member /\ override' = override /\ gone' = gone /\ misread' = misread
      /\ tags' = tags /\ seen' = seen
  BY DEF zeropsVars
<1>2. NotThere' = NotThere /\ Registered' = Registered
  BY <1>1 DEF NotThere, Registered
<1>3. SeenMissing => SeenMissing'
  BY <1>1, <1>2 DEF SeenMissing
<1>4. DeadNow' = DeadNow
  BY <1>1, <1>2 DEF DeadNow
<1>5. GroupsNow' = GroupsNow
  BY <1>2, <1>4 DEF GroupsNow
<1>6. DeadMatesNow' = DeadMatesNow
  BY <1>2, <1>4 DEF DeadMatesNow
<1>7. \A s : Own(s)' = Own(s)
  BY <1>5 DEF Own
<1>8. \A s, l : BotOf(s, l)' <=> BotOf(s, l)
  BY <1>7 DEF BotOf
<1>9. ReadNow' = ReadNow
  BY <1>1, <1>2 DEF ReadNow, OverridesOn
<1>10. \A g, f, l : l \in Desired(ReadNow, g, f)' <=> l \in Desired(ReadNow, g, f)
  BY <1>1, <1>9 DEF Desired, People
<1>11. \A s, f, l : Member(s, f, l)' <=> Member(s, f, l)
  BY <1>7, <1>10 DEF Member
<1>12. \A l : RetiredNow(l)' <=> RetiredNow(l)
  BY <1>6 DEF RetiredNow
<1>13. \A s, l : Readable(s, l)' <=> Readable(s, l)
  BY <1>2, <1>7 DEF Readable
<1>. QED
  BY <1>1, <1>2, <1>3, <1>5, <1>6, <1>7, <1>8, <1>11, <1>12, <1>13 DEF NowSame

\* A group's bots are nobody's else, are in its read team, and are not retired.
LEMMA BotsAre ==
  ASSUME tags \in TagLists
  PROVE  /\ \A s, l : BotOf(s, l) => l \in Bots /\ ~RetiredNow(l) /\ Member(s, "read", l)
         /\ \A s, l : Readable(s, l) => BotOf(s, l)
         /\ \A l : RetiredNow(l) => l \in Bots
<1>1. ASSUME NEW s, NEW l, BotOf(s, l)
      PROVE  l \in Bots /\ ~RetiredNow(l) /\ Member(s, "read", l)
  <2>1. PICK g \in GroupsNow : g \in Own(s) /\ l \in BotsOf(g)
    BY <1>1 DEF BotOf, Own
  <2>2. PICK p \in MatesOf(g) : l = Bot(p)
    BY <2>1 DEF BotsOf
  <2>3. p \in Projects /\ p \notin DeadNow
    BY GroupsAre, BotsTyped
  <2>4. ~RetiredNow(l)
    <3>. SUFFICES ASSUME NEW q \in DeadMatesNow, l = Bot(q) PROVE FALSE
      BY DEF RetiredNow
    <3>. QED
      BY <2>2, <2>3, GroupsAre, MirrorAssumption DEF DeadMatesNow
  <2>. QED
    BY <2>1, <2>2, <2>3, <2>4 DEF Bots, Member, Desired
<1>2. ASSUME NEW s, NEW l, Readable(s, l) PROVE BotOf(s, l)
  BY <1>2 DEF Readable, BotOf, BotsOf
<1>3. ASSUME NEW l, RetiredNow(l) PROVE l \in Bots
  BY <1>3, GroupsAre DEF RetiredNow, Bots
<1>. QED
  BY <1>1, <1>2, <1>3

\* What is wanted after an action was wanted before it, and the action is not.
WantedLess(a) == \A b : Wanted(b)' => Wanted(b) /\ b # a

\* Making a part of a group.
LEMMA MakeWantsLess ==
  ASSUME MirrorTypes, NEW a \in Due, Make(a)
  PROVE  NowSame /\ WantedLess(a)
<1>1. UNCHANGED <<zeropsVars, seen, accountVars, team, writers, requests>>
  BY DEF Make
<1>2. NowSame
  BY <1>1, NowKept DEF accountVars
<1>3. a.kind \in {"org", "team", "repo", "rule", "hook"} /\ Typed(a)
  BY DueIsPlanned DEF Make, Does, MirrorTypes
<1>4. /\ a.what \in made'[a.org]
      /\ \A s, part : part \notin made'[s] => part \notin made[s]
  BY <1>3 DEF Make, Typed, MirrorTypes, TypeOK
<1>5. WantedLess(a)
  BY <1>1, <1>2, <1>3, <1>4 DEF NowSame, WantedLess, Wanted, zeropsVars, accountVars
<1>. QED
  BY <1>2, <1>5

\* Merging, or closing, a recipe request.
LEMMA MergeWantsLess ==
  ASSUME NEW a \in Due, Merge(a)
  PROVE  NowSame /\ WantedLess(a)
<1>1. UNCHANGED <<zeropsVars, seen, accountVars, made, team, writers>>
  BY DEF Merge
<1>2. NowSame
  BY <1>1, NowKept DEF accountVars
<1>3. a.kind = "merge" /\ requests' = {r \in requests : ~(r.org = a.org /\ r.by = a.login)}
  BY DEF Merge, Does
<1>4. "merge" \notin {PartKind(part) : part \in Parts}
  BY DEF PartKind, Parts
<1>5. WantedLess(a)
  BY <1>1, <1>2, <1>3, <1>4 DEF NowSame, WantedLess, Wanted, zeropsVars, accountVars
<1>. QED
  BY <1>2, <1>5

\* Making a bot, or setting it right: nobody else's account changes.
LEMMA BotWantsLess ==
  ASSUME MirrorTypes, NEW a \in Due, Fits(a), CreateBot(a) \/ ShapeBot(a)
  PROVE  NowSame /\ WantedLess(a)
<1>1. UNCHANGED <<zeropsVars, seen, admins, token, groupVars>>
  BY DEF CreateBot, ShapeBot
<1>2. Typed(a) /\ a.kind \in {"createBot", "shapeBot"} /\ Possible(a) /\ a.login \in Bots /\ a.login \in Logins
  BY DueIsPlanned DEF CreateBot, ShapeBot, Does, MirrorTypes, Typed, Logins
<1>3. /\ account'[a.login] # "none" /\ (a.kind = "shapeBot" => a.login \in shaped')
      /\ \A l : l # a.login => account'[l] = account[l]
      /\ \A l : account'[l] = "none" => account[l] = "none"
      /\ a.kind = "createBot" => account[a.login] = "none"
      /\ a.kind = "shapeBot" => account' = account
      /\ \A l : l \in shaped => l \in shaped'
  <2>1. CASE CreateBot(a)
    <3>1. a.kind = "createBot" /\ account[a.login] = "none"
      BY <1>2, <2>1 DEF CreateBot, Does, Possible, Exists
    <3>2. account' = [account EXCEPT ![a.login] = "active"] /\ shaped' = shaped
      BY <2>1 DEF CreateBot
    <3>3. account'[a.login] = "active" /\ \A l : l # a.login => account'[l] = account[l]
      BY <1>2, <3>2 DEF MirrorTypes, TypeOK
    <3>. QED
      BY <3>1, <3>2, <3>3
  <2>2. CASE ShapeBot(a)
    <3>1. a.kind = "shapeBot" /\ account[a.login] # "none"
      BY <1>2, <2>2 DEF ShapeBot, Does, Possible, Exists
    <3>2. account' = account /\ shaped' = shaped \union {a.login}
      BY <2>2 DEF ShapeBot
    <3>. QED
      BY <3>1, <3>2
  <2>. QED
    BY <2>1, <2>2
<1>4. \A i \in Ids : i # a.login
  BY <1>2, MirrorAssumption
<1>5. NowSame
  BY <1>1, <1>3, <1>4, NowKept
<1>6. BotOf(a.org, a.login) /\ ~RetiredNow(a.login)
  BY <1>2, BotsAre DEF Fits, MirrorTypes, TypeOK
<1>7. {"createBot", "shapeBot"} \intersect {PartKind(part) : part \in Parts} = {}
  BY DEF PartKind, Parts
<1>8. People(member) \subseteq Ids
  BY DEF People
<1>9. WantedLess(a)
  BY <1>1, <1>2, <1>3, <1>4, <1>5, <1>6, <1>7, <1>8 DEF NowSame, WantedLess, Wanted, zeropsVars, groupVars
<1>. QED
  BY <1>5, <1>9

\* Making somebody a site admin, or no longer one: nobody is wanted both.
LEMMA SiteAdminWantsLess ==
  ASSUME NEW a \in Due, Fits(a), SetSiteAdmin(a)
  PROVE  NowSame /\ WantedLess(a)
<1>1. UNCHANGED <<zeropsVars, seen, account, shaped, token, groupVars>>
  BY DEF SetSiteAdmin
<1>2. NowSame
  BY <1>1, NowKept
<1>3. \/ a.kind = "promote" /\ admins' = admins \union {a.login} /\ SiteAdmin(member[a.login])
      \/ a.kind = "demote" /\ admins' = admins \ {a.login} /\ ~SiteAdmin(member[a.login])
  BY DEF SetSiteAdmin, Does, Fits
<1>4. {"promote", "demote"} \intersect {PartKind(part) : part \in Parts} = {}
  BY DEF PartKind, Parts
<1>5. WantedLess(a)
  BY <1>1, <1>2, <1>3, <1>4 DEF NowSame, WantedLess, Wanted, zeropsVars, groupVars
<1>. QED
  BY <1>2, <1>5

\* Joining or leaving a team: nobody is wanted in a team and out of it.
LEMMA MembershipWantsLess ==
  ASSUME MirrorTypes, NEW a \in Due, Fits(a), SetMembership(a)
  PROVE  NowSame /\ WantedLess(a)
<1>1. UNCHANGED <<zeropsVars, seen, accountVars, made, writers, requests>>
  BY DEF SetMembership
<1>2. NowSame
  BY <1>1, NowKept DEF accountVars
<1>3. Typed(a) /\ a.kind \in {"join", "leave"} /\ a.org \in Slugs /\ a.what \in Flags
  BY DueIsPlanned DEF SetMembership, Does, MirrorTypes, Typed
<1>4. /\ \A s, f, l : <<s, f, l>> # <<a.org, a.what, a.login>> /\ f \in Flags /\ s \in Slugs
                       => (l \in team'[s][f] <=> l \in team[s][f])
      /\ a.login \in team'[a.org][a.what] <=> a.kind = "join"
  BY <1>3 DEF SetMembership, MirrorTypes, TypeOK
<1>5. \/ a.kind = "join" /\ Member(a.org, a.what, a.login)
      \/ a.kind = "leave" /\ ~Member(a.org, a.what, a.login)
  BY <1>3 DEF Fits
<1>6. {"join", "leave"} \intersect {PartKind(part) : part \in Parts} = {}
  BY DEF PartKind, Parts
<1>7. \A s : Own(s) # {} => s \in Slugs
  BY GroupsAre DEF Own, GroupTyped, MirrorTypes, TypeOK
<1>8. \A s, f, l : Member(s, f, l) => s \in Slugs
  BY <1>7 DEF Member
<1>9. WantedLess(a)
  BY <1>1, <1>2, <1>3, <1>4, <1>5, <1>6, <1>7, <1>8 DEF NowSame, WantedLess, Wanted, zeropsVars, accountVars
<1>. QED
  BY <1>2, <1>9

\* Adding or removing a collaborator: no bot is wanted as both.
LEMMA WriterWantsLess ==
  ASSUME MirrorTypes, NEW a \in Due, Fits(a), SetWriter(a)
  PROVE  NowSame /\ WantedLess(a)
<1>1. UNCHANGED <<zeropsVars, seen, accountVars, made, team, requests>>
  BY DEF SetWriter
<1>2. NowSame
  BY <1>1, NowKept DEF accountVars
<1>3. Typed(a) /\ a.kind \in {"write", "unwrite"} /\ a.org \in Slugs
  BY DueIsPlanned DEF SetWriter, Does, MirrorTypes, Typed
<1>4. /\ \A s, l : <<s, l>> # <<a.org, a.login>> => (l \in writers'[s] <=> l \in writers[s])
      /\ a.login \in writers'[a.org] <=> a.kind = "write"
  BY <1>3 DEF SetWriter, MirrorTypes, TypeOK
<1>5. \/ a.kind = "write" /\ BotOf(a.org, a.login)
      \/ a.kind = "unwrite" /\ ~BotOf(a.org, a.login)
  BY <1>3 DEF Fits
<1>6. {"write", "unwrite"} \intersect {PartKind(part) : part \in Parts} = {}
  BY DEF PartKind, Parts
<1>7. WantedLess(a)
  BY <1>1, <1>2, <1>3, <1>4, <1>5, <1>6 DEF NowSame, WantedLess, Wanted, zeropsVars, accountVars
<1>. QED
  BY <1>2, <1>7

\* The least of a set of numbers.
LEMMA Least ==
  ASSUME NEW T, T \subseteq Nat, T # {}
  PROVE  \E x \in T : \A y \in T : x <= y
<1>1. IsWellFoundedOn(OpToRel(<, Nat), Nat)
  BY NatLessThanWellFounded
<1>2. \E x \in T : \A y \in T : <<y, x>> \notin OpToRel(<, Nat)
  BY <1>1, WFMin
<1>3. \A x, y \in Nat : <<y, x>> \notin OpToRel(<, Nat) => x <= y
  BY DEF OpToRel
<1>. QED
  BY <1>2, <1>3

\* What is performed comes first in the order among what is left.
LEMMA DueIsFirst ==
  ASSUME MirrorTypes, NEW a \in Due, NEW b \in pass.plan
  PROVE  Step[a.kind] <= Step[b.kind]
<1>1. \A c \in pass.plan : c.kind \in Range(Order)
  BY TypedIsAction DEF MirrorTypes
<1>2. \A kind \in Range(Order) : Step[kind] \in DOMAIN Order /\ Order[Step[kind]] = kind
  BY DEF Step, Range
<1>3. DOMAIN Order \subseteq Nat
  BY DEF Order
<1> DEFINE T == {Step[c.kind] : c \in pass.plan}
<1>4. T \subseteq Nat /\ T # {}
  BY <1>1, <1>2, <1>3
<1>5. \E x \in T : \A y \in T : x <= y
  BY <1>4, Least
<1>6. \E c \in pass.plan : \A d \in pass.plan : Step[c.kind] <= Step[d.kind]
  BY <1>5
<1>. QED
  BY <1>6 DEF Due

\* In the order, an account goes off before its tokens go.
LEMMA OffComesFirst == ~(Step["deleteTokens"] <= Step["deactivate"])
<1>1. \A kind \in Range(Order) : Step[kind] \in DOMAIN Order /\ Order[Step[kind]] = kind
  BY DEF Step, Range
<1>2. Order[Step["deleteTokens"]] = "deleteTokens" /\ Order[Step["deactivate"]] = "deactivate"
      /\ Step["deleteTokens"] \in 1..19 /\ Step["deactivate"] \in 1..19
  BY <1>1, KindsAre DEF Order
<1>3. Step["deleteTokens"] = 16 /\ Step["deactivate"] = 15
  BY <1>2 DEF Order
<1>. QED
  BY <1>3

\* Switching an account off.
LEMMA DeactivateWantsLess ==
  ASSUME MirrorTypes, NEW a \in Due, Deactivate(a)
  PROVE  NowSame /\ WantedLess(a)
<1>1. UNCHANGED <<zeropsVars, seen, shaped, admins, token, groupVars>>
  BY DEF Deactivate
<1>2. Typed(a) /\ a.kind = "deactivate" /\ Exists(a.login) /\ a.login \in Ids /\ a.login \in Logins
  BY DueIsPlanned DEF Deactivate, Does, Possible, MirrorTypes, Typed, Logins
<1>3. account' = [account EXCEPT ![a.login] = "off"]
  BY DEF Deactivate
<1>4. account'[a.login] = "off" /\ \A l : l # a.login => account'[l] = account[l]
  BY <1>2, <1>3 DEF MirrorTypes, TypeOK
<1>5. NowSame
  BY <1>1, <1>2, <1>4, NowKept DEF Exists
<1>6. "deactivate" \notin {PartKind(part) : part \in Parts}
  BY DEF PartKind, Parts
<1>7. /\ \A s, l : BotOf(s, l) => l # a.login
      /\ \A l : RetiredNow(l) => l # a.login
  BY <1>2, BotsAre, MirrorAssumption DEF MirrorTypes, TypeOK
<1>8. WantedLess(a)
  BY <1>1, <1>2, <1>4, <1>5, <1>6, <1>7 DEF NowSame, WantedLess, Wanted, Exists, zeropsVars, groupVars
<1>. QED
  BY <1>5, <1>8

\* Deleting tokens: a departed person's account is off by then, so that no
\* deletion is wanted again.
LEMMA DeleteTokensWantsLess ==
  ASSUME MirrorTypes, PlanNow \subseteq pass.plan, NEW a \in Due, DeleteTokens(a)
  PROVE  NowSame /\ WantedLess(a)
<1>1. UNCHANGED <<zeropsVars, seen, account, shaped, admins, groupVars>>
  BY DEF DeleteTokens
<1>2. Typed(a) /\ a.kind \in {"deleteTokens", "expire"} /\ a.login \in Ids /\ a.login \in Logins
  BY DueIsPlanned DEF DeleteTokens, Does, MirrorTypes, Typed, Logins
<1>3. token'[a.login] = "none" /\ \A l : l # a.login => token'[l] = token[l]
  BY <1>2 DEF DeleteTokens, MirrorTypes, TypeOK
<1>4. NowSame
  BY <1>1, NowKept
<1>5. {"deleteTokens", "expire"} \intersect {PartKind(part) : part \in Parts} = {}
  BY DEF PartKind, Parts
<1>6. ASSUME a.kind = "deleteTokens", Wanted(a)
      PROVE  FALSE
  <2> DEFINE b == Act("deactivate", "none", a.login, "none")
  <2>1. Wanted(b) /\ b = Act(b.kind, b.org, b.login, b.what)
    BY <1>5, <1>6 DEF Wanted, Act
  <2>2. b \in pass.plan
    BY <2>1, PlanIsWhatIsWanted DEF PlanIsWanted
  <2>3. Step["deleteTokens"] <= Step["deactivate"]
    BY <2>2, <1>6, DueIsFirst DEF Act
  <2>. QED
    BY <2>3, OffComesFirst
<1>7. /\ \A s, l : BotOf(s, l) => l # a.login
      /\ \A s, l : Readable(s, l) => l # a.login
  BY <1>2, BotsAre, MirrorAssumption DEF MirrorTypes, TypeOK
<1>8. WantedLess(a)
  <2>1. \A b : Wanted(b)' => Wanted(b)
    BY <1>1, <1>2, <1>3, <1>4, <1>7 DEF NowSame, Wanted, zeropsVars, groupVars
  <2>2. ~Wanted(a)'
    BY <2>1, <1>2, <1>3, <1>5, <1>6 DEF Wanted
  <2>. QED
    BY <2>1, <2>2 DEF WantedLess
<1>. QED
  BY <1>4, <1>8

\* Delivering a token: the bot is put into a team it is wanted in.
LEMMA DeliverWantsLess ==
  ASSUME MirrorTypes, NEW a \in Due, Fits(a), Deliver(a)
  PROVE  NowSame /\ WantedLess(a)
<1>1. UNCHANGED <<zeropsVars, seen, admins, made, writers, requests>>
  BY DEF Deliver
<1>2. Typed(a) /\ a.kind = "deliver" /\ a.org \in Slugs /\ a.login \in Bots /\ a.login \in Logins
  BY DueIsPlanned DEF Deliver, Does, MirrorTypes, Typed, Logins
<1>3. BotOf(a.org, a.login) /\ ~RetiredNow(a.login) /\ Member(a.org, "read", a.login)
  BY <1>2, BotsAre DEF Fits, MirrorTypes, TypeOK
<1>4. account'[a.login] = "active" /\ \A l : l # a.login => account'[l] = account[l]
  BY <1>2 DEF Deliver, MirrorTypes, TypeOK
<1>5. token'[a.login] = "fresh" /\ \A l : l # a.login => token'[l] = token[l]
  BY <1>2 DEF Deliver, MirrorTypes, TypeOK
<1>6. a.login \in shaped' /\ \A l : l \in shaped => l \in shaped'
  BY DEF Deliver
<1>7. /\ \A s \in Slugs : \A f \in Flags : \A l :
           l \in team'[s][f] <=> l \in team[s][f] \/ <<s, f, l>> = <<a.org, "read", a.login>>
  BY <1>2 DEF Deliver, MirrorTypes, TypeOK, Flags
<1>8. \A i \in Ids : i # a.login
  BY <1>2, MirrorAssumption
<1>9. NowSame
  BY <1>1, <1>4, <1>8, NowKept
<1>10. "deliver" \notin {PartKind(part) : part \in Parts}
  BY DEF PartKind, Parts
<1>11. /\ \A s : Own(s) # {} => s \in Slugs
       /\ \A s, f, l : Member(s, f, l) => s \in Slugs
  BY GroupsAre DEF Own, Member, GroupTyped, MirrorTypes, TypeOK
<1>12. People(member) \subseteq Ids
  BY DEF People
<1>13. WantedLess(a)
  BY <1>1, <1>2, <1>3, <1>4, <1>5, <1>6, <1>7, <1>8, <1>9, <1>10, <1>11, <1>12
     DEF NowSame, WantedLess, Wanted, zeropsVars
<1>. QED
  BY <1>9, <1>13

\* Retiring a bot: no group wants it.
LEMMA RetireWantsLess ==
  ASSUME MirrorTypes, NEW a \in Due, Fits(a), Retire(a)
  PROVE  NowSame /\ WantedLess(a)
<1>1. UNCHANGED <<zeropsVars, seen, shaped, admins, groupVars>>
  BY DEF Retire
<1>2. Typed(a) /\ a.kind = "retire" /\ a.login \in Bots /\ a.login \in Logins /\ Exists(a.login)
  BY DueIsPlanned DEF Retire, Does, Possible, MirrorTypes, Typed, Logins
<1>3. RetiredNow(a.login) /\ \A s, l : BotOf(s, l) => l # a.login
  BY <1>2, BotsAre DEF Fits, MirrorTypes, TypeOK
<1>4. account'[a.login] = "prohibited" /\ \A l : l # a.login => account'[l] = account[l]
  BY <1>2 DEF Retire, MirrorTypes, TypeOK
<1>5. token'[a.login] = "none" /\ \A l : l # a.login => token'[l] = token[l]
  BY <1>2 DEF Retire, MirrorTypes, TypeOK
<1>6. \A i \in Ids : i # a.login
  BY <1>2, MirrorAssumption
<1>7. NowSame
  BY <1>1, <1>4, <1>6, NowKept
<1>8. "retire" \notin {PartKind(part) : part \in Parts}
  BY DEF PartKind, Parts
<1>9. \A s, l : Readable(s, l) => l # a.login
  BY <1>3, BotsAre DEF MirrorTypes, TypeOK
<1>10. People(member) \subseteq Ids
  BY DEF People
<1>11. WantedLess(a)
  BY <1>1, <1>2, <1>3, <1>4, <1>5, <1>6, <1>7, <1>8, <1>9, <1>10
     DEF NowSame, WantedLess, Wanted, Exists, zeropsVars, groupVars
<1>. QED
  BY <1>7, <1>11

\* Whatever changes or fails beside the pass disturbs it.
LEMMA DisturbedKeeps ==
  ASSUME SettleInv, [Next]_vars, clean' = FALSE
  PROVE  SettleInv'
  BY NextTyped DEF SettleInv

\* Nothing but the pass and the history changes: what is true now stays.
LEMMA PlanKept ==
  ASSUME MirrorTypes, MirrorTypes', UNCHANGED <<zeropsVars, accountVars, groupVars, seen>>
  PROVE  /\ NowSame /\ PlanNow' = PlanNow
         /\ OverridesOn(Projects \ NotThere)' = OverridesOn(Projects \ NotThere)
         /\ \A a : Fits(a)' <=> Fits(a)
<1>1. NowSame
  BY NowKept DEF accountVars
<1>2. \A a : Wanted(a)' <=> Wanted(a)
  BY <1>1 DEF NowSame, Wanted, zeropsVars, accountVars, groupVars
<1>3. \A a : a \in PlanNow' <=> a \in PlanNow
  BY <1>2, PlanIsWhatIsWanted, PlanIsWhatIsWantedNext DEF PlanIsWanted
<1>4. \A a \in PlanNow : a \in PlanNow'
  BY <1>3
<1>5. PlanNow' \subseteq PlanNow /\ PlanNow \subseteq PlanNow'
  BY <1>3
<1>6. PlanNow' = PlanNow
  BY <1>5
<1>7. OverridesOn(Projects \ NotThere)' = OverridesOn(Projects \ NotThere)
  BY DEF OverridesOn, NotThere, zeropsVars
<1>8. \A a : Fits(a)' <=> Fits(a)
  BY <1>1 DEF NowSame, Fits
<1>. QED
  BY <1>1, <1>6, <1>7, <1>8

\* Performing an action: what was wanted besides it still is.
LEMMA PerformKeeps ==
  ASSUME SettleInv, MirrorTypes', NEW a \in Due, clean' = clean, Done(a), NowSame, WantedLess(a)
  PROVE  SettleInv'
<1>. SUFFICES ASSUME clean' PROVE Undisturbed'
  BY DEF SettleInv
<1>1. MirrorTypes /\ Undisturbed /\ At("apply")
  BY DueIsPlanned DEF SettleInv
<1>2. pass'.at = "apply" /\ pass'.plan = pass.plan \ {a}
  BY <1>1, DoneTyped DEF At
<1>3. SeenMissing /\ PlanNow \subseteq pass.plan /\ \A b \in pass.plan : Fits(b)
  BY <1>1 DEF Undisturbed
<1>4. \A b : Fits(b)' <=> Fits(b)
  BY DEF NowSame, Fits
<1>5. \A b : b \in PlanNow' => b \in PlanNow /\ b # a
  BY <1>1, PlanIsWhatIsWanted, PlanIsWhatIsWantedNext DEF PlanIsWanted, WantedLess
<1>6. SeenMissing' /\ PlanNow' \subseteq pass'.plan /\ \A b \in pass'.plan : Fits(b)'
  BY <1>2, <1>3, <1>4, <1>5 DEF NowSame
<1>. QED
  BY <1>2, <1>6 DEF Undisturbed, At

\* Every action Gitea takes; one that it refuses disturbs the pass.
LEMMA PerformsKeepSettled ==
  ASSUME SettleInv, MirrorTypes', Performs, clean
  PROVE  SettleInv'
<1>1. PICK a \in Due : \/ Make(a) \/ Merge(a) \/ CreateBot(a) \/ ShapeBot(a) \/ SetSiteAdmin(a)
                       \/ SetMembership(a) \/ SetWriter(a) \/ Deactivate(a) \/ DeleteTokens(a)
                       \/ Deliver(a) \/ Retire(a) \/ Refused(a)
  BY DEF Performs
<1>2. MirrorTypes /\ PlanNow \subseteq pass.plan /\ Fits(a)
  BY DueIsPlanned DEF SettleInv, Undisturbed
<1>3. CASE Refused(a)
  BY <1>3 DEF Refused, SettleInv
<1>4. CASE ~Refused(a)
  <2>1. Done(a) /\ clean' = clean
    BY <1>1, <1>4 DEF Make, Merge, CreateBot, ShapeBot, SetSiteAdmin, SetMembership, SetWriter,
       Deactivate, DeleteTokens, Deliver, Retire, Does
  <2>2. NowSame /\ WantedLess(a)
    BY <1>1, <1>2, <1>4, MakeWantsLess, MergeWantsLess, BotWantsLess, SiteAdminWantsLess,
       MembershipWantsLess, WriterWantsLess, DeactivateWantsLess, DeleteTokensWantsLess,
       DeliverWantsLess, RetireWantsLess
  <2>. QED
    BY <2>1, <2>2, PerformKeeps
<1>. QED
  BY <1>3, <1>4

\* The reads of the organisation and of the projects, and the end of a pass.
LEMMA ReadingKeepsSettled ==
  ASSUME SettleInv, MirrorTypes', StartPass \/ ReadProjects \/ EndPass
  PROVE  SettleInv'
<1>. SUFFICES ASSUME clean' PROVE Undisturbed'
  BY DEF SettleInv
<1>1. /\ NowSame /\ PlanNow' = PlanNow
      /\ OverridesOn(Projects \ NotThere)' = OverridesOn(Projects \ NotThere)
  BY PlanKept DEF SettleInv, StartPass, ReadProjects, EndPass
<1>2. CASE StartPass
  <2>1. pass'.at = "projects" /\ pass'.member = member
    BY <1>2, FieldsAre DEF StartPass, IsPass
  <2>. QED
    BY <1>1, <2>1 DEF Undisturbed, At, NowSame
<1>3. CASE ReadProjects
  <2>1. /\ pass'.at = "registry" /\ pass'.listed = Projects \ NotThere
        /\ pass'.override = OverridesOn(Projects \ NotThere) /\ pass'.member = pass.member
    BY <1>3, FieldsAre DEF ReadProjects, SettleInv, MirrorTypes, IsPass
  <2>2. pass.member = member
    BY <1>3 DEF ReadProjects, SettleInv, Undisturbed
  <2>. QED
    BY <1>1, <2>1, <2>2 DEF Undisturbed, At, NowSame
<1>4. CASE EndPass
  <2>1. pass'.at = "idle" /\ SeenMissing /\ PlanNow = {}
    BY <1>4, FieldsAre DEF EndPass, SettleInv, Undisturbed
  <2>. QED
    BY <1>1, <2>1 DEF Undisturbed, At, NowSame
<1>. QED
  BY <1>2, <1>3, <1>4

\* Reading the registry counts missing exactly what is missing now.
LEMMA ReadRegistryKeepsSettled ==
  ASSUME SettleInv, MirrorTypes', ReadRegistry
  PROVE  SettleInv'
<1>. SUFFICES ASSUME clean' PROVE Undisturbed'
  BY DEF SettleInv
<1> DEFINE dead == {p \in ProjectsOf(Registered) : seen'[p] = "ago"}
           groups == Excluded(Registered, dead)
           mates == {p \in dead : \E g \in Registered : p \in MatesOf(g)}
<1>0. clean /\ UNCHANGED <<zeropsVars, accountVars, groupVars>>
  BY DEF ReadRegistry
<1>1. /\ pass.member = member /\ pass.listed = Projects \ NotThere
      /\ pass.override = OverridesOn(Projects \ NotThere)
  BY <1>0 DEF ReadRegistry, SettleInv, Undisturbed
<1>2. pass' = [pass EXCEPT !.at = "gitea", !.groups = groups, !.listed = {}, !.dead = mates]
  BY DEF ReadRegistry
<1>3. \A p \in Projects : seen'[p] = IF p \in ProjectsOf(Registered) /\ p \in NotThere
                                     THEN (IF seen[p] = "no" THEN "just" ELSE seen[p]) ELSE "no"
  BY <1>1 DEF ReadRegistry, Sighted
<1>4. NotThere' = NotThere /\ Registered' = Registered /\ member' = member
      /\ OverridesOn(Projects \ NotThere)' = OverridesOn(Projects \ NotThere)
  BY <1>0 DEF NotThere, Registered, OverridesOn, zeropsVars
<1>5. ProjectsOf(Registered) \subseteq Projects
  BY RegistryAssumption DEF ProjectsOf, Registered, SettleInv, MirrorTypes, TypeOK
<1>6. DeadNow' = dead
  <2>1. \A p \in ProjectsOf(Registered) : seen'[p] = "ago" => p \in NotThere
    BY <1>3, <1>5
  <2>. QED
    BY <1>4, <2>1 DEF DeadNow
<1>7. GroupsNow' = groups /\ DeadMatesNow' = mates
  BY <1>4, <1>6 DEF GroupsNow, DeadMatesNow
<1>8. SeenMissing'
  BY <1>3, <1>4 DEF SeenMissing
<1>. HIDE DEF groups, mates
<1>9. /\ pass'.at = "gitea" /\ pass'.member = pass.member /\ pass'.override = pass.override
      /\ pass'.groups = groups /\ pass'.dead = mates
  BY <1>2, FieldsAre DEF SettleInv, MirrorTypes, IsPass
<1>. QED
  BY <1>1, <1>4, <1>7, <1>8, <1>9 DEF Undisturbed, At

\* The plan is what is wanted now, unless something is held back.
LEMMA PlanKeepsSettled ==
  ASSUME SettleInv, MirrorTypes', Plan
  PROVE  SettleInv'
<1>. SUFFICES ASSUME clean' PROVE Undisturbed'
  BY DEF SettleInv
<1> DEFINE plan == Compute([member |-> pass.member, override |-> pass.override], pass.groups, pass.dead)
<1>1. /\ clean /\ WithinCap(plan) = plan
      /\ pass' = [IdlePass EXCEPT !.at = "apply", !.plan = WithinCap(plan), !.before = Snapshot]
  BY DEF Plan
<1>2. plan = PlanNow /\ SeenMissing
  BY <1>1 DEF Plan, SettleInv, Undisturbed, PlanNow, ReadNow
<1>. HIDE DEF plan
<1>3. pass'.at = "apply" /\ pass'.plan = PlanNow
  BY <1>1, <1>2, FieldsAre DEF IsPass
<1>4. NowSame /\ PlanNow' = PlanNow /\ \A a : Fits(a)' <=> Fits(a)
  BY PlanKept DEF SettleInv, Plan
<1>5. ASSUME NEW a \in PlanNow PROVE Fits(a)
  <2>1. Wanted(a)
    BY PlanIsWhatIsWanted DEF PlanIsWanted, SettleInv
  <2>2. \A part \in Parts : PartKind(part) \in {"org", "team", "repo", "rule", "hook"}
    BY DEF PartKind, Parts
  <2>3. \A s, l : Readable(s, l) => BotOf(s, l)
    BY BotsAre DEF SettleInv, MirrorTypes, TypeOK
  <2>4. /\ a.kind \in {"createBot", "shapeBot", "deliver", "write"} => BotOf(a.org, a.login)
        /\ a.kind = "unwrite" => ~BotOf(a.org, a.login)
        /\ a.kind = "join" => Member(a.org, a.what, a.login)
        /\ a.kind = "leave" => ~Member(a.org, a.what, a.login)
        /\ a.kind = "retire" => RetiredNow(a.login)
    BY <2>1, <2>2, <2>3 DEF Wanted
  <2>5. /\ a.kind = "promote" => SiteAdmin(member[a.login])
        /\ a.kind = "demote" => ~SiteAdmin(member[a.login])
    BY <2>1, <2>2 DEF Wanted
  <2>. QED
    BY <2>4, <2>5 DEF Fits
<1>. QED
  BY <1>2, <1>3, <1>4, <1>5 DEF Undisturbed, At, NowSame

\* A step that changes nothing.
LEMMA StutterKeepsSettled ==
  ASSUME SettleInv, MirrorTypes', UNCHANGED vars
  PROVE  SettleInv'
<1>1. NowSame /\ PlanNow' = PlanNow /\ (\A a : Fits(a)' <=> Fits(a))
      /\ OverridesOn(Projects \ NotThere)' = OverridesOn(Projects \ NotThere)
  BY PlanKept DEF SettleInv, vars
<1>. QED
  BY <1>1 DEF SettleInv, Undisturbed, At, NowSame, vars

\* Nothing is claimed of the time before the first pass.
LEMMA SettleInitially == Init => SettleInv
  BY InitTyped DEF Init, SettleInv

\* Outside the pass everything that happens counts as a disturbance.
LEMMA WorldDisturbs ==
  ASSUME World \/ Restart \/ Unreadable \/ \E a \in Due : CallFails(a)
  PROVE  clean' = FALSE
  BY DEF World, Restart, Unreadable, CallFails, Event, ChangeRow, ChangeOverride, Retag, DeleteProject,
         Misread, ReadAgain, SightingAges, SignIn, MintAppToken, AppTokenAges, EditTeam, EditWriters,
         EditRule, Propose, Rework

\* Every step keeps the invariant.
LEMMA SettleNext == SettleInv /\ [Next]_vars => SettleInv'
<1>. SUFFICES ASSUME SettleInv, [Next]_vars PROVE SettleInv'
  OBVIOUS
<1>t. MirrorTypes'
  BY NextTyped DEF SettleInv
<1>1. CASE UNCHANGED vars
  BY <1>t, <1>1, StutterKeepsSettled
<1>2. CASE World \/ Restart \/ Unreadable \/ \E a \in Due : CallFails(a)
  BY <1>2, WorldDisturbs, DisturbedKeeps
<1>3. CASE Performs
  <2>1. CASE clean
    BY <1>t, <1>3, <2>1, PerformsKeepSettled
  <2>2. CASE ~clean
    <3>1. clean' = clean \/ clean' = FALSE
      BY <1>3 DEF Performs, Make, Merge, CreateBot, ShapeBot, SetSiteAdmin, SetMembership, SetWriter,
         Deactivate, DeleteTokens, Deliver, Retire, Refused
    <3>. QED
      BY <1>t, <2>2, <3>1 DEF SettleInv
  <2>. QED
    BY <2>1, <2>2
<1>4. CASE ReadsAndPlans \/ EndPass
  BY <1>t, <1>4, ReadingKeepsSettled, ReadRegistryKeepsSettled, PlanKeepsSettled DEF ReadsAndPlans
<1>. QED
  BY <1>1, <1>2, <1>3, <1>4 DEF Next, PassStep

\* The invariant of the undisturbed pass holds in every reachable state.
THEOREM UndisturbedInvariant == Spec => []SettleInv
  BY SettleInitially, SettleNext, PTL DEF Spec

\* The next pass plans what a pass that read everything now would.
LEMMA NextPlanIsPlanNow ==
  ASSUME tags \in TagLists
  PROVE  NextPlan = PlanNow
<1> DEFINE dead == {p \in ProjectsOf(Registered) : Sighted(p, Projects \ NotThere) = "ago"}
<1>1. ProjectsOf(Registered) \subseteq Projects
  BY RegistryAssumption DEF ProjectsOf, Registered
<1>2. dead = DeadNow
  BY <1>1 DEF DeadNow, Sighted
<1>3. NextPlan = Compute(ReadNow, Excluded(Registered, dead), {p \in dead : \E g \in Registered : p \in MatesOf(g)})
  BY DEF NextPlan, ReadNow
<1>. HIDE DEF dead
<1>. QED
  BY <1>2, <1>3 DEF PlanNow, GroupsNow, DeadMatesNow

\* A pass that nothing disturbs leaves nothing to do for the next: no two rules
\* of the plan undo each other, and no write is repeated (planner.plan).
THEOREM UndisturbedPassSettles == Spec => []OnePassSettles
<1>1. SettleInv => OnePassSettles
  BY NextPlanIsPlanNow DEF SettleInv, Undisturbed, OnePassSettles, MirrorTypes, TypeOK
<1>. QED
  BY <1>1, UndisturbedInvariant, PTL

\* When nothing is wanted, a group that is there has in Gitea what the roles give.
LEMMA NothingWantedMirrors ==
  ASSUME MirrorTypes, MisreadIsRecent, SeenMissing, PlanNow = {},
         NEW g \in Registered, ~(ProjectsOf({g}) \subseteq gone)
  PROVE  Mirrored(g)
<1> DEFINE retired == {Bot(p) : p \in {q \in Projects : account[Bot(q)] = "prohibited" \/ seen[q] = "ago"}}
           own == OverridesOn(Projects \ NotThere)
           h == [g EXCEPT !.projects = {p \in @ : p.id \notin DeadNow}]
           s == g.slug
<1>t. TypeOK /\ tags \in TagLists
  BY DEF MirrorTypes, TypeOK
<1>g. {"slug", "projects"} \subseteq DOMAIN g /\ g.slug \in Slugs /\ \A p \in g.projects : p.id \in Projects
  BY <1>t, RegistryAssumption DEF Registered
<1>1. \A p \in g.projects : p.id \in DeadNow <=> seen[p.id] = "ago"
  <2>1. ASSUME NEW p \in g.projects PROVE p.id \in ProjectsOf(Registered)
    BY DEF ProjectsOf
  <2>2. \A p \in Projects : seen[p] = "ago" => p \in NotThere
    BY DEF SeenMissing
  <2>. QED
    BY <1>g, <2>1, <2>2 DEF DeadNow
<1>2. h \in GroupsNow
  <2>1. DeadNow \subseteq gone
    BY DEF DeadNow, NotThere, MisreadIsRecent
  <2>2. ~(ProjectsOf({g}) \subseteq DeadNow)
    BY <2>1
  <2>. QED
    BY <2>2 DEF GroupsNow, Excluded
<1>3. h = [g EXCEPT !.projects = {p \in @ : seen[p.id] # "ago"}]
  <2>1. {p \in g.projects : p.id \notin DeadNow} = {p \in g.projects : seen[p.id] # "ago"}
    BY <1>1
  <2>. QED
    BY <2>1
<1>4. h.slug = s /\ h \in Own(s) /\ BotsOf(h) \subseteq Bots
  <2>1. h.slug = s
    BY <1>g
  <2>. QED
    BY <2>1, <1>2, <1>t, GroupsAre, BotsTyped DEF Own
<1>. HIDE DEF h
<1>5. /\ \A l : BotOf(s, l) <=> l \in BotsOf(h)
      /\ \A f, l : Member(s, f, l) <=> l \in Desired(ReadNow, h, f)
  BY <1>2, <1>4, <1>t, GroupsAre DEF Own, BotOf, Member
<1>6. \A kind, org, l, what : ~Wanted(Act(kind, org, l, what))
  <2>1. \A kind, org, l, what :
          LET a == Act(kind, org, l, what) IN a = Act(a.kind, a.org, a.login, a.what)
    BY DEF Act
  <2>. QED
    BY <2>1, PlanIsWhatIsWanted DEF PlanIsWanted
<1>7. \A l : RetiredNow(l) => l \in retired
  BY GroupsAre, <1>t DEF RetiredNow, DeadMatesNow, DeadNow
<1>8. made[s] = Parts
  <2>1. ASSUME NEW part \in Parts, part \notin made[s] PROVE FALSE
    <3>1. Wanted(Act(PartKind(part), s, "none", part))
      BY <1>4, <2>1 DEF Wanted, Act
    <3>. QED
      BY <3>1, <1>6
  <2>2. made[s] \subseteq Parts
    BY <1>t, <1>g DEF TypeOK
  <2>. QED
    BY <2>1, <2>2
<1>9. ASSUME NEW f \in Flags
      PROVE  team[s][f] \ retired = {i \in {j \in People(member) : account[j] # "none"} : f \in TeamsFor(member[i], own[i], h)}
                                    \union (IF f = "read" THEN BotsOf(h) \ retired ELSE {})
  <2> DEFINE known == {j \in People(member) : account[j] # "none"}
             people == {i \in known : f \in TeamsFor(member[i], own[i], h)}
             bots == IF f = "read" THEN BotsOf(h) ELSE {}
  <2>1. Desired(ReadNow, h, f) = people \union bots
    BY DEF Desired, ReadNow
  <2>2. ASSUME NEW l \in people \union bots, l \notin team[s][f] PROVE FALSE
    <3>1. Wanted(Act("join", s, l, f))
      BY <1>5, <2>1, <2>2 DEF Wanted, Act
    <3>. QED
      BY <3>1, <1>6
  <2>3. ASSUME NEW l \in team[s][f], l \notin people \union bots, l \notin retired PROVE FALSE
    <3>1. l # AdminLogin
      BY <1>t, <1>g, <2>3, MirrorAssumption DEF TypeOK
    <3>2. Wanted(Act("leave", s, l, f))
      BY <1>4, <1>5, <1>7, <2>1, <2>3, <3>1 DEF Wanted, Act
    <3>. QED
      BY <3>2, <1>6
  <2>4. people \intersect retired = {}
    <3>1. people \subseteq Ids /\ retired \subseteq Bots
      BY DEF People, Bots
    <3>. QED
      BY <3>1, MirrorAssumption
  <2>. HIDE DEF people, retired
  <2>5. team[s][f] \ retired = people \union (bots \ retired)
    BY <2>2, <2>3, <2>4
  <2>. QED
    BY <2>5 DEF people
<1>10. (writers[s] \ retired) \intersect Bots = BotsOf(h) \ retired
  <2>1. ASSUME NEW b \in BotsOf(h), b \notin writers[s] PROVE FALSE
    <3>1. Wanted(Act("write", s, b, "none"))
      BY <1>5, <2>1 DEF Wanted, Act
    <3>. QED
      BY <3>1, <1>6
  <2>2. ASSUME NEW b \in writers[s] \intersect Bots, b \notin BotsOf(h), b \notin retired PROVE FALSE
    <3>1. Wanted(Act("unwrite", s, b, "none"))
      BY <1>4, <1>5, <1>7, <2>2 DEF Wanted, Act
    <3>. QED
      BY <3>1, <1>6
  <2>. HIDE DEF retired
  <2>. QED
    BY <1>4, <2>1, <2>2
<1>. QED
  BY <1>3, <1>4, <1>8, <1>9, <1>10 DEF Mirrored

\* The whole of MirrorsRoles follows: the groups by the lemma before, accounts,
\* site admins and retirements because no such action is wanted.
LEMMA SettledMirrors ==
  ASSUME SettleInv, RetireInv
  PROVE  MirrorsRoles
<1>. SUFFICES ASSUME At("idle"), clean
              PROVE  /\ \A g \in Registered : ProjectsOf({g}) \subseteq gone \/ Mirrored(g)
                     /\ \A i \in Departed : account[i] # "active"
                     /\ \A i \in People(member) : Exists(i) => (i \in admins <=> SiteAdmin(member[i]))
                     /\ \A g \in Registered, p \in gone :
                          p \in MatesOf(g) /\ seen[p] = "ago" => account[Bot(p)] # "active"
  BY DEF MirrorsRoles
<1>1. MirrorTypes /\ MisreadIsRecent /\ SeenMissing /\ PlanNow = {}
  BY DEF SettleInv, Undisturbed, RetireInv
<1>2. \A kind, org, l, what : ~Wanted(Act(kind, org, l, what))
  <2>1. \A kind, org, l, what :
          LET a == Act(kind, org, l, what) IN a = Act(a.kind, a.org, a.login, a.what)
    BY DEF Act
  <2>. QED
    BY <1>1, <2>1, PlanIsWhatIsWanted DEF PlanIsWanted
<1>3. \A g \in Registered : ProjectsOf({g}) \subseteq gone \/ Mirrored(g)
  BY <1>1, NothingWantedMirrors
<1>4. ASSUME NEW i \in Departed, account[i] = "active" PROVE FALSE
  <2>1. Wanted(Act("deactivate", "none", i, "none"))
    BY <1>4 DEF Wanted, Act, Departed
  <2>. QED
    BY <2>1, <1>2
<1>5. ASSUME NEW i \in People(member), Exists(i)
      PROVE  i \in admins <=> SiteAdmin(member[i])
  <2>1. ASSUME SiteAdmin(member[i]), i \notin admins PROVE FALSE
    <3>1. Wanted(Act("promote", "none", i, "none"))
      BY <1>5, <2>1 DEF Wanted, Act, Exists
    <3>. QED
      BY <3>1, <1>2
  <2>2. ASSUME ~SiteAdmin(member[i]), i \in admins PROVE FALSE
    <3>1. Wanted(Act("demote", "none", i, "none"))
      BY <1>5, <2>2 DEF Wanted, Act, Exists
    <3>. QED
      BY <3>1, <1>2
  <2>. QED
    BY <2>1, <2>2 DEF SiteAdmin
<1>6. ASSUME NEW g \in Registered, NEW p \in gone, p \in MatesOf(g), seen[p] = "ago", account[Bot(p)] = "active"
      PROVE  FALSE
  <2>1. p \in ProjectsOf(Registered)
    BY <1>6 DEF MatesOf, OfKind, ProjectsOf
  <2>2. RetiredNow(Bot(p))
    BY <1>6, <2>1 DEF RetiredNow, DeadMatesNow, DeadNow, NotThere
  <2>3. Wanted(Act("retire", "none", Bot(p), "none"))
    BY <1>6, <2>2 DEF Wanted, Act
  <2>. QED
    BY <2>3, <1>2
<1>. QED
  BY <1>3, <1>4, <1>5, <1>6

\* After a pass that nothing disturbed and that held nothing back, Gitea grants
\* what the roles give as things are now, for any organisation (Mirror.Pass).
THEOREM UndisturbedPassMirrors == Spec => []MirrorsRoles
  BY SettledMirrors, UndisturbedInvariant, RetireInvariant, PTL
=============================================================================
