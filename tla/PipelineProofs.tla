---------------------------- MODULE PipelineProofs ----------------------------
(***************************************************************************)
(* internal/pipeline: that a mixed stage never goes back, that a restart   *)
(* imports nothing, and that a pass imports before it deploys.             *)
(***************************************************************************)
EXTENDS MixedStage, RecipeDelta, WellFoundedInduction, TLAPS

-----------------------------------------------------------------------------
(***************************************************************************)
(* The branch of a mixed stage never goes back, for any number of sources, *)
(* commits and goroutines.  The lease says what the branch was when it was *)
(* cloned, so what matters is kept from the clone to the push: a merge is  *)
(* of heads at least as new as those of the lease it was made on.          *)
(***************************************************************************)
\* The heads of one commit are no newer than another one's.
NoNewer(c, d) == \A s \in Sources : c.of[s] <= d.of[s]
\* The heads of a commit are heads the sources have had.
Had(c) == \A s \in Sources : c.of[s] <= heads[s]

LeaseOlder ==
  \A u \in Mergers :
    mergers[u].at = "push" =>
      /\ Had(mergers[u].head)
      /\ mergers[u].lease # NoCommit => NoNewer(mergers[u].lease, mergers[u].head)

StageInv ==
  /\ StageTypeOK
  /\ branch # NoCommit => Had(branch)
  /\ LeaseOlder

-----------------------------------------------------------------------------
\* What a goroutine holds, by where it is.
LEMMA MergerTypes ==
  ASSUME StageTypeOK, NEW u \in Mergers
  PROVE  /\ mergers[u].at # "idle" => mergers[u] \in Merging
         /\ mergers[u].at = "start" =>
              mergers[u] \in [at : {"start"}, job : Maybe,
                              head : {NoCommit}, lease : {NoCommit}]
         /\ mergers[u].at \in {"push", "answer"} => mergers[u].head \in Commit
PROOF
  BY DEF StageTypeOK, Idle, Merging

LEMMA NoCommitApart == NoCommit \notin Commit
PROOF
  BY DEF NoCommit, Commit

\* A merge is of the heads of this moment.
LEMMA MergesTypes ==
  ASSUME StageTypeOK, NEW c \in Merges
  PROVE  c \in Commit /\ c.of = heads
PROOF
<1>1. PICK t \in 0..MaxTime : c = MergedAt(t)
  BY MixedAssumption DEF Merges, OwnHead
<1>. QED
  BY <1>1 DEF MergedAt, Commit, StageTypeOK

LEMMA DropTypes ==
  ASSUME StageTypeOK, NEW u \in Mergers, Drop(u)
  PROVE  mergers' \in [Mergers -> Merging \union {Idle}]
PROOF
  BY DEF Drop, StageTypeOK

-----------------------------------------------------------------------------
LEMMA StageStart == StageInit => StageInv
PROOF
<1>. SUFFICES ASSUME StageInit PROVE StageInv
  OBVIOUS
<1>1. heads \in Heads
  BY MixedAssumption DEF StageInit, Heads
<1>2. \A u \in Mergers : mergers[u] = Idle
  BY DEF StageInit
<1>3. StageTypeOK
  BY <1>1 DEF StageInit, StageTypeOK
<1>4. LeaseOlder
  BY <1>2 DEF LeaseOlder, Idle
<1>. QED
  BY <1>3, <1>4 DEF StageInit, StageInv

LEMMA SourceMovesStep ==
  ASSUME StageInv, NEW s \in Sources, SourceMoves(s)
  PROVE  StageInv'
PROOF
<1>1. \A t \in Sources : heads[t] \in Nat /\ heads'[t] \in Nat /\ heads[t] <= heads'[t]
  BY DEF StageInv, StageTypeOK, Heads, SourceMoves
<1>2. StageTypeOK'
  <2>1. heads' \in Heads
    BY MixedAssumption DEF StageInv, StageTypeOK, Heads, SourceMoves
  <2>2. contained' \in BOOLEAN /\ clash' \in BOOLEAN
    BY DEF SourceMoves
  <2>. QED
    BY <2>1, <2>2 DEF StageInv, StageTypeOK, SourceMoves
<1>3. ASSUME NEW c \in Commit, Had(c) PROVE Had(c)'
  <2>1. \A t \in Sources : c.of[t] \in Nat
    BY DEF Commit, Heads
  <2>. QED
    BY <1>1, <1>3, <2>1 DEF Had
<1>4. (branch # NoCommit => Had(branch))'
  BY <1>3 DEF StageInv, StageTypeOK, SourceMoves, Had
<1>5. LeaseOlder'
  <2>1. \A u \in Mergers : mergers[u].at = "push" => mergers[u].head \in Commit
    BY MergerTypes DEF StageInv
  <2>. QED
    BY <1>3, <2>1 DEF StageInv, LeaseOlder, SourceMoves, NoNewer, Had
<1>. QED
  BY <1>2, <1>4, <1>5 DEF StageInv

LEMMA BeginStep ==
  ASSUME StageInv, NEW u \in Mergers, NEW job \in Maybe, Begin(u, job), jobs' \in SUBSET Commit
  PROVE  StageInv'
PROOF
<1>1. [at |-> "start", job |-> job, head |-> NoCommit, lease |-> NoCommit] \in Merging
  BY DEF Merging
<1>2. StageTypeOK'
  BY <1>1 DEF StageInv, StageTypeOK, Begin
<1>. QED
  BY <1>2 DEF StageInv, StageTypeOK, Begin, LeaseOlder, Had, NoNewer

LEMMA MergeStep ==
  ASSUME StageInv, NEW u \in Mergers, Merge(u)
  PROVE  StageInv'
PROOF
<1>t. StageTypeOK
  BY DEF StageInv
<1>1. CASE Drop(u)
  BY <1>1, DropTypes, Merge(u) DEF Merge, StageInv, StageTypeOK, Drop, Idle, LeaseOlder, Had, NoNewer
<1>2. ASSUME NEW head \in Merges,
             mergers' = [mergers EXCEPT
               ![u].at = IF head = branch THEN "answer" ELSE "push",
               ![u].head = head,
               ![u].lease = IF head = branch THEN NoCommit ELSE branch]
      PROVE  StageInv'
  <2>1. head \in Commit /\ head.of = heads
    BY <1>t, MergesTypes
  <2>. DEFINE at == IF head = branch THEN "answer" ELSE "push"
              lease == IF head = branch THEN NoCommit ELSE branch
              next == [mergers[u] EXCEPT !.at = at, !.head = head, !.lease = lease]
  <2>2. mergers[u] \in [at : {"start"}, job : Maybe, head : {NoCommit}, lease : {NoCommit}]
    BY <1>t, MergerTypes DEF Merge
  <2>3. branch \in Maybe /\ NoCommit \in Maybe
    BY <1>t DEF StageTypeOK, Maybe
  <2>4. mergers' = [mergers EXCEPT ![u] = next]
    BY <1>2
  <2>5. next.at = at /\ next.head = head /\ next.lease = lease
    BY <2>2
  <2>6. next \in Merging
    <3>1. CASE head = branch
      BY <2>1, <2>2, <3>1 DEF Merging
    <3>2. CASE head # branch
      BY <2>1, <2>2, <2>3, <3>2 DEF Merging
    <3>. QED
      BY <3>1, <3>2
  <2>7. StageTypeOK'
    BY <1>t, <2>4, <2>6 DEF Merge, StageTypeOK
  <2>8. \A s \in Sources : heads[s] <= heads[s]
    BY <1>t DEF StageTypeOK, Heads
  <2>9. Had(head) /\ (branch # NoCommit => NoNewer(branch, head))
    BY <2>1, <2>8 DEF Had, NoNewer, StageInv
  <2>10. LeaseOlder'
    BY <1>t, <2>4, <2>5, <2>9 DEF LeaseOlder, StageInv, StageTypeOK, Merge, Had, NoNewer
  <2>. QED
    BY <2>7, <2>10 DEF StageInv, Merge, Had
<1>. QED
  BY <1>1, <1>2 DEF Merge

\* The lease is what the push compares the branch with.
LEMMA PushStep ==
  ASSUME StageInv, NEW u \in Mergers, Push(u)
  PROVE  /\ StageInv'
         /\ branch # NoCommit => branch' # NoCommit /\ NoNewer(branch, branch')
PROOF
<1>t. StageTypeOK
  BY DEF StageInv
<1>n. branch # NoCommit => NoNewer(branch, branch)
  BY <1>t DEF StageTypeOK, NoNewer, Commit, Heads
<1>1. CASE Drop(u) /\ UNCHANGED branch
  BY <1>1, <1>n, DropTypes DEF Push, StageInv, StageTypeOK, Drop, Idle, LeaseOlder, Had, NoNewer
<1>2. CASE branch = mergers[u].lease /\ branch' = mergers[u].head
           /\ mergers' = [mergers EXCEPT ![u].at = "answer", ![u].lease = NoCommit]
  <2>1. mergers[u].head \in Commit
    BY <1>t, MergerTypes DEF Push
  <2>2. mergers[u] \in Merging
    BY <1>t, MergerTypes DEF Push
  <2>3. [mergers[u] EXCEPT !.at = "answer", !.lease = NoCommit] \in Merging
    BY <2>1, <2>2 DEF Merging
  <2>4. StageTypeOK'
    BY <1>t, <1>2, <2>1, <2>3 DEF Push, StageTypeOK
  <2>5. [mergers[u] EXCEPT !.at = "answer", !.lease = NoCommit].at = "answer"
    BY <2>2 DEF Merging
  <2>6. LeaseOlder'
    BY <1>t, <1>2, <2>5 DEF LeaseOlder, StageInv, StageTypeOK, Push, Had, NoNewer
  <2>7. Had(mergers[u].head) /\ (branch # NoCommit => NoNewer(branch, mergers[u].head))
    BY <1>2 DEF StageInv, LeaseOlder, Push
  <2>8. Had(branch)'
    BY <1>2, <2>7 DEF Had, Push
  <2>9. branch' # NoCommit /\ (branch # NoCommit => NoNewer(branch, branch'))
    BY <1>2, <2>1, <2>7, NoCommitApart
  <2>. QED
    BY <2>4, <2>6, <2>8, <2>9 DEF StageInv
<1>. QED
  BY <1>1, <1>2 DEF Push

LEMMA AnswerStep ==
  ASSUME StageInv, NEW u \in Mergers, (u = Pass /\ PassAnswers) \/ GrantAnswers(u)
  PROVE  StageInv'
PROOF
<1>t. StageTypeOK
  BY DEF StageInv
<1>1. mergers[u].head \in Commit
  BY <1>t, MergerTypes DEF PassAnswers, GrantAnswers
<1>2. mergers' \in [Mergers -> Merging \union {Idle}]
  BY <1>t, DropTypes DEF PassAnswers, GrantAnswers
<1>3. StageTypeOK'
  BY <1>t, <1>1, <1>2 DEF StageTypeOK, PassAnswers, GrantAnswers
<1>. QED
  BY <1>t, <1>3
     DEF StageInv, StageTypeOK, PassAnswers, GrantAnswers, Drop, Idle, LeaseOlder, Had, NoNewer

\* Every step keeps the invariant, and none moves the branch back.
LEMMA StageStep ==
  ASSUME StageInv, [StageNext]_stageVars
  PROVE  /\ StageInv'
         /\ branch # NoCommit => branch' # NoCommit /\ NoNewer(branch, branch')
PROOF
<1>p. Pass \in Mergers /\ \A u \in Grants : u \in Mergers
  BY DEF Mergers
<1>n. UNCHANGED branch =>
        (branch # NoCommit => branch' # NoCommit /\ NoNewer(branch, branch'))
  BY DEF StageInv, StageTypeOK, NoNewer, Commit, Heads
<1>1. ASSUME NEW u \in Mergers, Push(u)
      PROVE  StageInv' /\ (branch # NoCommit => branch' # NoCommit /\ NoNewer(branch, branch'))
  BY <1>1, PushStep
<1>2. ASSUME NEW u \in Mergers, Merge(u) PROVE StageInv' /\ UNCHANGED branch
  BY <1>2, MergeStep DEF Merge
<1>3. CASE PassBegins
  <2>1. Begin(Pass, NoCommit) /\ jobs' \in SUBSET Commit /\ NoCommit \in Maybe
    BY <1>3 DEF PassBegins, StageInv, StageTypeOK, Maybe
  <2>. QED
    BY <1>p, <1>n, <2>1, BeginStep DEF Begin
<1>4. ASSUME NEW u \in Grants, GrantBegins(u) PROVE StageInv' /\ UNCHANGED branch
  <2>1. PICK job \in jobs : Begin(u, job) /\ jobs' = jobs \ {job}
    BY <1>4 DEF GrantBegins
  <2>2. job \in Maybe /\ jobs' \in SUBSET Commit
    BY <2>1 DEF StageInv, StageTypeOK, Maybe
  <2>. QED
    BY <1>p, <2>1, <2>2, BeginStep DEF Begin
<1>5. CASE PassAnswers
  BY <1>5, <1>p, <1>n, AnswerStep DEF PassAnswers
<1>6. ASSUME NEW u \in Grants, GrantAnswers(u) PROVE StageInv' /\ UNCHANGED branch
  BY <1>6, <1>p, AnswerStep DEF GrantAnswers
<1>7. ASSUME NEW s \in Sources, SourceMoves(s) PROVE StageInv' /\ UNCHANGED branch
  BY <1>7, SourceMovesStep DEF SourceMoves
<1>8. CASE UNCHANGED stageVars
  BY <1>8, <1>n DEF stageVars, StageInv, StageTypeOK, LeaseOlder, Had, NoNewer
<1>. QED
  BY <1>p, <1>n, <1>1, <1>2, <1>3, <1>4, <1>5, <1>6, <1>7, <1>8
     DEF StageNext, PassNext, GrantNext

\* The types hold, and so does what a lease promises.
THEOREM MixedTypes == StageSpec => []StageTypeOK
PROOF
<1>1. StageInv /\ [StageNext]_stageVars => StageInv'
  BY StageStep
<1>2. StageInv => StageTypeOK
  BY DEF StageInv
<1>. QED
  BY StageStart, <1>1, <1>2, PTL DEF StageSpec

\* A merge of older heads never replaces one of newer heads.
THEOREM StageNeverGoesBack == StageSpec => BranchNeverBack
PROOF
<1>1. StageInv /\ [StageNext]_stageVars => StageInv'
  BY StageStep
<1>2. StageInv /\ [StageNext]_stageVars =>
        [branch # NoCommit =>
           branch' # NoCommit /\ \A s \in Sources : branch'.of[s] >= branch.of[s]]_stageVars
  <2>. SUFFICES ASSUME StageInv, [StageNext]_stageVars, branch # NoCommit
                PROVE  branch' # NoCommit
                       /\ \A s \in Sources : branch'.of[s] >= branch.of[s]
    OBVIOUS
  <2>1. StageInv' /\ branch' # NoCommit /\ NoNewer(branch, branch')
    BY StageStep
  <2>2. branch \in Commit /\ branch' \in Commit
    BY <2>1 DEF StageInv, StageTypeOK
  <2>3. \A s \in Sources : branch.of[s] \in Nat /\ branch'.of[s] \in Nat
    BY <2>2 DEF Commit, Heads
  <2>. QED
    BY <2>1, <2>3 DEF NoNewer
<1>. QED
  BY StageStart, <1>1, <1>2, PTL DEF StageSpec, BranchNeverBack

-----------------------------------------------------------------------------
(***************************************************************************)
(* A restart imports nothing, for any number of environments, passes,      *)
(* moves of main and failures, and whatever the files say.                 *)
(***************************************************************************)
Fields == DOMAIN NoPass
IsPass(p) == p = [x \in Fields |-> p[x]]

\* Passes and what was last taken are functions, a pass is a record.
Types ==
  /\ main \in Mains
  /\ pass = [w \in Passes |-> pass[w]]
  /\ \A w \in Passes : IsPass(pass[w])
  /\ seen = [t \in Tiers |-> seen[t]]
  /\ moved \subseteq Tiers

\* Of a tier that has not changed, the broker knows nothing or what main holds.
SeenIsMain == \A t \in Tiers \ moved : seen[t] \in {Unseen, main.recipe[t]}

\* A pass is about to take what main held, and holds unless the tier has changed.
HeldOnce(t, sha) == \E m \in Mains : sha = m.recipe[t]
ShaIsMain ==
  \A w \in Passes : pass[w].at = "take" =>
    /\ pass[w].tier \in Tiers /\ HeldOnce(pass[w].tier, pass[w].sha)
    /\ pass[w].tier \notin moved => pass[w].sha = main.recipe[pass[w].tier]

\* Whoever looks at services, to import what is missing, is at a tier that has.
OnlyMoved == \A w \in Passes : pass[w].at \in {"services", "import"} => pass[w].tier \in moved

DeltaInv == Types /\ SeenIsMain /\ ShaIsMain /\ OnlyMoved

-----------------------------------------------------------------------------
(* What the updates of a pass make of it.                                  *)

\* The fields of a pass.
LEMMA FieldsAre ==
  Fields = {"at", "file", "recipes", "reading", "tiers", "tier", "sha", "envs", "missing",
            "changed", "met", "targets", "calm", "steady"}
BY DEF Fields, NoPass

\* An idle pass is a pass.
LEMMA NoPassIsPass == IsPass(NoPass) /\ NoPass.at = "idle"
BY DEF IsPass, NoPass, Fields

\* Going on with the next tier, and with the next environment.
LEMMA NextTierIs ==
  ASSUME NEW p, IsPass(p)
  PROVE  IsPass(NextTier(p)) /\ NextTier(p).at = "tiers"
BY FieldsAre DEF IsPass, NextTier

LEMMA AdvanceIs ==
  ASSUME NEW p, IsPass(p)
  PROVE  /\ IsPass(Advance(p))
         /\ Advance(p).at \in {"tiers", "services"}
         /\ Advance(p).at = "services" => Advance(p).tier = p.tier
BY FieldsAre, NextTierIs DEF IsPass, Advance

\* A step of one pass leaves the others where they are.
LEMMA StepMoves ==
  ASSUME Types, NEW w \in Passes, NEW to, IsPass(to), Step(w, to)
  PROVE  /\ pass' = [v \in Passes |-> pass'[v]]
         /\ \A v \in Passes : IsPass(pass'[v])
         /\ pass'[w] = to
         /\ \A v \in Passes \ {w} : /\ pass'[v].at = pass[v].at
                                    /\ pass'[v].tier = pass[v].tier
                                    /\ pass'[v].sha = pass[v].sha
<1> DEFINE D == Disturbed(w)
<1>1. /\ D = [v \in Passes |-> D[v]]
      /\ pass' = [D EXCEPT ![w] = to]
  BY DEF Disturbed, Step
<1>2. ASSUME NEW v \in Passes
      PROVE  IsPass(D[v]) /\ D[v].at = pass[v].at /\ D[v].tier = pass[v].tier /\ D[v].sha = pass[v].sha
  <2>1. IsPass(pass[v])
    BY DEF Types
  <2>2. D[v] = pass[v] \/ D[v] = [pass[v] EXCEPT !.calm = FALSE]
    BY DEF Disturbed
  <2>3. QED
    BY <2>1, <2>2, FieldsAre DEF IsPass
<1> HIDE DEF D
<1>3. QED
  BY <1>1, <1>2

\* A step of one pass that takes nothing preserves the invariant when what the
\* pass comes to does.
LEMMA StepKeeps ==
  ASSUME DeltaInv, NEW w \in Passes, NEW to, IsPass(to), Step(w, to), UNCHANGED <<main, moved, seen>>,
         to.at = "take" => /\ to.tier \in Tiers /\ HeldOnce(to.tier, to.sha)
                           /\ to.tier \notin moved => to.sha = main.recipe[to.tier],
         to.at \in {"services", "import"} => to.tier \in moved
  PROVE  DeltaInv'
<1>1. Types'
  BY StepMoves DEF DeltaInv, Types
<1>2. SeenIsMain'
  BY DEF DeltaInv, SeenIsMain
<1>3. ShaIsMain'
  BY StepMoves DEF DeltaInv, ShaIsMain
<1>4. OnlyMoved'
  BY StepMoves DEF DeltaInv, OnlyMoved
<1>5. QED
  BY <1>1, <1>2, <1>3, <1>4 DEF DeltaInv

-----------------------------------------------------------------------------
(* Each action preserves the invariant.                                    *)

\* The plan, the deploys and the sha of a tier that cannot be read.
LEMMA PlanKeeps ==
  ASSUME DeltaInv, NEW w \in Passes, NEW t \in Tiers,
         \/ ReadFile(w) \/ ReadRecipe(w, t) \/ ShaFails(w, t)
         \/ ToDeploys(w) \/ CatchUp(w) \/ Done(w)
  PROVE  DeltaInv'
<1> DEFINE p == pass[w]
<1>1. IsPass(p)
  BY DEF DeltaInv, Types
<1>2. UNCHANGED <<main, moved, seen>>
  BY DEF ReadFile, ReadRecipe, ShaFails, ToDeploys, CatchUp, Done, outside
<1>3. ASSUME NEW to, Step(w, to), IsPass(to), to.at \in {"idle", "plan", "tiers", "deploy"}
      PROVE  DeltaInv'
  BY <1>2, <1>3, StepKeeps
<1>4. CASE ReadFile(w)
  <2>1. PICK file, tiers, calm :
          \/ Step(w, NoPass)
          \/ Step(w, [NoPass EXCEPT !.at = "plan", !.file = file, !.reading = tiers, !.calm = calm])
    BY <1>4 DEF ReadFile
  <2>2. LET to == [NoPass EXCEPT !.at = "plan", !.file = file, !.reading = tiers, !.calm = calm]
        IN IsPass(to) /\ to.at = "plan"
    BY FieldsAre, NoPassIsPass DEF IsPass
  <2>3. QED
    BY <1>3, <2>1, <2>2, NoPassIsPass
<1>5. CASE ReadRecipe(w, t)
  <2>1. PICK left, recipes, tiers, at :
          /\ Step(w, [p EXCEPT !.reading = left, !.recipes = recipes, !.tiers = tiers, !.at = at])
          /\ at \in {"tiers", "plan"}
    BY <1>5 DEF ReadRecipe
  <2>2. LET to == [p EXCEPT !.reading = left, !.recipes = recipes, !.tiers = tiers, !.at = at]
        IN IsPass(to) /\ to.at = at
    BY <1>1, FieldsAre DEF IsPass
  <2>3. QED
    BY <1>3, <2>1, <2>2
<1>6. CASE ShaFails(w, t)
  <2>1. LET to == [p EXCEPT !.tiers = @ \ {t}, !.calm = FALSE, !.steady = FALSE]
        IN Step(w, to) /\ IsPass(to) /\ to.at = "tiers"
    BY <1>1, <1>6, FieldsAre DEF IsPass, ShaFails
  <2>2. QED
    BY <1>3, <2>1
<1>7. CASE ToDeploys(w)
  <2>1. LET to == [p EXCEPT !.at = "deploy", !.envs = DOMAIN p.file.environments]
        IN Step(w, to) /\ IsPass(to) /\ to.at = "deploy"
    BY <1>1, <1>7, FieldsAre DEF IsPass, ToDeploys
  <2>2. QED
    BY <1>3, <2>1
<1>8. CASE CatchUp(w)
  <2>1. PICK envs, targets :
          p.at = "deploy" /\ Step(w, [p EXCEPT !.envs = envs, !.targets = targets])
    BY <1>8 DEF CatchUp
  <2>2. LET to == [p EXCEPT !.envs = envs, !.targets = targets]
        IN IsPass(to) /\ to.at = "deploy"
    BY <1>1, <2>1, FieldsAre DEF IsPass
  <2>3. QED
    BY <1>3, <2>1, <2>2
<1>9. CASE Done(w)
  BY <1>3, <1>9, NoPassIsPass DEF Done
<1>10. QED
  BY <1>4, <1>5, <1>6, <1>7, <1>8, <1>9

\* The sha is main's.
LEMMA ReadShaKeeps ==
  ASSUME DeltaInv, NEW w \in Passes, NEW t \in Tiers, ReadSha(w, t)
  PROVE  DeltaInv'
<1> DEFINE to == [pass[w] EXCEPT !.at = "take", !.tier = t, !.tiers = @ \ {t}, !.sha = main.recipe[t]]
<1>1. IsPass(pass[w])
  BY DEF DeltaInv, Types
<1>2. IsPass(to) /\ to.at = "take" /\ to.tier = t /\ to.sha = main.recipe[t]
  BY <1>1, FieldsAre DEF IsPass
<1>3. Step(w, to) /\ UNCHANGED <<main, moved, seen>>
  BY DEF ReadSha, outside
<1>4. HeldOnce(t, main.recipe[t])
  BY DEF DeltaInv, Types, HeldOnce
<1> HIDE DEF to
<1>5. QED
  BY <1>2, <1>3, <1>4, StepKeeps

\* What is taken as seen is main's for a tier that did not change; such a tier
\* is not reconciled, as what was seen of it is main's as well.
LEMMA TakeKeeps ==
  ASSUME DeltaInv, NEW w \in Passes, Take(w)
  PROVE  DeltaInv'
<1> DEFINE p == pass[w]
           met == IF seen[p.tier] = Unseen THEN p.met ELSE p.met \union {p.tier}
           known == [p EXCEPT !.met = met]
           to == IF seen[p.tier] \in {Unseen, p.sha} THEN NextTier(known) ELSE Reconcile(known)
<1>1. IsPass(p)
  BY DEF DeltaInv, Types
<1>2. /\ p.at = "take"
      /\ seen' = [seen EXCEPT ![p.tier] = p.sha]
      /\ UNCHANGED <<main, moved>>
      /\ Step(w, to)
  BY DEF Take, Taken, outside
<1>3. /\ p.tier \in Tiers
      /\ p.tier \notin moved => p.sha = main.recipe[p.tier] /\ seen[p.tier] \in {Unseen, p.sha}
  BY <1>2 DEF DeltaInv, ShaIsMain, SeenIsMain
<1>4. IsPass(known) /\ known.tier = p.tier
  BY <1>1, FieldsAre DEF IsPass
<1> HIDE DEF known
<1>5. /\ IsPass(Reconcile(known))
      /\ Reconcile(known).at = "services"
      /\ Reconcile(known).tier = p.tier
  BY <1>4, FieldsAre DEF IsPass, Reconcile
<1>6. IsPass(NextTier(known)) /\ NextTier(known).at = "tiers"
  BY <1>4, NextTierIs
<1>7. /\ IsPass(to)
      /\ to.at \in {"tiers", "services"}
      /\ to.at = "services" => to.tier \in moved
  BY <1>3, <1>5, <1>6
<1> HIDE DEF to
<1>8. Types'
  <2>1. seen' = [t \in Tiers |-> seen'[t]]
    BY <1>2 DEF DeltaInv, Types
  <2>2. QED
    BY <1>2, <1>7, <2>1, StepMoves DEF DeltaInv, Types
<1>9. SeenIsMain'
  BY <1>2, <1>3 DEF DeltaInv, Types, SeenIsMain
<1>10. ShaIsMain'
  BY <1>2, <1>7, StepMoves DEF DeltaInv, ShaIsMain
<1>11. OnlyMoved'
  BY <1>2, <1>7, StepMoves DEF DeltaInv, OnlyMoved
<1>12. QED
  BY <1>8, <1>9, <1>10, <1>11 DEF DeltaInv

\* A pass at a tier's environments stays at that tier.
LEMMA ImportKeeps ==
  ASSUME DeltaInv, NEW w \in Passes, ReadServices(w) \/ Import(w) \/ ReadFails(w)
  PROVE  DeltaInv'
<1> DEFINE p == pass[w]
<1>1. IsPass(p) /\ UNCHANGED <<main, moved, seen>>
  BY DEF DeltaInv, Types, ReadServices, Import, ReadFails, outside
<1>2. p.at \in {"services", "import"} /\ p.tier \in moved
  BY DEF ReadServices, Import, ReadFails, DeltaInv, OnlyMoved
<1>3. ASSUME NEW to, Step(w, to), IsPass(to), to.at \in {"tiers", "services", "import"},
             to.at # "tiers" => to.tier = p.tier
      PROVE  DeltaInv'
  BY <1>1, <1>2, <1>3, StepKeeps
<1>4. Step(w, Advance(p)) => DeltaInv'
  BY <1>1, <1>3, AdvanceIs
<1>5. CASE ReadServices(w)
  <2>1. PICK missing :
          \/ Step(w, Advance(p))
          \/ Step(w, [p EXCEPT !.missing = missing, !.at = "import"])
    BY <1>5 DEF ReadServices
  <2>2. LET to == [p EXCEPT !.missing = missing, !.at = "import"]
        IN IsPass(to) /\ to.at = "import" /\ to.tier = p.tier
    BY <1>1, FieldsAre DEF IsPass
  <2>3. QED
    BY <1>3, <1>4, <2>1, <2>2
<1>6. CASE Import(w)
  BY <1>4, <1>6 DEF Import
<1>7. CASE ReadFails(w)
  <2> DEFINE to == [Advance(p) EXCEPT !.calm = FALSE, !.steady = FALSE]
  <2>1. Step(w, to)
    BY <1>7 DEF ReadFails
  <2>2. IsPass(to) /\ to.at = Advance(p).at /\ to.tier = Advance(p).tier
    BY <1>1, AdvanceIs, FieldsAre DEF IsPass
  <2> HIDE DEF to
  <2>3. QED
    BY <1>1, <1>3, <2>1, <2>2, AdvanceIs
<1>8. QED
  BY <1>5, <1>6, <1>7

\* Main moves: what changes is among the tiers that moved.
LEMMA MoveKeeps ==
  ASSUME DeltaInv, MoveMain
  PROVE  DeltaInv'
<1>1. \A t \in Tiers \ moved' : t \notin moved /\ main'.recipe[t] = main.recipe[t]
  BY DEF MoveMain
<1>2. main' \in Mains /\ moved \subseteq moved' /\ moved' \subseteq Tiers /\ seen' = seen
  BY DEF MoveMain, DeltaInv, Types
<1>3. ASSUME NEW w \in Passes
      PROVE  /\ IsPass(pass'[w])
             /\ pass'[w].at = pass[w].at /\ pass'[w].tier = pass[w].tier /\ pass'[w].sha = pass[w].sha
  <2>1. IsPass(pass[w])
    BY DEF DeltaInv, Types
  <2>2. PICK calm, steady : pass'[w] = [pass[w] EXCEPT !.calm = calm, !.steady = steady]
    BY DEF MoveMain
  <2>3. QED
    BY <2>1, <2>2, FieldsAre DEF IsPass
<1>4. pass' = [w \in Passes |-> pass'[w]]
  BY DEF MoveMain
<1>5. Types'
  BY <1>2, <1>3, <1>4 DEF DeltaInv, Types
<1>6. SeenIsMain' /\ ShaIsMain' /\ OnlyMoved'
  BY <1>1, <1>2, <1>3 DEF DeltaInv, SeenIsMain, ShaIsMain, OnlyMoved
<1>7. QED
  BY <1>5, <1>6 DEF DeltaInv

\* A restart forgets everything, the changes that came before included.
LEMMA RestartKeeps ==
  ASSUME DeltaInv, Restart
  PROVE  DeltaInv'
BY NoPassIsPass DEF Restart, DeltaInv, Types, SeenIsMain, ShaIsMain, OnlyMoved

-----------------------------------------------------------------------------
\* The invariant holds in every reachable state.
THEOREM DeltaInvariant == Spec => []DeltaInv
<1>1. Init => DeltaInv
  BY NoPassIsPass, FilesAssumption DEF Init, DeltaInv, Types, SeenIsMain, ShaIsMain, OnlyMoved
<1>2. DeltaInv /\ [Next]_vars => DeltaInv'
  <2> SUFFICES ASSUME DeltaInv, [Next]_vars
               PROVE  DeltaInv'
    OBVIOUS
  <2>1. ASSUME NEW w \in Passes, NEW t \in Tiers,
               \/ ReadFile(w) \/ ReadRecipe(w, t) \/ ShaFails(w, t)
               \/ ToDeploys(w) \/ CatchUp(w) \/ Done(w)
        PROVE  DeltaInv'
    BY <2>1, PlanKeeps
  <2>2. \E t \in Tiers : TRUE
    BY DEF Tiers
  <2>3. ASSUME NEW w \in Passes, ReadServices(w) \/ Import(w) \/ ReadFails(w)
        PROVE  DeltaInv'
    BY <2>3, ImportKeeps
  <2>4. CASE UNCHANGED vars
    BY <2>4 DEF vars, DeltaInv, Types, SeenIsMain, ShaIsMain, OnlyMoved
  <2>5. QED
    BY <2>1, <2>2, <2>3, <2>4, ReadShaKeeps, TakeKeeps, MoveKeeps, RestartKeeps DEF Next
<1>3. QED
  BY <1>1, <1>2, PTL DEF Spec

\* A restart creates no service: no pass imports into a tier whose recipe main
\* did not change since the broker started, for any number of passes that go
\* through a group at once (recipes.go).
THEOREM RestartImportsNothing == Spec => []NothingBeforeAChange
<1>1. DeltaInv => NothingBeforeAChange
  BY DEF DeltaInv, OnlyMoved, NothingBeforeAChange
<1>2. QED
  BY <1>1, DeltaInvariant, PTL

-----------------------------------------------------------------------------
(* Types.                                                                  *)

DeltaTypes == TypeOK /\ present = [q \in Projects |-> present[q]]

States == {"app", "empty", "built"}

\* What an import creates starts empty, or with its build.
LEMMA BesideTypes ==
  ASSUME NEW services, NEW new, \A s \in new : s.starts \in {"empty", "built"},
         \A h \in DOMAIN services : services[h].starts \in States
  PROVE  \A h \in DOMAIN Beside(services, new) : Beside(services, new)[h].starts \in States
<1>1. ASSUME NEW h \in DOMAIN Beside(services, new), h \notin DOMAIN services
      PROVE  Service(new, h) \in new
  <2>1. \E s \in new : s.hostname = h
    BY <1>1 DEF Beside
  <2>2. QED
    BY <2>1 DEF Service
<1>2. \A h \in DOMAIN Beside(services, new) :
        Beside(services, new)[h] = IF h \in DOMAIN services THEN services[h] ELSE Service(new, h)
  BY DEF Beside
<1>3. QED
  BY <1>1, <1>2 DEF States

\* An import is all that changes the services.
LEMMA ServicesTyped ==
  ASSUME DeltaTypes, [Next]_vars
  PROVE  /\ present' = [q \in Projects |-> present'[q]]
         /\ \A q \in Projects : \A h \in DOMAIN present'[q] : present'[q][h].starts \in States
<1>1. /\ present = [q \in Projects |-> present[q]]
      /\ \A q \in Projects : \A h \in DOMAIN present[q] : present[q][h].starts \in States
  BY DEF DeltaTypes, TypeOK, States
<1>2. CASE present' = present
  BY <1>1, <1>2
<1>3. ASSUME NEW w \in Passes, Import(w), present' # present
      PROVE  /\ present' = [q \in Projects |-> present'[q]]
             /\ \A q \in Projects : \A h \in DOMAIN present'[q] : present'[q][h].starts \in States
  <2> DEFINE project == Current(pass[w]).project
             new == StartWithoutCode(pass[w].missing).services
  <2>1. present' = [present EXCEPT ![project] = Beside(@, new)]
    BY <1>3 DEF Import
  <2>2. \A s \in new : s.starts \in {"empty", "built"}
    BY DEF StartWithoutCode, WithoutCode
  <2> HIDE DEF project, new
  <2>3. ASSUME NEW q \in Projects, NEW h \in DOMAIN present'[q]
        PROVE  present'[q][h].starts \in States
    <3>1. CASE q = project
      <4>1. present'[q] = Beside(present[q], new)
        BY <1>1, <2>1, <3>1
      <4>2. \A k \in DOMAIN present[q] : present[q][k].starts \in States
        BY <1>1
      <4>3. QED
        BY <2>2, <2>3, <4>1, <4>2, BesideTypes
    <3>2. CASE q # project
      BY <1>1, <2>1, <2>3, <3>2
    <3>3. QED
      BY <3>1, <3>2
  <2>4. QED
    BY <1>1, <2>1, <2>3
<1>4. present' = present \/ \E w \in Passes : Import(w)
  BY DEF Next, vars, outside, ReadFile, Take, Taken, ReadServices, ReadFails, ToDeploys, CatchUp, Done,
         ReadRecipe, ReadSha, ShaFails, MoveMain, Restart
<1>5. QED
  BY <1>2, <1>3, <1>4

\* Nobody but a pass that takes a tier, or a restart, changes what was taken.
LEMMA SeenTyped ==
  ASSUME DeltaInv, DeltaTypes, [Next]_vars
  PROVE  /\ DOMAIN seen' = Tiers
         /\ \A t \in Tiers : seen'[t] = Unseen \/ \E m \in Mains : seen'[t] = m.recipe[t]
<1>1. /\ DOMAIN seen = Tiers
      /\ \A t \in Tiers : seen[t] = Unseen \/ \E m \in Mains : seen[t] = m.recipe[t]
  BY DEF DeltaTypes, TypeOK
<1>2. ASSUME NEW w \in Passes, Take(w)
      PROVE  /\ DOMAIN seen' = Tiers
             /\ \A t \in Tiers : seen'[t] = Unseen \/ \E m \in Mains : seen'[t] = m.recipe[t]
  <2>1. seen' = [seen EXCEPT ![pass[w].tier] = pass[w].sha] /\ pass[w].at = "take"
    BY <1>2 DEF Take, Taken
  <2>2. HeldOnce(pass[w].tier, pass[w].sha)
    BY <2>1 DEF DeltaInv, ShaIsMain
  <2>3. QED
    BY <1>1, <2>1, <2>2 DEF HeldOnce
<1>3. CASE seen' = seen
  BY <1>1, <1>3
<1>4. CASE Restart
  BY <1>4 DEF Restart
<1>5. seen' = seen \/ Restart \/ \E w \in Passes : Take(w)
  BY DEF Next, vars, ReadFile, ReadServices, Import, ReadFails, ToDeploys, CatchUp, Done,
         ReadRecipe, ReadSha, ShaFails, MoveMain
<1>6. QED
  BY <1>2, <1>3, <1>4, <1>5

\* The state keeps its types: what the broker took of a tier is a recipe main
\* once held, and a service is empty, built by the platform, or runs its app
\* (recipes.go).
THEOREM RecipeDeltaTypes == Spec => []TypeOK
<1>1. Init => DeltaTypes
  BY FilesAssumption DEF Init, DeltaTypes, TypeOK
<1>2. DeltaInv /\ DeltaInv' /\ DeltaTypes /\ [Next]_vars => DeltaTypes'
  <2> SUFFICES ASSUME DeltaInv, DeltaInv', DeltaTypes, [Next]_vars
               PROVE  DeltaTypes'
    OBVIOUS
  <2>1. main' \in Mains /\ moved' \subseteq Tiers
    BY DEF DeltaInv, Types
  <2>2. moves \in 0..MaxMoves /\ events \in 0..MaxEvents
    BY DEF DeltaTypes, TypeOK
  <2>3. \/ moves' = moves /\ (events' = events \/ Event)
        \/ moves < MaxMoves /\ moves' = moves + 1 /\ events' = events
    <3>1. ASSUME NEW w \in Passes,
                 \/ ReadFile(w) \/ Take(w) \/ ReadServices(w) \/ Import(w) \/ ReadFails(w)
                 \/ ToDeploys(w) \/ CatchUp(w) \/ Done(w)
          PROVE  moves' = moves /\ (events' = events \/ Event)
      BY <3>1 DEF outside, ReadFile, Take, Taken, ReadServices, Import, ReadFails, ToDeploys, CatchUp, Done
    <3>2. ASSUME NEW w \in Passes, NEW t \in Tiers, ReadRecipe(w, t) \/ ReadSha(w, t) \/ ShaFails(w, t)
          PROVE  moves' = moves /\ (events' = events \/ Event)
      BY <3>2 DEF outside, ReadRecipe, ReadSha, ShaFails
    <3>3. CASE MoveMain
      BY <3>3 DEF MoveMain
    <3>4. CASE Restart \/ UNCHANGED vars
      BY <3>4 DEF Restart, vars
    <3>5. QED
      BY <3>1, <3>2, <3>3, <3>4 DEF Next
  <2>4. \/ events' = events
        \/ events < MaxEvents /\ events' = events + 1
    BY <2>3 DEF Event
  <2>5. moves' \in 0..MaxMoves /\ events' \in 0..MaxEvents
    BY <2>2, <2>3, <2>4, FilesAssumption
  <2>6. QED
    BY <2>1, <2>5, ServicesTyped, SeenTyped DEF DeltaTypes, TypeOK, States
<1>3. DeltaTypes => TypeOK
  BY DEF DeltaTypes
<1>4. QED
  BY <1>1, <1>2, <1>3, DeltaInvariant, PTL DEF Spec

-----------------------------------------------------------------------------
(***************************************************************************)
(* A pass nobody disturbed deploys only to what exists.  What is kept from *)
(* the moment a tier is taken as changed: each of its environments has all *)
(* that the recipe declares, or is still to come in the walk through them. *)
(***************************************************************************)
Covers(services, recipe) == \A s \in Range(Order(recipe)) : s.hostname \in DOMAIN services

\* The environments a pass has found changed have their services, but for those
\* still to be gone through.
Imported(p, there) ==
  \A i \in DOMAIN p.file.environments :
    LET e == p.file.environments[i] IN
    e.tier \in p.changed =>
      \/ Covers(there[e.project], p.recipes[e.tier])
      \/ p.at \in {"services", "import"} /\ i \in p.envs /\ e.tier = p.tier

\* What is about to be imported is what the project lacks now.
Fresh(p, there) ==
  p.at = "import" => p.missing = Missing(p.recipes[p.tier], there[Current(p).project])

Exist(p, there) ==
  \A t \in p.targets :
    t.environment.tier \in p.changed => t.service \in DOMAIN there[t.environment.project]

\* The environments of the file, and what is gone through of them.
WellPlaced(p) ==
  /\ \A i \in DOMAIN p.file.environments :
       i \in Nat /\ p.file.environments[i].project \in Projects
  /\ p.envs \subseteq DOMAIN p.file.environments
  /\ p.at \in {"idle", "plan"} => p.changed = {}
  /\ p.at # "deploy" => p.targets = {}

Sound(p, there) ==
  /\ WellPlaced(p)
  /\ p.calm => Imported(p, there) /\ Fresh(p, there) /\ Exist(p, there)

FirstInv ==
  /\ present = [q \in Projects |-> present[q]]
  /\ \A w \in Passes : Sound(pass[w], present)

-----------------------------------------------------------------------------
\* There is a first place among places that are left.
LEMMA MinIsIn ==
  ASSUME NEW S \in SUBSET Nat, S # {}
  PROVE  Min(S) \in S
<1> DEFINE Below == {r \in Nat \X Nat : r[1] < r[2]}
<1>1. IsWellFoundedOn(Below, Nat)
  BY NatLessThanWellFounded, Zenon DEF OpToRel
<1>2. \A m, n \in Nat : m < n => <<m, n>> \in Below
  OBVIOUS
<1> HIDE DEF Below
<1>3. PICK n \in S : \A m \in S : <<m, n>> \notin Below
  BY <1>1, WFMin
<1>4. \A m \in S : n <= m
  <2>1. \A m \in S : m \in Nat /\ n \in Nat /\ ~(m < n)
    BY <1>2, <1>3, Zenon
  <2>2. QED
    BY <2>1
<1>5. QED
  BY <1>4 DEF Min

\* An idle pass, whatever it is said to be, claims nothing.
LEMMA IdleIsSound == ASSUME NEW there PROVE Sound(NoPass, there)
BY DEF Sound, WellPlaced, Imported, Fresh, Exist, NoPass, NoFile

\* The declared environments have projects.
LEMMA ParsedAre ==
  ASSUME NEW m \in Mains, NEW i \in DOMAIN Parse(m.file).environments
  PROVE  i \in Nat /\ Parse(m.file).environments[i].project \in Projects
<1> DEFINE doc == m.file.environments
<1>1. doc \in Seq(Range(doc)) /\ \A j \in DOMAIN doc : doc[j].project \in Projects
  BY FilesAssumption
<1> DEFINE built == [j \in DOMAIN doc |-> Build(doc[j])]
<1>2. Parse(m.file).environments \in {<<>>, built}
  <2> DEFINE names == [j \in DOMAIN doc |-> doc[j].name]
  <2>1. DOMAIN names = DOMAIN doc
    OBVIOUS
  <2>2. Parse(m.file) \in {NoFile, [ok |-> TRUE, environments |-> built]}
    BY <2>1, Zenon DEF Parse
  <2>3. QED
    BY <2>2 DEF NoFile
<1>3. i \in DOMAIN doc /\ Parse(m.file).environments[i] = Build(doc[i])
  BY <1>2
<1>4. Build(doc[i]).project = doc[i].project
  BY DEF Build
<1>5. QED
  BY <1>1, <1>3, <1>4

\* A step of one pass: the others are disturbed by it, unless they are idle.
LEMMA SoundStep ==
  ASSUME Types, FirstInv, NEW w \in Passes, NEW to, Step(w, to), Sound(to, present'),
         present' = [q \in Projects |-> present'[q]]
  PROVE  FirstInv'
<1>1. ASSUME NEW v \in Passes PROVE Sound(pass'[v], present')
  <2>1. CASE v = w
    BY <2>1 DEF Types, Step, Disturbed
  <2>2. CASE v # w /\ pass[v].at = "idle"
    <3>1. pass'[v] = pass[v]
      BY <2>2 DEF Types, Step, Disturbed
    <3>2. Sound(pass[v], present) /\ pass[v].changed = {} /\ pass[v].targets = {}
      BY <2>2 DEF FirstInv, Sound, WellPlaced
    <3>3. QED
      BY <2>2, <3>1, <3>2 DEF Sound, Imported, Fresh, Exist
  <2>3. CASE v # w /\ pass[v].at # "idle"
    <3>1. pass'[v] = [pass[v] EXCEPT !.calm = FALSE]
      BY <2>3 DEF Types, Step, Disturbed
    <3>2. IsPass(pass[v]) /\ WellPlaced(pass[v])
      BY DEF Types, FirstInv, Sound
    <3>3. WellPlaced(pass'[v]) /\ pass'[v].calm = FALSE
      BY <3>1, <3>2, FieldsAre DEF IsPass, WellPlaced
    <3>4. QED
      BY <3>3 DEF Sound
  <2>4. QED
    BY <2>1, <2>2, <2>3
<1>2. QED
  BY <1>1 DEF FirstInv

\* The plan claims nothing yet.
LEMMA ReadFileSound ==
  ASSUME DeltaInv, FirstInv, NEW w \in Passes, ReadFile(w)
  PROVE  FirstInv'
<1> DEFINE file == Parse(main.file)
<1>1. PICK tiers, calm :
        \/ Step(w, NoPass)
        \/ Step(w, [NoPass EXCEPT !.at = "plan", !.file = file, !.reading = tiers, !.calm = calm])
  BY DEF ReadFile
<1> DEFINE to == [NoPass EXCEPT !.at = "plan", !.file = file, !.reading = tiers, !.calm = calm]
<1>2. \A i \in DOMAIN file.environments : i \in Nat /\ file.environments[i].project \in Projects
  BY ParsedAre DEF DeltaInv, Types
<1>3. to.at = "plan" /\ to.file = file /\ to.envs = {} /\ to.changed = {} /\ to.targets = {}
  BY DEF NoPass
<1>4. Sound(to, present')
  BY <1>2, <1>3 DEF Sound, WellPlaced, Imported, Fresh, Exist
<1>5. present' = present
  BY DEF ReadFile, outside
<1> HIDE DEF to
<1>6. QED
  BY <1>1, <1>4, <1>5, IdleIsSound, SoundStep DEF FirstInv, DeltaInv, to

\* So does a pass that has a tier's file read, ...
LEMMA ReadRecipeSound ==
  ASSUME DeltaInv, FirstInv, NEW w \in Passes, NEW t \in Tiers, ReadRecipe(w, t)
  PROVE  FirstInv'
<1> DEFINE p == pass[w]
<1>1. PICK left, recipes, tiers, at :
        /\ Step(w, [p EXCEPT !.reading = left, !.recipes = recipes, !.tiers = tiers, !.at = at])
        /\ at \in {"tiers", "plan"} /\ p.at = "plan"
  BY DEF ReadRecipe
<1> DEFINE to == [p EXCEPT !.reading = left, !.recipes = recipes, !.tiers = tiers, !.at = at]
<1>2. IsPass(p) /\ Sound(p, present)
  BY DEF DeltaInv, Types, FirstInv
<1>3. /\ to.at = at /\ to.file = p.file /\ to.envs = p.envs
      /\ to.changed = p.changed /\ to.targets = p.targets
  BY <1>2, FieldsAre DEF IsPass
<1>4. p.changed = {} /\ p.targets = {} /\ WellPlaced(p)
  BY <1>1, <1>2 DEF Sound, WellPlaced
<1> HIDE DEF to
<1>5. Sound(to, present')
  BY <1>1, <1>3, <1>4 DEF Sound, WellPlaced, Imported, Fresh, Exist
<1>6. present' = present
  BY DEF ReadRecipe, outside
<1>7. QED
  BY <1>1, <1>5, <1>6, SoundStep DEF FirstInv, DeltaInv, to

\* What a pass says of the environments and the services depends on these fields.
Same(p, q) ==
  /\ p.file = q.file /\ p.recipes = q.recipes /\ p.changed = q.changed /\ p.targets = q.targets
  /\ p.calm => q.calm

\* Between the tiers nothing is left to be gone through.
LEMMA BetweenSound ==
  ASSUME NEW there, NEW p, NEW q, Sound(q, there), Same(p, q),
         p.at \in {"tiers", "take", "deploy"}, p.envs \subseteq DOMAIN p.file.environments,
         q.at \in {"tiers", "take"},
         p.targets = {}
  PROVE  Sound(p, there)
BY DEF Sound, Same, WellPlaced, Imported, Fresh, Exist

LEMMA TiersSound ==
  ASSUME DeltaInv, FirstInv, NEW w \in Passes, NEW t \in Tiers,
         ReadSha(w, t) \/ ShaFails(w, t) \/ ToDeploys(w)
  PROVE  FirstInv'
<1> DEFINE p == pass[w]
<1>1. IsPass(p) /\ Sound(p, present) /\ p.at = "tiers" /\ WellPlaced(p) /\ p.targets = {}
  BY DEF DeltaInv, Types, FirstInv, ReadSha, ShaFails, ToDeploys, Sound, WellPlaced
<1>2. present' = present /\ present = [q \in Projects |-> present[q]]
  BY DEF ReadSha, ShaFails, ToDeploys, outside, FirstInv
<1>3. ASSUME NEW to, Step(w, to), Same(to, p), to.at \in {"tiers", "take", "deploy"},
             to.envs \subseteq DOMAIN to.file.environments
      PROVE  FirstInv'
  <2>1. Sound(to, present')
    BY <1>1, <1>2, <1>3, BetweenSound DEF Same
  <2>2. QED
    BY <1>2, <1>3, <2>1, SoundStep DEF DeltaInv
<1>4. CASE ReadSha(w, t)
  <2> DEFINE to == [p EXCEPT !.at = "take", !.tier = t, !.tiers = @ \ {t}, !.sha = main.recipe[t]]
  <2>1. Same(to, p) /\ to.at = "take" /\ to.envs = p.envs /\ to.file = p.file
    BY <1>1, FieldsAre DEF IsPass, Same
  <2>2. Step(w, to)
    BY <1>4 DEF ReadSha
  <2> HIDE DEF to
  <2>3. QED
    BY <1>1, <1>3, <2>1, <2>2 DEF WellPlaced
<1>5. CASE ShaFails(w, t)
  <2> DEFINE to == [p EXCEPT !.tiers = @ \ {t}, !.calm = FALSE, !.steady = FALSE]
  <2>1. Same(to, p) /\ to.at = "tiers" /\ to.envs = p.envs /\ to.file = p.file
    BY <1>1, FieldsAre DEF IsPass, Same
  <2>2. Step(w, to)
    BY <1>5 DEF ShaFails
  <2> HIDE DEF to
  <2>3. QED
    BY <1>1, <1>3, <2>1, <2>2 DEF WellPlaced
<1>6. CASE ToDeploys(w)
  <2> DEFINE to == [p EXCEPT !.at = "deploy", !.envs = DOMAIN p.file.environments]
  <2>1. Same(to, p) /\ to.at = "deploy" /\ to.envs = DOMAIN to.file.environments
    BY <1>1, FieldsAre DEF IsPass, Same
  <2>2. Step(w, to)
    BY <1>6 DEF ToDeploys
  <2> HIDE DEF to
  <2>3. QED
    BY <1>3, <2>1, <2>2
<1>7. QED
  BY <1>4, <1>5, <1>6

\* A tier taken as changed has all of its environments to be gone through.
LEMMA TakeSound ==
  ASSUME DeltaInv, FirstInv, NEW w \in Passes, Take(w)
  PROVE  FirstInv'
<1> DEFINE p == pass[w]
           met == IF seen[p.tier] = Unseen THEN p.met ELSE p.met \union {p.tier}
           known == [p EXCEPT !.met = met]
           to == IF seen[p.tier] \in {Unseen, p.sha} THEN NextTier(known) ELSE Reconcile(known)
<1>1. IsPass(p) /\ Sound(p, present) /\ p.at = "take" /\ WellPlaced(p) /\ p.targets = {}
  BY DEF DeltaInv, Types, FirstInv, Take, Taken, Sound, WellPlaced
<1>2. present' = present /\ present = [q \in Projects |-> present[q]] /\ Step(w, to)
  BY DEF Take, Taken, outside, FirstInv
<1>3. IsPass(known) /\ Same(known, p) /\ known.at = "take" /\ known.tier = p.tier
  BY <1>1, FieldsAre DEF IsPass, Same
<1> HIDE DEF known
<1>4. /\ Same(NextTier(known), p)
      /\ NextTier(known).at = "tiers"
      /\ NextTier(known).envs = {}
  BY <1>3, FieldsAre DEF IsPass, Same, NextTier
<1>5. Sound(NextTier(known), present')
  BY <1>1, <1>2, <1>4, BetweenSound DEF Same
<1> DEFINE r == Reconcile(known)
<1>6. /\ r.file = p.file /\ r.recipes = p.recipes /\ r.targets = p.targets /\ (r.calm => p.calm)
      /\ r.at = "services" /\ r.tier = p.tier
      /\ r.envs = OfTier(p.file, p.tier) /\ r.changed = p.changed \union {p.tier}
  BY <1>3, FieldsAre DEF IsPass, Same, Reconcile
<1> HIDE DEF r
<1>7. WellPlaced(r) /\ Fresh(r, present')
  BY <1>1, <1>6 DEF WellPlaced, Fresh, OfTier
<1>8. r.calm => Imported(r, present') /\ Exist(r, present')
  <2> SUFFICES ASSUME r.calm PROVE Imported(r, present') /\ Exist(r, present')
    OBVIOUS
  <2>1. Imported(p, present)
    BY <1>1, <1>6 DEF Sound
  <2>2. ASSUME NEW i \in DOMAIN r.file.environments, r.file.environments[i].tier \in r.changed
        PROVE  \/ Covers(present'[r.file.environments[i].project], r.recipes[r.file.environments[i].tier])
               \/ r.at \in {"services", "import"} /\ i \in r.envs /\ r.file.environments[i].tier = r.tier
    <3>1. CASE p.file.environments[i].tier = p.tier
      BY <1>6, <2>2, <3>1 DEF OfTier
    <3>2. CASE p.file.environments[i].tier # p.tier
      <4>1. p.file.environments[i].tier \in p.changed
        BY <1>6, <2>2, <3>2
      <4>2. Covers(present[p.file.environments[i].project], p.recipes[p.file.environments[i].tier])
        BY <1>1, <1>6, <2>1, <2>2, <4>1 DEF Imported
      <4>3. QED
        BY <1>2, <1>6, <4>2
    <3>3. QED
      BY <3>1, <3>2
  <2>3. QED
    BY <1>1, <1>6, <2>2 DEF Imported, Exist
<1>9. Sound(to, present')
  BY <1>5, <1>7, <1>8 DEF Sound, r
<1> HIDE DEF to
<1>10. QED
  BY <1>2, <1>9, SoundStep DEF DeltaInv

-----------------------------------------------------------------------------
(* The walk through the environments of a tier.                            *)

\* Services are only ever added.
Grown(there, later) ==
  \A q \in Projects : DOMAIN there[q] \subseteq DOMAIN later[q]

LEMMA ImportedGrows ==
  ASSUME NEW there, NEW later, Grown(there, later), NEW p, WellPlaced(p), Imported(p, there)
  PROVE  Imported(p, later)
<1> SUFFICES ASSUME NEW i \in DOMAIN p.file.environments,
                    p.file.environments[i].tier \in p.changed
             PROVE  \/ Covers(later[p.file.environments[i].project],
                              p.recipes[p.file.environments[i].tier])
                    \/ /\ p.at \in {"services", "import"} /\ i \in p.envs
                       /\ p.file.environments[i].tier = p.tier
  BY DEF Imported
<1>1. p.file.environments[i].project \in Projects
  BY DEF WellPlaced
<1>2. QED
  BY <1>1 DEF Imported, Grown, Covers

\* An environment that has its services is left behind.
LEMMA AdvanceSound ==
  ASSUME NEW there, NEW p, IsPass(p), WellPlaced(p), p.at \in {"services", "import"},
         p.calm => /\ Imported(p, there)
                   /\ Min(p.envs) \in p.envs => Covers(there[Current(p).project], p.recipes[p.tier])
  PROVE  Sound(Advance(p), there)
<1> DEFINE a == Advance(p)
<1>1. /\ a.file = p.file /\ a.recipes = p.recipes /\ a.changed = p.changed
      /\ a.targets = p.targets /\ a.calm = p.calm
      /\ \/ a.at = "tiers" /\ a.envs = {} /\ Left(p) = {}
         \/ a.at = "services" /\ a.envs = Left(p) /\ a.tier = p.tier
  BY FieldsAre DEF IsPass, Advance, NextTier
<1> HIDE DEF a
<1>2. p.targets = {} /\ Left(p) \subseteq p.envs
  BY DEF WellPlaced, Left
<1>3. WellPlaced(a) /\ Fresh(a, there) /\ Exist(a, there)
  BY <1>1, <1>2 DEF WellPlaced, Fresh, Exist
<1>4. ASSUME p.calm, NEW i \in DOMAIN p.file.environments,
             p.file.environments[i].tier \in p.changed
      PROVE  \/ Covers(there[p.file.environments[i].project],
                       p.recipes[p.file.environments[i].tier])
             \/ a.at = "services" /\ i \in a.envs /\ p.file.environments[i].tier = a.tier
  <2>1. CASE Covers(there[p.file.environments[i].project], p.recipes[p.file.environments[i].tier])
    BY <2>1
  <2>2. CASE i \in p.envs /\ p.file.environments[i].tier = p.tier
    <3>1. CASE i = Min(p.envs)
      BY <1>4, <2>2, <3>1 DEF Current
    <3>2. CASE i # Min(p.envs)
      BY <1>1, <2>2, <3>2 DEF Left
    <3>3. QED
      BY <3>1, <3>2
  <2>3. QED
    BY <1>4, <2>1, <2>2 DEF Imported
<1>5. p.calm => Imported(a, there)
  BY <1>1, <1>4 DEF Imported
<1>6. QED
  BY <1>1, <1>3, <1>5 DEF Sound, a

\* A project that lacks nothing needs no import; what one lacks is read.
LEMMA ReadServicesSound ==
  ASSUME DeltaInv, FirstInv, NEW w \in Passes, ReadServices(w)
  PROVE  FirstInv'
<1> DEFINE p == pass[w]
           missing == Missing(p.recipes[p.tier], present[Current(p).project])
           to == [p EXCEPT !.missing = missing, !.at = "import"]
<1>1. IsPass(p) /\ Sound(p, present) /\ p.at = "services" /\ WellPlaced(p) /\ p.targets = {}
  BY DEF DeltaInv, Types, FirstInv, ReadServices, Sound, WellPlaced
<1>2. present' = present /\ present = [q \in Projects |-> present[q]]
  BY DEF ReadServices, outside, FirstInv
<1>3. Step(w, IF missing = {} THEN Advance(p) ELSE to)
  BY DEF ReadServices
<1>4. CASE missing = {}
  <2>1. Covers(present[Current(p).project], p.recipes[p.tier])
    BY <1>4 DEF Missing, Covers
  <2>2. Sound(Advance(p), present)
    BY <1>1, <2>1, AdvanceSound DEF Sound
  <2>3. QED
    BY <1>2, <1>3, <1>4, <2>2, SoundStep DEF DeltaInv
<1>5. CASE missing # {}
  <2>1. /\ to.file = p.file /\ to.recipes = p.recipes /\ to.changed = p.changed
        /\ to.targets = p.targets /\ to.calm = p.calm /\ to.envs = p.envs /\ to.tier = p.tier
        /\ to.at = "import" /\ to.missing = missing
    BY <1>1, FieldsAre DEF IsPass
  <2> HIDE DEF to
  <2>2. WellPlaced(to) /\ Fresh(to, present) /\ Exist(to, present)
    BY <1>1, <2>1 DEF WellPlaced, Fresh, Exist, Current
  <2>3. p.calm => Imported(to, present)
    BY <1>1, <2>1 DEF Sound, Imported
  <2>4. Sound(to, present)
    BY <2>1, <2>2, <2>3 DEF Sound
  <2>5. QED
    BY <1>2, <1>3, <1>5, <2>4, SoundStep DEF DeltaInv
<1>6. QED
  BY <1>4, <1>5

\* What a calm pass imports is what the project still lacks: it is not refused,
\* and the project has all of its tier.
LEMMA ImportSound ==
  ASSUME DeltaInv, FirstInv, NEW w \in Passes, Import(w)
  PROVE  FirstInv'
<1> DEFINE p == pass[w]
           project == Current(p).project
           new == StartWithoutCode(p.missing).services
           names == {s.hostname : s \in p.missing}
<1>1. /\ IsPass(p) /\ Sound(p, present) /\ p.at = "import" /\ WellPlaced(p) /\ p.targets = {}
      /\ present = [q \in Projects |-> present[q]]
  BY DEF DeltaInv, Types, FirstInv, Import, Sound, WellPlaced
<1>2. /\ Step(w, Advance(p))
      /\ present' = IF \E s \in new : s.hostname \in DOMAIN present[project] THEN present
                    ELSE [present EXCEPT ![project] = Beside(@, new)]
  BY DEF Import
<1>3. new = {WithoutCode(s) : s \in p.missing} /\ \A s \in p.missing : WithoutCode(s).hostname = s.hostname
  BY DEF StartWithoutCode, WithoutCode
<1> HIDE DEF new
<1>4. /\ \A s \in new : s.hostname \in names
      /\ DOMAIN Beside(present[project], new) = DOMAIN present[project] \union names
  <2>1. {s.hostname : s \in new} = names
    BY <1>3
  <2>2. QED
    BY <2>1 DEF Beside
<1>5. present' = [q \in Projects |-> present'[q]]
  BY <1>1, <1>2
<1>6. Grown(present, present')
  BY <1>1, <1>2, <1>4 DEF Grown
<1>7. ASSUME p.calm, Min(p.envs) \in p.envs
      PROVE  Covers(present'[project], p.recipes[p.tier])
  <2>1. project \in Projects
    BY <1>1, <1>7 DEF WellPlaced, Current
  <2>2. p.missing = {s \in Range(Order(p.recipes[p.tier])) : s.hostname \notin DOMAIN present[project]}
    BY <1>1, <1>7 DEF Sound, Fresh, Missing
  <2>3. ~\E s \in new : s.hostname \in DOMAIN present[project]
    BY <1>4, <2>2
  <2>4. DOMAIN present'[project] = DOMAIN present[project] \union names
    BY <1>1, <1>2, <1>4, <2>1, <2>3
  <2>5. QED
    BY <2>2, <2>4 DEF Covers
<1>8. p.calm => Imported(p, present')
  BY <1>1, <1>6, ImportedGrows DEF Sound
<1>9. Sound(Advance(p), present')
  BY <1>1, <1>7, <1>8, AdvanceSound
<1>10. QED
  BY <1>2, <1>5, <1>9, SoundStep DEF DeltaInv

\* A pass that met a failure claims nothing more.
LEMMA ReadFailsSound ==
  ASSUME DeltaInv, FirstInv, NEW w \in Passes, ReadFails(w)
  PROVE  FirstInv'
<1> DEFINE p == pass[w]
           a == Advance(p)
           to == [a EXCEPT !.calm = FALSE, !.steady = FALSE]
<1>1. IsPass(p) /\ WellPlaced(p) /\ p.at \in {"services", "import"} /\ IsPass(a)
  BY AdvanceIs DEF DeltaInv, Types, FirstInv, ReadFails, Sound
<1>2. /\ a.file = p.file /\ a.targets = p.targets
      /\ a.at \in {"tiers", "services"} /\ a.envs \subseteq p.envs
  BY <1>1, FieldsAre DEF IsPass, Advance, NextTier, Left
<1> HIDE DEF a
<1>3. to.file = a.file /\ to.targets = a.targets /\ to.at = a.at /\ to.envs = a.envs /\ to.calm = FALSE
  BY <1>1, FieldsAre DEF IsPass
<1>4. Step(w, to)
  BY DEF ReadFails, a
<1> HIDE DEF to
<1>5. Sound(to, present')
  BY <1>1, <1>2, <1>3 DEF Sound, WellPlaced
<1>6. present' = present /\ present = [q \in Projects |-> present[q]]
  BY DEF ReadFails, outside, FirstInv
<1>7. QED
  BY <1>4, <1>5, <1>6, SoundStep DEF DeltaInv

-----------------------------------------------------------------------------
\* What is deployed in a changed tier is one of its runtimes, and is there.
LEMMA CatchUpSound ==
  ASSUME DeltaInv, FirstInv, NEW w \in Passes, CatchUp(w)
  PROVE  FirstInv'
<1> DEFINE p == pass[w]
           e == Current(p)
<1>1. PICK behind \in SUBSET Resolve(p, e) :
        Step(w, [p EXCEPT !.envs = Left(p),
                          !.targets = @ \union {[environment |-> e, service |-> s.hostname] : s \in behind}])
  BY DEF CatchUp
<1> DEFINE new == {[environment |-> e, service |-> s.hostname] : s \in behind}
           to == [p EXCEPT !.envs = Left(p), !.targets = @ \union new]
<1>2. IsPass(p) /\ Sound(p, present) /\ p.at = "deploy" /\ WellPlaced(p) /\ p.envs # {}
  BY DEF DeltaInv, Types, FirstInv, CatchUp, Sound
<1>3. Min(p.envs) \in p.envs
  BY <1>2, MinIsIn DEF WellPlaced
<1> HIDE DEF new
<1>4. /\ to.file = p.file /\ to.recipes = p.recipes /\ to.changed = p.changed
      /\ to.targets = p.targets \union new /\ to.calm = p.calm /\ to.envs = Left(p) /\ to.at = "deploy"
  BY <1>2, FieldsAre DEF IsPass
<1>5. Step(w, to)
  BY <1>1 DEF new
<1> HIDE DEF to
<1>6. WellPlaced(to) /\ Fresh(to, present)
  BY <1>2, <1>4 DEF WellPlaced, Fresh, Left
<1>7. p.calm => Imported(to, present)
  BY <1>2, <1>4 DEF Sound, Imported
<1>8. ASSUME p.calm, NEW t \in new, t.environment.tier \in p.changed
      PROVE  t.service \in DOMAIN present[t.environment.project]
  <2>1. PICK s \in behind : t = [environment |-> e, service |-> s.hostname]
    BY DEF new
  <2>2. t.environment = e /\ t.service = s.hostname
    BY <2>1
  <2>3. s \in Range(Order(p.recipes[e.tier]))
    BY <2>1 DEF Resolve, Runtimes
  <2>4. Min(p.envs) \in DOMAIN p.file.environments /\ e = p.file.environments[Min(p.envs)]
    BY <1>2, <1>3 DEF WellPlaced, Current
  <2>5. Covers(present[e.project], p.recipes[e.tier])
    BY <1>2, <1>8, <2>2, <2>4 DEF Sound, Imported
  <2>6. QED
    BY <2>2, <2>3, <2>5 DEF Covers
<1>9. p.calm => Exist(to, present)
  BY <1>2, <1>4, <1>8 DEF Sound, Exist
<1>10. Sound(to, present)
  BY <1>4, <1>6, <1>7, <1>9 DEF Sound
<1>11. present' = present /\ present = [q \in Projects |-> present[q]]
  BY DEF CatchUp, outside, FirstInv
<1>12. QED
  BY <1>5, <1>10, <1>11, SoundStep DEF DeltaInv

\* The pass is over.
LEMMA DoneSound ==
  ASSUME DeltaInv, FirstInv, NEW w \in Passes, Done(w)
  PROVE  FirstInv'
<1>1. Step(w, NoPass) /\ present' = present
  BY DEF Done, outside
<1>2. QED
  BY <1>1, IdleIsSound, SoundStep DEF FirstInv, DeltaInv

\* Main moves under every pass that goes on.
LEMMA MoveSound ==
  ASSUME DeltaInv, FirstInv, MoveMain
  PROVE  FirstInv'
<1>1. present' = present /\ present = [q \in Projects |-> present[q]]
  BY DEF MoveMain, FirstInv
<1>2. ASSUME NEW w \in Passes PROVE Sound(pass'[w], present)
  <2> DEFINE p == pass[w]
  <2>1. IsPass(p) /\ Sound(p, present) /\ WellPlaced(p)
    BY DEF DeltaInv, Types, FirstInv, Sound
  <2>2. pass'[w] = [p EXCEPT !.calm = p.at = "idle", !.steady = p.at = "idle"]
    BY DEF MoveMain
  <2>3. /\ pass'[w].file = p.file /\ pass'[w].targets = p.targets /\ pass'[w].envs = p.envs
        /\ pass'[w].at = p.at /\ pass'[w].changed = p.changed
    BY <2>1, <2>2, FieldsAre DEF IsPass
  <2>4. pass'[w].calm => p.at = "idle"
    BY <2>1, <2>2, FieldsAre DEF IsPass
  <2>5. WellPlaced(pass'[w])
    BY <2>1, <2>3 DEF WellPlaced
  <2>6. pass'[w].calm => Imported(pass'[w], present) /\ Fresh(pass'[w], present) /\ Exist(pass'[w], present)
    BY <2>3, <2>4, <2>5 DEF WellPlaced, Imported, Fresh, Exist
  <2>7. QED
    BY <2>5, <2>6 DEF Sound
<1>3. QED
  BY <1>1, <1>2 DEF FirstInv

\* A restart cuts every pass off.
LEMMA RestartSound ==
  ASSUME DeltaInv, FirstInv, Restart
  PROVE  FirstInv'
<1>1. present' = present /\ \A w \in Passes : pass'[w] = NoPass
  BY DEF Restart
<1>2. QED
  BY <1>1, IdleIsSound DEF FirstInv

-----------------------------------------------------------------------------
\* The invariant holds in every reachable state.
THEOREM FirstInvariant == Spec => []FirstInv
<1>1. Init => FirstInv
  <2> SUFFICES ASSUME Init PROVE FirstInv
    OBVIOUS
  <2>1. present = AtFirst /\ \A w \in Passes : pass[w] = NoPass
    BY FilesAssumption DEF Init
  <2>2. QED
    BY <2>1, IdleIsSound, FilesAssumption DEF FirstInv
<1>2. DeltaInv /\ FirstInv /\ [Next]_vars => FirstInv'
  <2> SUFFICES ASSUME DeltaInv, FirstInv, [Next]_vars
               PROVE  FirstInv'
    OBVIOUS
  <2>1. ASSUME NEW w \in Passes,
               \/ ReadFile(w) \/ Take(w) \/ ReadServices(w) \/ Import(w) \/ ReadFails(w)
               \/ CatchUp(w) \/ Done(w)
        PROVE  FirstInv'
    BY <2>1, ReadFileSound, TakeSound, ReadServicesSound, ImportSound, ReadFailsSound,
       CatchUpSound, DoneSound
  <2>2. ASSUME NEW w \in Passes, ToDeploys(w) PROVE FirstInv'
    <3>1. \E t \in Tiers : TRUE
      BY DEF Tiers
    <3>2. QED
      BY <2>2, <3>1, TiersSound
  <2>3. ASSUME NEW w \in Passes, NEW t \in Tiers, ReadRecipe(w, t) \/ ReadSha(w, t) \/ ShaFails(w, t)
        PROVE  FirstInv'
    BY <2>3, ReadRecipeSound, TiersSound
  <2>4. CASE UNCHANGED vars
    BY <2>4 DEF vars, FirstInv
  <2>5. QED
    BY <2>1, <2>2, <2>3, <2>4, MoveSound, RestartSound DEF Next
<1>3. QED
  BY <1>1, <1>2, DeltaInvariant, PTL DEF Spec

\* A pass in which nothing failed, and which nobody disturbed, deploys in the
\* tiers it found changed only to services that exist, whatever main declares
\* and however many environments follow a tier: importDelta comes before the
\* deploys of the same pass (recipes.go, Pass).
THEOREM ImportsComeFirst == Spec => []ImportedFirst
<1>1. FirstInv => ImportedFirst
  BY DEF FirstInv, Sound, Exist, ImportedFirst
<1>2. QED
  BY <1>1, FirstInvariant, PTL
=============================================================================
