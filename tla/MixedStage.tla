----------------------------- MODULE MixedStage ------------------------------
(***************************************************************************)
(* A stage fed by several branches (internal/deploy/merge.go): whoever     *)
(* resolves it, a pass or a job's grant, rebuilds its branch env/{name} in *)
(* a working copy of its own and pushes it if nobody pushed meanwhile.     *)
(*                                                                         *)
(* A merge is a commit of its own, told from every other merge by the time *)
(* it was made at: merging the same heads again gives another commit,      *)
(* unless it is done in the same second.  Only sources that are all part   *)
(* of the first one merge to a commit that exists already, its head.       *)
(*                                                                         *)
(* The queue and the dispatcher between a pass and the job it starts, and  *)
(* the build a grant leads to, are those of ServiceDeploys, here one step. *)
(***************************************************************************)
EXTENDS Naturals, FiniteSets

CONSTANTS Sources,    \* the branches of the stage
          MaxHead,    \* bound: commits of a branch
          Pass,       \* the goroutine of the pass
          Grants,     \* goroutines that answer grants
          MaxTime,    \* bound: merges of the same heads that are known at once
          MaxJobs     \* bound: jobs that wait to ask

ASSUME MixedAssumption ==
  /\ MaxHead \in Nat /\ MaxJobs \in Nat /\ MaxTime \in Nat
  /\ Pass \notin Grants

Mergers == Grants \union {Pass}

VARIABLES heads,      \* the head of each source
          contained,  \* whether the first source contains the others
          clash,      \* whether the heads conflict
          branch,     \* env/{name}
          mergers,    \* per goroutine: Merger.merge and what it is for
          jobs,       \* commits whose job has been started and has not asked
          live        \* the commit the service runs

stageVars == <<heads, contained, clash, branch, mergers, jobs, live>>

Heads == [Sources -> 0..MaxHead]
\* A commit of the stage: the heads it merges and when that was done; a time
\* is used again once no commit of the same heads with it is known.  OwnHead
\* stands for the first source's own head.
OwnHead == 0
Commit == [of : Heads, made : 0..MaxTime]
NoCommit == [made |-> OwnHead]

Idle == [at |-> "idle"]
Maybe == Commit \union {NoCommit}
Merging ==
  [at : {"start"}, job : Maybe, head : {NoCommit}, lease : {NoCommit}]
    \union [at : {"push"}, job : Maybe, head : Commit, lease : Maybe]
    \union [at : {"answer"}, job : Maybe, head : Commit, lease : {NoCommit}]

StageTypeOK ==
  /\ heads \in Heads
  /\ contained \in BOOLEAN
  /\ clash \in BOOLEAN
  /\ branch \in Commit \union {NoCommit}
  /\ mergers \in [Mergers -> Merging \union {Idle}]
  /\ jobs \in SUBSET Commit
  /\ live \in Commit \union {NoCommit}

-----------------------------------------------------------------------------
StageInit ==
  /\ heads = [s \in Sources |-> 0]
  /\ contained = TRUE
  /\ clash = FALSE
  /\ branch = NoCommit
  /\ mergers = [u \in Mergers |-> Idle]
  /\ jobs = {}
  /\ live = NoCommit

\* A source moves: a commit on top of it, after which the heads may conflict,
\* or, for the first one, a merge of the others into it.
SourceMoves(s) ==
  /\ heads[s] < MaxHead
  /\ heads' = [heads EXCEPT ![s] = @ + 1]
  /\ \/ contained' = TRUE /\ clash' = FALSE
     \/ contained' = FALSE /\ clash' \in BOOLEAN
  /\ UNCHANGED <<branch, mergers, jobs, live>>

\* Resolver.Resolve, for the pass or for a job that asks for its grant.
Begin(u, job) ==
  /\ mergers[u] = Idle
  /\ mergers' = [mergers EXCEPT ![u] =
       [at |-> "start", job |-> job, head |-> NoCommit, lease |-> NoCommit]]
  /\ UNCHANGED <<heads, contained, clash, branch, live>>

PassBegins == Begin(Pass, NoCommit) /\ UNCHANGED jobs

GrantBegins(u) == \E job \in jobs : Begin(u, job) /\ jobs' = jobs \ {job}

Busy == {u \in Mergers : mergers[u] # Idle}

\* The commits somebody still knows.
Known ==
  {branch, live} \union jobs
    \union UNION {{mergers[u].head, mergers[u].lease, mergers[u].job} : u \in Busy}

\* The commits git merge can make of the heads: always another one, but for
\* two goroutines that merge the same heads in one second.
MergedAt(t) == [of |-> heads, made |-> t]
NewTime(t) == MergedAt(t) \notin Known /\ \A u \in 1..(t - 1) : MergedAt(u) \in Known
Merges ==
  {MergedAt(t) : t \in
     IF contained THEN {OwnHead}
     ELSE {t \in 1..MaxTime : NewTime(t) \/ MergedAt(t) \in {mergers[u].head : u \in Busy}}}

Drop(u) == mergers' = [mergers EXCEPT ![u] = Idle]

\* The clone, and the merge in it.  Sources that conflict, like any other
\* problem, leave the service out of what was resolved; a merge that is the
\* branch's head already is not pushed.  (The branch is read just before the
\* clone: sources only move on, so a push in between changes neither outcome.)
Merge(u) ==
  /\ mergers[u].at = "start"
  /\ \/ clash /\ Drop(u)
     \/ /\ ~clash
        /\ \E head \in Merges :
             mergers' = [mergers EXCEPT
               ![u].at = IF head = branch THEN "answer" ELSE "push",
               ![u].head = head,
               ![u].lease = IF head = branch THEN NoCommit ELSE branch]
  /\ UNCHANGED <<heads, contained, clash, branch, jobs, live>>

\* Mutant: the merge is pushed whatever the branch has become (--force).
PushForced(u) ==
  /\ mergers[u].at = "push"
  /\ branch' = mergers[u].head
  /\ mergers' = [mergers EXCEPT ![u].at = "answer", ![u].lease = NoCommit]
  /\ UNCHANGED <<heads, contained, clash, jobs, live>>

\* push --force-with-lease: refused when the branch is no longer the one that
\* was cloned.
Push(u) ==
  /\ mergers[u].at = "push"
  /\ IF branch = mergers[u].lease
     THEN /\ branch' = mergers[u].head
          /\ mergers' = [mergers EXCEPT ![u].at = "answer", ![u].lease = NoCommit]
     ELSE Drop(u) /\ UNCHANGED branch
  /\ UNCHANGED <<heads, contained, clash, jobs, live>>

\* Mutant: a pass that takes the branch for what runs.
PassTrustsBranch ==
  /\ mergers[Pass].at = "answer"
  /\ IF branch = mergers[Pass].head
     THEN UNCHANGED jobs
     ELSE /\ Cardinality(jobs) < MaxJobs
          /\ jobs' = jobs \union {mergers[Pass].head}
  /\ Drop(Pass)
  /\ UNCHANGED <<heads, contained, clash, branch, live>>

\* catchUp: a job is started for a commit the service does not run.
PassAnswers ==
  /\ mergers[Pass].at = "answer"
  /\ IF live = mergers[Pass].head
     THEN UNCHANGED jobs
     ELSE /\ Cardinality(jobs) < MaxJobs
          /\ jobs' = jobs \union {mergers[Pass].head}
  /\ Drop(Pass)
  /\ UNCHANGED <<heads, contained, clash, branch, live>>

\* Grant: the job's commit is compared with what was resolved, and deployed
\* when it is the same.
GrantAnswers(u) ==
  /\ mergers[u].at = "answer"
  /\ live' = IF mergers[u].head = mergers[u].job THEN mergers[u].job ELSE live
  /\ Drop(u)
  /\ UNCHANGED <<heads, contained, clash, branch, jobs>>

PassNext == PassBegins \/ Merge(Pass) \/ Push(Pass) \/ PassAnswers
GrantNext(u) == GrantBegins(u) \/ Merge(u) \/ Push(u) \/ GrantAnswers(u)

StageNext ==
  \/ \E s \in Sources : SourceMoves(s)
  \/ PassNext
  \/ \E u \in Grants : GrantNext(u)

StageSpec == StageInit /\ [][StageNext]_stageVars

\* The pass is on a timer, a job that was started asks, and a merge has a
\* timeout.
FairStage ==
  StageSpec /\ WF_stageVars(PassNext) /\ \A u \in Grants : WF_stageVars(GrantNext(u))

-----------------------------------------------------------------------------
(***************************************************************************)
(* Properties.                                                             *)
(***************************************************************************)

\* The stage's branch never goes back: a merge of older heads, finished late
\* by another goroutine, never replaces one of newer heads.
BranchNeverBack ==
  [][branch # NoCommit =>
       branch' # NoCommit /\ \A s \in Sources : branch'.of[s] >= branch.of[s]]_stageVars

\* A stage whose first source contains the others is deployed: once the
\* sources rest there, the service runs the heads.
UpToDate == live # NoCommit /\ live.of = heads
ContainedFollows == <>[]contained => <>[]UpToDate

\* group-repo.md: "A stage deploys the head of its source branch. With several
\* sources the broker rebuilds env/{name} ... by merging them in order
\* whenever one moves".  Once the sources rest and do not conflict, the
\* service runs a merge of their heads.
StageFollows == <>[]~clash => <>[]UpToDate

=============================================================================
