---------------------------- MODULE ServiceDeploys ---------------------------
(***************************************************************************)
(* How one runtime service of one environment comes to run the commit its  *)
(* environment wants: the webhooks and the catch-up pass                   *)
(* (internal/pipeline) that ask for a deploy, the environment's queue      *)
(* (DeployWorker, which DeployQueue implements), the dispatcher            *)
(* (internal/deploy/dispatcher.go) that starts a workflow run, the run     *)
(* that asks the broker for a grant, pushes and reports                    *)
(* (internal/pipeline/grant.go, actions/deploy/deploy.sh), and the service *)
(* as the platform reports it (internal/zerops/deploy.go).                 *)
(*                                                                         *)
(* Every call to Gitea or Zerops that reads or writes state of this model  *)
(* is a step of its own, so that the other actors run between a read and   *)
(* the write it leads to.  Calls that read only state outside the model    *)
(* (the registry, the gate, the runner, the token) are part of the step    *)
(* they guard, as a refusal it may take.                                   *)
(*                                                                         *)
(* A commit is a number; the wanted one only moves to larger numbers.  The *)
(* newest status of the service's context on a commit is all the code ever *)
(* looks at, so it is all the model keeps.                                 *)
(***************************************************************************)
EXTENDS Naturals

CONSTANTS MaxCommit,    \* bound: commits of the source
          Runs,         \* bound: workflow runs (and the builds they push) at once
          Callers,      \* goroutines that resolve: the pass and webhooks
          Pass,         \* the one of them that is the pass's loop
          MaxGrants,    \* bound: MAX_GRANTS of deploy.sh
          MaxFaults,    \* bound: failed calls, refusals, lost answers, crashes
          SlowJobs      \* whether a job may outlast the patience

ASSUME DeploysAssumption ==
  /\ MaxCommit \in Nat \ {0}
  /\ MaxGrants \in Nat \ {0}
  /\ MaxFaults \in Nat
  /\ SlowJobs \in BOOLEAN
  /\ Pass \in Callers
  /\ Runs \cap {"none", "active", "gone"} = {}

VARIABLES wanted,     \* what Resolver.Resolve answers for the service
          status,     \* newest deploy status of the service, per commit
          named,      \* the version the service's userData names
          builds,     \* per run: the commit its push is building, 0 for none
          runs,       \* the workflow runs
          callers,    \* per caller: what it resolved and is doing with it
          hand, busy, mailbox,    \* the environment's queue
          dispatcher, \* Dispatcher.one's local state
          faults,     \* how many faults have happened
          everRan     \* history: the commits the service has run

queueVars == <<hand, busy, mailbox>>
serviceVars == <<named, builds, everRan>>
brokerVars == <<callers, queueVars, dispatcher>>
vars == <<wanted, status, serviceVars, runs, brokerVars, faults>>

Commits == 1..MaxCommit
OneEnv == {"env"}

\* A job of the queue; commit 0 is no job.
Job == [commit : Commits, requested : BOOLEAN]
NoJob == [commit |-> 0, requested |-> FALSE]

Queue == INSTANCE DeployWorker WITH Envs <- OneEnv

\* A commit status.  "failed" is a job's own report ("failed: ..."), "refused"
\* any other failure; fresh is younger than the patience of twenty minutes.
Kinds == {"none", "dispatched", "deploying", "failed", "refused", "live"}
Status == [kind : Kinds, fresh : BOOLEAN]
Pending(st) == st.kind \in {"dispatched", "deploying"}
StatusOf(kind) == [kind |-> kind, fresh |-> kind \in {"dispatched", "deploying"}]

\* The version userData names is the one whose build started last: a build on
\* its way, the active version, or one that is neither ("gone").
NamedAt == Runs \union {"none", "active", "gone"}
Version == [commit : 0..MaxCommit, at : NamedAt]

\* ServiceDetail.DeployedSha: the commit the service verifiably runs.
DeployedSha == IF named.at = "active" THEN named.commit ELSE 0
\* ServiceDetail.Deploying.
Deploying == named.at \notin {"none", "active"}

RunPhases == {"asking", "granting", "ruling", "handover", "answer", "held",
              "building", "built", "unbuilt", "verdict live", "verdict failed"}
\* A run: left is how often it asks again once it has deployed (never, when a
\* job was told its environment); known while Records holds the grant it has.
Run == [at : RunPhases, commit : Commits, left : 0..(MaxGrants - 1), known : BOOLEAN]
NoRun == [at |-> "none"]

CallerPhases == {"live", "submit", "mark", "write"}
Caller == [at : CallerPhases, commit : Commits, requested : BOOLEAN]
NoCaller == [at |-> "none"]

Dispatcher == [at : {"service", "history", "start", "write"}, live : BOOLEAN]
Resting == [at |-> "rest", live |-> FALSE]

TypeOK ==
  /\ wanted \in Commits
  /\ status \in [Commits -> Status]
  /\ named \in Version
  /\ builds \in [Runs -> 0..MaxCommit]
  /\ runs \in [Runs -> Run \union {NoRun}]
  /\ callers \in [Callers -> Caller \union {NoCaller}]
  /\ hand \in [OneEnv -> Job \union {NoJob}]
  /\ busy \in [OneEnv -> BOOLEAN]
  /\ mailbox \in [OneEnv -> Job \union {NoJob}]
  /\ dispatcher \in Dispatcher \union {Resting}
  /\ faults \in 0..MaxFaults
  /\ everRan \in SUBSET Commits

-----------------------------------------------------------------------------
Init ==
  /\ wanted = 1
  /\ status = [c \in Commits |-> StatusOf("none")]
  /\ named = [commit |-> 0, at |-> "none"]
  /\ builds = [r \in Runs |-> 0]
  /\ runs = [r \in Runs |-> NoRun]
  /\ callers = [u \in Callers |-> NoCaller]
  /\ Queue!WorkerInit
  /\ dispatcher = Resting
  /\ faults = 0
  /\ everRan = {}

\* A call that failed, an answer that was lost, a check that refused: each
\* uses up one of the faults a behaviour has.
Fault == faults < MaxFaults /\ faults' = faults + 1

\* WriteStatus: a write that fails is only logged.
WriteStatus(c, kind) ==
  \/ /\ status' = [status EXCEPT ![c] = StatusOf(kind)]
     /\ UNCHANGED faults
  \/ /\ Fault
     /\ UNCHANGED status

\* A run ends; its slot is free once its build has ended too.
EndRun(r) == runs' = [runs EXCEPT ![r] = NoRun]
Goto(r, at) == runs' = [runs EXCEPT ![r].at = at]
FreeRun(r) == runs[r] = NoRun /\ builds[r] = 0
StartRun(r, c, left) ==
  /\ FreeRun(r)
  /\ runs' = [runs EXCEPT ![r] =
                [at |-> "asking", commit |-> c, left |-> left, known |-> FALSE]]

-----------------------------------------------------------------------------
(* The source, and those who ask for a deploy.                             *)

\* The wanted commit moves: a push, a merge, a newly approved release.  A push
\* to the default branch also starts the repository's workflow by itself.
Advance ==
  /\ wanted < MaxCommit
  /\ wanted' = wanted + 1
  /\ \/ UNCHANGED runs
     \/ \E r \in Runs : StartRun(r, wanted + 1, MaxGrants - 1)
  /\ UNCHANGED <<status, serviceVars, brokerVars, faults>>

\* Pipeline.Deploy, called by a webhook: what is wanted now, to be submitted
\* as it is.  requested is a person's ask (a newly approved release).
Deploy(u, requested) ==
  /\ u # Pass
  /\ callers[u] = NoCaller
  /\ callers' = [callers EXCEPT ![u] =
                   [at |-> "submit", commit |-> wanted, requested |-> requested]]
  /\ UNCHANGED <<wanted, status, serviceVars, runs, queueVars, dispatcher, faults>>

\* Pipeline.catchUp, called by the pass for every environment and by the
\* webhooks that mean the group repo's main moved.
CatchUp(u) ==
  /\ callers[u] = NoCaller
  /\ callers' = [callers EXCEPT ![u] =
                   [at |-> "live", commit |-> wanted, requested |-> FALSE]]
  /\ UNCHANGED <<wanted, status, serviceVars, runs, queueVars, dispatcher, faults>>

\* liveShas: a service that is behind is submitted, one that is not has its
\* status checked.
ReadLive(u) ==
  /\ callers[u].at = "live"
  /\ callers' = [callers EXCEPT ![u].at =
                   IF DeployedSha # callers[u].commit THEN "submit" ELSE "mark"]
  /\ UNCHANGED <<wanted, status, serviceVars, runs, queueVars, dispatcher, faults>>

\* ReadHistory, then the decision of MarkLive.
ReadMark(u) ==
  /\ callers[u].at = "mark"
  /\ callers' = [callers EXCEPT ![u] =
       IF status[callers[u].commit].kind \in {"none", "live"}
       THEN NoCaller ELSE [@ EXCEPT !.at = "write"]]
  /\ UNCHANGED <<wanted, status, serviceVars, runs, queueVars, dispatcher, faults>>

WriteMark(u) ==
  /\ callers[u].at = "write"
  /\ WriteStatus(callers[u].commit, "live")
  /\ callers' = [callers EXCEPT ![u] = NoCaller]
  /\ UNCHANGED <<wanted, serviceVars, runs, queueVars, dispatcher>>

\* Queue.Submit.
Submit(u) ==
  /\ callers[u].at = "submit"
  /\ Queue!Ask("env", [commit |-> callers[u].commit, requested |-> callers[u].requested])
  /\ callers' = [callers EXCEPT ![u] = NoCaller]
  /\ UNCHANGED <<wanted, status, serviceVars, runs, dispatcher, faults>>

\* A read that fails ends the call; the next pass tries again.
CallerFails(u) ==
  /\ callers[u].at \in {"live", "mark"}
  /\ Fault
  /\ callers' = [callers EXCEPT ![u] = NoCaller]
  /\ UNCHANGED <<wanted, status, serviceVars, runs, queueVars, dispatcher>>

-----------------------------------------------------------------------------
(* The dispatcher, on the queue's goroutine.                               *)

DispatchBegin ==
  /\ Queue!Begin("env")
  /\ dispatcher' = [at |-> "service", live |-> FALSE]
  /\ UNCHANGED <<wanted, status, serviceVars, runs, callers, faults>>

\* run returned: the queue's goroutine takes what waits.
DispatchEnd ==
  /\ dispatcher = Resting
  /\ Queue!End("env")
  /\ UNCHANGED <<wanted, status, serviceVars, runs, callers, dispatcher, faults>>

\* Every return of Dispatcher.one leads here: nothing else it kept survives.
Rest == dispatcher' = Resting

dispatched == hand["env"]

\* The environment's services, then the service itself.
DispatchReadService ==
  /\ dispatcher.at = "service"
  /\ dispatcher' = [at |-> "history", live |-> DeployedSha = dispatched.commit]
  /\ UNCHANGED <<wanted, status, serviceVars, runs, callers, queueVars, faults>>

\* Dispatcher.Run: the list of services could not be read.
DispatchListFails ==
  /\ dispatcher.at = "service"
  /\ Fault
  /\ Rest
  /\ UNCHANGED <<wanted, status, serviceVars, runs, callers, queueVars>>

\* Dispatcher.fail: the environment has no such service, or the service could
\* not be read.  The status is written before any history was read.
DispatchServiceFails ==
  /\ dispatcher.at = "service"
  /\ Fault
  /\ status' = [status EXCEPT ![dispatched.commit] = StatusOf("refused")]
  /\ Rest
  /\ UNCHANGED <<wanted, serviceVars, runs, callers, queueVars>>

\* The commit's statuses could not be read: nothing is dispatched.
DispatchHistoryFails ==
  /\ dispatcher.at = "history"
  /\ Fault
  /\ Rest
  /\ UNCHANGED <<wanted, status, serviceVars, runs, callers, queueVars>>

\* Mutant: a pending status is waited for however old it is.
DispatchWaitsForEver ==
  /\ dispatcher.at = "history"
  /\ LET st == status[dispatched.commit]
     IN dispatcher' = IF dispatcher.live \/ Pending(st)
                         \/ (st.kind = "failed" /\ ~dispatched.requested)
                      THEN Resting ELSE [dispatcher EXCEPT !.at = "start"]
  /\ UNCHANGED <<wanted, status, serviceVars, runs, callers, queueVars, faults>>

\* ReadHistory, and what Dispatcher.one concludes from it: already live, a
\* failure only a person retries, a deploy on its way, or a run to start.
DispatchReadHistory ==
  /\ dispatcher.at = "history"
  /\ LET st == status[dispatched.commit]
         isLive == dispatcher.live
         final == st.kind = "failed" /\ ~dispatched.requested
         onItsWay == Pending(st) /\ st.fresh
     IN \/ /\ IF isLive THEN st.kind \in {"none", "live"} ELSE final \/ onItsWay
           /\ Rest
        \/ /\ isLive
           /\ st.kind \notin {"none", "live"}
           /\ dispatcher' = [dispatcher EXCEPT !.at = "write"]
        \/ /\ ~isLive /\ ~final /\ ~onItsWay
           /\ dispatcher' = [dispatcher EXCEPT !.at = "start"]
  /\ UNCHANGED <<wanted, status, serviceVars, runs, callers, queueVars, faults>>

\* The gate is not met, the repository could not be read, or it has no
\* workflow the broker can start.
DispatchRefused ==
  /\ dispatcher.at = "start"
  /\ Fault
  /\ status' = [status EXCEPT ![dispatched.commit] = StatusOf("refused")]
  /\ Rest
  /\ UNCHANGED <<wanted, serviceVars, runs, callers, queueVars>>

\* DispatchWorkflow.
DispatchStart ==
  /\ dispatcher.at = "start"
  /\ \E r \in Runs : StartRun(r, dispatched.commit, 0)
  /\ dispatcher' = [at |-> "write", live |-> FALSE]
  /\ UNCHANGED <<wanted, status, serviceVars, callers, queueVars, faults>>

\* The status Dispatcher.one ends with: "live" for a commit it read as live
\* (MarkLive), "dispatched" for one whose run it started.
DispatchWrite ==
  /\ dispatcher.at = "write"
  /\ WriteStatus(dispatched.commit,
                 IF dispatcher.live THEN "live" ELSE "dispatched")
  /\ Rest
  /\ UNCHANGED <<wanted, serviceVars, runs, callers, queueVars>>

-----------------------------------------------------------------------------
(* The grant: Pipeline.Grant, one request of a run.                        *)

\* Mutant: a grant that does not compare the job's commit with the wanted one.
GrantAnyCommit(r) ==
  /\ runs[r].at = "asking"
  /\ Goto(r, "granting")
  /\ UNCHANGED <<wanted, status, serviceVars, brokerVars, faults>>

\* Everything read before the commit is compared, and the comparison.
GrantResolve(r) ==
  /\ runs[r].at = "asking"
  /\ IF wanted # runs[r].commit THEN EndRun(r) ELSE Goto(r, "granting")
  /\ UNCHANGED <<wanted, status, serviceVars, brokerVars, faults>>

\* Mutant: a grant that does not look at what the service runs.
GrantOverLive(r) ==
  /\ runs[r].at = "granting"
  /\ Goto(r, "ruling")
  /\ UNCHANGED <<wanted, status, serviceVars, brokerVars, faults>>

\* serviceOf: a commit already live is not deployed again.
GrantReadService(r) ==
  /\ runs[r].at = "granting"
  /\ IF DeployedSha = runs[r].commit THEN EndRun(r) ELSE Goto(r, "ruling")
  /\ UNCHANGED <<wanted, status, serviceVars, brokerVars, faults>>

\* LatestStatus: another job holds a grant of this commit.
GrantReadStatus(r) ==
  /\ runs[r].at = "ruling"
  /\ LET st == status[runs[r].commit]
     IN IF st.kind = "deploying" /\ st.fresh THEN EndRun(r) ELSE Goto(r, "handover")
  /\ UNCHANGED <<wanted, status, serviceVars, brokerVars, faults>>

\* handOver: the key is read, the record made, the status written.
GrantHandOver(r) ==
  /\ runs[r].at = "handover"
  /\ WriteStatus(runs[r].commit, "deploying")
  /\ runs' = [runs EXCEPT ![r].at = "answer", ![r].known = TRUE]
  /\ UNCHANGED <<wanted, serviceVars, callers, queueVars, dispatcher>>

\* handOver refuses: the runner ran unreviewed code.  The runner is replaced,
\* which ends the run, and every environment of the group is caught up again.
GrantTainted(r) ==
  /\ runs[r].at = "handover"
  /\ Fault
  /\ status' = [status EXCEPT ![runs[r].commit] = StatusOf("refused")]
  /\ EndRun(r)
  /\ UNCHANGED <<wanted, serviceVars, brokerVars>>

\* Any other refusal, or a request or answer that is lost: the job ends red.
GrantFails(r) ==
  /\ runs[r].at \in {"asking", "granting", "ruling", "handover", "answer"}
  /\ Fault
  /\ EndRun(r)
  /\ UNCHANGED <<wanted, status, serviceVars, brokerVars>>

\* The job has the key.
GrantAnswered(r) ==
  /\ runs[r].at = "answer"
  /\ Goto(r, "held")
  /\ UNCHANGED <<wanted, status, serviceVars, brokerVars, faults>>

-----------------------------------------------------------------------------
(* The job pushes, the platform builds.                                    *)

\* zcli push: a version is created and its build starts.
Push(r) ==
  /\ runs[r].at = "held"
  /\ Goto(r, "building")
  /\ builds' = [builds EXCEPT ![r] = runs[r].commit]
  /\ named' = [commit |-> runs[r].commit, at |-> r]
  /\ UNCHANGED <<wanted, status, everRan, brokerVars, faults>>

\* zcli push fails before a version exists.
PushFails(r) ==
  /\ runs[r].at = "held"
  /\ Fault
  /\ Goto(r, "unbuilt")
  /\ UNCHANGED <<wanted, status, serviceVars, brokerVars>>

\* A build succeeds and its version becomes the active one.
BuildSucceeds(r) ==
  /\ builds[r] # 0
  /\ builds' = [builds EXCEPT ![r] = 0]
  /\ everRan' = everRan \union {builds[r]}
  /\ named' = [named EXCEPT !.at = IF @ = r THEN "active"
                                   ELSE IF @ = "active" THEN "gone" ELSE @]
  /\ IF runs[r].at = "building" THEN Goto(r, "built") ELSE UNCHANGED runs
  /\ UNCHANGED <<wanted, status, brokerVars, faults>>

\* zcli push may return before its version runs; the version may still fail.
PushReturns(r) ==
  /\ runs[r].at = "building"
  /\ builds[r] # 0
  /\ Goto(r, "built")
  /\ UNCHANGED <<wanted, status, serviceVars, brokerVars, faults>>

\* A build fails: the job that waits for it sees it, or nobody does any more.
BuildFails(r) ==
  /\ builds[r] # 0
  /\ builds' = [builds EXCEPT ![r] = 0]
  /\ named' = [named EXCEPT !.at = IF @ = r THEN "gone" ELSE @]
  /\ \/ runs[r].at = "building" /\ Goto(r, "unbuilt") /\ UNCHANGED faults
     \/ runs[r].at # "building" /\ Fault /\ UNCHANGED runs
  /\ UNCHANGED <<wanted, status, everRan, brokerVars>>

\* A run dies silently: its runner is gone, or Gitea ends the run.
RunDies(r) ==
  /\ runs[r].at \in {"asking", "held", "building", "built", "unbuilt"}
  /\ Fault
  /\ EndRun(r)
  /\ UNCHANGED <<wanted, status, serviceVars, brokerVars>>

-----------------------------------------------------------------------------
(* The report: Pipeline.Result.                                            *)

\* After a report a dispatched run is done; a push's run asks again.
Reported(r) ==
  runs' = [runs EXCEPT ![r] =
    IF @.left > 0
    THEN [@ EXCEPT !.at = "asking", !.left = runs[r].left - 1, !.known = FALSE]
    ELSE NoRun]

\* A failure, of a grant the broker remembers or has forgotten.  The job exits.
ReportFailure(r) ==
  /\ runs[r].at = "unbuilt"
  /\ IF runs[r].known
     THEN WriteStatus(runs[r].commit, "failed") ELSE UNCHANGED <<status, faults>>
  /\ EndRun(r)
  /\ UNCHANGED <<wanted, serviceVars, callers, queueVars, dispatcher>>

\* Mutant: the job's word for a success is taken.
ReportBelieved(r) ==
  /\ runs[r].at = "built"
  /\ IF runs[r].known THEN Goto(r, "verdict live") ELSE Reported(r)
  /\ UNCHANGED <<wanted, status, serviceVars, brokerVars, faults>>

\* A success is checked against the service: it runs the commit, it is still
\* building it (no verdict), or it contradicts the job.
ReportSuccess(r) ==
  /\ runs[r].at = "built"
  /\ IF ~runs[r].known \/ (Deploying /\ named.commit = runs[r].commit)
     THEN Reported(r)
     ELSE Goto(r, IF DeployedSha = runs[r].commit THEN "verdict live" ELSE "verdict failed")
  /\ UNCHANGED <<wanted, status, serviceVars, brokerVars, faults>>

\* The report is lost, or the service could not be read (the action ignores it).
ReportLost(r) ==
  /\ runs[r].at \in {"built", "unbuilt"}
  /\ Fault
  /\ IF runs[r].at = "built" THEN Reported(r) ELSE EndRun(r)
  /\ UNCHANGED <<wanted, status, serviceVars, brokerVars>>

WriteVerdict(r) ==
  /\ runs[r].at \in {"verdict live", "verdict failed"}
  /\ WriteStatus(runs[r].commit, IF runs[r].at = "verdict live" THEN "live" ELSE "failed")
  /\ Reported(r)
  /\ UNCHANGED <<wanted, serviceVars, callers, queueVars, dispatcher>>

-----------------------------------------------------------------------------
(* Time and restarts.                                                      *)

\* A pending status gets older than the patience: when nothing of the commit is
\* left that could still change it or, when jobs may be that slow, at any time.
Age(c) ==
  /\ Pending(status[c]) /\ status[c].fresh
  /\ ~SlowJobs => \A r \in Runs : builds[r] # c /\ (runs[r] # NoRun => runs[r].commit # c)
  /\ status' = [status EXCEPT ![c].fresh = FALSE]
  /\ UNCHANGED <<wanted, serviceVars, runs, brokerVars, faults>>

\* The broker restarts: its queue, its callers, its grants are gone.  A run
\* whose request was being answered gets no answer; a report is ignored.
Restart ==
  /\ Fault
  /\ callers' = [u \in Callers |-> NoCaller]
  /\ hand' = [e \in OneEnv |-> NoJob]
  /\ busy' = [e \in OneEnv |-> FALSE]
  /\ mailbox' = [e \in OneEnv |-> NoJob]
  /\ dispatcher' = Resting
  /\ runs' = [r \in Runs |->
       IF runs[r].at \in {"granting", "ruling", "handover", "answer",
                          "verdict live", "verdict failed"}
       THEN NoRun
       ELSE IF runs[r] = NoRun THEN NoRun ELSE [runs[r] EXCEPT !.known = FALSE]]
  /\ UNCHANGED <<wanted, status, serviceVars>>

CallerNext(u) ==
  \/ CatchUp(u) \/ ReadLive(u) \/ ReadMark(u) \/ WriteMark(u) \/ Submit(u)

DispatchNext ==
  \/ DispatchBegin \/ DispatchReadService \/ DispatchReadHistory
  \/ DispatchStart \/ DispatchWrite \/ DispatchEnd

RunNext(r) ==
  \/ GrantResolve(r) \/ GrantReadService(r) \/ GrantReadStatus(r)
  \/ GrantHandOver(r) \/ GrantAnswered(r) \/ Push(r)
  \/ ReportFailure(r) \/ ReportSuccess(r) \/ WriteVerdict(r)

BuildNext(r) == BuildSucceeds(r) \/ BuildFails(r)

Next ==
  \/ Advance
  \/ \E u \in Callers : CallerNext(u) \/ CallerFails(u)
  \/ \E u \in Callers, q \in BOOLEAN : Deploy(u, q)
  \/ DispatchNext
  \/ DispatchListFails \/ DispatchServiceFails
  \/ DispatchHistoryFails \/ DispatchRefused
  \/ \E r \in Runs :
       \/ RunNext(r) \/ BuildNext(r) \/ PushReturns(r)
       \/ GrantTainted(r) \/ GrantFails(r) \/ PushFails(r)
       \/ RunDies(r) \/ ReportLost(r)
  \/ \E c \in Commits : Age(c)
  \/ Restart

Spec == Init /\ [][Next]_vars

\* The pass's loop runs on a timer, a goroutine with work in hand gets on with
\* it (every call has a timeout), the platform ends a build, Gitea runs a
\* queued job, and time passes.  A webhook may never come.
Fairness ==
  /\ \A u \in Callers : WF_vars(ReadLive(u) \/ ReadMark(u) \/ WriteMark(u) \/ Submit(u))
  /\ WF_vars(CatchUp(Pass))
  /\ WF_vars(DispatchNext)
  /\ \A r \in Runs : WF_vars(RunNext(r)) /\ WF_vars(BuildNext(r))
  /\ \A c \in Commits : WF_vars(Age(c))

FairSpec == Spec /\ Fairness

-----------------------------------------------------------------------------
(***************************************************************************)
(* Properties.                                                             *)
(***************************************************************************)

\* Runs past the comparison with what is wanted: they deploy their commit, or
\* end, without looking at it again.
Committed == {"granting", "ruling", "handover", "answer", "held", "building"}
InFlight(c) ==
  \E r \in Runs : \/ runs[r].at \in Committed /\ runs[r].commit = c
                  \/ builds[r] = c

\* A commit's status says live only when the service has run it: neither a
\* job's word nor a stale read writes it (Result, MarkLive).
LiveHasRun ==
  \A c \in Commits : status[c].kind = "live" => c \in everRan

\* Once a commit is superseded and nothing of it is in flight, nothing of it
\* ever starts again, whatever stale job of it still waits in the queue, in
\* the dispatcher or as a run (the grant's third check).
SupersededStaysDown ==
  [][\A c \in Commits : (c < wanted /\ ~InFlight(c)) => ~InFlight(c)']_vars

\* A service that runs the wanted commit stays on it until the wanted commit
\* moves: unless an older grant was already on its way, no pass, queue entry,
\* late status or run has it deployed over (catchUp, one, the grant's fourth
\* check).
Undisturbed ==
  \A r \in Runs :
    /\ builds[r] = 0
    /\ runs[r].at \notin Committed \/ (runs[r].at = "granting" /\ runs[r].commit = wanted)
LiveStays ==
  [][(DeployedSha = wanted /\ Undisturbed)
       => DeployedSha' = wanted /\ (wanted' = wanted => Undisturbed')]_vars

\* Whatever is lost or refused, the service ends up on the wanted commit, or
\* the wanted commit says why not: its job failed.
Settled == DeployedSha = wanted \/ status[wanted].kind = "failed"
SettlesAgain == []<>Settled

\* job.go, History.Failed: a job's failure report "is final for that commit on
\* that service: no pass starts it again, only a person does".  The status is
\* all that says so, so a job nobody asked for must not make it a refusal,
\* which every pass retries (a dispatcher's step leaves the runs alone).
FailedIsFinal ==
  [][\A c \in Commits :
       (status[c].kind = "failed" /\ ~dispatched.requested /\ runs' = runs)
         => status'[c].kind # "refused"]_vars

\* broker-api.md, the grant's fifth check, "One job per commit. A grant for the
\* same commit younger than twenty minutes: in_progress".  No grant is handed
\* over while another job holds one of the commit and its status is young.
Holds(r, c) == runs[r].at \in {"answer", "held", "building"} /\ runs[r].commit = c
OneJobPerCommit ==
  [][\A q, r \in Runs :
       (runs[r].at = "handover" /\ runs'[r].at = "answer" /\ Holds(q, runs[r].commit))
         => ~(status[runs[r].commit].kind = "deploying" /\ status[runs[r].commit].fresh)]_vars

\* README.md: "a stage follows the head of its source branches".  A wanted
\* commit that has run is not given up for good (only a person starts a failed
\* commit again) while the service runs an older one.
NotStuckOnOlder ==
  \A c \in Commits :
    ~(/\ c = wanted /\ c \in everRan
      /\ status[c].kind = "failed"
      /\ DeployedSha \in 1..(c - 1))

=============================================================================
