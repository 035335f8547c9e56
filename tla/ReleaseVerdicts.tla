--------------------------- MODULE ReleaseVerdicts ---------------------------
(***************************************************************************)
(* Releases: a tag of the group repo is judged once, on its pusher, by the *)
(* handler of its `create` webhook (internal/pipeline/hooks.go); the       *)
(* verdict is a commit status; production runs what the newest approved    *)
(* tag lists (internal/deploy/release.go, resolve.go), brought there by    *)
(* the handler's own ask and by the pass.                                  *)
(*                                                                         *)
(* Each webhook is handled by a goroutine of its own, and every call that  *)
(* reads or writes what another one may change is a step of its own.  The  *)
(* goroutines are counted by what they are about to do.  Roles change as   *)
(* they like, so that any delivery may come to either verdict.  The queue  *)
(* is DeployWorker.  What ServiceDeploys does to one commit, from the      *)
(* dispatch to the report, is cut to the start of a job, its grant and its *)
(* end.                                                                    *)
(*                                                                         *)
(* Tags are numbered by their tagger's date (SortReleases).                *)
(***************************************************************************)
EXTENDS Naturals

CONSTANTS MaxTag,      \* bound: release tags
          Commits,     \* the commits of production's service
          NoCommit,    \* what a tag that does not exist lists, and no version runs
          Garbled,     \* what a tag lists whose message does not parse
          MaxFaults    \* bound: calls, deliveries, jobs and brokers lost, deliveries repeated

ASSUME ReleaseAssumption ==
  /\ MaxTag \in Nat /\ MaxFaults \in Nat
  /\ NoCommit \notin Commits /\ Garbled \notin Commits \union {NoCommit}

Tags == 1..MaxTag
Approval == {"success", "failure"}

VARIABLES lists,      \* per tag: the commit its message lists
          verdict,    \* per tag: the last state written under mate/release/{tag}
          mail,       \* per tag: deliveries of its webhook on their way
          judging,    \* per tag and verdict: goroutines about to write it
          asking,     \* goroutines that wrote an approval, and are about to deploy
          pass,       \* the pass: the tags it has yet to read, those it read as approved
          hand, mailbox,   \* production's queue
          word,       \* per commit: the newest deploy status
          job,        \* per commit: its job
          running,    \* the commit production runs
          faults,
          everApproved   \* history: the tags an approval was written on

hookVars == <<judging, asking>>
queueVars == <<hand, mailbox>>
deployVars == <<word, job, running>>
tagVars == <<lists, verdict, mail, everApproved>>
vars == <<tagVars, hookVars, pass, queueVars, deployVars, faults>>

OneEnv == {"production"}
Job == [commit : Commits, requested : BOOLEAN]
NoJob == [commit |-> NoCommit, requested |-> FALSE]
\* The worker's own steps are one here (Turn): nothing is seen at work.
Queue == INSTANCE DeployWorker WITH Envs <- OneEnv, busy <- [e \in OneEnv |-> FALSE]

NoneJudging == [t \in Tags |-> [v \in Approval |-> 0]]
Idle == [at |-> "idle"]
Reading == [at : {"tags"}, todo : SUBSET Tags, seen : SUBSET Tags]

TypeOK ==
  /\ lists \in [Tags -> Commits \union {NoCommit, Garbled}]
  /\ verdict \in [Tags -> Approval \union {"none"}]
  /\ mail \in [Tags -> Nat]
  /\ judging \in [Tags -> [Approval -> Nat]]
  /\ asking \in Nat
  /\ pass \in Reading \union {Idle}
  /\ hand \in [OneEnv -> Job \union {NoJob}]
  /\ mailbox \in [OneEnv -> Job \union {NoJob}]
  /\ word \in [Commits -> {"none", "pending", "refused", "failed", "live"}]
  /\ job \in [Commits -> {"none", "asking", "deploying"}]
  /\ running \in Commits \union {NoCommit}
  /\ faults \in 0..MaxFaults
  /\ everApproved \in SUBSET Tags

-----------------------------------------------------------------------------
\* Judged, and Approved: the last status listed under the tag's context, which
\* is the last one written.
Judged(t) == verdict[t] # "none"
Approved(t) == verdict[t] = "success"

\* SortReleases.
Newest(t, ts) == t \in ts /\ \A u \in ts : u <= t

\* Releases: the approved tags whose message parses.
Releases == {t \in Tags : lists[t] \in Commits /\ Approved(t)}

\* What Resolver.production answers: the commit the newest release lists.
Wanted(c) == \E t \in Tags : Newest(t, Releases) /\ lists[t] = c

Init ==
  /\ lists = [t \in Tags |-> NoCommit]
  /\ verdict = [t \in Tags |-> "none"]
  /\ mail = [t \in Tags |-> 0]
  /\ judging = NoneJudging /\ asking = 0
  /\ pass = Idle
  /\ Queue!WorkerInit
  /\ word = [c \in Commits |-> "none"]
  /\ job = [c \in Commits |-> "none"]
  /\ running = NoCommit
  /\ faults = 0
  /\ everApproved = {}

Fault == faults < MaxFaults /\ faults' = faults + 1

-----------------------------------------------------------------------------
(* Gitea.                                                                  *)

\* Somebody Gitea lets create release tags pushes one; its webhook is sent.
PushTag(t) ==
  /\ lists[t] = NoCommit
  /\ \E c \in Commits \union {Garbled} : lists' = [lists EXCEPT ![t] = c]
  /\ mail' = [mail EXCEPT ![t] = 1]
  /\ UNCHANGED <<verdict, everApproved, hookVars, pass, queueVars, deployVars, faults>>

\* A delivery finds nobody listening, or is sent once more.
LoseDelivery(t) ==
  /\ Fault
  /\ mail[t] > 0
  /\ mail' = [mail EXCEPT ![t] = @ - 1]
  /\ UNCHANGED <<lists, verdict, everApproved, hookVars, pass, queueVars, deployVars>>

Redeliver(t) ==
  /\ Fault
  /\ lists[t] # NoCommit
  /\ mail' = [mail EXCEPT ![t] = @ + 1]
  /\ UNCHANGED <<lists, verdict, everApproved, hookVars, pass, queueVars, deployVars>>

-----------------------------------------------------------------------------
(* Pipeline.Create: the `create` webhook.                                  *)

\* A delivery comes to a verdict, on the roles of the moment.
Handles(t, judges) ==
  /\ mail[t] > 0
  /\ mail' = [mail EXCEPT ![t] = @ - 1]
  /\ \/ ~judges /\ UNCHANGED judging
     \/ judges /\ \E v \in Approval : judging' = [judging EXCEPT ![t][v] = @ + 1]
  /\ UNCHANGED <<lists, verdict, everApproved, asking, pass, queueVars, deployVars, faults>>

\* Mutant: a delivery judges its tag, whether or not it was judged.
HookJudges(t) == Handles(t, TRUE)
\* The tag is peeled and its verdict read: one that was judged stays as it is.
\* Otherwise the roles are read, and MayRelease decides on them.
HookJudged(t) == Handles(t, ~Judged(t))

\* CreateStatus.  Nothing is deployed for a refused tag.
HookWrites(t, v) ==
  /\ judging[t][v] > 0
  /\ judging' = [judging EXCEPT ![t][v] = @ - 1]
  /\ verdict' = [verdict EXCEPT ![t] = v]
  /\ IF v = "success"
     THEN asking' = asking + 1 /\ everApproved' = everApproved \union {t}
     ELSE UNCHANGED <<asking, everApproved>>
  /\ UNCHANGED <<lists, mail, pass, queueVars, deployVars, faults>>

\* Deploy: what the newest approved tag lists is submitted as a person's ask.
HookDeploys ==
  /\ asking > 0
  /\ asking' = asking - 1
  /\ \/ Releases = {} /\ UNCHANGED queueVars
     \/ \E t \in Tags :
          /\ Newest(t, Releases)
          /\ Queue!Ask("production", [commit |-> lists[t], requested |-> TRUE])
  /\ UNCHANGED <<tagVars, judging, pass, deployVars, faults>>

\* A call fails, and the handler with it.
HookFails ==
  /\ Fault
  /\ \/ /\ \E t \in Tags, v \in Approval :
             judging[t][v] > 0 /\ judging' = [judging EXCEPT ![t][v] = @ - 1]
        /\ UNCHANGED asking
     \/ asking > 0 /\ asking' = asking - 1 /\ UNCHANGED judging
  /\ UNCHANGED <<tagVars, pass, queueVars, deployVars>>

-----------------------------------------------------------------------------
(* The pass, for production.                                               *)

\* MarkLive: what is written on a commit that runs.
MarkLive(c) == word' = IF word[c] = "none" THEN word ELSE [word EXCEPT ![c] = "live"]

\* Releases lists the tags, ...
PassBegins ==
  /\ pass = Idle
  /\ pass' = [at |-> "tags", todo |-> {t \in Tags : lists[t] # NoCommit}, seen |-> {}]
  /\ UNCHANGED <<tagVars, hookVars, queueVars, deployVars, faults>>

\* ... then reads them one at a time, ...
PassReadsTag ==
  /\ pass # Idle
  /\ \E t \in pass.todo :
       pass' = [pass EXCEPT !.todo = @ \ {t},
                  !.seen = IF t \in Releases THEN @ \union {t} ELSE @]
  /\ UNCHANGED <<tagVars, hookVars, queueVars, deployVars, faults>>

\* ... and catchUp compares the newest with what runs, whose status it closes.
PassAnswers ==
  /\ pass # Idle
  /\ pass.todo = {}
  /\ pass' = Idle
  /\ \/ pass.seen = {} /\ UNCHANGED <<word, queueVars>>
     \/ \E t \in Tags :
          /\ Newest(t, pass.seen)
          /\ IF lists[t] = running
             THEN MarkLive(running) /\ UNCHANGED queueVars
             ELSE /\ Queue!Ask("production", [commit |-> lists[t], requested |-> FALSE])
                  /\ UNCHANGED word
  /\ UNCHANGED <<tagVars, hookVars, job, running, faults>>

PassFails ==
  /\ pass # Idle
  /\ Fault
  /\ pass' = Idle
  /\ UNCHANGED <<tagVars, hookVars, queueVars, deployVars>>

-----------------------------------------------------------------------------
(* The dispatcher and the job it starts.                                   *)

\* Dispatcher.one, and the queue taking what waits.
Dispatch ==
  /\ Queue!Turn("production")
  /\ LET c == hand["production"].commit
         requested == hand["production"].requested
     IN \/ /\ c = running
           /\ MarkLive(c)
           /\ UNCHANGED job
        \/ /\ c # running
           /\ word[c] = "pending" \/ (word[c] = "failed" /\ ~requested)
           /\ UNCHANGED <<word, job>>
        \/ /\ c # running /\ word[c] # "pending" /\ (word[c] = "failed" => requested)
           /\ word' = [word EXCEPT ![c] = "pending"]
           /\ job' = [job EXCEPT ![c] = "asking"]
  /\ UNCHANGED <<tagVars, hookVars, pass, running, faults>>

\* The push of a commit starts its repository's workflow by itself, and its
\* job asks too, before anything was deployed of it.
OwnRun(c) ==
  /\ job[c] = "none" /\ word[c] = "none"
  /\ job' = [job EXCEPT ![c] = "asking"]
  /\ UNCHANGED <<tagVars, hookVars, pass, queueVars, word, running, faults>>

\* A job that is refused ends, and says nothing.
GrantIf(met, c) ==
  /\ job[c] = "asking"
  /\ IF met /\ running # c
     THEN /\ job' = [job EXCEPT ![c] = "deploying"]
          /\ word' = [word EXCEPT ![c] = "pending"]
     ELSE /\ job' = [job EXCEPT ![c] = "none"]
          /\ UNCHANGED word
  /\ UNCHANGED <<tagVars, hookVars, pass, queueVars, running, faults>>

\* Mutant: a grant for what a tag lists that is not refused.
GrantUnjudged(c) == GrantIf(\E t \in Tags : lists[t] = c /\ (Judged(t) => Approved(t)), c)
\* Mutant: the releases sorted the other way round.
GrantOldest(c) ==
  GrantIf(\E t \in Releases : lists[t] = c /\ \A u \in Releases : t <= u, c)
\* Grant: the commit is deployed only when it is the one that is wanted.
JobAsks(c) == GrantIf(Wanted(c), c)

\* The job's report, or its loss.
JobEnds(c) ==
  /\ job[c] = "deploying"
  /\ job' = [job EXCEPT ![c] = "none"]
  /\ \/ /\ running' = c
        /\ \/ word' = [word EXCEPT ![c] = "live"] /\ UNCHANGED faults
           \/ Fault /\ UNCHANGED word
     \/ /\ word' = [word EXCEPT ![c] = "failed"]
        /\ UNCHANGED <<running, faults>>
  /\ UNCHANGED <<tagVars, hookVars, pass, queueVars>>

JobDies(c) ==
  /\ job[c] # "none"
  /\ Fault
  /\ job' = [job EXCEPT ![c] = "none"]
  /\ UNCHANGED <<tagVars, hookVars, pass, queueVars, word, running>>

\* The patience: a job nothing more is heard of is not believed any longer.
Age(c) ==
  /\ job[c] = "none" /\ word[c] = "pending"
  /\ word' = [word EXCEPT ![c] = "refused"]
  /\ UNCHANGED <<tagVars, hookVars, pass, queueVars, job, running, faults>>

\* The broker restarts: handlers, the pass and the queue are gone.
Restart ==
  /\ Fault
  /\ judging' = NoneJudging /\ asking' = 0
  /\ pass' = Idle
  /\ hand' = [e \in OneEnv |-> NoJob]
  /\ mailbox' = [e \in OneEnv |-> NoJob]
  /\ UNCHANGED <<tagVars, deployVars>>

-----------------------------------------------------------------------------
HookNext ==
  \/ \E t \in Tags : HookJudged(t) \/ \E v \in Approval : HookWrites(t, v)
  \/ HookDeploys
PassNext == PassBegins \/ PassReadsTag \/ PassAnswers
JobNext(c) == JobAsks(c) \/ JobEnds(c) \/ Age(c)

Next ==
  \/ \E t \in Tags : PushTag(t) \/ LoseDelivery(t) \/ Redeliver(t)
  \/ HookNext \/ HookFails
  \/ PassNext \/ PassFails
  \/ Dispatch
  \/ \E c \in Commits : OwnRun(c) \/ JobNext(c) \/ JobDies(c)
  \/ Restart

Spec == Init /\ [][Next]_vars

\* A delivery that arrived is handled, the pass is on a timer, the queue's
\* goroutine gets on with its work, a job ends, and time passes.
Fairness ==
  /\ WF_vars(HookNext)
  /\ WF_vars(PassNext)
  /\ WF_vars(Dispatch)
  /\ \A c \in Commits : WF_vars(JobNext(c))

FairSpec == Spec /\ Fairness

-----------------------------------------------------------------------------
(***************************************************************************)
(* Properties.                                                             *)
(***************************************************************************)

\* Production runs, and a job deploys there, only a commit that a tag lists
\* which the broker approved once: whoever started the job, and whatever
\* happened to the roles and the tags since.
OnceReleased(c) == \E t \in Tags : lists[t] = c /\ t \in everApproved
RunsApproved ==
  /\ running # NoCommit => OnceReleased(running)
  /\ \A c \in Commits : job[c] = "deploying" => OnceReleased(c)

\* hooks.go: "a refused tag stays refused, for ever".  Any number of deliveries
\* of the tag may be under way at once, and come to different verdicts.  Once it
\* is refused and none is left that found it unjudged and is about to approve
\* it, no delivery, role change, failure or restart makes it a release again.
Refused(t) == verdict[t] = "failure"
Settled(t) == Refused(t) /\ judging[t]["success"] = 0
RefusalStands == [][\A t \in Tags : Settled(t) => Settled(t)']_vars

\* The same without that exception: not what the code does, when two
\* deliveries of one tag are handled at once.
RefusedForEver == [][\A t \in Tags : Refused(t) => Refused(t)']_vars

\* group-repo.md: a tag whose message does not parse is refused.
UnparseableRefused == \A t \in Tags : lists[t] = Garbled => ~Approved(t)

\* Whatever was lost, production ends on the newest approved release, or that
\* commit carries its job's failure.
Released ==
  \A c \in Commits : Wanted(c) => running = c \/ word[c] = "failed"
ReleaseCatchesUp == <>[]Released

\* README.md: "the next pass catches up whatever a webhook could not deliver".
\* A tag that was pushed is judged.
TagJudged == \A t \in Tags : (lists[t] # NoCommit) ~> Judged(t)

\* pipeline_test.go: "a person tagging a new release of the same commit is
\* asking again: that tag dispatches once".  While a handler is about to ask for
\* the newest release, a job is yet to come, unless its commit runs.
AskKept ==
  \A t \in Tags :
    (asking > 0 /\ Newest(t, Releases))
      ~> (~Newest(t, Releases) \/ running = lists[t] \/ job[lists[t]] # "none")

=============================================================================
