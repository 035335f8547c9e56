------------------------ MODULE ReleaseVerdictsProofs ------------------------
(***************************************************************************)
(* Proofs about ReleaseVerdicts, for every number of tags, commits,        *)
(* deliveries under way and faults.  What was approved is remembered and   *)
(* what a tag lists never changes, so what was once released stays so      *)
(* (TagsStay); a job deploys only what is released when it asks, and       *)
(* production runs only what a job deployed.                               *)
(***************************************************************************)
EXTENDS ReleaseVerdicts, TLAPS

USE ReleaseAssumption

\* The queue's part of TypeOK.
QueueTypeOK ==
  /\ hand \in [OneEnv -> Job \union {NoJob}]
  /\ mailbox \in [OneEnv -> Job \union {NoJob}]

\* The requests of handlers and passes keep the queue's type.
LEMMA AskTypeOK ==
  ASSUME QueueTypeOK, NEW job_ \in Job, Queue!Ask("production", job_)
  PROVE  QueueTypeOK'
PROOF
<1>1. mailbox["production"].requested \in BOOLEAN
  <2>1. mailbox["production"] \in Job \/ mailbox["production"] = NoJob
    BY DEF QueueTypeOK, OneEnv
  <2>2. ASSUME NEW j \in Job PROVE j.requested \in BOOLEAN
    BY DEF Job
  <2>3. NoJob.requested \in BOOLEAN
    BY DEF NoJob
  <2>. QED
    BY <2>1, <2>2, <2>3, Zenon
<1>2. [job_ EXCEPT !.requested = job_.requested \/ mailbox["production"].requested] \in Job
  BY <1>1 DEF Job
<1>. QED
  BY <1>2 DEF QueueTypeOK, Queue!Ask, OneEnv

\* The queue's worker keeps its type as well.
LEMMA WorkTypeOK ==
  ASSUME QueueTypeOK, Queue!Turn("production")
  PROVE  QueueTypeOK'
PROOF
  BY DEF QueueTypeOK, Queue!Turn, OneEnv

\* A goroutine more, or one fewer, about to write a verdict.
LEMMA MoreJudging ==
  ASSUME TypeOK, NEW t \in Tags, NEW v \in Approval
  PROVE  [judging EXCEPT ![t][v] = @ + 1] \in [Tags -> [Approval -> Nat]]
PROOF
  BY DEF TypeOK

LEMMA FewerJudging ==
  ASSUME TypeOK, NEW t \in Tags, NEW v \in Approval, judging[t][v] > 0
  PROVE  [judging EXCEPT ![t][v] = @ - 1] \in [Tags -> [Approval -> Nat]]
PROOF
<1>1. judging[t][v] - 1 \in Nat
  BY DEF TypeOK
<1>. QED
  BY <1>1 DEF TypeOK

\* A pass has seen only tags that list a commit: what it submits is a job.
SeenReleased == pass # Idle => \A t \in pass.seen : lists[t] \in Commits
Typed == TypeOK /\ SeenReleased

\* At the start, nothing has been read.
LEMMA TypedInit == Init => Typed
PROOF
  BY DEF Init, Typed, SeenReleased, TypeOK, Idle, NoneJudging, Queue!WorkerInit, NoJob

\* Every action keeps the types: one step per action, the queue's by its lemmas.
LEMMA TypeStep == Typed /\ [Next]_vars => TypeOK'
PROOF
<1>. SUFFICES ASSUME TypeOK, SeenReleased, [Next]_vars PROVE TypeOK'
  BY DEF Typed
<1>q. QueueTypeOK
  BY DEF TypeOK, QueueTypeOK
<1>1. ASSUME NEW t \in Tags, PushTag(t) PROVE TypeOK'
  BY <1>1 DEF TypeOK, PushTag, hookVars, queueVars, deployVars
<1>2. ASSUME NEW t \in Tags, LoseDelivery(t) \/ Redeliver(t) PROVE TypeOK'
  <2>1. lists' = lists
        /\ UNCHANGED <<verdict, everApproved, hookVars, pass, queueVars, deployVars>>
    BY <1>2 DEF LoseDelivery, Redeliver
  <2>2. mail' \in [Tags -> Nat]
    <3>1. mail \in [Tags -> Nat]
      BY DEF TypeOK
    <3>2. CASE mail[t] > 0 /\ mail' = [mail EXCEPT ![t] = @ - 1]
      BY <3>1, <3>2
    <3>3. CASE mail' = [mail EXCEPT ![t] = @ + 1]
      BY <3>1, <3>3
    <3>. QED
      BY <1>2, <3>2, <3>3 DEF LoseDelivery, Redeliver
  <2>3. faults' \in 0..MaxFaults
    BY <1>2 DEF LoseDelivery, Redeliver, TypeOK, Fault
  <2>. QED
    BY <2>1, <2>2, <2>3 DEF TypeOK, hookVars, queueVars, deployVars
<1>3. ASSUME NEW t \in Tags, HookJudged(t) PROVE TypeOK'
  <2>1. mail' \in [Tags -> Nat]
    BY <1>3 DEF HookJudged, Handles, TypeOK
  <2>2. judging' \in [Tags -> [Approval -> Nat]]
    <3>1. CASE judging' = judging
      BY <3>1 DEF TypeOK
    <3>2. ASSUME NEW v \in Approval, judging' = [judging EXCEPT ![t][v] = @ + 1]
          PROVE  judging' \in [Tags -> [Approval -> Nat]]
      BY <3>2, MoreJudging
    <3>. QED
      BY <1>3, <3>1, <3>2 DEF HookJudged, Handles
  <2>. QED
    BY <1>3, <2>1, <2>2 DEF TypeOK, HookJudged, Handles, queueVars, deployVars
<1>4. ASSUME NEW t \in Tags, NEW v \in Approval, HookWrites(t, v) PROVE TypeOK'
  <2>1. judging' \in [Tags -> [Approval -> Nat]]
    BY <1>4, FewerJudging DEF HookWrites, TypeOK
  <2>2. verdict' \in [Tags -> Approval \union {"none"}]
    BY <1>4 DEF HookWrites, TypeOK
  <2>3. asking' \in Nat /\ everApproved' \in SUBSET Tags
    BY <1>4 DEF HookWrites, TypeOK
  <2>. QED
    BY <1>4, <2>1, <2>2, <2>3 DEF TypeOK, HookWrites, queueVars, deployVars
<1>5. CASE HookDeploys
  <2>1. QueueTypeOK'
    <3>1. CASE UNCHANGED queueVars
      BY <1>q, <3>1 DEF QueueTypeOK, queueVars
    <3>2. ASSUME NEW t \in Tags, Newest(t, Releases),
                 Queue!Ask("production", [commit |-> lists[t], requested |-> TRUE])
          PROVE  QueueTypeOK'
      <4>1. [commit |-> lists[t], requested |-> TRUE] \in Job
        BY <3>2 DEF Newest, Releases, Job
      <4>. QED
        BY <1>q, <3>2, <4>1, AskTypeOK
    <3>. QED
      BY <1>5, <3>1, <3>2 DEF HookDeploys
  <2>2. asking' \in Nat
    BY <1>5 DEF HookDeploys, TypeOK
  <2>. QED
    BY <1>5, <2>1, <2>2 DEF TypeOK, HookDeploys, QueueTypeOK, tagVars, deployVars
<1>6. CASE HookFails
  <2>1. judging' \in [Tags -> [Approval -> Nat]] /\ asking' \in Nat
    <3>1. ASSUME NEW t \in Tags, NEW v \in Approval, judging[t][v] > 0,
                 judging' = [judging EXCEPT ![t][v] = @ - 1], asking' = asking
          PROVE  judging' \in [Tags -> [Approval -> Nat]] /\ asking' \in Nat
      BY <3>1, FewerJudging DEF TypeOK
    <3>2. CASE asking > 0 /\ asking' = asking - 1 /\ judging' = judging
      BY <3>2 DEF TypeOK
    <3>. QED
      BY <1>6, <3>1, <3>2 DEF HookFails
  <2>2. faults' \in 0..MaxFaults
    BY <1>6 DEF HookFails, TypeOK, Fault
  <2>. QED
    BY <1>6, <2>1, <2>2 DEF TypeOK, HookFails, tagVars, queueVars, deployVars
<1>7. CASE PassBegins
  BY <1>7 DEF TypeOK, PassBegins, Reading, tagVars, hookVars, queueVars, deployVars
<1>8. CASE PassReadsTag
  <2>1. pass \in Reading
    BY <1>8 DEF TypeOK, PassReadsTag
  <2>2. PICK t \in pass.todo :
          pass' = [pass EXCEPT !.todo = @ \ {t},
                     !.seen = IF t \in Releases THEN @ \union {t} ELSE @]
    BY <1>8 DEF PassReadsTag
  <2>3. pass.todo \in SUBSET Tags /\ pass.seen \in SUBSET Tags
    BY <2>1 DEF Reading
  <2>4. pass.todo \ {t} \in SUBSET Tags
        /\ (IF t \in Releases THEN pass.seen \union {t} ELSE pass.seen) \in SUBSET Tags
    BY <2>3
  <2>5. pass' \in Reading
    BY <2>1, <2>2, <2>4 DEF Reading
  <2>. QED
    BY <1>8, <2>5 DEF TypeOK, PassReadsTag, tagVars, hookVars, queueVars, deployVars
<1>9. CASE PassAnswers
  <2>1. QueueTypeOK' /\ word' \in [Commits -> {"none", "pending", "refused", "failed", "live"}]
    <3>1. CASE UNCHANGED <<word, queueVars>>
      BY <1>q, <3>1 DEF QueueTypeOK, queueVars, TypeOK
    <3>2. ASSUME NEW t \in Tags, Newest(t, pass.seen), lists[t] = running,
                 MarkLive(running), UNCHANGED queueVars
          PROVE  QueueTypeOK' /\ word' \in [Commits -> {"none", "pending", "refused", "failed", "live"}]
      BY <1>q, <3>2 DEF QueueTypeOK, queueVars, TypeOK, MarkLive
    <3>3. ASSUME NEW t \in Tags, Newest(t, pass.seen), UNCHANGED word,
                 Queue!Ask("production", [commit |-> lists[t], requested |-> FALSE])
          PROVE  QueueTypeOK' /\ word' \in [Commits -> {"none", "pending", "refused", "failed", "live"}]
      <4>1. lists[t] \in Commits
        BY <1>9, <3>3 DEF PassAnswers, SeenReleased, Newest
      <4>2. [commit |-> lists[t], requested |-> FALSE] \in Job
        BY <4>1 DEF Job
      <4>. QED
        BY <1>q, <3>3, <4>2, AskTypeOK DEF TypeOK
    <3>. QED
      BY <1>9, <3>1, <3>2, <3>3 DEF PassAnswers
  <2>. QED
    BY <1>9, <2>1 DEF TypeOK, PassAnswers, QueueTypeOK, tagVars, hookVars
<1>10. CASE PassFails
  BY <1>10 DEF TypeOK, PassFails, Fault, tagVars, hookVars, queueVars, deployVars
<1>11. CASE Dispatch
  <2>1. QueueTypeOK'
    BY <1>q, <1>11, WorkTypeOK DEF Dispatch
  <2>2. word' \in [Commits -> {"none", "pending", "refused", "failed", "live"}]
    BY <1>11 DEF Dispatch, MarkLive, TypeOK
  <2>3. job' \in [Commits -> {"none", "asking", "deploying"}]
    BY <1>11 DEF Dispatch, TypeOK
  <2>. QED
    BY <1>11, <2>1, <2>2, <2>3 DEF TypeOK, Dispatch, QueueTypeOK, tagVars, hookVars
<1>12. ASSUME NEW c \in Commits, OwnRun(c) PROVE TypeOK'
  BY <1>12 DEF TypeOK, OwnRun, tagVars, hookVars, queueVars
<1>13. ASSUME NEW c \in Commits, JobAsks(c) PROVE TypeOK'
  <2>1. word' \in [Commits -> {"none", "pending", "refused", "failed", "live"}]
    BY <1>13 DEF JobAsks, GrantIf, TypeOK
  <2>2. job' \in [Commits -> {"none", "asking", "deploying"}]
    BY <1>13 DEF JobAsks, GrantIf, TypeOK
  <2>. QED
    BY <1>13, <2>1, <2>2 DEF TypeOK, JobAsks, GrantIf, tagVars, hookVars, queueVars
<1>14. ASSUME NEW c \in Commits, JobEnds(c) PROVE TypeOK'
  <2>1. word' \in [Commits -> {"none", "pending", "refused", "failed", "live"}]
    BY <1>14 DEF JobEnds, TypeOK
  <2>2. job' \in [Commits -> {"none", "asking", "deploying"}]
    BY <1>14 DEF JobEnds, TypeOK
  <2>3. running' \in Commits \union {NoCommit} /\ faults' \in 0..MaxFaults
    BY <1>14 DEF JobEnds, Fault, TypeOK
  <2>. QED
    BY <1>14, <2>1, <2>2, <2>3 DEF TypeOK, JobEnds, tagVars, hookVars, queueVars
<1>15. ASSUME NEW c \in Commits, JobDies(c) PROVE TypeOK'
  BY <1>15 DEF TypeOK, JobDies, Fault, tagVars, hookVars, queueVars
<1>16. ASSUME NEW c \in Commits, Age(c) PROVE TypeOK'
  BY <1>16 DEF TypeOK, Age, tagVars, hookVars, queueVars
<1>17. CASE Restart
  BY <1>17 DEF TypeOK, Restart, NoneJudging, Fault, tagVars, deployVars
<1>18. CASE UNCHANGED vars
  BY <1>18 DEF TypeOK, vars, tagVars, hookVars, queueVars, deployVars
<1>. QED
  BY <1>1, <1>2, <1>3, <1>4, <1>5, <1>6, <1>7, <1>8, <1>9, <1>10, <1>11, <1>12,
     <1>13, <1>14, <1>15, <1>16, <1>17, <1>18 DEF Next, HookNext, PassNext, JobNext

\* An approval is remembered, and what a tag lists is never changed.
LEMMA TagsStay ==
  ASSUME TypeOK, [Next]_vars
  PROVE  /\ \A t \in Tags : lists[t] # NoCommit => lists'[t] = lists[t]
         /\ everApproved \subseteq everApproved'
PROOF
<1>1. CASE UNCHANGED <<lists, everApproved>>
  BY <1>1
<1>2. ASSUME NEW u \in Tags, PushTag(u)
      PROVE  /\ \A t \in Tags : lists[t] # NoCommit => lists'[t] = lists[t]
             /\ everApproved \subseteq everApproved'
  BY <1>2 DEF PushTag, TypeOK
<1>3. ASSUME NEW t \in Tags, NEW v \in Approval, HookWrites(t, v)
      PROVE  lists' = lists /\ everApproved \subseteq everApproved'
  BY <1>3 DEF HookWrites
<1>. QED
  BY <1>1, <1>2, <1>3
     DEF Next, HookNext, PassNext, JobNext, vars, tagVars, PushTag, LoseDelivery,
         Redeliver, HookJudged, Handles, HookDeploys, HookFails, PassBegins,
         PassReadsTag, PassAnswers, PassFails, Dispatch, OwnRun, JobAsks, GrantIf,
         JobEnds, JobDies, Age, Restart

\* A pass adds a tag it read as a release, and those it has seen stay so.
LEMMA SeenStep == Typed /\ [Next]_vars => SeenReleased'
PROOF
<1>. SUFFICES ASSUME TypeOK, SeenReleased, [Next]_vars PROVE SeenReleased'
  BY DEF Typed
<1>. USE DEF SeenReleased
<1>1. ASSUME NEW t \in Tags, lists[t] \in Commits PROVE lists'[t] = lists[t]
  BY <1>1, TagsStay
<1>2. ASSUME pass' = pass, pass # Idle PROVE \A t \in pass'.seen : lists'[t] \in Commits
  <2>1. pass.seen \in SUBSET Tags
    BY <1>2 DEF TypeOK, Reading
  <2>. QED
    BY <1>1, <1>2, <2>1
<1>3. CASE pass' = pass
  BY <1>2, <1>3
<1>4. CASE pass' = Idle
  BY <1>4
<1>5. CASE PassBegins
  BY <1>5 DEF PassBegins
<1>6. CASE PassReadsTag
  <2>1. PICK t \in pass.todo :
          pass' = [pass EXCEPT !.todo = @ \ {t},
                     !.seen = IF t \in Releases THEN @ \union {t} ELSE @]
    BY <1>6 DEF PassReadsTag
  <2>2. pass \in Reading /\ lists' = lists
    BY <1>6 DEF PassReadsTag, TypeOK, tagVars
  <2>3. pass'.seen = IF t \in Releases THEN pass.seen \union {t} ELSE pass.seen
    BY <2>1, <2>2 DEF Reading
  <2>4. \A u \in pass.seen : lists[u] \in Commits
    BY <1>6 DEF PassReadsTag
  <2>. QED
    BY <2>2, <2>3, <2>4 DEF Releases
<1>. QED
  BY <1>3, <1>4, <1>5, <1>6
     DEF Next, HookNext, PassNext, JobNext, vars, tagVars, PushTag, LoseDelivery,
         Redeliver, HookJudged, Handles, HookDeploys, HookFails, HookWrites,
         PassAnswers, PassFails, Dispatch, OwnRun, JobAsks, GrantIf,
         JobEnds, JobDies, Age, Restart

\* The types always hold.
THEOREM ReleaseTypes == Spec => []TypeOK
PROOF
<1>1. Init => Typed
  BY TypedInit
<1>2. Typed /\ [Next]_vars => Typed'
  BY TypeStep, SeenStep DEF Typed
<1>3. Typed => TypeOK
  BY DEF Typed
<1>. QED
  BY <1>1, <1>2, <1>3, PTL DEF Spec

-----------------------------------------------------------------------------
\* What was once released stays so.
LEMMA OnceReleasedStays ==
  ASSUME TypeOK, [Next]_vars, NEW c \in Commits, OnceReleased(c)
  PROVE  OnceReleased(c)'
PROOF
<1>1. PICK t \in Tags : lists[t] = c /\ t \in everApproved
  BY DEF OnceReleased
<1>2. lists'[t] = c /\ t \in everApproved'
  BY <1>1, TagsStay
<1>. QED
  BY <1>2 DEF OnceReleased

\* A tag that is approved was.
ApprovedOnce == \A t \in Tags : Approved(t) => t \in everApproved

LEMMA ApprovedOnceStep == TypeOK /\ ApprovedOnce /\ [Next]_vars => ApprovedOnce'
PROOF
<1>. SUFFICES ASSUME TypeOK, ApprovedOnce, [Next]_vars PROVE ApprovedOnce'
  OBVIOUS
<1>1. CASE UNCHANGED <<verdict, everApproved>>
  BY <1>1 DEF ApprovedOnce, Approved
<1>2. ASSUME NEW t \in Tags, NEW v \in Approval, HookWrites(t, v) PROVE ApprovedOnce'
  BY <1>2 DEF HookWrites, ApprovedOnce, Approved, TypeOK
<1>. QED
  BY <1>1, <1>2
     DEF Next, HookNext, PassNext, JobNext, vars, tagVars, PushTag, LoseDelivery,
         Redeliver, HookJudged, Handles, HookDeploys, HookFails, PassBegins,
         PassReadsTag, PassAnswers, PassFails, Dispatch, OwnRun, JobAsks, GrantIf,
         JobEnds, JobDies, Age, Restart

\* What production wants was released.
LEMMA WantedReleased ==
  ASSUME ApprovedOnce, NEW c \in Commits, Wanted(c)
  PROVE  OnceReleased(c)
PROOF
  BY DEF ApprovedOnce, Wanted, Newest, Releases, OnceReleased

\* Only a grant makes a job deploy, and only a deploying job changes what runs.
LEMMA RunsApprovedStep ==
  TypeOK /\ ApprovedOnce /\ RunsApproved /\ [Next]_vars => RunsApproved'
PROOF
<1>. SUFFICES ASSUME TypeOK, ApprovedOnce, RunsApproved, [Next]_vars PROVE RunsApproved'
  OBVIOUS
<1>1. ASSUME NEW c \in Commits, OnceReleased(c) PROVE OnceReleased(c)'
  BY <1>1, OnceReleasedStays
<1>2. ASSUME running' = running PROVE running' # NoCommit => OnceReleased(running)'
  <2>1. CASE running # NoCommit
    <3>1. running \in Commits /\ OnceReleased(running)
      BY <2>1 DEF TypeOK, RunsApproved
    <3>2. OnceReleased(running)'
      BY <1>1, <3>1, <1>2
    <3>. QED
      BY <3>2
  <2>. QED
    BY <1>2, <2>1
<1>3. ASSUME NEW c \in Commits, job'[c] = job[c], job'[c] = "deploying"
      PROVE  OnceReleased(c)'
  BY <1>1, <1>3 DEF RunsApproved
\* Only these actions touch the jobs or what runs.
<1>4. CASE UNCHANGED <<job, running>>
  BY <1>2, <1>3, <1>4 DEF RunsApproved
<1>5. ASSUME NEW c, running' = running,
             \/ job' = [job EXCEPT ![c] = "none"]
             \/ job' = [job EXCEPT ![c] = "asking"]
      PROVE  RunsApproved'
  <2>1. \A d \in Commits : job'[d] = "deploying" => job'[d] = job[d]
    BY <1>5 DEF TypeOK
  <2>. QED
    BY <1>2, <1>3, <1>5, <2>1 DEF RunsApproved
<1>6. ASSUME NEW c \in Commits, JobAsks(c) PROVE RunsApproved'
  <2>1. CASE ~(Wanted(c) /\ running # c)
    <3>1. job' = [job EXCEPT ![c] = "none"] /\ running' = running
      BY <1>6, <2>1 DEF JobAsks, GrantIf
    <3>. QED
      BY <3>1, <1>5
  <2>2. CASE Wanted(c) /\ running # c
    <3>1. job' = [job EXCEPT ![c] = "deploying"] /\ running' = running
      BY <1>6, <2>2 DEF JobAsks, GrantIf
    <3>2. OnceReleased(c)'
      BY <2>2, WantedReleased, <1>1
    <3>3. ASSUME NEW d \in Commits, job'[d] = "deploying" PROVE OnceReleased(d)'
      <4>1. CASE d = c
        BY <3>2, <4>1
      <4>2. CASE d # c
        BY <1>3, <3>1, <3>3, <4>2 DEF TypeOK
      <4>. QED
        BY <4>1, <4>2
    <3>. QED
      BY <1>2, <3>1, <3>3 DEF RunsApproved
  <2>. QED
    BY <2>1, <2>2
<1>7. ASSUME NEW c \in Commits, JobEnds(c) PROVE RunsApproved'
  <2>1. job[c] = "deploying" /\ job' = [job EXCEPT ![c] = "none"]
    BY <1>7 DEF JobEnds
  <2>2. CASE running' = running
    BY <1>5, <2>1, <2>2
  <2>3. CASE running' = c
    <3>1. OnceReleased(c)'
      BY <1>1, <2>1 DEF RunsApproved
    <3>2. OnceReleased(running)'
      BY <3>1, <2>3
    <3>3. ASSUME NEW d \in Commits, job'[d] = "deploying" PROVE OnceReleased(d)'
      BY <1>3, <2>1, <3>3 DEF TypeOK
    <3>. QED
      BY <3>2, <3>3 DEF RunsApproved
  <2>. QED
    BY <1>7, <2>2, <2>3 DEF JobEnds
<1>8. CASE Dispatch
  <2>1. UNCHANGED <<job, running>>
        \/ /\ running' = running
           /\ job' = [job EXCEPT ![hand["production"].commit] = "asking"]
    BY <1>8 DEF Dispatch
  <2>. QED
    BY <1>4, <1>5, <2>1
<1>. QED
  BY <1>4, <1>5, <1>6, <1>7, <1>8
     DEF Next, HookNext, PassNext, JobNext, vars, deployVars, PushTag, LoseDelivery,
         Redeliver, HookJudged, Handles, HookWrites, HookDeploys, HookFails, PassBegins,
         PassReadsTag, PassAnswers, PassFails, OwnRun, JobDies, Age, Restart

\* Production never runs, and no job deploys there, what was not released: for
\* any number of tags, deliveries and jobs.
THEOREM ProductionRunsReleases == Spec => []RunsApproved
PROOF
<1>1. Init => ApprovedOnce /\ RunsApproved
  BY DEF Init, ApprovedOnce, Approved, RunsApproved
<1>2. TypeOK /\ ApprovedOnce /\ [Next]_vars => ApprovedOnce'
  BY ApprovedOnceStep
<1>3. TypeOK /\ ApprovedOnce /\ RunsApproved /\ [Next]_vars => RunsApproved'
  BY RunsApprovedStep
<1>. QED
  BY <1>1, <1>2, <1>3, ReleaseTypes, PTL DEF Spec

-----------------------------------------------------------------------------
\* Once a tag is refused and no delivery is left that is about to approve it, it
\* stays refused: however many deliveries of it are handled at once, and
\* whatever is delivered again, fails or restarts.
THEOREM RefusedStaysRefused == Spec => RefusalStands
PROOF
<1>1. TypeOK /\ [Next]_vars => [\A t \in Tags : Settled(t) => Settled(t)']_vars
  <2>. SUFFICES ASSUME TypeOK, [Next]_vars, NEW t \in Tags, Settled(t)
                PROVE  Settled(t)'
    OBVIOUS
  <2>. USE DEF Settled, Refused
  <2>1. CASE UNCHANGED <<verdict, judging>>
    BY <2>1
  \* A delivery of another tag comes to a verdict on that one; one of this tag to none.
  <2>2. ASSUME NEW u \in Tags, HookJudged(u) PROVE Settled(t)'
    <3>1. CASE Judged(u)
      BY <2>1, <2>2, <3>1 DEF HookJudged, Handles
    <3>2. CASE ~Judged(u)
      <4>1. u # t
        BY <3>2 DEF Judged
      <4>2. judging'[t] = judging[t] /\ verdict' = verdict
        BY <2>2, <3>2, <4>1 DEF HookJudged, Handles, TypeOK
      <4>. QED
        BY <4>2
    <3>. QED
      BY <3>1, <3>2
  \* Of this tag, only a refusal can be left to write.
  <2>3. ASSUME NEW u \in Tags, NEW v \in Approval, HookWrites(u, v) PROVE Settled(t)'
    <3>1. CASE u # t
      BY <2>3, <3>1 DEF HookWrites, TypeOK
    <3>2. CASE u = t
      <4>1. v = "failure"
        BY <2>3, <3>2 DEF HookWrites, Approval
      <4>2. verdict'[t] = "failure"
        BY <2>3, <3>2, <4>1 DEF HookWrites, TypeOK
      <4>3. judging'[t]["success"] = judging[t]["success"]
        BY <2>3, <3>2, <4>1 DEF HookWrites, Approval, TypeOK
      <4>. QED
        BY <4>2, <4>3
    <3>. QED
      BY <3>1, <3>2
  <2>4. CASE HookFails
    <3>1. ASSUME NEW u \in Tags, NEW v \in Approval, judging[u][v] > 0,
                 judging' = [judging EXCEPT ![u][v] = @ - 1], verdict' = verdict
          PROVE  Settled(t)'
      <4>1. ~(u = t /\ v = "success")
        BY <3>1
      <4>2. judging'[t]["success"] = judging[t]["success"]
        BY <3>1, <4>1 DEF Approval, TypeOK
      <4>. QED
        BY <3>1, <4>2
    <3>. QED
      BY <2>1, <2>4, <3>1 DEF HookFails, tagVars
  <2>5. CASE Restart
    BY <2>5 DEF Restart, NoneJudging, Approval, tagVars
  <2>. QED
    BY <2>1, <2>2, <2>3, <2>4, <2>5
       DEF Next, HookNext, PassNext, JobNext, vars, tagVars, hookVars, PushTag,
           LoseDelivery, Redeliver, HookDeploys, PassBegins, PassReadsTag,
           PassAnswers, PassFails, Dispatch, OwnRun, JobAsks, GrantIf, JobEnds,
           JobDies, Age
<1>. QED
  BY <1>1, ReleaseTypes, PTL DEF Spec, RefusalStands

=============================================================================
