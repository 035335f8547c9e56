------------------------ MODULE ServiceDeploysProofs -------------------------
(***************************************************************************)
(* Proofs about ServiceDeploys, for every number of commits, runs, callers *)
(* and faults.                                                             *)
(*                                                                         *)
(* LiveHasRun is not inductive: a caller, the dispatcher or a report that  *)
(* is about to write "live" decided so earlier, from a read of the         *)
(* service.  Sound adds what each of them saw, and why the service's own   *)
(* word could be believed: a version that is active was built by the run   *)
(* it was named for.  SupersededStaysDown and LiveStays follow from the    *)
(* types alone: only the grant's comparisons put a commit on its way.      *)
(***************************************************************************)
EXTENDS ServiceDeploys, TLAPS

USE DeploysAssumption

\* The queue's part of TypeOK.
QueueTypeOK ==
  /\ hand \in [OneEnv -> Job \union {NoJob}]
  /\ busy \in [OneEnv -> BOOLEAN]
  /\ mailbox \in [OneEnv -> Job \union {NoJob}]

\* The dispatcher is at work on the job in the queue's hand, or rests.
AtWork == dispatcher # Resting => busy["env"] /\ hand["env"] \in Job

\* The service reports a commit as running only once it has run, and a build
\* on its way under the name it was pushed with.
ActiveHasRun == named.at = "active" => named.commit \in everRan
NamedBuilds == \A r \in Runs : named.at = r => builds[r] = named.commit

\* Whoever is about to write "live" has read the commit from the service.
CallersSaw ==
  \A u \in Callers : callers[u].at \in {"mark", "write"} => callers[u].commit \in everRan
DispatcherSaw ==
  dispatcher # Resting /\ dispatcher.live => dispatched.commit \in everRan
VerdictsSaw ==
  \A r \in Runs : runs[r].at = "verdict live" => runs[r].commit \in everRan

Sound ==
  /\ TypeOK /\ AtWork
  /\ ActiveHasRun /\ NamedBuilds
  /\ CallersSaw /\ DispatcherSaw /\ VerdictsSaw
  /\ LiveHasRun

-----------------------------------------------------------------------------
(* What the helpers of the actions do to the types.                        *)

\* A slot that is not free holds a run.
LEMMA RunTypes ==
  ASSUME TypeOK, NEW r \in Runs, runs[r].at # "none"
  PROVE  runs[r] \in Run
PROOF
  BY DEF TypeOK, NoRun

\* A run that is somewhere is in no free slot.
LEMMA GotoTypes ==
  ASSUME TypeOK, NEW r \in Runs, runs[r].at # "none", NEW at \in RunPhases, Goto(r, at)
  PROVE  runs' \in [Runs -> Run \union {NoRun}]
PROOF
<1>1. [runs[r] EXCEPT !.at = at] \in Run
  BY RunTypes DEF Run
<1>. QED
  BY <1>1 DEF Goto, TypeOK

LEMMA EndRunTypes ==
  ASSUME TypeOK, NEW r \in Runs, EndRun(r)
  PROVE  runs' \in [Runs -> Run \union {NoRun}]
PROOF
  BY DEF EndRun, TypeOK

LEMMA StartRunTypes ==
  ASSUME TypeOK, NEW r \in Runs, NEW c \in Commits, NEW left \in 0..(MaxGrants - 1),
         StartRun(r, c, left)
  PROVE  runs' \in [Runs -> Run \union {NoRun}]
PROOF
<1>1. [at |-> "asking", commit |-> c, left |-> left, known |-> FALSE] \in Run
  BY DEF Run, RunPhases
<1>. QED
  BY <1>1 DEF StartRun, TypeOK

LEMMA ReportedTypes ==
  ASSUME TypeOK, NEW r \in Runs, runs[r].at # "none", Reported(r)
  PROVE  runs' \in [Runs -> Run \union {NoRun}]
PROOF
<1>1. runs[r] \in Run
  BY RunTypes
<1>2. runs[r].left \in 0..(MaxGrants - 1)
  BY <1>1 DEF Run
<1>3. runs[r].left > 0 => runs[r].left - 1 \in 0..(MaxGrants - 1)
  BY <1>2
<1>4. runs[r].left > 0 =>
        [runs[r] EXCEPT !.at = "asking", !.left = runs[r].left - 1, !.known = FALSE] \in Run
  BY <1>1, <1>3 DEF Run, RunPhases
<1>. QED
  BY <1>4 DEF Reported, TypeOK

LEMMA FaultTypes ==
  ASSUME TypeOK, Fault
  PROVE  faults' \in 0..MaxFaults
PROOF
  BY DEF TypeOK, Fault

LEMMA WriteTypes ==
  ASSUME TypeOK, NEW c \in Commits, NEW kind \in Kinds, WriteStatus(c, kind)
  PROVE  status' \in [Commits -> Status] /\ faults' \in 0..MaxFaults
PROOF
<1>1. StatusOf(kind) \in Status
  BY DEF StatusOf, Status
<1>. QED
  BY <1>1, FaultTypes DEF WriteStatus, TypeOK

LEMMA RefusedTypes ==
  ASSUME TypeOK, NEW c \in Commits, status' = [status EXCEPT ![c] = StatusOf("refused")]
  PROVE  status' \in [Commits -> Status]
PROOF
<1>1. StatusOf("refused") \in Status
  BY DEF StatusOf, Status, Kinds
<1>. QED
  BY <1>1 DEF TypeOK

\* The requests of callers keep the queue's type, and its worker does.
LEMMA AskTypes ==
  ASSUME QueueTypeOK, NEW j \in Job, Queue!Ask("env", j)
  PROVE  QueueTypeOK'
PROOF
<1>1. mailbox["env"].requested \in BOOLEAN
  <2>1. mailbox["env"] \in Job \/ mailbox["env"] = NoJob
    BY DEF QueueTypeOK, OneEnv
  <2>2. ASSUME NEW k \in Job PROVE k.requested \in BOOLEAN
    BY DEF Job
  <2>3. NoJob.requested \in BOOLEAN
    BY DEF NoJob
  <2>. QED
    BY <2>1, <2>2, <2>3, Zenon
<1>2. [j EXCEPT !.requested = j.requested \/ mailbox["env"].requested] \in Job
  BY <1>1 DEF Job
<1>. QED
  BY <1>2 DEF QueueTypeOK, Queue!Ask, OneEnv

LEMMA WorkTypes ==
  ASSUME QueueTypeOK, Queue!Begin("env") \/ Queue!End("env")
  PROVE  QueueTypeOK'
PROOF
  BY DEF QueueTypeOK, Queue!Begin, Queue!End, OneEnv

\* A caller that is at work holds a commit.
LEMMA CallerTypes ==
  ASSUME TypeOK, NEW u \in Callers, callers[u].at # "none"
  PROVE  callers[u] \in Caller
PROOF
  BY DEF TypeOK, NoCaller

-----------------------------------------------------------------------------
(* The types hold: one step per action.                                    *)

LEMMA TypeInit == Init => TypeOK /\ AtWork
PROOF
<1>1. StatusOf("none") \in Status
  BY DEF StatusOf, Status, Kinds
<1>. QED
  BY <1>1 DEF Init, TypeOK, AtWork, Commits, Version, NamedAt, Queue!WorkerInit

\* What a run does changes the runs, perhaps a status, and uses up a fault.
LEMMA RunStepTypes ==
  ASSUME TypeOK, UNCHANGED <<wanted, serviceVars, brokerVars>>,
         runs' \in [Runs -> Run \union {NoRun}],
         status' \in [Commits -> Status], faults' \in 0..MaxFaults
  PROVE  TypeOK'
PROOF
  BY DEF TypeOK, serviceVars, brokerVars, queueVars

LEMMA GrantStepTypes ==
  ASSUME TypeOK, NEW r \in Runs,
         \/ GrantResolve(r) \/ GrantReadService(r) \/ GrantReadStatus(r)
         \/ GrantHandOver(r) \/ GrantTainted(r) \/ GrantFails(r) \/ GrantAnswered(r)
  PROVE  TypeOK'
PROOF
<1>t. status \in [Commits -> Status] /\ faults \in 0..MaxFaults
  BY DEF TypeOK
<1>p. {"granting", "ruling", "handover", "held", "answer"} \subseteq RunPhases
  BY DEF RunPhases
<1>1. CASE GrantResolve(r)
  BY <1>1, <1>t, <1>p, GotoTypes, EndRunTypes, RunStepTypes DEF GrantResolve
<1>2. CASE GrantReadService(r)
  BY <1>2, <1>t, <1>p, GotoTypes, EndRunTypes, RunStepTypes DEF GrantReadService
<1>3. CASE GrantReadStatus(r)
  BY <1>3, <1>t, <1>p, GotoTypes, EndRunTypes, RunStepTypes DEF GrantReadStatus
<1>4. CASE GrantHandOver(r)
  <2>1. runs[r] \in Run
    BY <1>4, RunTypes DEF GrantHandOver
  <2>2. status' \in [Commits -> Status] /\ faults' \in 0..MaxFaults
    BY <1>4, <2>1, WriteTypes DEF GrantHandOver, Run, Kinds
  <2>3. [runs[r] EXCEPT !.at = "answer", !.known = TRUE] \in Run
    BY <2>1, <1>p DEF Run
  <2>4. runs' \in [Runs -> Run \union {NoRun}]
    BY <1>4, <2>3 DEF GrantHandOver, TypeOK
  <2>. QED
    BY <1>4, <2>2, <2>4, RunStepTypes DEF GrantHandOver, brokerVars
<1>5. CASE GrantTainted(r)
  <2>1. runs[r] \in Run
    BY <1>5, RunTypes DEF GrantTainted
  <2>2. status' \in [Commits -> Status] /\ faults' \in 0..MaxFaults
    BY <1>5, <2>1, RefusedTypes, FaultTypes DEF GrantTainted, Run
  <2>. QED
    BY <1>5, <2>2, EndRunTypes, RunStepTypes DEF GrantTainted
<1>6. CASE GrantFails(r)
  BY <1>6, <1>t, FaultTypes, EndRunTypes, RunStepTypes DEF GrantFails
<1>7. CASE GrantAnswered(r)
  BY <1>7, <1>t, <1>p, GotoTypes, RunStepTypes DEF GrantAnswered
<1>. QED
  BY <1>1, <1>2, <1>3, <1>4, <1>5, <1>6, <1>7

LEMMA JobStepTypes ==
  ASSUME TypeOK, NEW r \in Runs,
         \/ PushFails(r) \/ PushReturns(r) \/ RunDies(r)
         \/ ReportFailure(r) \/ ReportSuccess(r) \/ ReportLost(r) \/ WriteVerdict(r)
  PROVE  TypeOK'
PROOF
<1>t. status \in [Commits -> Status] /\ faults \in 0..MaxFaults
  BY DEF TypeOK
<1>p. {"unbuilt", "built", "verdict live", "verdict failed"} \subseteq RunPhases
  BY DEF RunPhases
<1>1. CASE PushFails(r)
  BY <1>1, <1>t, <1>p, FaultTypes, GotoTypes, RunStepTypes DEF PushFails
<1>2. CASE PushReturns(r)
  BY <1>2, <1>t, <1>p, GotoTypes, RunStepTypes DEF PushReturns
<1>3. CASE RunDies(r)
  BY <1>3, <1>t, FaultTypes, EndRunTypes, RunStepTypes DEF RunDies
<1>4. CASE ReportFailure(r)
  <2>1. runs[r] \in Run
    BY <1>4, RunTypes DEF ReportFailure
  <2>2. status' \in [Commits -> Status] /\ faults' \in 0..MaxFaults
    BY <1>4, <1>t, <2>1, WriteTypes DEF ReportFailure, Run, Kinds
  <2>. QED
    BY <1>4, <2>2, EndRunTypes, RunStepTypes DEF ReportFailure, brokerVars
<1>5. CASE ReportSuccess(r)
  <2>1. runs' \in [Runs -> Run \union {NoRun}]
    BY <1>5, <1>p, GotoTypes, ReportedTypes DEF ReportSuccess
  <2>. QED
    BY <1>5, <1>t, <2>1, RunStepTypes DEF ReportSuccess
<1>6. CASE ReportLost(r)
  <2>1. runs' \in [Runs -> Run \union {NoRun}]
    BY <1>6, EndRunTypes, ReportedTypes DEF ReportLost
  <2>. QED
    BY <1>6, <1>t, <2>1, FaultTypes, RunStepTypes DEF ReportLost
<1>7. CASE WriteVerdict(r)
  <2>1. runs[r] \in Run
    BY <1>7, RunTypes DEF WriteVerdict
  <2>2. status' \in [Commits -> Status] /\ faults' \in 0..MaxFaults
    BY <1>7, <2>1, WriteTypes DEF WriteVerdict, Run, Kinds
  <2>. QED
    BY <1>7, <2>2, ReportedTypes, RunStepTypes DEF WriteVerdict, brokerVars
<1>. QED
  BY <1>1, <1>2, <1>3, <1>4, <1>5, <1>6, <1>7

LEMMA BuildStepTypes ==
  ASSUME TypeOK, NEW r \in Runs, Push(r) \/ BuildSucceeds(r) \/ BuildFails(r)
  PROVE  TypeOK'
PROOF
<1>p. {"building", "built", "unbuilt"} \subseteq RunPhases
  BY DEF RunPhases
<1>n. named.commit \in 0..MaxCommit /\ named.at \in NamedAt
  BY DEF TypeOK, Version
<1>1. CASE Push(r)
  <2>1. runs[r] \in Run
    BY <1>1, RunTypes DEF Push
  <2>2. runs[r].commit \in 0..MaxCommit
    BY <2>1 DEF Run, Commits
  <2>3. named' \in Version /\ builds' \in [Runs -> 0..MaxCommit]
    BY <1>1, <2>2 DEF Push, Version, NamedAt, TypeOK
  <2>4. runs' \in [Runs -> Run \union {NoRun}]
    BY <1>1, <1>p, GotoTypes DEF Push
  <2>. QED
    BY <1>1, <2>3, <2>4 DEF TypeOK, Push, brokerVars, queueVars
<1>2. CASE BuildSucceeds(r)
  <2>1. named' \in Version
    BY <1>2, <1>n DEF BuildSucceeds, Version, NamedAt, TypeOK
  <2>2. builds[r] \in Commits
    BY <1>2 DEF BuildSucceeds, TypeOK, Commits
  <2>3. builds' \in [Runs -> 0..MaxCommit] /\ everRan' \in SUBSET Commits
    BY <1>2, <2>2 DEF BuildSucceeds, TypeOK
  <2>4. runs' \in [Runs -> Run \union {NoRun}]
    BY <1>2, <1>p, GotoTypes DEF BuildSucceeds, TypeOK
  <2>. QED
    BY <1>2, <2>1, <2>3, <2>4 DEF TypeOK, BuildSucceeds, brokerVars, queueVars
<1>3. CASE BuildFails(r)
  <2>1. named' \in Version
    BY <1>3, <1>n DEF BuildFails, Version, NamedAt, TypeOK
  <2>2. builds' \in [Runs -> 0..MaxCommit]
    BY <1>3 DEF BuildFails, TypeOK
  <2>3. runs' \in [Runs -> Run \union {NoRun}] /\ faults' \in 0..MaxFaults
    BY <1>3, <1>p, GotoTypes, FaultTypes DEF BuildFails, TypeOK
  <2>. QED
    BY <1>3, <2>1, <2>2, <2>3 DEF TypeOK, BuildFails, brokerVars, queueVars
<1>. QED
  BY <1>1, <1>2, <1>3

LEMMA CallerStepTypes ==
  ASSUME TypeOK, NEW u \in Callers,
         \/ CallerNext(u) \/ CallerFails(u)
         \/ \E q \in BOOLEAN : Deploy(u, q)
  PROVE  TypeOK'
PROOF
<1>q. QueueTypeOK
  BY DEF TypeOK, QueueTypeOK
<1>1. ASSUME NEW q \in BOOLEAN, Deploy(u, q) PROVE TypeOK'
  <2>1. [at |-> "submit", commit |-> wanted, requested |-> q] \in Caller
    BY DEF TypeOK, Caller, CallerPhases
  <2>. QED
    BY <1>1, <2>1 DEF TypeOK, Deploy, serviceVars, queueVars
<1>2. CASE CatchUp(u)
  <2>1. [at |-> "live", commit |-> wanted, requested |-> FALSE] \in Caller
    BY DEF TypeOK, Caller, CallerPhases
  <2>. QED
    BY <1>2, <2>1 DEF TypeOK, CatchUp, serviceVars, queueVars
<1>3. CASE ReadLive(u)
  <2>1. callers[u] \in Caller
    BY <1>3, CallerTypes DEF ReadLive
  <2>2. [callers[u] EXCEPT !.at =
           IF DeployedSha # callers[u].commit THEN "submit" ELSE "mark"] \in Caller
    BY <2>1 DEF Caller, CallerPhases
  <2>3. callers' \in [Callers -> Caller \union {NoCaller}]
    BY <1>3, <2>2 DEF ReadLive, TypeOK
  <2>. QED
    BY <1>3, <2>3 DEF TypeOK, ReadLive, serviceVars, queueVars
<1>4. CASE ReadMark(u)
  <2>1. callers[u] \in Caller
    BY <1>4, CallerTypes DEF ReadMark
  <2>2. [callers[u] EXCEPT !.at = "write"] \in Caller
    BY <2>1 DEF Caller, CallerPhases
  <2>3. callers' \in [Callers -> Caller \union {NoCaller}]
    BY <1>4, <2>2 DEF ReadMark, TypeOK
  <2>. QED
    BY <1>4, <2>3 DEF TypeOK, ReadMark, serviceVars, queueVars
<1>5. CASE WriteMark(u)
  <2>1. callers[u] \in Caller
    BY <1>5, CallerTypes DEF WriteMark
  <2>2. status' \in [Commits -> Status] /\ faults' \in 0..MaxFaults
    BY <1>5, <2>1, WriteTypes DEF WriteMark, Caller, Kinds
  <2>. QED
    BY <1>5, <2>2 DEF TypeOK, WriteMark, serviceVars, queueVars
<1>6. CASE Submit(u)
  <2>1. callers[u] \in Caller
    BY <1>6, CallerTypes DEF Submit
  <2>2. [commit |-> callers[u].commit, requested |-> callers[u].requested] \in Job
    BY <2>1 DEF Caller, Job
  <2>3. QueueTypeOK'
    BY <1>q, <1>6, <2>2, AskTypes DEF Submit
  <2>. QED
    BY <1>6, <2>3 DEF TypeOK, Submit, QueueTypeOK, serviceVars
<1>7. CASE CallerFails(u)
  BY <1>7, FaultTypes DEF TypeOK, CallerFails, serviceVars, queueVars
<1>. QED
  BY <1>1, <1>2, <1>3, <1>4, <1>5, <1>6, <1>7 DEF CallerNext

\* The dispatcher, which knows what it is dispatching.
LEMMA DispatchStepTypes ==
  ASSUME TypeOK, AtWork,
         \/ DispatchNext \/ DispatchListFails \/ DispatchServiceFails
         \/ DispatchHistoryFails \/ DispatchRefused
  PROVE  TypeOK'
PROOF
<1>q. QueueTypeOK
  BY DEF TypeOK, QueueTypeOK
<1>d. ASSUME dispatcher.at # "rest"
      PROVE  dispatcher \in Dispatcher /\ dispatched.commit \in Commits
  BY <1>d DEF TypeOK, AtWork, Resting, dispatched, Job
<1>r. Resting \in Dispatcher \union {Resting}
  OBVIOUS
<1>1. CASE DispatchBegin
  <2>1. QueueTypeOK'
    BY <1>q, <1>1, WorkTypes DEF DispatchBegin
  <2>. QED
    BY <1>1, <2>1 DEF TypeOK, DispatchBegin, QueueTypeOK, Dispatcher, serviceVars
<1>2. CASE DispatchEnd
  <2>1. QueueTypeOK'
    BY <1>q, <1>2, WorkTypes DEF DispatchEnd
  <2>. QED
    BY <1>2, <2>1 DEF TypeOK, DispatchEnd, QueueTypeOK, serviceVars
<1>3. CASE DispatchReadService
  BY <1>3 DEF TypeOK, DispatchReadService, Dispatcher, serviceVars, queueVars
<1>4. CASE DispatchReadHistory
  <2>1. dispatcher' \in Dispatcher \union {Resting}
    BY <1>4, <1>d DEF DispatchReadHistory, Rest, Dispatcher
  <2>. QED
    BY <1>4, <2>1 DEF TypeOK, DispatchReadHistory, serviceVars, queueVars
<1>5. CASE DispatchStart
  <2>1. PICK r \in Runs : StartRun(r, dispatched.commit, 0)
    BY <1>5 DEF DispatchStart
  <2>2. runs' \in [Runs -> Run \union {NoRun}]
    BY <1>5, <1>d, <2>1, StartRunTypes DEF DispatchStart
  <2>. QED
    BY <1>5, <2>2 DEF TypeOK, DispatchStart, Dispatcher, serviceVars, queueVars
<1>6. CASE DispatchWrite
  <2>1. status' \in [Commits -> Status] /\ faults' \in 0..MaxFaults
    BY <1>6, <1>d, WriteTypes DEF DispatchWrite, Kinds
  <2>. QED
    BY <1>6, <2>1 DEF TypeOK, DispatchWrite, Rest, serviceVars, queueVars
<1>7. CASE DispatchListFails \/ DispatchHistoryFails
  BY <1>7, FaultTypes
     DEF TypeOK, DispatchListFails, DispatchHistoryFails, Rest, serviceVars, queueVars
<1>8. CASE DispatchServiceFails \/ DispatchRefused
  <2>1. status' \in [Commits -> Status]
    BY <1>8, <1>d, RefusedTypes DEF DispatchServiceFails, DispatchRefused
  <2>. QED
    BY <1>8, <2>1, FaultTypes
       DEF TypeOK, DispatchServiceFails, DispatchRefused, Rest, serviceVars, queueVars
<1>. QED
  BY <1>1, <1>2, <1>3, <1>4, <1>5, <1>6, <1>7, <1>8 DEF DispatchNext

LEMMA RestTypes ==
  ASSUME TypeOK, Advance \/ (\E c \in Commits : Age(c)) \/ Restart
  PROVE  TypeOK'
PROOF
<1>1. CASE Advance
  <2>1. wanted + 1 \in Commits
    BY <1>1 DEF Advance, TypeOK, Commits
  <2>2. runs' \in [Runs -> Run \union {NoRun}]
    <3>1. CASE UNCHANGED runs
      BY <3>1 DEF TypeOK
    <3>2. ASSUME NEW r \in Runs, StartRun(r, wanted + 1, MaxGrants - 1)
          PROVE  runs' \in [Runs -> Run \union {NoRun}]
      <4>1. MaxGrants - 1 \in 0..(MaxGrants - 1)
        OBVIOUS
      <4>. QED
        BY <2>1, <3>2, <4>1, StartRunTypes
    <3>. QED
      BY <1>1, <3>1, <3>2 DEF Advance
  <2>. QED
    BY <1>1, <2>1, <2>2 DEF TypeOK, Advance, serviceVars, brokerVars, queueVars
<1>2. ASSUME NEW c \in Commits, Age(c) PROVE TypeOK'
  <2>0. status[c] \in Status
    BY DEF TypeOK
  <2>1. [status[c] EXCEPT !.fresh = FALSE] \in Status
    BY <2>0 DEF Status
  <2>2. status' \in [Commits -> Status]
    BY <1>2, <2>1 DEF Age, TypeOK
  <2>. QED
    BY <1>2, <2>2 DEF TypeOK, Age, serviceVars, brokerVars, queueVars
<1>3. CASE Restart
  <2>1. \A r \in Runs : runs[r] # NoRun => [runs[r] EXCEPT !.known = FALSE] \in Run
    <3>1. \A r \in Runs : runs[r] # NoRun => runs[r] \in Run
      BY DEF TypeOK
    <3>. QED
      BY <3>1 DEF Run
  <2>2. runs' \in [Runs -> Run \union {NoRun}]
    BY <1>3, <2>1 DEF Restart
  <2>. QED
    BY <1>3, <2>2, FaultTypes DEF TypeOK, Restart, serviceVars
<1>. QED
  BY <1>1, <1>2, <1>3

\* While the dispatcher is at work, the queue keeps its job in hand: a request
\* goes to the mailbox, and the goroutine takes it when the dispatcher rests.
LEMMA AtWorkStep ==
  ASSUME TypeOK, AtWork, [Next]_vars
  PROVE  AtWork'
PROOF
<1>1. CASE UNCHANGED <<dispatcher, queueVars>>
  BY <1>1 DEF AtWork, queueVars
<1>2. CASE dispatcher' = Resting
  BY <1>2 DEF AtWork
<1>3. ASSUME NEW u \in Callers, Submit(u) PROVE AtWork'
  <2>1. hand["env"] \in Job => hand["env"] # NoJob
    BY DEF Job, NoJob, Commits
  <2>2. hand["env"] \in Job => hand'["env"] = hand["env"]
    BY <1>3, <2>1 DEF Submit, Queue!Ask
  <2>. QED
    BY <1>3, <2>2 DEF AtWork, Submit, Queue!Ask
<1>4. CASE DispatchBegin
  <2>1. hand["env"] \in Job /\ busy'["env"] = TRUE /\ hand' = hand
    BY <1>4 DEF DispatchBegin, Queue!Begin, TypeOK, OneEnv
  <2>. QED
    BY <2>1 DEF AtWork
<1>5. CASE dispatcher # Resting /\ UNCHANGED queueVars
  BY <1>5 DEF AtWork, queueVars
<1>6. CASE DispatchNext
  <2>1. dispatcher.at \in {"service", "history", "start", "write"} => dispatcher # Resting
    BY DEF Resting
  <2>. QED
    BY <1>2, <1>4, <1>5, <1>6, <2>1
       DEF DispatchNext, DispatchEnd, DispatchReadService, DispatchReadHistory,
           DispatchStart, DispatchWrite, Rest, Resting
<1>7. CASE DispatchListFails \/ DispatchServiceFails \/ DispatchHistoryFails
           \/ DispatchRefused \/ Restart
  BY <1>2, <1>7 DEF DispatchListFails, DispatchServiceFails, DispatchHistoryFails,
                    DispatchRefused, Restart, Rest
<1>. QED
  BY <1>1, <1>3, <1>6, <1>7
     DEF Next, vars, brokerVars, CallerNext, RunNext, BuildNext, Advance, Deploy,
         CatchUp, ReadLive, ReadMark, WriteMark, CallerFails, GrantResolve,
         GrantReadService, GrantReadStatus, GrantHandOver, GrantTainted, GrantFails,
         GrantAnswered, Push, PushFails, BuildSucceeds, PushReturns, BuildFails,
         RunDies, ReportFailure, ReportSuccess, ReportLost, WriteVerdict, Age

LEMMA TypeStep ==
  ASSUME TypeOK, AtWork, [Next]_vars
  PROVE  TypeOK' /\ AtWork'
PROOF
<1>1. ASSUME UNCHANGED vars PROVE TypeOK'
  BY <1>1 DEF TypeOK, vars, serviceVars, brokerVars, queueVars
<1>. QED
  BY <1>1, AtWorkStep, GrantStepTypes, JobStepTypes, BuildStepTypes, CallerStepTypes,
     DispatchStepTypes, RestTypes
     DEF Next, RunNext, BuildNext

\* The types always hold.
THEOREM DeployTypes == Spec => []TypeOK
PROOF
<1>1. Init => TypeOK /\ AtWork
  BY TypeInit
<1>2. TypeOK /\ AtWork /\ [Next]_vars => (TypeOK /\ AtWork)'
  BY TypeStep
<1>. QED
  BY <1>1, <1>2, PTL DEF Spec

-----------------------------------------------------------------------------
(* LiveHasRun: what each writer of "live" has seen.                        *)

\* What a service has run, it has run.
LEMMA RanStays ==
  ASSUME [Next]_vars
  PROVE  everRan \subseteq everRan'
PROOF
<1>1. CASE UNCHANGED everRan
  BY <1>1
<1>2. ASSUME NEW r \in Runs, BuildSucceeds(r) PROVE everRan \subseteq everRan'
  BY <1>2 DEF BuildSucceeds
<1>. QED
  BY <1>1, <1>2
     DEF Next, vars, serviceVars, CallerNext, RunNext, BuildNext, DispatchNext, Advance,
         Deploy, CatchUp, ReadLive, ReadMark, WriteMark, Submit, CallerFails,
         DispatchBegin, DispatchEnd, DispatchReadService, DispatchReadHistory,
         DispatchStart, DispatchWrite, DispatchListFails, DispatchServiceFails,
         DispatchHistoryFails, DispatchRefused, GrantResolve, GrantReadService,
         GrantReadStatus, GrantHandOver, GrantTainted, GrantFails, GrantAnswered, Push,
         PushFails, PushReturns, BuildFails, RunDies, ReportFailure, ReportSuccess,
         ReportLost, WriteVerdict, Age, Restart

\* The service's word that a commit runs can be believed.
LEMMA DeployedHasRun ==
  ASSUME ActiveHasRun, NEW c \in Commits, DeployedSha = c
  PROVE  c \in everRan
PROOF
  BY DEF ActiveHasRun, DeployedSha, Commits

\* A version becomes the active one when its own build succeeds, under the
\* name it was pushed with.
LEMMA ServiceStep ==
  ASSUME TypeOK, ActiveHasRun, NamedBuilds, [Next]_vars
  PROVE  ActiveHasRun' /\ NamedBuilds'
PROOF
<1>a. \A r \in Runs : r \notin {"none", "active", "gone"}
  OBVIOUS
<1>t. named = [commit |-> named.commit, at |-> named.at]
  BY DEF TypeOK, Version
<1>1. CASE UNCHANGED <<named, builds, everRan>>
  BY <1>1 DEF ActiveHasRun, NamedBuilds
<1>2. ASSUME NEW r \in Runs, Push(r) PROVE ActiveHasRun' /\ NamedBuilds'
  <2>1. named'.at = r /\ named'.commit = runs[r].commit
    BY <1>2 DEF Push
  <2>2. builds'[r] = runs[r].commit
    BY <1>2 DEF Push, TypeOK
  <2>. QED
    BY <1>a, <2>1, <2>2 DEF ActiveHasRun, NamedBuilds
<1>3. ASSUME NEW r \in Runs, BuildSucceeds(r) PROVE ActiveHasRun' /\ NamedBuilds'
  <2>1. named'.commit = named.commit
    BY <1>3, <1>t DEF BuildSucceeds
  <2>2. named'.at = IF named.at = r THEN "active"
                    ELSE IF named.at = "active" THEN "gone" ELSE named.at
    BY <1>3, <1>t DEF BuildSucceeds
  <2>3. \A q \in Runs : q # r => builds'[q] = builds[q]
    BY <1>3 DEF BuildSucceeds, TypeOK
  <2>4. everRan' = everRan \union {builds[r]}
    BY <1>3 DEF BuildSucceeds
  <2>. QED
    BY <1>a, <2>1, <2>2, <2>3, <2>4 DEF ActiveHasRun, NamedBuilds
<1>4. ASSUME NEW r \in Runs, BuildFails(r) PROVE ActiveHasRun' /\ NamedBuilds'
  <2>1. named'.commit = named.commit
    BY <1>4, <1>t DEF BuildFails
  <2>2. named'.at = IF named.at = r THEN "gone" ELSE named.at
    BY <1>4, <1>t DEF BuildFails
  <2>3. \A q \in Runs : q # r => builds'[q] = builds[q]
    BY <1>4 DEF BuildFails, TypeOK
  <2>4. everRan' = everRan
    BY <1>4 DEF BuildFails
  <2>. QED
    BY <1>a, <2>1, <2>2, <2>3, <2>4 DEF ActiveHasRun, NamedBuilds
<1>. QED
  BY <1>1, <1>2, <1>3, <1>4
     DEF Next, vars, serviceVars, CallerNext, RunNext, BuildNext, DispatchNext, Advance,
         Deploy, CatchUp, ReadLive, ReadMark, WriteMark, Submit, CallerFails,
         DispatchBegin, DispatchEnd, DispatchReadService, DispatchReadHistory,
         DispatchStart, DispatchWrite, DispatchListFails, DispatchServiceFails,
         DispatchHistoryFails, DispatchRefused, GrantResolve, GrantReadService,
         GrantReadStatus, GrantHandOver, GrantTainted, GrantFails, GrantAnswered,
         PushFails, PushReturns, RunDies, ReportFailure, ReportSuccess,
         ReportLost, WriteVerdict, Age, Restart

\* A caller marks only what it has read from the service.
LEMMA CallersStep ==
  ASSUME TypeOK, ActiveHasRun, CallersSaw, [Next]_vars
  PROVE  CallersSaw'
PROOF
<1>0. everRan \subseteq everRan'
  BY RanStays
<1>1. CASE UNCHANGED callers
  BY <1>0, <1>1 DEF CallersSaw
<1>2. ASSUME NEW u \in Callers, NEW f, callers' = [callers EXCEPT ![u] = f],
             f.at \in {"mark", "write"} => f.commit \in everRan
      PROVE  CallersSaw'
  BY <1>0, <1>2 DEF CallersSaw, TypeOK
<1>3. ASSUME NEW u \in Callers, ReadLive(u) PROVE CallersSaw'
  <2>1. callers[u] \in Caller
    BY <1>3, CallerTypes DEF ReadLive
  <2>2. callers[u].commit \in Commits
    BY <2>1 DEF Caller
  <2>3. callers' = [callers EXCEPT ![u] =
          [callers[u] EXCEPT !.at =
             IF DeployedSha # callers[u].commit THEN "submit" ELSE "mark"]]
    BY <1>3 DEF ReadLive
  <2>4. DeployedSha = callers[u].commit => callers[u].commit \in everRan
    BY <2>2, DeployedHasRun
  <2>5. CASE DeployedSha # callers[u].commit
    <3>1. [callers[u] EXCEPT !.at = "submit"].at = "submit"
      BY <2>1 DEF Caller
    <3>. QED
      BY <1>2, <2>3, <2>5, <3>1
  <2>6. CASE DeployedSha = callers[u].commit
    <3>1. [callers[u] EXCEPT !.at = "mark"].commit = callers[u].commit
      BY <2>1 DEF Caller
    <3>. QED
      BY <1>2, <2>3, <2>4, <2>6, <3>1
  <2>. QED
    BY <2>5, <2>6
<1>4. ASSUME NEW u \in Callers, ReadMark(u) PROVE CallersSaw'
  <2>1. callers[u] \in Caller
    BY <1>4, CallerTypes DEF ReadMark
  <2>2. [callers[u] EXCEPT !.at = "write"].commit = callers[u].commit
    BY <2>1 DEF Caller
  <2>3. callers[u].commit \in everRan
    BY <1>4 DEF ReadMark, CallersSaw
  <2>4. callers' = [callers EXCEPT ![u] = [callers[u] EXCEPT !.at = "write"]]
        \/ callers' = [callers EXCEPT ![u] = NoCaller]
    BY <1>4 DEF ReadMark
  <2>. QED
    BY <1>2, <2>2, <2>3, <2>4 DEF NoCaller
<1>5. ASSUME NEW u \in Callers,
             \/ CatchUp(u) \/ WriteMark(u) \/ Submit(u) \/ CallerFails(u)
             \/ \E q \in BOOLEAN : Deploy(u, q)
      PROVE  CallersSaw'
  <2>1. CASE WriteMark(u) \/ Submit(u) \/ CallerFails(u)
    <3>1. callers' = [callers EXCEPT ![u] = NoCaller]
      BY <2>1 DEF WriteMark, Submit, CallerFails
    <3>. QED
      BY <1>2, <3>1 DEF NoCaller
  <2>2. CASE CatchUp(u)
    BY <1>2, <2>2 DEF CatchUp
  <2>3. ASSUME NEW q \in BOOLEAN, Deploy(u, q) PROVE CallersSaw'
    BY <1>2, <2>3 DEF Deploy
  <2>. QED
    BY <1>5, <2>1, <2>2, <2>3
<1>6. CASE Restart
  BY <1>6 DEF Restart, CallersSaw, NoCaller
<1>. QED
  BY <1>1, <1>3, <1>4, <1>5, <1>6
     DEF Next, vars, brokerVars, CallerNext, RunNext, BuildNext, DispatchNext, Advance,
         DispatchBegin, DispatchEnd, DispatchReadService, DispatchReadHistory,
         DispatchStart, DispatchWrite, DispatchListFails, DispatchServiceFails,
         DispatchHistoryFails, DispatchRefused, GrantResolve, GrantReadService,
         GrantReadStatus, GrantHandOver, GrantTainted, GrantFails, GrantAnswered, Push,
         PushFails, PushReturns, BuildSucceeds, BuildFails, RunDies, ReportFailure,
         ReportSuccess, ReportLost, WriteVerdict, Age

\* The dispatcher marks only what it has read from the service, and the job it
\* read it for is the one in the queue's hand.
LEMMA DispatcherStep ==
  ASSUME TypeOK, AtWork, ActiveHasRun, DispatcherSaw, [Next]_vars
  PROVE  DispatcherSaw'
PROOF
<1>0. everRan \subseteq everRan'
  BY RanStays
<1>1. CASE dispatcher' = Resting \/ dispatcher'.live = FALSE
  BY <1>1 DEF DispatcherSaw
<1>2. CASE dispatcher' # Resting /\ dispatcher # Resting /\ dispatcher'.live = dispatcher.live
           /\ hand'["env"] = hand["env"]
  BY <1>0, <1>2 DEF DispatcherSaw, dispatched
<1>3. CASE UNCHANGED <<dispatcher, queueVars>>
  BY <1>1, <1>2, <1>3 DEF queueVars
<1>4. ASSUME NEW u \in Callers, Submit(u) PROVE DispatcherSaw'
  <2>1. hand["env"] \in Job => hand["env"] # NoJob
    BY DEF Job, NoJob, Commits
  <2>2. dispatcher # Resting => hand'["env"] = hand["env"]
    BY <1>4, <2>1 DEF AtWork, Submit, Queue!Ask
  <2>. QED
    BY <1>1, <1>2, <1>4, <2>2 DEF Submit
<1>5. CASE DispatchReadService
  <2>1. dispatched.commit \in Commits
    BY <1>5 DEF DispatchReadService, AtWork, Resting, dispatched, Job
  <2>2. DeployedSha = dispatched.commit => dispatched.commit \in everRan
    BY <2>1, DeployedHasRun
  <2>3. dispatched' = dispatched
    BY <1>5 DEF DispatchReadService, queueVars, dispatched
  <2>4. dispatcher'.live = (DeployedSha = dispatched.commit)
    BY <1>5 DEF DispatchReadService
  <2>. QED
    BY <1>0, <2>2, <2>3, <2>4 DEF DispatcherSaw
<1>6. CASE DispatchReadHistory
  <2>1. dispatcher \in Dispatcher
    BY <1>6 DEF DispatchReadHistory, TypeOK, Resting
  <2>2. \A at : [dispatcher EXCEPT !.at = at].live = dispatcher.live
    BY <2>1 DEF Dispatcher
  <2>3. dispatcher # Resting /\ hand' = hand
    BY <1>6 DEF DispatchReadHistory, Resting, queueVars
  <2>. QED
    BY <1>1, <1>2, <1>6, <2>2, <2>3 DEF DispatchReadHistory, Rest
<1>7. CASE DispatchBegin \/ DispatchEnd \/ DispatchStart \/ DispatchWrite
           \/ DispatchListFails \/ DispatchServiceFails \/ DispatchHistoryFails
           \/ DispatchRefused \/ Restart
  <2>1. \/ dispatcher' = Resting
        \/ dispatcher' = [at |-> "service", live |-> FALSE]
        \/ dispatcher' = [at |-> "write", live |-> FALSE]
    BY <1>7, Zenon
       DEF DispatchBegin, DispatchEnd, DispatchStart, DispatchWrite, DispatchListFails,
           DispatchServiceFails, DispatchHistoryFails, DispatchRefused, Restart, Rest
  <2>2. dispatcher' = Resting \/ dispatcher'.live = FALSE
    BY <2>1
  <2>. QED
    BY <1>1, <2>2, Zenon
<1>. QED
  BY <1>3, <1>4, <1>5, <1>6, <1>7
     DEF Next, vars, brokerVars, DispatchNext, CallerNext, RunNext, BuildNext, Advance,
         Deploy, CatchUp, ReadLive, ReadMark, WriteMark, CallerFails, GrantResolve,
         GrantReadService, GrantReadStatus, GrantHandOver, GrantTainted, GrantFails,
         GrantAnswered, Push, PushFails, BuildSucceeds, PushReturns, BuildFails,
         RunDies, ReportFailure, ReportSuccess, ReportLost, WriteVerdict, Age

\* A report gets the verdict "live" only from the service's own word.
LEMMA VerdictsStep ==
  ASSUME TypeOK, ActiveHasRun, VerdictsSaw, [Next]_vars
  PROVE  VerdictsSaw'
PROOF
<1>0. everRan \subseteq everRan'
  BY RanStays
<1>1. CASE UNCHANGED runs
  BY <1>0, <1>1 DEF VerdictsSaw
<1>2. ASSUME NEW r \in Runs, NEW f, runs' = [runs EXCEPT ![r] = f],
             f.at = "verdict live" => f.commit \in everRan
      PROVE  VerdictsSaw'
  BY <1>0, <1>2 DEF VerdictsSaw, TypeOK
<1>3. ASSUME NEW r \in Runs, EndRun(r) PROVE VerdictsSaw'
  BY <1>2, <1>3 DEF EndRun, NoRun
<1>4. ASSUME NEW r \in Runs, NEW at, at # "verdict live" \/ DeployedSha = runs[r].commit,
             runs[r].at # "none", Goto(r, at)
      PROVE  VerdictsSaw'
  <2>1. runs[r] \in Run
    BY <1>4, RunTypes
  <2>2. /\ [runs[r] EXCEPT !.at = at].at = at
        /\ [runs[r] EXCEPT !.at = at].commit = runs[r].commit
        /\ runs[r].commit \in Commits
    BY <2>1 DEF Run
  <2>3. runs' = [runs EXCEPT ![r] = [runs[r] EXCEPT !.at = at]]
    BY <1>4 DEF Goto
  <2>. QED
    BY <1>2, <1>4, <2>2, <2>3, DeployedHasRun
<1>5. ASSUME NEW r \in Runs, runs[r].at # "none", Reported(r) PROVE VerdictsSaw'
  <2>1. runs[r] \in Run
    BY <1>5, RunTypes
  <2>2. [runs[r] EXCEPT !.at = "asking", !.left = runs[r].left - 1, !.known = FALSE].at
          = "asking"
    BY <2>1 DEF Run
  <2>3. \/ runs' = [runs EXCEPT ![r] =
              [runs[r] EXCEPT !.at = "asking", !.left = runs[r].left - 1, !.known = FALSE]]
        \/ runs' = [runs EXCEPT ![r] = NoRun]
    BY <1>5 DEF Reported
  <2>. QED
    BY <1>2, <2>2, <2>3 DEF NoRun
<1>6. ASSUME NEW r \in Runs, NEW c, NEW left, StartRun(r, c, left) PROVE VerdictsSaw'
  BY <1>2, <1>6 DEF StartRun
<1>7. ASSUME NEW r \in Runs, GrantHandOver(r) PROVE VerdictsSaw'
  <2>1. runs[r] \in Run
    BY <1>7, RunTypes DEF GrantHandOver
  <2>2. [runs[r] EXCEPT !.at = "answer", !.known = TRUE].at = "answer"
    BY <2>1 DEF Run
  <2>3. runs' = [runs EXCEPT ![r] = [runs[r] EXCEPT !.at = "answer", !.known = TRUE]]
    BY <1>7 DEF GrantHandOver
  <2>. QED
    BY <1>2, <2>2, <2>3
<1>8. CASE Restart
  <2>1. \A r \in Runs : runs'[r].at # "verdict live"
    <3>1. \A r \in Runs : runs[r] = NoRun \/ runs[r] \in Run
      BY DEF TypeOK
    <3>2. \A r \in Runs : runs[r] \in Run =>
            [runs[r] EXCEPT !.known = FALSE].at = runs[r].at
      BY DEF Run
    <3>. QED
      BY <1>8, <3>1, <3>2 DEF Restart, NoRun
  <2>. QED
    BY <2>1 DEF VerdictsSaw
<1>9. ASSUME NEW r \in Runs,
             \/ RunNext(r) \/ BuildNext(r) \/ PushReturns(r) \/ GrantTainted(r)
             \/ GrantFails(r) \/ PushFails(r) \/ RunDies(r) \/ ReportLost(r)
      PROVE  VerdictsSaw'
  <2>1. CASE GrantResolve(r) \/ GrantReadService(r) \/ GrantReadStatus(r)
             \/ GrantAnswered(r) \/ Push(r) \/ PushReturns(r) \/ PushFails(r)
    BY <2>1, <1>3, <1>4
       DEF GrantResolve, GrantReadService, GrantReadStatus, GrantAnswered, Push,
           PushReturns, PushFails
  <2>2. CASE BuildNext(r)
    BY <2>2, <1>1, <1>4 DEF BuildNext, BuildSucceeds, BuildFails
  <2>3. CASE GrantTainted(r) \/ GrantFails(r) \/ RunDies(r) \/ ReportFailure(r)
    BY <2>3, <1>3 DEF GrantTainted, GrantFails, RunDies, ReportFailure
  <2>4. CASE ReportLost(r) \/ WriteVerdict(r)
    BY <2>4, <1>3, <1>5 DEF ReportLost, WriteVerdict
  <2>5. CASE ReportSuccess(r)
    BY <2>5, <1>4, <1>5 DEF ReportSuccess
  <2>. QED
    BY <1>7, <1>9, <2>1, <2>2, <2>3, <2>4, <2>5 DEF RunNext
<1>10. CASE Advance \/ DispatchStart
  BY <1>1, <1>6, <1>10 DEF Advance, DispatchStart
<1>. QED
  BY <1>1, <1>8, <1>9, <1>10
     DEF Next, vars, DispatchNext, CallerNext, Deploy, CatchUp, ReadLive, ReadMark,
         WriteMark, Submit, CallerFails, DispatchBegin, DispatchEnd,
         DispatchReadService, DispatchReadHistory, DispatchWrite, DispatchListFails,
         DispatchServiceFails, DispatchHistoryFails, DispatchRefused, Age

\* Every write of "live" is of a commit its writer saw running.
LEMMA LiveStep ==
  ASSUME Sound, [Next]_vars
  PROVE  LiveHasRun'
PROOF
<1>0. everRan \subseteq everRan'
  BY RanStays
<1>t. TypeOK
  BY DEF Sound
<1>1. CASE UNCHANGED status
  BY <1>0, <1>1 DEF LiveHasRun, Sound
<1>2. ASSUME NEW c, NEW st, status' = [status EXCEPT ![c] = st],
             st.kind = "live" => c \in everRan
      PROVE  LiveHasRun'
  BY <1>0, <1>t, <1>2 DEF LiveHasRun, Sound, TypeOK
<1>3. ASSUME NEW c, NEW kind, kind # "live" \/ c \in everRan, WriteStatus(c, kind)
      PROVE  LiveHasRun'
  <2>1. StatusOf(kind).kind = kind
    BY DEF StatusOf
  <2>2. UNCHANGED status \/ status' = [status EXCEPT ![c] = StatusOf(kind)]
    BY <1>3 DEF WriteStatus
  <2>. QED
    BY <1>1, <1>2, <1>3, <2>1, <2>2
<1>4. ASSUME NEW c, status' = [status EXCEPT ![c] = StatusOf("refused")] PROVE LiveHasRun'
  BY <1>2, <1>4 DEF StatusOf
<1>5. ASSUME NEW u \in Callers, WriteMark(u) PROVE LiveHasRun'
  <2>1. callers[u].commit \in everRan
    BY <1>5 DEF WriteMark, Sound, CallersSaw
  <2>. QED
    BY <1>3, <1>5, <2>1 DEF WriteMark
<1>6. CASE DispatchWrite
  <2>1. dispatcher.live => dispatched.commit \in everRan
    BY <1>6 DEF DispatchWrite, Sound, DispatcherSaw, Resting
  <2>2. CASE dispatcher.live
    <3>1. WriteStatus(dispatched.commit, "live")
      BY <1>6, <2>2 DEF DispatchWrite
    <3>. QED
      BY <1>3, <2>1, <2>2, <3>1
  <2>3. CASE ~dispatcher.live
    <3>1. WriteStatus(dispatched.commit, "dispatched")
      BY <1>6, <2>3 DEF DispatchWrite
    <3>. QED
      BY <1>3, <3>1
  <2>. QED
    BY <2>2, <2>3
<1>7. ASSUME NEW r \in Runs, WriteVerdict(r) PROVE LiveHasRun'
  <2>1. CASE runs[r].at = "verdict live"
    <3>1. WriteStatus(runs[r].commit, "live") /\ runs[r].commit \in everRan
      BY <1>7, <2>1 DEF WriteVerdict, Sound, VerdictsSaw
    <3>. QED
      BY <1>3, <3>1
  <2>2. CASE runs[r].at # "verdict live"
    <3>1. WriteStatus(runs[r].commit, "failed")
      BY <1>7, <2>2 DEF WriteVerdict
    <3>. QED
      BY <1>3, <3>1
  <2>. QED
    BY <2>1, <2>2
<1>8. ASSUME NEW r \in Runs, GrantHandOver(r) PROVE LiveHasRun'
  BY <1>3, <1>8 DEF GrantHandOver
<1>9. ASSUME NEW r \in Runs, ReportFailure(r) PROVE LiveHasRun'
  BY <1>1, <1>3, <1>9 DEF ReportFailure
<1>10. ASSUME NEW r \in Runs, GrantTainted(r) PROVE LiveHasRun'
  BY <1>4, <1>10 DEF GrantTainted
<1>11. CASE DispatchServiceFails \/ DispatchRefused
  BY <1>4, <1>11 DEF DispatchServiceFails, DispatchRefused
<1>12. ASSUME NEW c \in Commits, Age(c) PROVE LiveHasRun'
  <2>1. status' = [status EXCEPT ![c] = [status[c] EXCEPT !.fresh = FALSE]]
    BY <1>12 DEF Age
  <2>2. status[c] \in Status
    BY <1>t DEF TypeOK
  <2>3. [status[c] EXCEPT !.fresh = FALSE].kind = status[c].kind
    BY <2>2 DEF Status
  <2>4. status[c].kind # "live"
    BY <1>12 DEF Age, Pending
  <2>. QED
    BY <1>2, <2>1, <2>3, <2>4
<1>. QED
  BY <1>1, <1>5, <1>6, <1>7, <1>8, <1>9, <1>10, <1>11, <1>12
     DEF Next, vars, DispatchNext, CallerNext, RunNext, BuildNext, Advance, Deploy,
         CatchUp, ReadLive, ReadMark, Submit, CallerFails, DispatchBegin, DispatchEnd,
         DispatchReadService, DispatchReadHistory, DispatchStart, DispatchListFails,
         DispatchHistoryFails, GrantResolve, GrantReadService, GrantReadStatus,
         GrantFails, GrantAnswered, Push, PushFails, BuildSucceeds, PushReturns,
         BuildFails, RunDies, ReportSuccess, ReportLost, Restart

LEMMA SoundInit == Init => Sound
PROOF
<1>. SUFFICES ASSUME Init PROVE Sound
  OBVIOUS
<1>1. TypeOK /\ AtWork
  BY TypeInit
<1>2. ActiveHasRun /\ NamedBuilds
  <2>1. \A r \in Runs : r # "none"
    OBVIOUS
  <2>. QED
    BY <2>1 DEF Init, ActiveHasRun, NamedBuilds
<1>3. CallersSaw /\ VerdictsSaw
  BY DEF Init, CallersSaw, VerdictsSaw, NoCaller, NoRun
<1>4. DispatcherSaw
  BY DEF Init, DispatcherSaw
<1>5. LiveHasRun
  BY DEF Init, LiveHasRun, StatusOf
<1>. QED
  BY <1>1, <1>2, <1>3, <1>4, <1>5 DEF Sound

\* A status says live only of a commit the service has run.
THEOREM LiveOnlyOfWhatRan == Spec => []LiveHasRun
PROOF
<1>1. Sound /\ [Next]_vars => Sound'
  BY TypeStep, ServiceStep, CallersStep, DispatcherStep, VerdictsStep, LiveStep DEF Sound
<1>2. Sound => LiveHasRun
  BY DEF Sound
<1>. QED
  BY SoundInit, <1>1, <1>2, PTL DEF Spec

-----------------------------------------------------------------------------
(* SupersededStaysDown: only the grant's comparison puts a commit on its    *)
(* way, and it lets the wanted one pass.                                    *)

On(r, c) == (runs[r].at \in Committed /\ runs[r].commit = c) \/ builds[r] = c

LEMMA OnStep ==
  ASSUME TypeOK, [Next]_vars, NEW c \in Commits, c # wanted, ~InFlight(c)
  PROVE  \A r \in Runs : ~On(r, c)'
PROOF
<1>0. c # 0 /\ \A r \in Runs : ~On(r, c)
  BY DEF InFlight, On, Commits
<1>1. CASE UNCHANGED <<runs, builds>>
  BY <1>0, <1>1 DEF On
<1>2. ASSUME NEW r \in Runs, NEW f, runs' = [runs EXCEPT ![r] = f], UNCHANGED builds,
             f.at \notin Committed \/ f.commit # c
      PROVE  \A q \in Runs : ~On(q, c)'
  BY <1>0, <1>2 DEF On, TypeOK
<1>3. ASSUME NEW r \in Runs, EndRun(r), UNCHANGED builds
      PROVE  \A q \in Runs : ~On(q, c)'
  BY <1>2, <1>3 DEF EndRun, NoRun, Committed
<1>4. ASSUME NEW r \in Runs, NEW at, runs[r].at # "none", Goto(r, at), UNCHANGED builds,
             at \in Committed => runs[r].at \in Committed \/ runs[r].commit = wanted
      PROVE  \A q \in Runs : ~On(q, c)'
  <2>1. runs[r] \in Run
    BY <1>4, RunTypes
  <2>2. /\ [runs[r] EXCEPT !.at = at].at = at
        /\ [runs[r] EXCEPT !.at = at].commit = runs[r].commit
    BY <2>1 DEF Run
  <2>3. runs' = [runs EXCEPT ![r] = [runs[r] EXCEPT !.at = at]]
    BY <1>4 DEF Goto
  <2>4. at \in Committed => runs[r].commit # c
    BY <1>0, <1>4 DEF On
  <2>. QED
    BY <1>2, <1>4, <2>2, <2>3, <2>4
<1>5. ASSUME NEW r \in Runs, runs[r].at # "none", Reported(r), UNCHANGED builds
      PROVE  \A q \in Runs : ~On(q, c)'
  <2>1. runs[r] \in Run
    BY <1>5, RunTypes
  <2>2. [runs[r] EXCEPT !.at = "asking", !.left = runs[r].left - 1, !.known = FALSE].at
          = "asking"
    BY <2>1 DEF Run
  <2>3. \/ runs' = [runs EXCEPT ![r] =
              [runs[r] EXCEPT !.at = "asking", !.left = runs[r].left - 1, !.known = FALSE]]
        \/ EndRun(r)
    BY <1>5 DEF Reported, EndRun
  <2>. QED
    BY <1>2, <1>3, <1>5, <2>2, <2>3 DEF Committed
<1>6. ASSUME NEW r \in Runs, NEW d, NEW left, StartRun(r, d, left), UNCHANGED builds
      PROVE  \A q \in Runs : ~On(q, c)'
  BY <1>2, <1>6 DEF StartRun, Committed
<1>7. ASSUME NEW r \in Runs,
             \/ GrantResolve(r) \/ GrantReadService(r) \/ GrantReadStatus(r)
             \/ GrantTainted(r) \/ GrantFails(r) \/ GrantAnswered(r) \/ PushFails(r)
             \/ PushReturns(r) \/ RunDies(r) \/ ReportFailure(r)
      PROVE  \A q \in Runs : ~On(q, c)'
  BY <1>3, <1>4, <1>7
     DEF GrantResolve, GrantReadService, GrantReadStatus, GrantTainted, GrantFails,
         GrantAnswered, PushFails, PushReturns, RunDies, ReportFailure, Committed,
         serviceVars
<1>8. ASSUME NEW r \in Runs, ReportSuccess(r) \/ ReportLost(r) \/ WriteVerdict(r)
      PROVE  \A q \in Runs : ~On(q, c)'
  BY <1>3, <1>4, <1>5, <1>8
     DEF ReportSuccess, ReportLost, WriteVerdict, Committed, serviceVars
<1>9. ASSUME NEW r \in Runs, GrantHandOver(r) PROVE \A q \in Runs : ~On(q, c)'
  <2>1. runs[r] \in Run
    BY <1>9, RunTypes DEF GrantHandOver
  <2>2. [runs[r] EXCEPT !.at = "answer", !.known = TRUE].commit = runs[r].commit
    BY <2>1 DEF Run
  <2>3. runs[r].commit # c
    BY <1>0, <1>9 DEF GrantHandOver, On, Committed
  <2>4. runs' = [runs EXCEPT ![r] = [runs[r] EXCEPT !.at = "answer", !.known = TRUE]]
    BY <1>9 DEF GrantHandOver
  <2>. QED
    BY <1>2, <1>9, <2>2, <2>3, <2>4 DEF GrantHandOver, serviceVars
<1>10. ASSUME NEW r \in Runs, Push(r) PROVE \A q \in Runs : ~On(q, c)'
  <2>1. runs[r].commit # c
    BY <1>0, <1>10 DEF Push, On, Committed
  <2>2. runs[r] \in Run
    BY <1>10, RunTypes DEF Push
  <2>3. [runs[r] EXCEPT !.at = "building"].commit = runs[r].commit
    BY <2>2 DEF Run
  <2>4. \A q \in Runs : runs'[q] = IF q = r THEN [runs[r] EXCEPT !.at = "building"]
                                   ELSE runs[q]
    BY <1>10 DEF Push, Goto, TypeOK
  <2>5. \A q \in Runs : builds'[q] = IF q = r THEN runs[r].commit ELSE builds[q]
    BY <1>10 DEF Push, TypeOK
  <2>. QED
    BY <1>0, <2>1, <2>3, <2>4, <2>5 DEF On
<1>11. ASSUME NEW r \in Runs, BuildNext(r) PROVE \A q \in Runs : ~On(q, c)'
  <2>1. \A q \in Runs : builds'[q] = IF q = r THEN 0 ELSE builds[q]
    BY <1>11 DEF BuildNext, BuildSucceeds, BuildFails, TypeOK
  <2>2. \/ UNCHANGED runs
        \/ \E at \in {"built", "unbuilt"} : runs[r].at = "building" /\ Goto(r, at)
    BY <1>11 DEF BuildNext, BuildSucceeds, BuildFails
  <2>3. \A q \in Runs : \/ runs'[q] = runs[q] \/ runs'[q].at \in {"built", "unbuilt"}
    <3>1. ASSUME NEW at \in {"built", "unbuilt"}, runs[r].at = "building", Goto(r, at),
                 NEW q \in Runs
          PROVE  runs'[q] = runs[q] \/ runs'[q].at \in {"built", "unbuilt"}
      <4>1. runs[r] \in Run
        BY <3>1, RunTypes
      <4>2. [runs[r] EXCEPT !.at = at].at = at
        BY <4>1 DEF Run
      <4>. QED
        BY <3>1, <4>2 DEF Goto, TypeOK
    <3>. QED
      BY <2>2, <3>1
  <2>. QED
    BY <1>0, <2>1, <2>3 DEF On, Committed
<1>12. CASE Restart
  <2>1. \A r \in Runs : \/ runs'[r].at \notin Committed
                        \/ runs'[r].at = runs[r].at /\ runs'[r].commit = runs[r].commit
    <3>1. \A r \in Runs : runs[r] = NoRun \/ runs[r] \in Run
      BY DEF TypeOK
    <3>2. \A r \in Runs : runs[r] \in Run =>
            /\ [runs[r] EXCEPT !.known = FALSE].at = runs[r].at
            /\ [runs[r] EXCEPT !.known = FALSE].commit = runs[r].commit
      BY DEF Run
    <3>. QED
      BY <1>12, <3>1, <3>2 DEF Restart, NoRun, Committed
  <2>. QED
    BY <1>0, <1>12, <2>1 DEF On, Restart, serviceVars
<1>13. CASE Advance \/ DispatchStart
  BY <1>1, <1>6, <1>13 DEF Advance, DispatchStart, serviceVars
<1>14. CASE \/ \E r \in Runs :
                \/ RunNext(r) \/ BuildNext(r) \/ PushReturns(r) \/ GrantTainted(r)
                \/ GrantFails(r) \/ PushFails(r) \/ RunDies(r) \/ ReportLost(r)
  BY <1>7, <1>8, <1>9, <1>10, <1>11, <1>14 DEF RunNext
<1>. QED
  BY <1>1, <1>12, <1>13, <1>14
     DEF Next, vars, serviceVars, DispatchNext, CallerNext, Deploy, CatchUp, ReadLive,
         ReadMark, WriteMark, Submit, CallerFails, DispatchBegin, DispatchEnd,
         DispatchReadService, DispatchReadHistory, DispatchWrite, DispatchListFails,
         DispatchServiceFails, DispatchHistoryFails, DispatchRefused, Age

\* A superseded commit of which nothing is in flight stays down.
THEOREM SupersededNeverStarts == Spec => SupersededStaysDown
PROOF
<1>1. TypeOK /\ [Next]_vars =>
        [\A c \in Commits : (c < wanted /\ ~InFlight(c)) => ~InFlight(c)']_vars
  <2>. SUFFICES ASSUME TypeOK, [Next]_vars, NEW c \in Commits, c < wanted, ~InFlight(c)
                PROVE  ~InFlight(c)'
    OBVIOUS
  <2>1. c # wanted
    BY DEF TypeOK, Commits
  <2>2. \A r \in Runs : ~On(r, c)'
    BY <2>1, OnStep
  <2>. QED
    BY <2>2 DEF InFlight, On
<1>. QED
  BY <1>1, DeployTypes, PTL DEF Spec, SupersededStaysDown

-----------------------------------------------------------------------------
(* LiveStays: a run that compares its commit with a service that already    *)
(* runs it ends, so none of them comes to push.                             *)

\* The service's word changes only by a push or by the end of a build.
LEMMA ServiceStays ==
  ASSUME Undisturbed, [Next]_vars
  PROVE  UNCHANGED <<named, builds>>
PROOF
<1>1. \A r \in Runs : ~Push(r) /\ ~BuildNext(r)
  BY DEF Undisturbed, Push, BuildNext, BuildSucceeds, BuildFails, Committed
<1>. QED
  BY <1>1
     DEF Next, vars, serviceVars, CallerNext, RunNext, DispatchNext, Advance,
         Deploy, CatchUp, ReadLive, ReadMark, WriteMark, Submit, CallerFails,
         DispatchBegin, DispatchEnd, DispatchReadService, DispatchReadHistory,
         DispatchStart, DispatchWrite, DispatchListFails, DispatchServiceFails,
         DispatchHistoryFails, DispatchRefused, GrantResolve, GrantReadService,
         GrantReadStatus, GrantHandOver, GrantTainted, GrantFails, GrantAnswered,
         PushFails, PushReturns, RunDies, ReportFailure, ReportSuccess,
         ReportLost, WriteVerdict, Age, Restart

LEMMA UndisturbedStep ==
  ASSUME TypeOK, Undisturbed, DeployedSha = wanted, [Next]_vars, wanted' = wanted
  PROVE  Undisturbed'
PROOF
<1>0. UNCHANGED <<named, builds>>
  BY ServiceStays
<1>a. \A r \in Runs : runs[r].at \in Committed =>
                        runs[r].at = "granting" /\ runs[r].commit = wanted
  BY DEF Undisturbed
<1>1. CASE UNCHANGED runs
  BY <1>0, <1>1 DEF Undisturbed
<1>2. ASSUME NEW r \in Runs, NEW f, runs' = [runs EXCEPT ![r] = f],
             f.at \notin Committed \/ (f.at = "granting" /\ f.commit = wanted)
      PROVE  Undisturbed'
  BY <1>0, <1>2 DEF Undisturbed, TypeOK
<1>3. ASSUME NEW r \in Runs, EndRun(r) PROVE Undisturbed'
  BY <1>2, <1>3 DEF EndRun, NoRun, Committed
<1>4. ASSUME NEW r \in Runs, NEW at, runs[r].at # "none", Goto(r, at),
             at \in Committed => at = "granting" /\ runs[r].commit = wanted
      PROVE  Undisturbed'
  <2>1. runs[r] \in Run
    BY <1>4, RunTypes
  <2>2. /\ [runs[r] EXCEPT !.at = at].at = at
        /\ [runs[r] EXCEPT !.at = at].commit = runs[r].commit
    BY <2>1 DEF Run
  <2>3. runs' = [runs EXCEPT ![r] = [runs[r] EXCEPT !.at = at]]
    BY <1>4 DEF Goto
  <2>. QED
    BY <1>2, <1>4, <2>2, <2>3
<1>5. ASSUME NEW r \in Runs, runs[r].at # "none", Reported(r) PROVE Undisturbed'
  <2>1. runs[r] \in Run
    BY <1>5, RunTypes
  <2>2. [runs[r] EXCEPT !.at = "asking", !.left = runs[r].left - 1, !.known = FALSE].at
          = "asking"
    BY <2>1 DEF Run
  <2>3. \/ runs' = [runs EXCEPT ![r] =
              [runs[r] EXCEPT !.at = "asking", !.left = runs[r].left - 1, !.known = FALSE]]
        \/ EndRun(r)
    BY <1>5 DEF Reported, EndRun
  <2>. QED
    BY <1>2, <1>3, <2>2, <2>3 DEF Committed
<1>6. ASSUME NEW r \in Runs, NEW d, NEW left, StartRun(r, d, left) PROVE Undisturbed'
  BY <1>2, <1>6 DEF StartRun, Committed
<1>7. ASSUME NEW r \in Runs, GrantResolve(r) \/ GrantReadService(r) PROVE Undisturbed'
  BY <1>3, <1>4, <1>7, <1>a DEF GrantResolve, GrantReadService, Committed
<1>8. ASSUME NEW r \in Runs,
             \/ GrantReadStatus(r) \/ GrantHandOver(r) \/ GrantTainted(r)
             \/ GrantAnswered(r) \/ Push(r) \/ PushFails(r) \/ PushReturns(r)
             \/ BuildNext(r)
      PROVE  Undisturbed'
  BY <1>1, <1>8, <1>a
     DEF GrantReadStatus, GrantHandOver, GrantTainted, GrantAnswered, Push, PushFails,
         PushReturns, BuildNext, BuildSucceeds, BuildFails, Committed, Undisturbed
<1>9. ASSUME NEW r \in Runs,
             \/ GrantFails(r) \/ RunDies(r) \/ ReportFailure(r) \/ ReportSuccess(r)
             \/ ReportLost(r) \/ WriteVerdict(r)
      PROVE  Undisturbed'
  BY <1>3, <1>4, <1>5, <1>9
     DEF GrantFails, RunDies, ReportFailure, ReportSuccess, ReportLost, WriteVerdict,
         Committed
<1>10. CASE Restart
  <2>1. \A r \in Runs : \/ runs'[r].at \notin Committed
                        \/ runs'[r].at = runs[r].at /\ runs'[r].commit = runs[r].commit
    <3>1. \A r \in Runs : runs[r] = NoRun \/ runs[r] \in Run
      BY DEF TypeOK
    <3>2. \A r \in Runs : runs[r] \in Run =>
            /\ [runs[r] EXCEPT !.known = FALSE].at = runs[r].at
            /\ [runs[r] EXCEPT !.known = FALSE].commit = runs[r].commit
      BY DEF Run
    <3>. QED
      BY <1>10, <3>1, <3>2 DEF Restart, NoRun, Committed
  <2>. QED
    BY <1>0, <2>1 DEF Undisturbed
<1>11. CASE DispatchStart
  BY <1>6, <1>11 DEF DispatchStart
<1>12. CASE Advance
  BY <1>12 DEF Advance, TypeOK, Commits
<1>13. CASE \E r \in Runs :
              \/ RunNext(r) \/ BuildNext(r) \/ PushReturns(r) \/ GrantTainted(r)
              \/ GrantFails(r) \/ PushFails(r) \/ RunDies(r) \/ ReportLost(r)
  BY <1>7, <1>8, <1>9, <1>13 DEF RunNext
<1>. QED
  BY <1>1, <1>10, <1>11, <1>12, <1>13
     DEF Next, vars, DispatchNext, CallerNext, Deploy, CatchUp, ReadLive,
         ReadMark, WriteMark, Submit, CallerFails, DispatchBegin, DispatchEnd,
         DispatchReadService, DispatchReadHistory, DispatchWrite, DispatchListFails,
         DispatchServiceFails, DispatchHistoryFails, DispatchRefused, Age

\* A service that runs the wanted commit, with no older grant on its way, stays
\* on it until another commit is wanted.
THEOREM LiveIsLeftAlone == Spec => LiveStays
PROOF
<1>1. TypeOK /\ [Next]_vars =>
        [(DeployedSha = wanted /\ Undisturbed)
           => DeployedSha' = wanted /\ (wanted' = wanted => Undisturbed')]_vars
  <2>. SUFFICES ASSUME TypeOK, [Next]_vars, DeployedSha = wanted, Undisturbed
                PROVE  DeployedSha' = wanted /\ (wanted' = wanted => Undisturbed')
    OBVIOUS
  <2>1. DeployedSha' = wanted
    BY ServiceStays DEF DeployedSha
  <2>. QED
    BY <2>1, UndisturbedStep
<1>. QED
  BY <1>1, DeployTypes, PTL DEF Spec, LiveStays

=============================================================================
