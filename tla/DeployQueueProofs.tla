-------------------------- MODULE DeployQueueProofs --------------------------
(***************************************************************************)
(* Proofs about DeployQueue, for any environments, services, commits,      *)
(* submitters and goroutines.                                              *)
(*                                                                         *)
(* The safety properties are conjuncts or consequences of QueueInv.  They  *)
(* are not inductive by themselves: AskKept needs to know that a job that  *)
(* waits has targets (Take drops one that has none) and that the goroutine *)
(* ending a job is the environment's only one; LastSubmittedRuns needs to  *)
(* know where the job submitted last is while the queue is not empty.      *)
(***************************************************************************)
EXTENDS DeployQueue, TLAPS

\* Every job in the queue, or on its way to it, deploys something.
JobsHaveTargets ==
  /\ \A u \in Submitters : asking[u] # NoRequest => HasTargets(asking[u].job)
  /\ \A l \in Loops : IsLive(l) => HasTargets(loops[l].job)
  /\ \A e \in Envs : ~HasTargets(pending[e]) => pending[e] = NoJob

\* Where the job submitted last is: in the mailbox, else in the goroutine's
\* hand, else it was the last one performed.
NewestPlace ==
  \A e \in Envs :
    /\ HasTargets(pending[e]) => newest[e] = pending[e].targets
    /\ ~HasTargets(pending[e]) =>
         \A l \in LoopsOf(e) : loops[l].job.targets = newest[e]
    /\ \A l \in LoopsOf(e) : loops[l].at = "run" => ran[e] = loops[l].job.targets
    /\ ~running[e] => ran[e] = newest[e]

QueueInv ==
  /\ TypeOK
  /\ OneDispatch
  /\ NothingStranded
  /\ JobsHaveTargets
  /\ AskKept
  /\ NewestPlace

-----------------------------------------------------------------------------
\* The submission in hand is a well-formed job, merged or not.
LEMMA MergeType ==
  ASSUME NEW j \in Job, NEW w \in Job
  PROVE  /\ Merge(j, w) \in Job
         /\ Merge(j, w).targets = j.targets
         /\ Merge(j, w).requested = (j.requested \/ w.requested)
  BY DEF Merge, Job

LEMMA NoJobType == NoJob \in Job /\ ~HasTargets(NoJob) /\ ~NoJob.requested
  BY MaxCommitAssumption DEF NoJob, Job, Targets, HasTargets, NoTargets

LEMMA IdleIsNotLive == Idle \notin LiveLoop /\ Idle.at = "idle"
  BY DEF Idle, LiveLoop

LEMMA NoRequestIsNone == NoRequest \notin Request
  <1> SUFFICES ASSUME NoRequest \in Request PROVE FALSE
    OBVIOUS
  <1>1. DOMAIN NoRequest = {"none"}
    BY DEF NoRequest
  <1>2. DOMAIN NoRequest = {"env", "job"}
    BY DEF Request
  <1> QED BY <1>1, <1>2

\* Init satisfies the invariant.
LEMMA QueueInvInit == Init => QueueInv
  <1> SUFFICES ASSUME Init PROVE QueueInv
    OBVIOUS
  <1>1. TypeOK
    BY NoJobType, MaxCommitAssumption
    DEF Init, TypeOK, Commits, Targets, NoTargets
  <1>2. \A l \in Loops : ~IsLive(l)
    BY DEF Init, IsLive
  <1>3. \A e \in Envs : LoopsOf(e) = {}
    BY <1>2 DEF LoopsOf
  <1>4. OneDispatch /\ NothingStranded /\ AskKept
    BY <1>2, <1>3, NoJobType DEF Init, OneDispatch, NothingStranded, AskKept
  <1>5. JobsHaveTargets
    BY <1>2, NoJobType DEF Init, JobsHaveTargets
  <1>6. NewestPlace
    BY <1>3, NoJobType DEF Init, NewestPlace
  <1> QED BY <1>1, <1>4, <1>5, <1>6 DEF QueueInv

\* A head that moves changes nothing the queue holds.
LEMMA AdvanceInv ==
  ASSUME QueueInv, NEW e \in Envs, NEW s \in Services, Advance(e, s)
  PROVE  QueueInv'
  <1>1. UNCHANGED <<asking, queueVars, historyVars>>
    BY DEF Advance
  <1>2. TypeOK'
    BY <1>1, MaxCommitAssumption
    DEF QueueInv, TypeOK, Advance, Commits, queueVars, historyVars
  <1>3. \A l \in Loops : IsLive(l)' = IsLive(l)
    BY <1>1 DEF IsLive, queueVars
  <1>4. \A f \in Envs : LoopsOf(f)' = LoopsOf(f)
    BY <1>1 DEF LoopsOf, IsLive, queueVars
  <1>5. (OneDispatch /\ NothingStranded /\ AskKept)'
    BY <1>1, <1>3, <1>4
    DEF QueueInv, OneDispatch, NothingStranded, AskKept, HasTargets, queueVars, historyVars
  <1>6. (JobsHaveTargets /\ NewestPlace)'
    BY <1>1, <1>3, <1>4
    DEF QueueInv, JobsHaveTargets, NewestPlace, HasTargets, queueVars, historyVars
  <1> QED BY <1>2, <1>5, <1>6 DEF QueueInv

\* A resolved job has a target: heads are commits, and no caller submits a
\* job for no service.
LEMMA ResolveInv ==
  ASSUME QueueInv, NEW u \in Submitters, NEW e \in Envs,
         NEW wanted \in (SUBSET Services) \ {{}}, NEW r \in BOOLEAN,
         Resolve(u, e, wanted, r)
  PROVE  QueueInv'
  <1> DEFINE T == [s \in Services |-> IF s \in wanted THEN head[e][s] ELSE 0]
             J == [targets |-> T, requested |-> r]
  <1>1. UNCHANGED <<head, queueVars, historyVars>>
    BY DEF Resolve
  <1>2. asking' = [asking EXCEPT ![u] = [env |-> e, job |-> J]]
    BY DEF Resolve
  <1>3. T \in Targets
    BY MaxCommitAssumption DEF QueueInv, TypeOK, Targets, Commits
  <1>4. J \in Job
    BY <1>3 DEF Job
  <1>5. HasTargets(J)
    <2>1. PICK s \in Services : s \in wanted
      OBVIOUS
    <2>2. T[s] = head[e][s] /\ head[e][s] \in Commits
      BY <2>1 DEF QueueInv, TypeOK
    <2>3. T[s] # NoTargets[s]
      BY <2>2, MaxCommitAssumption DEF Commits, NoTargets
    <2> QED BY <2>3 DEF HasTargets
  <1>6. [env |-> e, job |-> J] \in Request
    BY <1>4 DEF Request
  <1>7. TypeOK'
    BY <1>1, <1>2, <1>6 DEF QueueInv, TypeOK, queueVars, historyVars
  <1>8. \A l \in Loops : IsLive(l)' = IsLive(l)
    BY <1>1 DEF IsLive, queueVars
  <1>9. \A f \in Envs : LoopsOf(f)' = LoopsOf(f)
    BY <1>1 DEF LoopsOf, IsLive, queueVars
  <1>10. (OneDispatch /\ NothingStranded /\ AskKept /\ NewestPlace)'
    BY <1>1, <1>8, <1>9
    DEF QueueInv, OneDispatch, NothingStranded, AskKept, NewestPlace, HasTargets,
        queueVars, historyVars
  <1>11. \A v \in Submitters : asking'[v] # NoRequest => HasTargets(asking'[v].job)
    <2> SUFFICES ASSUME NEW v \in Submitters, asking'[v] # NoRequest
                 PROVE  HasTargets(asking'[v].job)
      OBVIOUS
    <2>1. CASE v = u
      BY <2>1, <1>2, <1>5 DEF QueueInv, TypeOK
    <2>2. CASE v # u
      BY <2>2, <1>2 DEF QueueInv, TypeOK, JobsHaveTargets
    <2> QED BY <2>1, <2>2
  <1>12. JobsHaveTargets'
    BY <1>1, <1>8, <1>11 DEF QueueInv, JobsHaveTargets, HasTargets, queueVars
  <1> QED BY <1>7, <1>10, <1>12 DEF QueueInv

\* Submit: the job either waits behind the environment's goroutine or is given
\* to a new one; in both cases it is the newest, and the ask it carries, or
\* that the job it replaces carried, goes with it.
LEMMA SubmitInv ==
  ASSUME QueueInv, NEW u \in Submitters, Submit(u)
  PROVE  QueueInv'
  <1>0. PICK e \in Envs, asked \in Job :
          asking[u].env = e /\ asking[u].job = asked /\ HasTargets(asked)
    BY DEF QueueInv, TypeOK, JobsHaveTargets, Submit, Request
  <1> DEFINE job == Merge(asked, pending[e])
  <1>1. HasTargets(asked)
    BY <1>0
  <1>2. e \in Envs /\ asked \in Job /\ pending[e] \in Job
    BY DEF QueueInv, TypeOK
  <1>3. /\ job \in Job
        /\ job.targets = asked.targets
        /\ job.requested = (asked.requested \/ pending[e].requested)
    BY <1>2, MergeType
  <1>4. HasTargets(job)
    BY <1>1, <1>3 DEF HasTargets
  <1>5. /\ owed' = [owed EXCEPT ![e] = @ \/ asked.requested]
        /\ newest' = [newest EXCEPT ![e] = job.targets]
        /\ asking' = [asking EXCEPT ![u] = NoRequest]
        /\ UNCHANGED <<head, ran>>
    BY <1>0 DEF Submit
  <1>6. /\ owed'[e] = (owed[e] \/ asked.requested)
        /\ newest'[e] = job.targets
        /\ \A f \in Envs : f # e => owed'[f] = owed[f] /\ newest'[f] = newest[f]
    BY <1>2, <1>5 DEF QueueInv, TypeOK
  <1>7. /\ owed' \in [Envs -> BOOLEAN]
        /\ newest' \in [Envs -> Targets]
        /\ asking' \in [Submitters -> Request \union {NoRequest}]
        /\ \A v \in Submitters : asking'[v] # NoRequest => HasTargets(asking'[v].job)
    <2>1. owed' \in [Envs -> BOOLEAN]
      BY <1>2, <1>5, Zenon DEF QueueInv, TypeOK
    <2>2. newest' \in [Envs -> Targets]
      BY <1>2, <1>3, <1>5 DEF QueueInv, TypeOK, Job
    <2>3. asking' \in [Submitters -> Request \union {NoRequest}]
      BY <1>5 DEF QueueInv, TypeOK
    <2>4. \A v \in Submitters : v # u => asking'[v] = asking[v]
      BY <1>5 DEF QueueInv, TypeOK
    <2>5. asking'[u] = NoRequest
      BY <1>5 DEF QueueInv, TypeOK
    <2> QED BY <2>1, <2>2, <2>3, <2>4, <2>5 DEF QueueInv, JobsHaveTargets
  <1>8. CASE running[e]
    <2>1. pending' = [pending EXCEPT ![e] = job] /\ UNCHANGED <<running, loops>>
      BY <1>0, <1>8 DEF Submit
    <2>2. pending'[e] = job /\ \A f \in Envs : f # e => pending'[f] = pending[f]
      BY <1>2, <2>1 DEF QueueInv, TypeOK
    <2>3. TypeOK'
      BY <1>2, <1>3, <1>5, <1>7, <2>1 DEF QueueInv, TypeOK
    <2>4. \A l \in Loops : IsLive(l)' = IsLive(l)
      BY <2>1 DEF IsLive
    <2>5. \A f \in Envs : LoopsOf(f)' = LoopsOf(f)
      BY <2>1 DEF LoopsOf, IsLive
    <2>6. OneDispatch'
      BY <2>1, <2>4 DEF QueueInv, OneDispatch
    <2>7. NothingStranded'
      BY <1>8, <2>1, <2>2, <2>5 DEF QueueInv, NothingStranded
    <2>8. JobsHaveTargets'
      BY <1>4, <1>7, <2>1, <2>2, <2>4 DEF QueueInv, JobsHaveTargets
    <2>9. AskKept'
      <3> SUFFICES ASSUME NEW f \in Envs, owed'[f]
                   PROVE  \/ pending'[f].requested
                          \/ \E l \in LoopsOf(f)' : loops'[l].at = "ready" /\ loops'[l].job.requested
        BY DEF AskKept
      <3>1. CASE f # e
        BY <3>1, <1>6, <2>1, <2>2, <2>5 DEF QueueInv, AskKept
      <3>2. CASE f = e /\ asked.requested
        BY <3>2, <1>3, <2>2
      <3>3. CASE f = e /\ ~asked.requested
        <4>1. owed[e]
          BY <3>3, <1>6
        <4>2. \/ pending[e].requested
              \/ \E l \in LoopsOf(e) : loops[l].at = "ready" /\ loops[l].job.requested
          BY <4>1, <1>2 DEF QueueInv, AskKept
        <4>3. pending[e].requested => pending'[f].requested
          BY <3>3, <1>3, <2>2
        <4> QED BY <4>2, <4>3, <3>3, <1>2, <2>1, <2>5
      <3> QED BY <3>1, <3>2, <3>3
    <2>10. NewestPlace'
      <3> SUFFICES ASSUME NEW f \in Envs
                   PROVE  /\ HasTargets(pending'[f]) => newest'[f] = pending'[f].targets
                          /\ ~HasTargets(pending'[f]) =>
                               \A l \in LoopsOf(f) : loops[l].job.targets = newest'[f]
                          /\ \A l \in LoopsOf(f) : loops[l].at = "run" => ran[f] = loops[l].job.targets
                          /\ ~running[f] => ran[f] = newest'[f]
        BY <1>5, <2>1, <2>5 DEF NewestPlace, HasTargets
      <3>1. CASE f # e
        BY <3>1, <1>6, <2>2 DEF QueueInv, NewestPlace
      <3>2. CASE f = e
        BY <3>2, <1>2, <1>4, <1>6, <1>8, <2>2 DEF QueueInv, NewestPlace
      <3> QED BY <3>1, <3>2
    <2> QED BY <2>3, <2>6, <2>7, <2>8, <2>9, <2>10 DEF QueueInv
  <1>9. CASE ~running[e]
    <2>1. PICK m \in Loops :
            /\ ~IsLive(m)
            /\ loops' = [loops EXCEPT ![m] = [at |-> "ready", env |-> e, job |-> job]]
      BY <1>0, <1>9 DEF Submit
    <2>2. running' = [running EXCEPT ![e] = TRUE] /\ UNCHANGED pending
      BY <1>0, <1>9 DEF Submit
    <2>3. [at |-> "ready", env |-> e, job |-> job] \in LiveLoop
      BY <1>2, <1>3 DEF LiveLoop
    <2>4. /\ loops'[m] = [at |-> "ready", env |-> e, job |-> job]
          /\ \A l \in Loops : l # m => loops'[l] = loops[l]
      BY <2>1 DEF QueueInv, TypeOK
    <2>5. TypeOK'
      BY <1>2, <1>5, <1>7, <2>1, <2>2, <2>3 DEF QueueInv, TypeOK
    <2>6. IsLive(m)' /\ \A l \in Loops : l # m => (IsLive(l)' = IsLive(l))
      BY <2>3, <2>4, IdleIsNotLive DEF IsLive
    <2>7. LoopsOf(e) = {}
      BY <1>2, <1>9 DEF QueueInv, NothingStranded
    <2>8. LoopsOf(e)' = {m}
      BY <2>4, <2>6, <2>7 DEF LoopsOf
    <2>9. \A f \in Envs : f # e => LoopsOf(f)' = LoopsOf(f)
      BY <2>1, <2>4, <2>6 DEF LoopsOf
    <2>10. OneDispatch'
      <3> SUFFICES ASSUME NEW l \in Loops, NEW k \in Loops,
                          IsLive(l)', IsLive(k)', loops'[l].env = loops'[k].env
                   PROVE  l = k
        BY DEF OneDispatch
      <3>1. CASE loops'[l].env = e
        <4>1. l \in LoopsOf(e)' /\ k \in LoopsOf(e)'
          BY <3>1 DEF LoopsOf
        <4> QED BY <4>1, <2>8
      <3>2. CASE loops'[l].env # e
        <4>1. l # m /\ k # m
          BY <3>2, <2>4
        <4> QED BY <4>1, <2>4, <2>6 DEF QueueInv, OneDispatch
      <3> QED BY <3>1, <3>2
    <2>11. NothingStranded'
      <3>1. running'[e] /\ \A f \in Envs : f # e => running'[f] = running[f]
        BY <1>2, <2>2 DEF QueueInv, TypeOK
      <3> QED BY <3>1, <2>2, <2>8, <2>9 DEF QueueInv, NothingStranded, HasTargets
    <2>12. JobsHaveTargets'
      BY <1>4, <1>7, <2>2, <2>4, <2>6 DEF QueueInv, JobsHaveTargets, HasTargets
    <2>13. ~pending[e].requested /\ ~HasTargets(pending[e])
      BY <1>2, <1>9, NoJobType DEF QueueInv, NothingStranded, JobsHaveTargets
    <2>14. AskKept'
      <3> SUFFICES ASSUME NEW f \in Envs, owed'[f]
                   PROVE  \/ pending[f].requested
                          \/ \E l \in LoopsOf(f)' : loops'[l].at = "ready" /\ loops'[l].job.requested
        BY <2>2 DEF AskKept
      <3>1. CASE f # e
        <4>1. \/ pending[f].requested
              \/ \E l \in LoopsOf(f) : loops[l].at = "ready" /\ loops[l].job.requested
          BY <3>1, <1>6 DEF QueueInv, AskKept
        <4>2. \A l \in LoopsOf(f) : l # m
          BY <2>1 DEF LoopsOf
        <4> QED BY <3>1, <4>1, <4>2, <2>4, <2>9 DEF LoopsOf
      <3>2. CASE f = e
        <4>1. ~owed[e]
          BY <1>2, <2>7, <2>13 DEF QueueInv, AskKept
        <4>2. job.requested
          BY <3>2, <4>1, <1>3, <1>6
        <4> QED BY <3>2, <4>2, <2>4, <2>8
      <3> QED BY <3>1, <3>2
    <2>15. NewestPlace'
      <3> SUFFICES ASSUME NEW f \in Envs
                   PROVE  /\ HasTargets(pending[f]) => newest'[f] = pending[f].targets
                          /\ ~HasTargets(pending[f]) =>
                               \A l \in LoopsOf(f)' : loops'[l].job.targets = newest'[f]
                          /\ \A l \in LoopsOf(f)' : loops'[l].at = "run" => ran[f] = loops'[l].job.targets
                          /\ ~running'[f] => ran[f] = newest'[f]
        BY <1>5, <2>2 DEF NewestPlace, HasTargets
      <3>1. CASE f # e
        <4>1. \A l \in LoopsOf(f) : l # m /\ l \in Loops
          BY <2>1 DEF LoopsOf
        <4>2. running'[f] = running[f]
          BY <3>1, <2>2 DEF QueueInv, TypeOK
        <4> QED BY <3>1, <4>1, <4>2, <1>6, <2>4, <2>9 DEF QueueInv, NewestPlace
      <3>2. CASE f = e
        <4>1. running'[e]
          BY <1>2, <2>2 DEF QueueInv, TypeOK
        <4> QED BY <3>2, <4>1, <1>6, <2>4, <2>8, <2>13
      <3> QED BY <3>1, <3>2
    <2> QED BY <2>5, <2>10, <2>11, <2>12, <2>14, <2>15 DEF QueueInv
  <1> QED BY <1>8, <1>9

\* Run: the goroutine begins the job in its hand.
LEMMA RunInv ==
  ASSUME QueueInv, NEW m \in Loops, Run(m)
  PROVE  QueueInv'
  <1>0. PICK e \in Envs, j \in Job : loops[m] = [at |-> "ready", env |-> e, job |-> j]
    BY IdleIsNotLive DEF QueueInv, TypeOK, Run, LiveLoop
  <1>1. /\ loops' = [loops EXCEPT ![m].at = "run"]
        /\ ran' = [ran EXCEPT ![e] = j.targets]
        /\ owed' = [owed EXCEPT ![e] = @ /\ ~j.requested]
        /\ UNCHANGED <<head, asking, pending, running, newest>>
    BY <1>0 DEF Run
  <1>2. /\ loops'[m] = [at |-> "run", env |-> e, job |-> j]
        /\ \A l \in Loops : l # m => loops'[l] = loops[l]
    BY <1>0, <1>1 DEF QueueInv, TypeOK
  <1>3. loops[m] \in LiveLoop /\ loops'[m] \in LiveLoop
    BY <1>0, <1>2 DEF LiveLoop
  <1>4. IsLive(m) /\ IsLive(m)' /\ \A l \in Loops : IsLive(l)' = IsLive(l)
    BY <1>2, <1>3, IdleIsNotLive DEF IsLive
  <1>5. \A l \in Loops : loops'[l].env = loops[l].env /\ loops'[l].job = loops[l].job
    BY <1>0, <1>2
  <1>6. \A f \in Envs : LoopsOf(f)' = LoopsOf(f)
    BY <1>4, <1>5 DEF LoopsOf
  <1>7. LoopsOf(e) = {m}
    BY <1>0, <1>4 DEF QueueInv, OneDispatch, LoopsOf
  <1>8. \A f \in Envs : f # e => m \notin LoopsOf(f)
    BY <1>0 DEF LoopsOf
  <1>9. TypeOK'
    <2>1. loops' \in [Loops -> LiveLoop \union {Idle}]
      BY <1>1, <1>2, <1>3 DEF QueueInv, TypeOK
    <2>2. ran' \in [Envs -> Targets]
      BY <1>1 DEF QueueInv, TypeOK, Job
    <2>3. owed' \in [Envs -> BOOLEAN]
      BY <1>1, Zenon DEF QueueInv, TypeOK
    <2> QED BY <1>1, <2>1, <2>2, <2>3 DEF QueueInv, TypeOK
  <1>10. OneDispatch'
    BY <1>4, <1>5 DEF QueueInv, OneDispatch
  <1>11. NothingStranded'
    BY <1>1, <1>6 DEF QueueInv, NothingStranded, HasTargets
  <1>12. JobsHaveTargets'
    BY <1>1, <1>4, <1>5 DEF QueueInv, JobsHaveTargets, HasTargets
  <1>13. AskKept'
    <2> SUFFICES ASSUME NEW f \in Envs, owed'[f]
                 PROVE  \/ pending[f].requested
                        \/ \E l \in LoopsOf(f) : loops'[l].at = "ready" /\ loops'[l].job.requested
      BY <1>1, <1>6 DEF AskKept
    <2>1. CASE f # e
      <3>1. owed[f]
        BY <2>1, <1>1 DEF QueueInv, TypeOK
      <3>2. \A l \in LoopsOf(f) : l \in Loops /\ loops'[l] = loops[l]
        BY <2>1, <1>2, <1>8 DEF LoopsOf
      <3> QED BY <3>1, <3>2 DEF QueueInv, AskKept
    <2>2. CASE f = e
      <3>1. owed[e] /\ ~j.requested
        BY <2>2, <1>1 DEF QueueInv, TypeOK
      <3>2. \A l \in LoopsOf(e) : ~loops[l].job.requested
        BY <3>1, <1>0, <1>7
      <3> QED BY <2>2, <3>1, <3>2 DEF QueueInv, AskKept
    <2> QED BY <2>1, <2>2
  <1>14. NewestPlace'
    <2> SUFFICES ASSUME NEW f \in Envs
                 PROVE  /\ HasTargets(pending[f]) => newest[f] = pending[f].targets
                        /\ ~HasTargets(pending[f]) =>
                             \A l \in LoopsOf(f) : loops'[l].job.targets = newest[f]
                        /\ \A l \in LoopsOf(f) : loops'[l].at = "run" => ran'[f] = loops'[l].job.targets
                        /\ ~running[f] => ran'[f] = newest[f]
      BY <1>1, <1>6 DEF NewestPlace, HasTargets
    <2>1. \A l \in LoopsOf(f) : l \in Loops
      BY DEF LoopsOf
    <2>2. CASE f # e
      <3>1. ran'[f] = ran[f]
        BY <2>2, <1>1 DEF QueueInv, TypeOK
      <3> QED BY <2>1, <2>2, <3>1, <1>2, <1>8 DEF QueueInv, NewestPlace
    <2>3. CASE f = e
      <3>1. ran'[e] = j.targets
        BY <1>1 DEF QueueInv, TypeOK
      <3>2. running[e]
        BY <1>7 DEF QueueInv, NothingStranded
      <3> QED BY <2>1, <2>3, <3>1, <3>2, <1>0, <1>2, <1>7 DEF QueueInv, NewestPlace
    <2> QED BY <2>2, <2>3
  <1> QED BY <1>9, <1>10, <1>11, <1>12, <1>13, <1>14 DEF QueueInv

\* Take: the goroutine that ends a job is the environment's only one, so what
\* it takes is all that waits, and when nothing waits the queue is empty.
LEMMA TakeInv ==
  ASSUME QueueInv, NEW m \in Loops, Take(m)
  PROVE  QueueInv'
  <1>0. PICK e \in Envs, j \in Job : loops[m] = [at |-> "run", env |-> e, job |-> j]
    BY IdleIsNotLive DEF QueueInv, TypeOK, Take, LiveLoop
  <1>1. UNCHANGED <<head, asking, owed, newest, ran>>
    BY DEF Take, historyVars
  <1>2. loops[m] \in LiveLoop /\ IsLive(m)
    BY <1>0, IdleIsNotLive DEF LiveLoop, IsLive
  <1>3. LoopsOf(e) = {m}
    BY <1>0, <1>2 DEF QueueInv, OneDispatch, LoopsOf
  <1>4. running[e] /\ ran[e] = j.targets
    BY <1>0, <1>3 DEF QueueInv, NothingStranded, NewestPlace
  <1>5. \A f \in Envs : f # e => m \notin LoopsOf(f)
    BY <1>0 DEF LoopsOf
  <1>6. owed[e] => pending[e].requested
    BY <1>0, <1>3 DEF QueueInv, AskKept
  <1>7. pending[e] \in Job
    BY DEF QueueInv, TypeOK
  <1>8. CASE HasTargets(pending[e])
    <2>1. /\ loops' = [loops EXCEPT ![m] = [at |-> "ready", env |-> e, job |-> pending[e]]]
          /\ pending' = [pending EXCEPT ![e] = NoJob]
          /\ UNCHANGED running
      BY <1>0, <1>8 DEF Take
    <2>2. /\ loops'[m] = [at |-> "ready", env |-> e, job |-> pending[e]]
          /\ \A l \in Loops : l # m => loops'[l] = loops[l]
      BY <2>1 DEF QueueInv, TypeOK
    <2>3. loops'[m] \in LiveLoop
      BY <1>7, <2>2 DEF LiveLoop
    <2>4. pending'[e] = NoJob /\ \A f \in Envs : f # e => pending'[f] = pending[f]
      BY <2>1 DEF QueueInv, TypeOK
    <2>5. \A l \in Loops : IsLive(l)' = IsLive(l)
      BY <1>2, <2>2, <2>3, IdleIsNotLive DEF IsLive
    <2>6. \A l \in Loops : loops'[l].env = loops[l].env
      BY <1>0, <2>2
    <2>7. \A f \in Envs : LoopsOf(f)' = LoopsOf(f)
      BY <2>5, <2>6 DEF LoopsOf
    <2>8. TypeOK'
      BY <1>1, <1>7, <2>1, <2>3, NoJobType DEF QueueInv, TypeOK, LiveLoop
    <2>9. OneDispatch' /\ NothingStranded'
      BY <2>1, <2>4, <2>5, <2>6, <2>7, NoJobType
      DEF QueueInv, OneDispatch, NothingStranded, HasTargets
    <2>10. JobsHaveTargets'
      BY <1>1, <1>8, <2>2, <2>4, <2>5 DEF QueueInv, JobsHaveTargets, HasTargets
    <2>11. AskKept'
      <3> SUFFICES ASSUME NEW f \in Envs, owed[f]
                   PROVE  \/ pending'[f].requested
                          \/ \E l \in LoopsOf(f) : loops'[l].at = "ready" /\ loops'[l].job.requested
        BY <1>1, <2>7 DEF AskKept
      <3>1. CASE f # e
        BY <3>1, <1>5, <2>2, <2>4 DEF QueueInv, AskKept, LoopsOf
      <3>2. CASE f = e
        BY <3>2, <1>3, <1>6, <2>2
      <3> QED BY <3>1, <3>2
    <2>12. NewestPlace'
      <3> SUFFICES ASSUME NEW f \in Envs
                   PROVE  /\ HasTargets(pending'[f]) => newest[f] = pending'[f].targets
                          /\ ~HasTargets(pending'[f]) =>
                               \A l \in LoopsOf(f) : loops'[l].job.targets = newest[f]
                          /\ \A l \in LoopsOf(f) : loops'[l].at = "run" => ran[f] = loops'[l].job.targets
                          /\ ~running[f] => ran[f] = newest[f]
        BY <1>1, <2>1, <2>7 DEF NewestPlace, HasTargets
      <3>1. CASE f # e
        BY <3>1, <1>5, <2>2, <2>4 DEF QueueInv, NewestPlace, LoopsOf
      <3>2. CASE f = e
        BY <3>2, <1>3, <1>4, <1>8, <2>2, <2>4, NoJobType DEF QueueInv, NewestPlace
      <3> QED BY <3>1, <3>2
    <2> QED BY <2>8, <2>9, <2>10, <2>11, <2>12 DEF QueueInv
  <1>9. CASE ~HasTargets(pending[e])
    <2>1. /\ running' = [running EXCEPT ![e] = FALSE]
          /\ loops' = [loops EXCEPT ![m] = Idle]
          /\ UNCHANGED pending
      BY <1>0, <1>9 DEF Take
    <2>2. loops'[m] = Idle /\ \A l \in Loops : l # m => loops'[l] = loops[l]
      BY <2>1 DEF QueueInv, TypeOK
    <2>3. ~IsLive(m)' /\ \A l \in Loops : l # m => (IsLive(l)' = IsLive(l))
      BY <2>2 DEF IsLive
    <2>4. LoopsOf(e)' = {}
      BY <1>3, <2>2, <2>3 DEF LoopsOf
    <2>5. \A f \in Envs : f # e => LoopsOf(f)' = LoopsOf(f)
      BY <1>0, <2>2, <2>3 DEF LoopsOf
    <2>6. ~running'[e] /\ \A f \in Envs : f # e => running'[f] = running[f]
      BY <2>1 DEF QueueInv, TypeOK
    <2>7. TypeOK'
      BY <1>1, <2>1 DEF QueueInv, TypeOK
    <2>8. OneDispatch'
      BY <2>2, <2>3 DEF QueueInv, OneDispatch
    <2>9. NothingStranded'
      BY <1>9, <2>1, <2>4, <2>5, <2>6 DEF QueueInv, NothingStranded, HasTargets
    <2>10. JobsHaveTargets'
      BY <1>1, <2>1, <2>2, <2>3 DEF QueueInv, JobsHaveTargets, HasTargets
    <2>11. ~owed[e]
      BY <1>6, <1>9, NoJobType DEF QueueInv, JobsHaveTargets
    <2>12. AskKept'
      <3> SUFFICES ASSUME NEW f \in Envs, owed[f]
                   PROVE  \/ pending[f].requested
                          \/ \E l \in LoopsOf(f)' : loops'[l].at = "ready" /\ loops'[l].job.requested
        BY <1>1, <2>1 DEF AskKept
      <3>1. f # e
        BY <2>11
      <3> QED BY <3>1, <1>5, <2>2, <2>5 DEF QueueInv, AskKept, LoopsOf
    <2>13. NewestPlace'
      <3> SUFFICES ASSUME NEW f \in Envs
                   PROVE  /\ HasTargets(pending[f]) => newest[f] = pending[f].targets
                          /\ ~HasTargets(pending[f]) =>
                               \A l \in LoopsOf(f)' : loops'[l].job.targets = newest[f]
                          /\ \A l \in LoopsOf(f)' : loops'[l].at = "run" => ran[f] = loops'[l].job.targets
                          /\ ~running'[f] => ran[f] = newest[f]
        BY <1>1, <2>1 DEF NewestPlace, HasTargets
      <3>1. CASE f # e
        BY <3>1, <1>5, <2>2, <2>5, <2>6 DEF QueueInv, NewestPlace, LoopsOf
      <3>2. CASE f = e
        BY <3>2, <1>0, <1>3, <1>4, <1>9, <2>4 DEF QueueInv, NewestPlace
      <3> QED BY <3>1, <3>2
    <2> QED BY <2>7, <2>8, <2>9, <2>10, <2>12, <2>13 DEF QueueInv
  <1> QED BY <1>8, <1>9

\* Every step of the queue, and of those who submit to it, keeps QueueInv.
LEMMA QueueInvNext == QueueInv /\ [Next]_vars => QueueInv'
  <1> SUFFICES ASSUME QueueInv, [Next]_vars PROVE QueueInv'
    OBVIOUS
  <1>1. CASE Next
    BY <1>1, AdvanceInv, ResolveInv, SubmitInv, RunInv, TakeInv DEF Next
  <1>2. CASE UNCHANGED vars
    <2>1. UNCHANGED <<head, asking, pending, running, loops, owed, newest, ran>>
      BY <1>2 DEF vars
    <2>2. \A l \in Loops : IsLive(l)' = IsLive(l)
      BY <2>1 DEF IsLive
    <2>3. \A f \in Envs : LoopsOf(f)' = LoopsOf(f)
      BY <2>1 DEF LoopsOf, IsLive
    <2> QED BY <2>1, <2>2, <2>3
      DEF QueueInv, TypeOK, OneDispatch, NothingStranded, JobsHaveTargets, AskKept,
          NewestPlace, HasTargets
  <1> QED BY <1>1, <1>2

\* The invariant holds in every state of every behaviour.
THEOREM QueueInvariant == Spec => []QueueInv
  BY QueueInvInit, QueueInvNext, PTL DEF Spec

\* The variables keep their types.
THEOREM QueueTypes == Spec => []TypeOK
  <1>1. QueueInv => TypeOK
    BY DEF QueueInv
  <1> QED BY <1>1, QueueInvariant, PTL

\* Two dispatches of one environment never run at once (Queue.Submit, loop).
THEOREM NeverTwoDispatches == Spec => []OneDispatch
  <1>1. QueueInv => OneDispatch
    BY DEF QueueInv
  <1> QED BY <1>1, QueueInvariant, PTL

\* No submission is left behind by a goroutine that was ending.
THEOREM NoSubmissionStranded == Spec => []NothingStranded
  <1>1. QueueInv => NothingStranded
    BY DEF QueueInv
  <1> QED BY <1>1, QueueInvariant, PTL

\* A person's ask survives every replacement in the mailbox.
THEOREM AskSurvives == Spec => []AskKept
  <1>1. QueueInv => AskKept
    BY DEF QueueInv
  <1> QED BY <1>1, QueueInvariant, PTL

\* When an environment's queue is empty, its last job was the last submitted.
THEOREM LastSubmittedIsLastRun == Spec => []LastSubmittedRuns
  <1>1. QueueInv => LastSubmittedRuns
    BY DEF QueueInv, NewestPlace, LastSubmittedRuns
  <1> QED BY <1>1, QueueInvariant, PTL

-----------------------------------------------------------------------------
(***************************************************************************)
(* The queue implements DeployWorker.                                      *)
(***************************************************************************)

\* An environment's goroutine and its job are determined.
HandIs ==
  \A e \in Envs :
    /\ LoopsOf(e) = {} => HandOf(e) = NoJob /\ ~BusyOf(e)
    /\ \A l \in LoopsOf(e) : HandOf(e) = loops[l].job /\ (BusyOf(e) <=> loops[l].at = "run")

LEMMA HandDetermined == OneDispatch => HandIs
  <1> SUFFICES ASSUME OneDispatch, NEW e \in Envs
               PROVE  /\ LoopsOf(e) = {} => HandOf(e) = NoJob /\ ~BusyOf(e)
                      /\ \A l \in LoopsOf(e) :
                           HandOf(e) = loops[l].job /\ (BusyOf(e) <=> loops[l].at = "run")
    BY DEF HandIs
  <1>1. ASSUME NEW l \in LoopsOf(e)
        PROVE  HandOf(e) = loops[l].job /\ (BusyOf(e) <=> loops[l].at = "run")
    <2>1. LoopsOf(e) = {l}
      BY DEF OneDispatch, LoopsOf
    <2>2. (CHOOSE k \in LoopsOf(e) : TRUE) = l
      BY <2>1
    <2> QED BY <2>1, <2>2 DEF HandOf, BusyOf
  <1> QED BY <1>1 DEF HandOf, BusyOf

LEMMA WorkerInitMapped == Init => Worker!WorkerInit
  <1> SUFFICES ASSUME Init PROVE Worker!WorkerInit
    OBVIOUS
  <1>1. \A e \in Envs : LoopsOf(e) = {}
    BY DEF Init, LoopsOf, IsLive
  <1> QED BY <1>1 DEF Init, Worker!WorkerInit, HandOf, BusyOf

\* Submit is the worker being asked.
LEMMA SubmitMapped ==
  ASSUME QueueInv, QueueInv', NEW u \in Submitters, Submit(u)
  PROVE  \E f \in Envs, j \in Job : Worker!Ask(f, j)
  <1>0. PICK e \in Envs, asked \in Job :
          asking[u].env = e /\ asking[u].job = asked /\ HasTargets(asked)
    BY DEF QueueInv, TypeOK, JobsHaveTargets, Submit, Request
  <1> DEFINE job == Merge(asked, pending[e])
  <1>1. HandIs /\ HandIs'
    BY HandDetermined, PTL DEF QueueInv
  <1>2. pending[e] \in Job
    BY DEF QueueInv, TypeOK
  <1>3. CASE running[e]
    <2>1. pending' = [pending EXCEPT ![e] = job] /\ UNCHANGED loops
      BY <1>0, <1>3 DEF Submit
    <2>2. PICK l \in LoopsOf(e) : TRUE
      BY <1>3 DEF QueueInv, NothingStranded
    <2>3. HandOf(e) # NoJob
      BY <1>1, <2>2, NoJobType DEF HandIs, QueueInv, JobsHaveTargets, LoopsOf
    <2>4. /\ [f \in Envs |-> HandOf(f)]' = [f \in Envs |-> HandOf(f)]
          /\ [f \in Envs |-> BusyOf(f)]' = [f \in Envs |-> BusyOf(f)]
      BY <2>1 DEF HandOf, BusyOf, LoopsOf, IsLive
    <2>5. Worker!Ask(e, asked)
      BY <2>1, <2>3, <2>4 DEF Worker!Ask, Merge
    <2> QED BY <2>5
  <1>4. CASE ~running[e]
    <2>1. PICK m \in Loops :
            /\ ~IsLive(m)
            /\ loops' = [loops EXCEPT ![m] = [at |-> "ready", env |-> e, job |-> job]]
      BY <1>0, <1>4 DEF Submit
    <2>2. UNCHANGED pending
      BY <1>0, <1>4 DEF Submit
    <2>3. pending[e] = NoJob /\ LoopsOf(e) = {}
      BY <1>4 DEF QueueInv, NothingStranded, JobsHaveTargets
    <2>4. job = asked
      BY <1>0, <2>3 DEF Merge, NoJob, Job
    <2>5. /\ loops'[m] = [at |-> "ready", env |-> e, job |-> asked]
          /\ \A l \in Loops : l # m => loops'[l] = loops[l]
      BY <2>1, <2>4 DEF QueueInv, TypeOK
    <2>6. [at |-> "ready", env |-> e, job |-> asked] \in LiveLoop
      BY <1>0 DEF LiveLoop
    <2>7. IsLive(m)' /\ \A l \in Loops : l # m => (IsLive(l)' = IsLive(l))
      BY <2>5, <2>6, IdleIsNotLive DEF IsLive
    <2>8. m \in LoopsOf(e)'
      BY <2>5, <2>7 DEF LoopsOf
    <2>9. HandOf(e)' = asked /\ ~BusyOf(e)'
      BY <1>1, <2>5, <2>8 DEF HandIs
    <2>10. HandOf(e) = NoJob /\ ~BusyOf(e)
      BY <1>1, <2>3 DEF HandIs
    <2>11. ASSUME NEW f \in Envs, f # e
           PROVE  HandOf(f)' = HandOf(f) /\ (BusyOf(f)' <=> BusyOf(f))
      <3>1. LoopsOf(f)' = LoopsOf(f)
        BY <2>1, <2>5, <2>7, <2>11 DEF LoopsOf
      <3>2. \A l \in LoopsOf(f) : loops'[l] = loops[l]
        BY <2>1, <2>5 DEF LoopsOf
      <3>3. CASE LoopsOf(f) = {}
        BY <1>1, <3>1, <3>3 DEF HandIs
      <3>4. CASE LoopsOf(f) # {}
        BY <1>1, <3>1, <3>2, <3>4 DEF HandIs
      <3> QED BY <3>3, <3>4
    <2>12. [f \in Envs |-> HandOf(f)]' = [[f \in Envs |-> HandOf(f)] EXCEPT ![e] = asked]
      BY <2>9, <2>11
    <2>13. [f \in Envs |-> BusyOf(f)]' = [f \in Envs |-> BusyOf(f)]
      <3>1. \A f \in Envs : BusyOf(f)' <=> BusyOf(f)
        BY <2>9, <2>10, <2>11
      <3>2. \A f \in Envs : BusyOf(f)' = BusyOf(f)
        BY <3>1 DEF BusyOf
      <3> QED BY <3>2
    <2>14. Worker!Ask(e, asked)
      BY <2>2, <2>10, <2>12, <2>13 DEF Worker!Ask
    <2> QED BY <2>14
  <1> QED BY <1>3, <1>4

\* A step of one environment's goroutine leaves the other hands alone.
LEMMA OtherHands ==
  ASSUME HandIs, HandIs', NEW m \in Loops, NEW e \in Envs,
         loops[m].env = e, IsLive(m)' => loops'[m].env = e,
         \A l \in Loops : l # m => loops'[l] = loops[l],
         NEW f \in Envs, f # e
  PROVE  HandOf(f)' = HandOf(f) /\ (BusyOf(f)' <=> BusyOf(f))
  <1>1. LoopsOf(f)' = LoopsOf(f)
    BY DEF LoopsOf, IsLive
  <1>2. \A l \in LoopsOf(f) : loops'[l] = loops[l]
    BY DEF LoopsOf
  <1>3. CASE LoopsOf(f) = {}
    BY <1>1, <1>3 DEF HandIs
  <1>4. CASE LoopsOf(f) # {}
    BY <1>1, <1>2, <1>4 DEF HandIs
  <1> QED BY <1>3, <1>4

\* Run is the worker beginning its job.
LEMMA RunMapped ==
  ASSUME QueueInv, QueueInv', NEW m \in Loops, Run(m)
  PROVE  \E e \in Envs : Worker!Begin(e)
  <1>0. PICK e \in Envs, j \in Job : loops[m] = [at |-> "ready", env |-> e, job |-> j]
    BY IdleIsNotLive DEF QueueInv, TypeOK, Run, LiveLoop
  <1>1. HandIs /\ HandIs'
    BY HandDetermined, PTL DEF QueueInv
  <1>2. /\ loops'[m] = [at |-> "run", env |-> e, job |-> j]
        /\ \A l \in Loops : l # m => loops'[l] = loops[l]
        /\ UNCHANGED pending
    BY <1>0 DEF Run, QueueInv, TypeOK
  <1>3. IsLive(m) /\ IsLive(m)'
    BY <1>0, <1>2, IdleIsNotLive DEF IsLive, LiveLoop
  <1>4. m \in LoopsOf(e) /\ m \in LoopsOf(e)'
    BY <1>0, <1>2, <1>3 DEF LoopsOf
  <1>5. HandOf(e) = j /\ HandOf(e)' = j /\ ~BusyOf(e) /\ BusyOf(e)'
    BY <1>0, <1>1, <1>2, <1>4 DEF HandIs
  <1>6. j # NoJob
    BY <1>0, <1>3, NoJobType DEF QueueInv, JobsHaveTargets
  <1>7. \A f \in Envs : f # e => HandOf(f)' = HandOf(f) /\ (BusyOf(f)' <=> BusyOf(f))
    BY <1>0, <1>1, <1>2, OtherHands
  <1>8. [f \in Envs |-> HandOf(f)]' = [f \in Envs |-> HandOf(f)]
    BY <1>5, <1>7
  <1>9. [f \in Envs |-> BusyOf(f)]' = [[f \in Envs |-> BusyOf(f)] EXCEPT ![e] = TRUE]
    <2>1. \A f \in Envs : f # e => BusyOf(f)' = BusyOf(f)
      BY <1>7 DEF BusyOf
    <2>2. BusyOf(e)' = TRUE
      BY <1>5 DEF BusyOf
    <2> QED BY <2>1, <2>2
  <1>10. ~[f \in Envs |-> BusyOf(f)][e] /\ [f \in Envs |-> HandOf(f)][e] # NoJob
    BY <1>5, <1>6
  <1>11. Worker!Begin(e)
    BY <1>2, <1>8, <1>9, <1>10 DEF Worker!Begin
  <1> QED BY <1>11

\* Take is the worker ending its job and emptying the mailbox.
LEMMA TakeMapped ==
  ASSUME QueueInv, QueueInv', NEW m \in Loops, Take(m)
  PROVE  \E e \in Envs : Worker!End(e)
  <1>0. PICK e \in Envs, j \in Job : loops[m] = [at |-> "run", env |-> e, job |-> j]
    BY IdleIsNotLive DEF QueueInv, TypeOK, Take, LiveLoop
  <1>1. HandIs /\ HandIs'
    BY HandDetermined, PTL DEF QueueInv
  <1>2. IsLive(m)
    BY <1>0, IdleIsNotLive DEF IsLive, LiveLoop
  <1>3. LoopsOf(e) = {m} /\ pending[e] \in Job
    BY <1>0, <1>2 DEF LoopsOf, QueueInv, OneDispatch, TypeOK
  <1>4. BusyOf(e)
    BY <1>0, <1>1, <1>3 DEF HandIs
  <1>5. /\ pending' = [pending EXCEPT ![e] = NoJob]
        /\ \A l \in Loops : l # m => loops'[l] = loops[l]
        /\ IsLive(m)' => loops'[m].env = e
        /\ HandOf(e)' = pending[e]
        /\ ~BusyOf(e)'
    <2>1. CASE HasTargets(pending[e])
      <3>1. /\ loops' = [loops EXCEPT ![m] = [at |-> "ready", env |-> e, job |-> pending[e]]]
            /\ pending' = [pending EXCEPT ![e] = NoJob]
        BY <1>0, <2>1 DEF Take
      <3>2. /\ loops'[m] = [at |-> "ready", env |-> e, job |-> pending[e]]
            /\ \A l \in Loops : l # m => loops'[l] = loops[l]
        BY <3>1 DEF QueueInv, TypeOK
      <3>3. m \in LoopsOf(e)'
        BY <1>3, <3>2, IdleIsNotLive DEF LoopsOf, IsLive, LiveLoop
      <3> QED BY <1>1, <3>1, <3>2, <3>3 DEF HandIs
    <2>2. CASE ~HasTargets(pending[e])
      <3>1. loops' = [loops EXCEPT ![m] = Idle] /\ UNCHANGED pending
        BY <1>0, <2>2 DEF Take
      <3>2. loops'[m] = Idle /\ \A l \in Loops : l # m => loops'[l] = loops[l]
        BY <3>1 DEF QueueInv, TypeOK
      <3>3. ~IsLive(m)'
        BY <3>2 DEF IsLive
      <3>4. LoopsOf(e)' = {}
        BY <1>3, <3>2, <3>3 DEF LoopsOf, IsLive
      <3>5. pending[e] = NoJob
        BY <2>2 DEF QueueInv, JobsHaveTargets
      <3>6. pending' = [pending EXCEPT ![e] = NoJob]
        BY <3>1, <3>5 DEF QueueInv, TypeOK
      <3> QED BY <1>1, <3>2, <3>3, <3>4, <3>5, <3>6 DEF HandIs
    <2> QED BY <2>1, <2>2
  <1>6. \A f \in Envs : f # e => HandOf(f)' = HandOf(f) /\ (BusyOf(f)' <=> BusyOf(f))
    BY <1>0, <1>1, <1>5, OtherHands
  <1>7. [f \in Envs |-> HandOf(f)]' = [[f \in Envs |-> HandOf(f)] EXCEPT ![e] = pending[e]]
    BY <1>5, <1>6
  <1>8. [f \in Envs |-> BusyOf(f)]' = [[f \in Envs |-> BusyOf(f)] EXCEPT ![e] = FALSE]
    <2>1. \A f \in Envs : f # e => BusyOf(f)' = BusyOf(f)
      BY <1>6 DEF BusyOf
    <2>2. BusyOf(e)' = FALSE
      BY <1>5 DEF BusyOf
    <2> QED BY <2>1, <2>2
  <1>9. Worker!End(e)
    BY <1>4, <1>5, <1>7, <1>8 DEF Worker!End
  <1> QED BY <1>9

\* Steps that do not touch the queue are stutters of the worker.
LEMMA OutsideMapped ==
  ASSUME UNCHANGED <<pending, loops>>
  PROVE  UNCHANGED Worker!workerVars
  BY DEF Worker!workerVars, HandOf, BusyOf, LoopsOf, IsLive

LEMMA NextMapped ==
  QueueInv /\ QueueInv' /\ [Next]_vars => [Worker!WorkerNext]_(Worker!workerVars)
  <1> SUFFICES ASSUME QueueInv, QueueInv', [Next]_vars
               PROVE  Worker!WorkerNext \/ UNCHANGED Worker!workerVars
    OBVIOUS
  <1>1. CASE \E e \in Envs, s \in Services : Advance(e, s)
    BY <1>1, OutsideMapped DEF Advance, queueVars
  <1>2. CASE \E u \in Submitters, e \in Envs, wanted \in (SUBSET Services) \ {{}}, r \in BOOLEAN :
               Resolve(u, e, wanted, r)
    BY <1>2, OutsideMapped DEF Resolve, queueVars
  <1>3. CASE \E u \in Submitters : Submit(u)
    BY <1>3, SubmitMapped DEF Worker!WorkerNext
  <1>4. CASE \E l \in Loops : Run(l)
    BY <1>4, RunMapped DEF Worker!WorkerNext
  <1>5. CASE \E l \in Loops : Take(l)
    BY <1>5, TakeMapped DEF Worker!WorkerNext
  <1>6. CASE UNCHANGED vars
    BY <1>6, OutsideMapped DEF vars
  <1> QED BY <1>1, <1>2, <1>3, <1>4, <1>5, <1>6 DEF Next

\* The queue with its goroutines, lock and books implements one worker and a
\* mailbox of one place for each environment.
THEOREM QueueImplementsWorker == Spec => OneWorkerAndMailbox
  <1>1. Init => Worker!WorkerInit
    BY WorkerInitMapped
  <1>2. QueueInv /\ QueueInv' /\ [Next]_vars => [Worker!WorkerNext]_(Worker!workerVars)
    BY NextMapped
  <1> QED BY <1>1, <1>2, QueueInvariant, PTL DEF Spec, OneWorkerAndMailbox, Worker!WorkerSpec

=============================================================================
