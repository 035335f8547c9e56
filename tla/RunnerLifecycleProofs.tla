------------------------ MODULE RunnerLifecycleProofs ------------------------
(***************************************************************************)
(* One runner per group, no registration of a running one swept, and none  *)
(* deleted that may still run, for any number of services, goroutines,     *)
(* pushes and faults.  All of it rests on what a goroutine knows while it  *)
(* holds the import: it is the only one (Locked), it saw no runner and so  *)
(* there is none (Alone), and it has swept (Swept).  And that after         *)
(* StopAfter failed builds only pushes bring runners, which rests on a      *)
(* count of the pushes that are still to be used up (Counted).             *)
(***************************************************************************)
EXTENDS RunnerLifecycle, FiniteSets, FiniteSetTheorems, TLAPS

USE RunnersAssumption DEF RunnersAssumption

WorkTypes ==
  /\ workers \in [Workers -> Goroutine]
  /\ importing \subseteq Workers /\ \A u, v \in importing : u = v
  /\ replacing \subseteq Workers /\ \A u, v \in replacing : u = v

-----------------------------------------------------------------------------
(* What the steps of a goroutine do to the goroutines and the locks.       *)

LEMMA IdleTypes == Idle \in Goroutine
PROOF
  BY DEF Idle, Goroutine, Phases, Kinds, Looks

LEMMA EndTypes ==
  ASSUME WorkTypes, NEW u \in Workers, End(u)
  PROVE  WorkTypes'
PROOF
  BY IdleTypes DEF WorkTypes, End

LEMMA GotoTypes ==
  ASSUME WorkTypes, NEW u \in Workers, NEW p \in Phases, Goto(u, p)
  PROVE  WorkTypes'
PROOF
  BY DEF WorkTypes, Goto, lockVars, Goroutine, Looks

LEMMA BeginTypes ==
  ASSUME WorkTypes, NEW u \in Workers, NEW p \in Phases, NEW k \in Kinds,
         NEW i \in Ids \union {NoId}, registered \in BOOLEAN,
         Begin(u, p, k, i), UNCHANGED lockVars
  PROVE  WorkTypes'
PROOF
  BY DEF WorkTypes, Begin, lockVars, Goroutine, Looks

LEMMA ImportTypes ==
  ASSUME WorkTypes, NEW u \in Workers, Import(u)
  PROVE  WorkTypes'
PROOF
<1>1. CASE held \/ importing # {}
  BY <1>1, EndTypes DEF Import
<1>2. CASE ~(held \/ importing # {})
  BY <1>2 DEF Import, WorkTypes, Goroutine, Phases
<1>. QED
  BY <1>1, <1>2

LEMMA RepairTypes ==
  ASSUME WorkTypes, NEW u \in Workers, Repair(u)
  PROVE  WorkTypes'
PROOF
<1>1. CASE replacing # {}
  BY <1>1, EndTypes DEF Repair
<1>2. CASE replacing = {}
  BY <1>2 DEF Repair, WorkTypes, Goroutine, Phases
<1>. QED
  BY <1>1, <1>2

-----------------------------------------------------------------------------
(* Type correctness.                                                       *)

WorldTypes ==
  /\ status \in [Ids -> Statuses]
  /\ deleting \subseteq Ids
  /\ build \in [Ids -> Builds]
  /\ old \subseteq Ids
  /\ failures \in Nat
  /\ cooled \in BOOLEAN
  /\ regs \subseteq Ids
  /\ waiting \in BOOLEAN
  /\ asked \in 0..MaxPushes
  /\ registered \in BOOLEAN

MemoryTypes ==
  /\ stopped \in BOOLEAN /\ lifted \in BOOLEAN /\ held \in BOOLEAN
  /\ watched \in Ids \union {NoId} /\ alarm \in BOOLEAN
  /\ faults \in 0..MaxFaults

\* A goroutine that deletes, or replaces a tainted runner, knows which.
HasId ==
  \A u \in Workers :
    (\/ workers[u].kind = "taint"
     \/ workers[u].at \in {"delete", "await"}
     \/ workers[u].saw # "none") => workers[u].id \in Ids

LEMMA TypesSplit == TypeOK <=> WorkTypes /\ WorldTypes /\ MemoryTypes
PROOF
  BY DEF TypeOK, WorkTypes, WorldTypes, MemoryTypes

LEMMA TypesJoin ==
  ASSUME WorkTypes', WorldTypes', MemoryTypes'
  PROVE  TypeOK'
PROOF
  BY DEF TypeOK, WorkTypes, WorldTypes, MemoryTypes

LEMMA WorldKept ==
  ASSUME WorldTypes, UNCHANGED worldVars
  PROVE  WorldTypes'
PROOF
  BY DEF WorldTypes, worldVars, platformVars, giteaVars

LEMMA FaultTypes ==
  ASSUME MemoryTypes, Fault
  PROVE  faults' \in 0..MaxFaults
PROOF
  BY DEF MemoryTypes, Fault

LEMMA MadeTypes ==
  ASSUME WorldTypes, NEW i \in Ids, Made(i), registered' = registered
  PROVE  WorldTypes' /\ lifted' = FALSE
PROOF
<1>1. asked' \in 0..MaxPushes
  BY DEF WorldTypes, Made
<1>2. status' \in [Ids -> Statuses] /\ build' \in [Ids -> Builds]
  BY DEF WorldTypes, Made, Statuses, Builds
<1>. QED
  BY <1>1, <1>2 DEF WorldTypes, Made

LEMMA Start == Init => TypeOK /\ HasId
PROOF
<1>. SUFFICES ASSUME Init PROVE TypeOK /\ HasId
  OBVIOUS
<1>1. WorkTypes
  BY IdleTypes DEF Init, WorkTypes
<1>2. WorldTypes
  <2>1. status \in [Ids -> Statuses] /\ build \in [Ids -> Builds]
    BY DEF Init, Statuses, Builds
  <2>2. asked \in 0..MaxPushes /\ failures \in Nat
    BY DEF Init
  <2>3. deleting \subseteq Ids /\ old \subseteq Ids /\ regs \subseteq Ids
    BY DEF Init
  <2>4. cooled \in BOOLEAN /\ waiting \in BOOLEAN /\ registered \in BOOLEAN
    BY DEF Init
  <2>. QED
    BY <2>1, <2>2, <2>3, <2>4 DEF WorldTypes
<1>3. MemoryTypes
  <2>1. faults \in 0..MaxFaults /\ watched \in Ids \union {NoId}
    BY DEF Init
  <2>2. stopped \in BOOLEAN /\ lifted \in BOOLEAN /\ held \in BOOLEAN /\ alarm \in BOOLEAN
    BY DEF Init
  <2>. QED
    BY <2>1, <2>2 DEF MemoryTypes
<1>4. HasId
  BY DEF Init, HasId, Idle
<1>. QED
  BY <1>1, <1>2, <1>3, <1>4, TypesSplit

-----------------------------------------------------------------------------
(* Every step keeps the types.                                             *)

LEMMA ActorTypes ==
  ASSUME TypeOK, HasId, NEW u \in Workers,
         \/ BuildWatched(u)
         \/ \E kind \in {"job", "push"} : JobQueues(u, kind)
         \/ \E i \in Ids : Tainted(u, i)
  PROVE  TypeOK' /\ HasId'
PROOF
<1>. USE DEF memoryVars, watchVars
<1>t. WorkTypes /\ WorldTypes /\ MemoryTypes
  BY TypesSplit
<1>r. registered \in BOOLEAN
  BY <1>t DEF WorldTypes
<1>1. CASE BuildWatched(u)
  <2>1. WorkTypes'
    BY <1>t, <1>r, <1>1, BeginTypes DEF BuildWatched, Phases, Kinds
  <2>2. WorldTypes' /\ MemoryTypes'
    BY <1>t, <1>1, WorldKept DEF BuildWatched, MemoryTypes
  <2>3. HasId'
    BY <1>1 DEF BuildWatched, Begin, HasId, TypeOK
  <2>. QED
    BY <2>1, <2>2, <2>3, TypesJoin
<1>2. ASSUME NEW kind \in {"job", "push"}, JobQueues(u, kind) PROVE TypeOK' /\ HasId'
  <2>1. WorkTypes'
    BY <1>t, <1>r, <1>2, BeginTypes DEF JobQueues, Phases, Kinds
  <2>2. asked' \in 0..MaxPushes
    BY <1>t, <1>2 DEF JobQueues, WorldTypes
  <2>3. WorldTypes' /\ MemoryTypes'
    BY <1>t, <1>2, <2>2 DEF JobQueues, WorldTypes, MemoryTypes, platformVars
  <2>4. HasId'
    BY <1>2 DEF JobQueues, Begin, HasId, TypeOK
  <2>. QED
    BY <2>1, <2>3, <2>4, TypesJoin
<1>3. ASSUME NEW i \in Ids, Tainted(u, i) PROVE TypeOK' /\ HasId'
  <2>1. WorkTypes'
    BY <1>t, <1>r, <1>3, BeginTypes DEF Tainted, Phases, Kinds
  <2>2. WorldTypes' /\ MemoryTypes'
    BY <1>t, <1>3, WorldKept, FaultTypes DEF Tainted, MemoryTypes
  <2>3. HasId'
    BY <1>3 DEF Tainted, Begin, HasId, TypeOK
  <2>. QED
    BY <2>1, <2>2, <2>3, TypesJoin
<1>. QED
  BY <1>1, <1>2, <1>3

\* What End, Goto and the like leave of a goroutine's service.
LEMMA EndHasId ==
  ASSUME WorkTypes, HasId, NEW u \in Workers, End(u)
  PROVE  HasId'
PROOF
  BY DEF WorkTypes, HasId, End, Idle

LEMMA GotoHasId ==
  ASSUME WorkTypes, HasId, NEW u \in Workers, NEW p \in Phases, Goto(u, p),
         p \in {"delete", "await"} => workers[u].id \in Ids
  PROVE  HasId'
PROOF
  BY DEF WorkTypes, HasId, Goto, Goroutine

LEMMA ImportHasId ==
  ASSUME WorkTypes, HasId, NEW u \in Workers, Import(u)
  PROVE  HasId'
PROOF
  BY EndHasId DEF Import, WorkTypes, HasId, Goroutine

LEMMA RepairHasId ==
  ASSUME WorkTypes, HasId, NEW u \in Workers, Repair(u), workers[u].id \in Ids
  PROVE  HasId'
PROOF
  BY EndHasId DEF Repair, WorkTypes, HasId, Goroutine

\* The list of services changes nobody but its reader, who looks at it next.
LEMMA ListLooks ==
  ASSUME WorkTypes, NEW u \in Workers, ListServices(u)
  PROVE  /\ workers'[u].at = "look" /\ workers'[u].kind = workers[u].kind
         /\ \A v \in Workers \ {u} : workers'[v] = workers[v]
PROOF
<1>1. ASSUME NEW i \in Listed,
             workers' = [workers EXCEPT ![u].at = "look", ![u].id = i, ![u].saw = Look(i)]
      PROVE  /\ workers'[u] = [workers[u] EXCEPT !.at = "look", !.id = i, !.saw = Look(i)]
             /\ \A v \in Workers \ {u} : workers'[v] = workers[v]
  BY <1>1 DEF WorkTypes
<1>2. ASSUME workers' = [workers EXCEPT ![u].at = "look"]
      PROVE  /\ workers'[u] = [workers[u] EXCEPT !.at = "look"]
             /\ \A v \in Workers \ {u} : workers'[v] = workers[v]
  BY <1>2 DEF WorkTypes
<1>3. workers[u] \in Goroutine
  BY DEF WorkTypes
<1>. QED
  BY <1>1, <1>2, <1>3 DEF ListServices, Goroutine

\* The steps in which a goroutine decides from what it has read.
LEMMA DecisionTypes ==
  ASSUME TypeOK, HasId, NEW u \in Workers,
         \/ Replace(u) \/ ReadRegistry(u) \/ ListServices(u)
         \/ LookDeparted(u) \/ LookMends(u) \/ LookMissing(u) \/ ReadQueued(u)
         \/ BuildsLeave(u) \/ BuildsAllow(u)
  PROVE  TypeOK' /\ HasId'
PROOF
<1>. USE DEF memoryVars, watchVars
<1>t. WorkTypes /\ WorldTypes /\ MemoryTypes
  BY TypesSplit
<1>w. workers[u] \in Goroutine
  BY <1>t DEF WorkTypes
<1>1. CASE Replace(u)
  <2>1. WorkTypes'
    BY <1>t, <1>1, EndTypes DEF Replace, WorkTypes, Goroutine, Phases
  <2>2. WorldTypes' /\ MemoryTypes'
    BY <1>t, <1>1, WorldKept DEF Replace, MemoryTypes
  <2>3. HasId'
    BY <1>t, <1>1, EndHasId DEF Replace, WorkTypes, HasId, Goroutine
  <2>. QED
    BY <2>1, <2>2, <2>3, TypesJoin
<1>2. CASE ReadRegistry(u)
  <2>1. WorkTypes'
    BY <1>t, <1>2, EndTypes
       DEF ReadRegistry, WorkTypes, WorldTypes, Goroutine, Phases, lockVars
  <2>2. WorldTypes' /\ MemoryTypes'
    BY <1>t, <1>2, WorldKept DEF ReadRegistry, MemoryTypes
  <2>3. HasId'
    BY <1>t, <1>2, EndHasId DEF ReadRegistry, WorkTypes, HasId, Goroutine
  <2>. QED
    BY <2>1, <2>2, <2>3, TypesJoin
<1>3. CASE ListServices(u)
  <2>1. \A i \in Ids : Look(i) \in Looks
    BY <1>t DEF WorldTypes, Look, Looks, Statuses
  <2>2. WorkTypes' /\ HasId'
    <3>1. ASSUME NEW i \in Listed,
                 workers' = [workers EXCEPT ![u].at = "look", ![u].id = i,
                                            ![u].saw = Look(i)]
          PROVE  WorkTypes' /\ HasId'
      <4>1. i \in Ids /\ Look(i) \in Looks
        BY <2>1 DEF Listed
      <4>2. workers'[u] = [workers[u] EXCEPT !.at = "look", !.id = i, !.saw = Look(i)]
        BY <1>t, <3>1 DEF WorkTypes
      <4>3. workers'[u] \in Goroutine /\ workers'[u].id \in Ids
        BY <1>w, <4>1, <4>2 DEF Goroutine, Phases
      <4>4. workers' = [workers EXCEPT ![u] = workers'[u]]
        BY <1>t, <3>1, <4>2 DEF WorkTypes
      <4>. QED
        BY <1>t, <1>3, <4>3, <4>4 DEF ListServices, WorkTypes, HasId, lockVars
    <3>2. ASSUME workers' = [workers EXCEPT ![u].at = "look"] PROVE WorkTypes' /\ HasId'
      <4>1. WorkTypes'
        BY <1>t, <1>3, <3>2 DEF ListServices, WorkTypes, Goroutine, Phases, lockVars
      <4>2. HasId'
        <5>1. \A v \in Workers :
                /\ workers'[v].kind = workers[v].kind /\ workers'[v].id = workers[v].id
                /\ workers'[v].saw = workers[v].saw
                /\ workers'[v].at \in {workers[v].at, "look"}
          BY <1>t, <3>2 DEF WorkTypes, Goroutine
        <5>. QED
          BY <5>1 DEF HasId
      <4>. QED
        BY <4>1, <4>2
    <3>. QED
      BY <1>3, <3>1, <3>2 DEF ListServices
  <2>3. WorldTypes' /\ MemoryTypes'
    BY <1>t, <1>3, WorldKept DEF ListServices, MemoryTypes
  <2>. QED
    BY <2>2, <2>3, TypesJoin
<1>4. CASE LookDeparted(u)
  <2>1. WorkTypes' /\ HasId'
    <3>1. CASE workers[u].saw = "none"
      BY <1>t, <1>4, <3>1, EndTypes, EndHasId DEF LookDeparted
    <3>2. CASE workers[u].saw # "none"
      BY <1>t, <1>4, <3>2, GotoTypes, GotoHasId DEF LookDeparted, Phases, HasId
    <3>. QED
      BY <3>1, <3>2
  <2>2. WorldTypes' /\ MemoryTypes'
    BY <1>t, <1>4, WorldKept DEF LookDeparted, MemoryTypes
  <2>. QED
    BY <2>1, <2>2, TypesJoin
<1>5. CASE LookMends(u)
  <2>1. WorkTypes' /\ HasId'
    BY <1>t, <1>5, EndTypes, EndHasId, GotoTypes, GotoHasId DEF LookMends, Phases
  <2>2. stopped' \in BOOLEAN
    BY <1>5 DEF LookMends
  <2>3. WorldTypes' /\ MemoryTypes'
    BY <1>t, <1>5, <2>2, WorldKept DEF LookMends, MemoryTypes
  <2>. QED
    BY <2>1, <2>3, TypesJoin
<1>6. CASE LookMissing(u)
  <2>1. WorkTypes' /\ HasId'
    BY <1>t, <1>6, EndTypes, EndHasId, GotoTypes, GotoHasId DEF LookMissing, Phases
  <2>2. WorldTypes' /\ MemoryTypes'
    BY <1>t, <1>6, WorldKept DEF LookMissing, MemoryTypes
  <2>. QED
    BY <2>1, <2>2, TypesJoin
<1>7. CASE ReadQueued(u)
  <2>1. WorkTypes' /\ HasId'
    BY <1>t, <1>7, EndTypes, EndHasId, GotoTypes, GotoHasId DEF ReadQueued, Phases
  <2>2. WorldTypes' /\ MemoryTypes'
    BY <1>t, <1>7, WorldKept DEF ReadQueued, MemoryTypes
  <2>. QED
    BY <2>1, <2>2, TypesJoin
<1>r. ASSUME Remember(u) PROVE stopped' \in BOOLEAN /\ lifted' \in BOOLEAN
  BY <1>t, <1>r DEF Remember, Lifts, MemoryTypes
<1>8. CASE BuildsLeave(u)
  <2>1. WorkTypes' /\ HasId'
    BY <1>t, <1>8, EndTypes, EndHasId DEF BuildsLeave
  <2>2. stopped' \in BOOLEAN /\ lifted' \in BOOLEAN
    BY <1>t, <1>r, <1>8 DEF BuildsLeave, MemoryTypes
  <2>3. WorldTypes' /\ MemoryTypes'
    BY <1>t, <1>8, <2>2, WorldKept DEF BuildsLeave, MemoryTypes
  <2>. QED
    BY <2>1, <2>3, TypesJoin
<1>9. CASE BuildsAllow(u)
  <2>1. WorkTypes' /\ HasId'
    <3>1. CASE workers[u].id = NoId
      BY <1>t, <1>9, <3>1, ImportTypes, ImportHasId DEF BuildsAllow
    <3>2. CASE workers[u].id # NoId
      <4>1. workers[u].id \in Ids
        BY <1>w, <3>2 DEF Goroutine
      <4>. QED
        BY <1>t, <1>9, <3>2, <4>1, RepairTypes, RepairHasId DEF BuildsAllow
    <3>. QED
      BY <3>1, <3>2
  <2>2. stopped' \in BOOLEAN /\ lifted' \in BOOLEAN
    BY <1>r, <1>9 DEF BuildsAllow
  <2>3. WorldTypes' /\ MemoryTypes'
    BY <1>t, <1>9, <2>2, WorldKept DEF BuildsAllow, MemoryTypes
  <2>. QED
    BY <2>1, <2>3, TypesJoin
<1>. QED
  BY <1>1, <1>2, <1>3, <1>4, <1>5, <1>6, <1>7, <1>8, <1>9

\* The steps in which a goroutine changes the platform or Gitea, and its failures.
LEMMA DeedTypes ==
  ASSUME TypeOK, HasId, NEW u \in Workers,
         \/ Delete(u) \/ Await(u) \/ Relist(u) \/ Sweep(u) \/ ImportServices(u)
         \/ SweepFails(u) \/ ImportFails(u) \/ CallFails(u)
  PROVE  TypeOK' /\ HasId'
PROOF
<1>. USE DEF memoryVars, watchVars
<1>t. WorkTypes /\ WorldTypes /\ MemoryTypes
  BY TypesSplit
<1>1. CASE Delete(u)
  <2>1. workers[u].id \in Ids
    BY <1>1 DEF Delete, At, HasId
  <2>2. WorkTypes' /\ HasId'
    BY <1>t, <1>1, <2>1, EndTypes, EndHasId, GotoTypes, GotoHasId DEF Delete, Phases
  <2>3. WorldTypes' /\ MemoryTypes'
    BY <1>t, <1>1, <2>1 DEF Delete, WorldTypes, MemoryTypes, giteaVars
  <2>. QED
    BY <2>2, <2>3, TypesJoin
<1>2. CASE Await(u)
  <2>1. WorkTypes' /\ HasId'
    BY <1>t, <1>2, EndTypes, EndHasId, ImportTypes, ImportHasId DEF Await
  <2>2. WorldTypes' /\ MemoryTypes'
    BY <1>t, <1>2, WorldKept DEF Await, MemoryTypes
  <2>. QED
    BY <2>1, <2>2, TypesJoin
<1>3. CASE Relist(u)
  <2>1. WorkTypes' /\ HasId'
    BY <1>t, <1>3, EndTypes, EndHasId, GotoTypes, GotoHasId DEF Relist, Phases
  <2>2. WorldTypes' /\ MemoryTypes'
    BY <1>t, <1>3, WorldKept DEF Relist, MemoryTypes
  <2>. QED
    BY <2>1, <2>2, TypesJoin
<1>4. CASE Sweep(u)
  <2>1. WorkTypes' /\ HasId'
    BY <1>t, <1>4, GotoTypes, GotoHasId DEF Sweep, Phases
  <2>2. WorldTypes' /\ MemoryTypes'
    BY <1>t, <1>4 DEF Sweep, WorldTypes, MemoryTypes, platformVars
  <2>. QED
    BY <2>1, <2>2, TypesJoin
<1>5. CASE ImportServices(u)
  <2>1. WorkTypes' /\ HasId'
    BY <1>t, <1>5, EndTypes, EndHasId DEF ImportServices
  <2>2. PICK i \in Ids : Made(i) /\ watched' = i
    BY <1>5 DEF ImportServices
  <2>3. WorldTypes' /\ lifted' = FALSE
    BY <1>t, <1>5, <2>2, MadeTypes DEF ImportServices
  <2>4. MemoryTypes'
    <3>1. lifted' \in BOOLEAN
      BY <2>3
    <3>. QED
      BY <1>t, <1>5, <2>2, <3>1 DEF ImportServices, MemoryTypes
  <2>. QED
    BY <2>1, <2>3, <2>4, TypesJoin
<1>6. CASE SweepFails(u)
  <2>1. WorkTypes' /\ HasId'
    BY <1>t, <1>6, EndTypes, EndHasId DEF SweepFails
  <2>2. WorldTypes'
    BY <1>t, <1>6 DEF SweepFails, WorldTypes, platformVars
  <2>3. held' \in BOOLEAN
    BY <1>t, <1>6 DEF SweepFails, MemoryTypes
  <2>4. MemoryTypes'
    BY <1>t, <1>6, <2>3, FaultTypes DEF SweepFails, MemoryTypes
  <2>. QED
    BY <2>1, <2>2, <2>4, TypesJoin
<1>7. CASE ImportFails(u)
  <2>1. WorkTypes' /\ HasId'
    BY <1>t, <1>7, EndTypes, EndHasId DEF ImportFails
  <2>2. WorldTypes' /\ lifted' \in BOOLEAN
    <3>1. ASSUME NEW i \in Ids, Made(i) PROVE WorldTypes' /\ lifted' \in BOOLEAN
      <4>1. WorldTypes' /\ lifted' = FALSE
        BY <1>t, <1>7, <3>1, MadeTypes DEF ImportFails
      <4>. QED
        BY <4>1
    <3>2. ASSUME UNCHANGED <<platformVars, giteaVars, lifted>>
          PROVE  WorldTypes' /\ lifted' \in BOOLEAN
      BY <1>t, <1>7, <3>2
         DEF ImportFails, WorldTypes, MemoryTypes, platformVars, giteaVars
    <3>. QED
      BY <1>7, <3>1, <3>2 DEF ImportFails
  <2>3. MemoryTypes'
    BY <1>t, <1>7, <2>2, FaultTypes DEF ImportFails, MemoryTypes
  <2>. QED
    BY <2>1, <2>2, <2>3, TypesJoin
<1>8. CASE CallFails(u)
  <2>1. WorkTypes' /\ HasId'
    BY <1>t, <1>8, EndTypes, EndHasId DEF CallFails
  <2>2. WorldTypes' /\ MemoryTypes'
    BY <1>t, <1>8, WorldKept, FaultTypes DEF CallFails, MemoryTypes
  <2>. QED
    BY <2>1, <2>2, TypesJoin
<1>. QED
  BY <1>1, <1>2, <1>3, <1>4, <1>5, <1>6, <1>7, <1>8

\* What the platform, Gitea, time and a restart do.
LEMMA EnvironmentTypes ==
  ASSUME TypeOK, HasId,
         \/ PassBegins
         \/ \E i \in Ids : PlatformNext(i) \/ Outlasts(i) \/ BuildFails(i) \/ DeletionFails(i)
         \/ JobUnheard \/ WaitEnds \/ Leaves \/ Restart
  PROVE  TypeOK' /\ HasId'
PROOF
<1>. USE DEF memoryVars, watchVars
<1>t. WorkTypes /\ WorldTypes /\ MemoryTypes
  BY TypesSplit
<1>k. ASSUME UNCHANGED <<workers, lockVars>> PROVE WorkTypes' /\ HasId'
  BY <1>t, <1>k DEF WorkTypes, HasId, lockVars
<1>a. ASSUME NEW i \in Ids, Alarm(i)
      PROVE  watched' \in Ids \union {NoId} /\ alarm' \in BOOLEAN
  BY <1>t, <1>a DEF Alarm, MemoryTypes
<1>1. CASE PassBegins
  <2>1. WorkTypes'
    BY <1>t, <1>1, BeginTypes DEF PassBegins, Phases, Kinds, WorldTypes
  <2>2. WorldTypes' /\ MemoryTypes'
    BY <1>t, <1>1, WorldKept DEF PassBegins, MemoryTypes
  <2>3. HasId'
    BY <1>t, <1>1 DEF PassBegins, Begin, HasId, WorkTypes
  <2>. QED
    BY <2>1, <2>2, <2>3, TypesJoin
<1>2. ASSUME NEW i \in Ids, DeletionEnds(i) PROVE TypeOK' /\ HasId'
  <2>1. WorkTypes' /\ HasId'
    BY <1>k, <1>2 DEF DeletionEnds
  <2>2. WorldTypes'
    <3>1. failures' \in Nat
      BY <1>t, <1>2 DEF DeletionEnds, WorldTypes
    <3>2. status' \in [Ids -> Statuses] /\ build' \in [Ids -> Builds]
      BY <1>t, <1>2 DEF DeletionEnds, WorldTypes, Statuses, Builds
    <3>. QED
      BY <1>t, <1>2, <3>1, <3>2 DEF DeletionEnds, WorldTypes, giteaVars
  <2>3. watched' \in Ids \union {NoId} /\ alarm' \in BOOLEAN
    BY <1>t, <1>a, <1>2 DEF DeletionEnds, MemoryTypes
  <2>4. MemoryTypes'
    BY <1>t, <1>2, <2>3 DEF DeletionEnds, MemoryTypes
  <2>. QED
    BY <2>1, <2>2, <2>4, TypesJoin
<1>3. ASSUME NEW i \in Ids, BuildFinishes(i) PROVE TypeOK' /\ HasId'
  <2>1. WorkTypes' /\ HasId'
    BY <1>k, <1>3 DEF BuildFinishes
  <2>2. WorldTypes'
    BY <1>t, <1>3 DEF BuildFinishes, WorldTypes, Builds, giteaVars
  <2>3. faults' \in 0..MaxFaults /\ watched' \in Ids \union {NoId}
    BY <1>t, <1>3, FaultTypes DEF BuildFinishes, MemoryTypes
  <2>4. MemoryTypes'
    BY <1>t, <1>3, <2>3 DEF BuildFinishes, MemoryTypes
  <2>. QED
    BY <2>1, <2>2, <2>4, TypesJoin
<1>4. ASSUME NEW i \in Ids, Deployed(i) PROVE TypeOK' /\ HasId'
  <2>1. WorkTypes' /\ HasId'
    BY <1>k, <1>4 DEF Deployed
  <2>2. WorldTypes' /\ MemoryTypes'
    BY <1>t, <1>4 DEF Deployed, WorldTypes, MemoryTypes, Statuses
  <2>. QED
    BY <2>1, <2>2, TypesJoin
<1>5. ASSUME NEW i \in Ids, JobTaken(i) PROVE TypeOK' /\ HasId'
  <2>1. WorkTypes' /\ HasId'
    BY <1>k, <1>5 DEF JobTaken
  <2>2. waiting' \in BOOLEAN
    BY <1>5 DEF JobTaken
  <2>3. WorldTypes' /\ MemoryTypes'
    BY <1>t, <1>5, <2>2 DEF JobTaken, WorldTypes, MemoryTypes, platformVars
  <2>. QED
    BY <2>1, <2>3, TypesJoin
<1>6. ASSUME NEW i \in Ids, Ages(i) \/ Outlasts(i) PROVE TypeOK' /\ HasId'
  <2>1. WorkTypes' /\ HasId'
    BY <1>k, <1>6 DEF Ages, Outlasts, GetsOld
  <2>2. faults' \in 0..MaxFaults
    BY <1>t, <1>6, FaultTypes DEF Ages, Outlasts, MemoryTypes
  <2>3. WorldTypes' /\ MemoryTypes'
    BY <1>t, <1>6, <2>2 DEF Ages, Outlasts, GetsOld, WorldTypes, MemoryTypes, giteaVars
  <2>. QED
    BY <2>1, <2>3, TypesJoin
<1>7. ASSUME NEW i \in Ids, BuildFails(i) PROVE TypeOK' /\ HasId'
  <2>1. WorkTypes' /\ HasId'
    BY <1>k, <1>7 DEF BuildFails
  <2>2. WorldTypes'
    BY <1>t, <1>7 DEF BuildFails, WorldTypes, Builds, giteaVars
  <2>3. watched' \in Ids \union {NoId} /\ alarm' \in BOOLEAN
    BY <1>a, <1>7 DEF BuildFails
  <2>4. MemoryTypes'
    BY <1>t, <1>7, <2>3, FaultTypes DEF BuildFails, MemoryTypes
  <2>. QED
    BY <2>1, <2>2, <2>4, TypesJoin
<1>8. ASSUME NEW i \in Ids, DeletionFails(i) PROVE TypeOK' /\ HasId'
  <2>1. WorkTypes' /\ HasId'
    BY <1>k, <1>8 DEF DeletionFails
  <2>2. WorldTypes' /\ MemoryTypes'
    BY <1>t, <1>8, FaultTypes DEF DeletionFails, WorldTypes, MemoryTypes, giteaVars
  <2>. QED
    BY <2>1, <2>2, TypesJoin
<1>9. CASE JobUnheard
  <2>1. WorkTypes' /\ HasId'
    BY <1>k, <1>9 DEF JobUnheard
  <2>2. waiting' \in BOOLEAN
    BY <1>9 DEF JobUnheard
  <2>3. WorldTypes' /\ MemoryTypes'
    BY <1>t, <1>9, <2>2, FaultTypes DEF JobUnheard, WorldTypes, MemoryTypes, platformVars
  <2>. QED
    BY <2>1, <2>3, TypesJoin
<1>10. CASE WaitEnds
  <2>1. WorkTypes' /\ HasId'
    BY <1>k, <1>10 DEF WaitEnds
  <2>2. cooled' \in BOOLEAN /\ held' \in BOOLEAN
    BY <1>t, <1>10 DEF WaitEnds, WorldTypes, MemoryTypes
  <2>3. WorldTypes' /\ MemoryTypes'
    BY <1>t, <1>10, <2>2 DEF WaitEnds, WorldTypes, MemoryTypes, giteaVars
  <2>. QED
    BY <2>1, <2>3, TypesJoin
<1>11. CASE Leaves
  <2>1. WorkTypes' /\ HasId'
    BY <1>k, <1>11 DEF Leaves
  <2>2. registered' \in BOOLEAN
    BY <1>11 DEF Leaves
  <2>3. WorldTypes' /\ MemoryTypes'
    BY <1>t, <1>11, <2>2 DEF Leaves, WorldTypes, MemoryTypes, platformVars, giteaVars
  <2>. QED
    BY <2>1, <2>3, TypesJoin
<1>12. CASE Restart
  <2>1. WorkTypes' /\ HasId'
    BY <1>t, <1>12, IdleTypes DEF Restart, WorkTypes, HasId, Idle
  <2>2. stopped' \in BOOLEAN /\ lifted' \in BOOLEAN /\ held' \in BOOLEAN /\ alarm' \in BOOLEAN
    BY <1>12 DEF Restart
  <2>3. WorldTypes' /\ MemoryTypes'
    BY <1>t, <1>12, <2>2, WorldKept, FaultTypes DEF Restart, MemoryTypes
  <2>. QED
    BY <2>1, <2>3, TypesJoin
<1>. QED
  BY <1>1, <1>2, <1>3, <1>4, <1>5, <1>6, <1>7, <1>8, <1>9, <1>10, <1>11, <1>12
     DEF PlatformNext

LEMMA NextTypes == TypeOK /\ HasId /\ [Next]_vars => TypeOK' /\ HasId'
PROOF
<1>. SUFFICES ASSUME TypeOK, HasId, [Next]_vars PROVE TypeOK' /\ HasId'
  OBVIOUS
<1>1. CASE UNCHANGED vars
  BY <1>1 DEF vars, worldVars, platformVars, giteaVars, lockVars, memoryVars, watchVars,
              TypeOK, HasId
<1>2. CASE Next
  BY <1>2, ActorTypes, DecisionTypes, DeedTypes, EnvironmentTypes DEF Next, WorkerNext
<1>. QED
  BY <1>1, <1>2

\* Every reachable state is typed, and one goroutine at most is in an import,
\* one at most in a replacement.
THEOREM RunnerTypes == Spec => []TypeOK
PROOF
<1>1. Spec => [](TypeOK /\ HasId)
  BY Start, NextTypes, PTL DEF Spec
<1>. QED
  BY <1>1, PTL

-----------------------------------------------------------------------------
(* The import.                                                             *)

InImport == {"relist", "sweep", "import"}

\* Who is in an import holds it, alone by TypeOK.
Locked == \A u \in Workers : workers[u].at \in InImport => u \in importing
\* Nobody else imports, so there is no runner until its own is made.
Alone == \A u \in Workers : workers[u].at \in {"sweep", "import"} => Listed = {}
\* And no registration, for only a runner has one made.
Swept == \A u \in Workers : workers[u].at = "import" => regs = {}

ImportInv == Locked /\ Alone /\ Swept /\ OneRunner

\* No goroutine comes into the import or to its next step, or loses the lock in it.
NoneEnters ==
  \A v \in Workers : workers'[v].at \in InImport =>
    workers'[v].at = workers[v].at /\ (v \in importing => v \in importing')

LEMMA EndEnters ==
  ASSUME WorkTypes, NEW u \in Workers, End(u)
  PROVE  NoneEnters
PROOF
  BY DEF WorkTypes, End, Idle, InImport, NoneEnters

LEMMA GotoEnters ==
  ASSUME WorkTypes, NEW u \in Workers, NEW p, p \notin InImport, Goto(u, p)
  PROVE  NoneEnters
PROOF
  BY DEF WorkTypes, Goto, lockVars, Goroutine, InImport, NoneEnters

LEMMA BeginEnters ==
  ASSUME WorkTypes, NEW u \in Workers, NEW p, NEW k, NEW i, p \notin InImport,
         Begin(u, p, k, i), UNCHANGED lockVars
  PROVE  NoneEnters
PROOF
  BY DEF WorkTypes, Begin, lockVars, Goroutine, InImport, NoneEnters

\* While nobody comes into the import, no runner and no registration is new.
LEMMA QuietKeeps ==
  ASSUME ImportInv, NoneEnters, Listed' \subseteq Listed, regs' \subseteq regs
  PROVE  ImportInv'
PROOF
  BY DEF ImportInv, NoneEnters, Locked, Alone, Swept, OneRunner, InImport

LEMMA ImportKeeps ==
  ASSUME TypeOK, ImportInv, NEW u \in Workers, Import(u), UNCHANGED <<status, regs>>
  PROVE  ImportInv'
PROOF
<1>1. WorkTypes
  BY TypesSplit
<1>2. Listed' = Listed
  BY DEF Listed
<1>3. CASE held \/ importing # {}
  <2>1. NoneEnters
    BY <1>1, <1>3, EndEnters DEF Import
  <2>. QED
    BY <1>2, <2>1, QuietKeeps
<1>4. CASE ~(held \/ importing # {})
  <2>1. \A v \in Workers : workers[v].at \notin InImport
    BY <1>4 DEF ImportInv, Locked
  <2>2. \A v \in Workers \ {u} : workers'[v] = workers[v]
    BY <1>1, <1>4 DEF Import, WorkTypes
  <2>3. workers'[u].at = "relist" /\ u \in importing'
    BY <1>1, <1>4 DEF Import, WorkTypes, Goroutine
  <2>. QED
    BY <1>2, <2>1, <2>2, <2>3 DEF ImportInv, Locked, Alone, Swept, OneRunner, InImport
<1>. QED
  BY <1>3, <1>4

\* A new runner is the only one: its maker held the import and knew of none.
LEMMA MadeKeeps ==
  ASSUME TypeOK, ImportInv, NEW u \in Workers, At(u, "import"), End(u),
         NEW i \in Ids, Made(i)
  PROVE  ImportInv'
PROOF
<1>1. WorkTypes /\ WorldTypes
  BY TypesSplit
<1>2. Listed = {}
  BY DEF At, ImportInv, Alone
<1>3. Listed' = {i}
  BY <1>1, <1>2 DEF Listed, Made, WorldTypes
<1>4. \A v \in Workers \ {u} : workers[v].at \notin InImport /\ workers'[v] = workers[v]
  BY <1>1 DEF ImportInv, Locked, At, InImport, WorkTypes, End
<1>5. workers'[u].at = "idle"
  BY <1>1 DEF End, WorkTypes, Idle
<1>. QED
  BY <1>3, <1>4, <1>5 DEF ImportInv, Locked, Alone, Swept, OneRunner, InImport

LEMMA NextImport == TypeOK /\ HasId /\ ImportInv /\ [Next]_vars => ImportInv'
PROOF
<1>. SUFFICES ASSUME TypeOK, HasId, ImportInv, [Next]_vars PROVE ImportInv'
  OBVIOUS
<1>t. WorkTypes /\ WorldTypes
  BY TypesSplit
<1>w. ASSUME UNCHANGED worldVars PROVE Listed' \subseteq Listed /\ regs' \subseteq regs
  BY <1>w DEF worldVars, platformVars, giteaVars, Listed
<1>k. ASSUME UNCHANGED <<workers, lockVars>> PROVE NoneEnters
  BY <1>k DEF NoneEnters, lockVars
<1>1. CASE UNCHANGED vars
  BY <1>1, <1>w, <1>k, QuietKeeps DEF vars
<1>2. CASE PassBegins
  BY <1>t, <1>2, <1>w, BeginEnters, QuietKeeps DEF PassBegins, InImport
<1>3. ASSUME NEW u \in Workers, NEW kind \in {"job", "push"}, JobQueues(u, kind)
      PROVE  ImportInv'
  <2>1. NoneEnters
    BY <1>t, <1>3, BeginEnters DEF JobQueues, InImport
  <2>. QED
    BY <1>3, <2>1, QuietKeeps DEF JobQueues, platformVars, Listed
<1>4. ASSUME NEW u \in Workers, BuildWatched(u) PROVE ImportInv'
  BY <1>t, <1>4, <1>w, BeginEnters, QuietKeeps DEF BuildWatched, InImport
<1>5. ASSUME NEW u \in Workers, NEW i \in Ids, Tainted(u, i) PROVE ImportInv'
  BY <1>t, <1>5, <1>w, BeginEnters, QuietKeeps DEF Tainted, InImport
<1>6. ASSUME NEW u \in Workers, Replace(u) PROVE ImportInv'
  <2>1. NoneEnters
    BY <1>t, <1>6, EndEnters DEF Replace, WorkTypes, Goroutine, InImport, NoneEnters
  <2>. QED
    BY <1>6, <1>w, <2>1, QuietKeeps DEF Replace
<1>7. ASSUME NEW u \in Workers, ReadRegistry(u) PROVE ImportInv'
  <2>1. NoneEnters
    BY <1>t, <1>7, EndEnters
       DEF ReadRegistry, WorkTypes, Goroutine, InImport, NoneEnters, lockVars
  <2>. QED
    BY <1>7, <1>w, <2>1, QuietKeeps DEF ReadRegistry
<1>8. ASSUME NEW u \in Workers, ListServices(u) PROVE ImportInv'
  <2>1. /\ workers'[u].at = "look"
        /\ \A v \in Workers \ {u} : workers'[v] = workers[v]
    BY <1>t, <1>8, ListLooks
  <2>2. NoneEnters
    BY <1>8, <2>1 DEF ListServices, InImport, NoneEnters, lockVars
  <2>. QED
    BY <1>8, <1>w, <2>2, QuietKeeps DEF ListServices
<1>9. ASSUME NEW u \in Workers,
             LookDeparted(u) \/ LookMends(u) \/ LookMissing(u) \/ ReadQueued(u)
               \/ BuildsLeave(u) \/ CallFails(u)
      PROVE  ImportInv'
  <2>1. NoneEnters
    BY <1>t, <1>9, EndEnters, GotoEnters
       DEF LookDeparted, LookMends, LookMissing, ReadQueued, BuildsLeave, CallFails, InImport
  <2>2. UNCHANGED worldVars
    BY <1>9 DEF LookDeparted, LookMends, LookMissing, ReadQueued, BuildsLeave, CallFails
  <2>. QED
    BY <1>w, <2>1, <2>2, QuietKeeps
<1>10. ASSUME NEW u \in Workers, BuildsAllow(u) PROVE ImportInv'
  <2>1. UNCHANGED worldVars /\ UNCHANGED <<status, regs>>
    BY <1>10 DEF BuildsAllow, worldVars, platformVars, giteaVars
  <2>2. CASE Import(u)
    BY <2>1, <2>2, ImportKeeps
  <2>3. CASE Repair(u)
    <3>1. NoneEnters
      BY <1>t, <2>3, EndEnters DEF Repair, WorkTypes, Goroutine, InImport, NoneEnters
    <3>. QED
      BY <1>w, <2>1, <3>1, QuietKeeps
  <2>. QED
    BY <1>10, <2>2, <2>3 DEF BuildsAllow
<1>11. ASSUME NEW u \in Workers, Delete(u) PROVE ImportInv'
  <2>1. NoneEnters
    BY <1>t, <1>11, EndEnters, GotoEnters DEF Delete, InImport
  <2>. QED
    BY <1>11, <2>1, QuietKeeps DEF Delete, Listed, giteaVars
<1>12. ASSUME NEW u \in Workers, Await(u) PROVE ImportInv'
  <2>1. UNCHANGED worldVars /\ UNCHANGED <<status, regs>>
    BY <1>12 DEF Await, worldVars, platformVars, giteaVars
  <2>2. CASE End(u)
    BY <1>t, <1>w, <2>1, <2>2, EndEnters, QuietKeeps
  <2>. QED
    BY <1>12, <2>1, <2>2, ImportKeeps DEF Await
<1>13. ASSUME NEW u \in Workers, Relist(u) PROVE ImportInv'
  <2>1. CASE Listed # {}
    BY <1>t, <1>13, <1>w, <2>1, EndEnters, QuietKeeps DEF Relist
  <2>2. CASE Listed = {}
    <3>1. Listed' = {} /\ regs' = regs
      BY <1>13, <2>2 DEF Relist, worldVars, platformVars, giteaVars, Listed
    <3>2. workers'[u].at = "sweep" /\ u \in importing'
      BY <1>t, <1>13, <2>2
         DEF Relist, Goto, At, WorkTypes, Goroutine, lockVars, ImportInv, Locked, InImport
    <3>3. \A v \in Workers \ {u} : workers'[v] = workers[v] /\ importing' = importing
      BY <1>t, <1>13, <2>2 DEF Relist, Goto, WorkTypes, lockVars
    <3>. QED
      BY <3>1, <3>2, <3>3 DEF ImportInv, Locked, Alone, Swept, OneRunner, InImport
  <2>. QED
    BY <2>1, <2>2
<1>14. ASSUME NEW u \in Workers, Sweep(u) PROVE ImportInv'
  <2>1. Listed = {} /\ u \in importing
    BY <1>14 DEF Sweep, At, ImportInv, Locked, Alone, InImport
  <2>2. Listed' = {} /\ regs' = {} /\ importing' = importing
    BY <1>14, <2>1 DEF Sweep, Goto, platformVars, lockVars, Listed
  <2>3. \A v \in Workers \ {u} : workers'[v] = workers[v]
    BY <1>t, <1>14 DEF Sweep, Goto, WorkTypes
  <2>. QED
    BY <2>1, <2>2, <2>3 DEF ImportInv, Locked, Alone, Swept, OneRunner, InImport
<1>15. ASSUME NEW u \in Workers, ImportServices(u) PROVE ImportInv'
  BY <1>15, MadeKeeps DEF ImportServices
<1>16. ASSUME NEW u \in Workers, SweepFails(u) PROVE ImportInv'
  <2>1. NoneEnters
    BY <1>t, <1>16, EndEnters DEF SweepFails
  <2>. QED
    BY <1>16, <2>1, QuietKeeps DEF SweepFails, platformVars, Listed
<1>17. ASSUME NEW u \in Workers, ImportFails(u) PROVE ImportInv'
  <2>1. CASE \E i \in Ids : Made(i)
    BY <1>17, <2>1, MadeKeeps DEF ImportFails
  <2>2. CASE UNCHANGED <<platformVars, giteaVars, lifted>>
    <3>1. NoneEnters
      BY <1>t, <1>17, EndEnters DEF ImportFails
    <3>. QED
      BY <2>2, <3>1, QuietKeeps DEF platformVars, giteaVars, Listed
  <2>. QED
    BY <1>17, <2>1, <2>2 DEF ImportFails
<1>18. ASSUME NEW i \in Ids,
              DeletionEnds(i) \/ BuildFinishes(i) \/ JobTaken(i) \/ GetsOld(i)
                \/ BuildFails(i) \/ DeletionFails(i)
       PROVE  ImportInv'
  <2>1. NoneEnters
    BY <1>18, <1>k
       DEF DeletionEnds, BuildFinishes, JobTaken,
           Ages, Outlasts, GetsOld, BuildFails, DeletionFails
  <2>2. regs' \subseteq regs
    BY <1>18
       DEF DeletionEnds, BuildFinishes, JobTaken,
           Ages, Outlasts, GetsOld, BuildFails, DeletionFails, giteaVars
  <2>3. Listed' \subseteq Listed
    <3>1. CASE DeletionEnds(i)
      BY <1>t, <3>1 DEF DeletionEnds, Listed, WorldTypes
    <3>2. CASE UNCHANGED status
      BY <3>2 DEF Listed
    <3>. QED
      BY <1>18, <3>1, <3>2
         DEF BuildFinishes, JobTaken,
             Ages, Outlasts, GetsOld, BuildFails, DeletionFails, platformVars
  <2>. QED
    BY <2>1, <2>2, <2>3, QuietKeeps
<1>19. ASSUME NEW i \in Ids, Deployed(i) PROVE ImportInv'
  <2>1. i \in Listed
    BY <1>t, <1>19 DEF Deployed, Listed
  <2>2. Listed' = Listed
    BY <1>t, <1>19 DEF Deployed, Listed, WorldTypes
  <2>3. UNCHANGED <<workers, importing>>
    BY <1>19 DEF Deployed, lockVars
  <2>. QED
    BY <2>1, <2>2, <2>3 DEF ImportInv, Locked, Alone, Swept, OneRunner
<1>20. CASE JobUnheard \/ WaitEnds \/ Leaves
  <2>1. NoneEnters
    BY <1>20, <1>k DEF JobUnheard, WaitEnds, Leaves
  <2>. QED
    BY <1>20, <2>1, QuietKeeps DEF JobUnheard, WaitEnds, Leaves, platformVars, giteaVars, Listed
<1>21. CASE Restart
  <2>1. NoneEnters
    BY <1>21 DEF Restart, NoneEnters, Idle, InImport
  <2>. QED
    BY <1>21, <1>w, <2>1, QuietKeeps DEF Restart
<1>. QED
  BY <1>1, <1>2, <1>3, <1>4, <1>5, <1>6, <1>7, <1>8, <1>9, <1>10, <1>11, <1>12, <1>13,
     <1>14, <1>15, <1>16, <1>17, <1>18, <1>19, <1>20, <1>21
     DEF Next, WorkerNext, PlatformNext, Ages, Outlasts

LEMMA StartImport == Init => ImportInv
PROOF
<1>. SUFFICES ASSUME Init PROVE ImportInv
  OBVIOUS
<1>1. Listed = {}
  BY DEF Init, Listed
<1>2. \A u \in Workers : workers[u].at = "idle"
  BY DEF Init, Idle
<1>. QED
  BY <1>1, <1>2 DEF ImportInv, Locked, Alone, Swept, OneRunner, InImport

LEMMA Reachable == Spec => [](TypeOK /\ HasId /\ ImportInv)
PROOF
  BY Start, StartImport, NextTypes, NextImport, PTL DEF Spec

\* A group never has two runner services, however many goroutines import at
\* once and however old the lists they decided from.
THEOREM NeverTwoRunners == Spec => []OneRunner
PROOF
  BY Reachable, PTL DEF ImportInv

\* No sweep takes the registration of a runner that runs.
THEOREM RunningNeverSwept == Spec => SweepSparesRunning
PROOF
<1>1. ASSUME TypeOK, HasId, ImportInv, [Next]_vars
      PROVE  [\A i \in regs : status[i] = "ran" => i \in regs']_vars
  <2>. SUFFICES ASSUME Next, NEW i \in regs, status[i] = "ran", i \notin regs' PROVE FALSE
    BY <1>1
  <2>1. i \in Listed
    BY <1>1 DEF TypeOK, Listed
  <2>2. \A u \in Workers : ~At(u, "sweep")
    BY <1>1, <2>1 DEF ImportInv, Alone, At
  <2>3. regs \subseteq regs'
    BY <2>2
       DEF Next, WorkerNext, PlatformNext, PassBegins, JobQueues, JobUnheard, BuildWatched,
           Tainted, Replace, ReadRegistry, ListServices, LookDeparted, LookMends,
           LookMissing, ReadQueued, BuildsLeave, BuildsAllow, Delete, Await, Relist, Sweep,
           ImportServices, SweepFails, ImportFails, CallFails, Made, DeletionEnds,
           BuildFinishes, Deployed, JobTaken,
           Ages, Outlasts, GetsOld, BuildFails, DeletionFails, WaitEnds,
           Leaves, Restart, worldVars, platformVars, giteaVars
  <2>. QED
    BY <2>3
<1>. QED
  BY <1>1, Reachable, PTL DEF Spec, SweepSparesRunning

\* Who makes a runner has swept, and no registration came back.
THEOREM FreshHasNoElders == Spec => FreshAlone
PROOF
<1>1. ASSUME TypeOK, HasId, ImportInv, [Next]_vars
      PROVE  [(\E i \in Ids : status[i] = "none" /\ status'[i] # "none") => regs' = {}]_vars
  <2>. SUFFICES ASSUME Next, NEW i \in Ids, status[i] = "none", status'[i] # "none"
                PROVE  regs' = {}
    BY <1>1
  <2>1. CASE \E u \in Workers : ImportServices(u) \/ ImportFails(u)
    <3>1. PICK u \in Workers : ImportServices(u) \/ ImportFails(u)
      BY <2>1
    <3>2. regs = {}
      BY <1>1, <3>1 DEF ImportServices, ImportFails, At, ImportInv, Swept
    <3>. QED
      BY <3>1, <3>2 DEF ImportServices, ImportFails, Made, giteaVars
  <2>2. CASE \E j \in Ids : DeletionEnds(j) \/ Deployed(j)
    <3>1. PICK j \in Ids : DeletionEnds(j) \/ Deployed(j)
      BY <2>2
    <3>2. status'[i] = status[i] \/ j = i
      BY <1>1, <3>1 DEF TypeOK, DeletionEnds, Deployed
    <3>. QED
      BY <1>1, <3>1, <3>2 DEF TypeOK, DeletionEnds, Deployed
  <2>3. CASE UNCHANGED status
    BY <2>3
  <2>. QED
    BY <2>1, <2>2, <2>3
       DEF Next, WorkerNext, PlatformNext, PassBegins, JobQueues, JobUnheard, BuildWatched,
           Tainted, Replace, ReadRegistry, ListServices, LookDeparted, LookMends,
           LookMissing, ReadQueued, BuildsLeave, BuildsAllow, Delete, Await, Relist, Sweep,
           SweepFails, CallFails, BuildFinishes, JobTaken,
           Ages, Outlasts, GetsOld, BuildFails,
           DeletionFails, WaitEnds, Leaves, Restart, worldVars, platformVars
<1>. QED
  BY <1>1, Reachable, PTL DEF Spec, FreshAlone

-----------------------------------------------------------------------------
(* No runner is deleted while its build moves.                             *)

\* A service has a build; and who deletes one for being broken found that its
\* build failed, or that it is old and its build does not move, which stays so.
Condemnable(i) ==
  \/ build[i] \in {"none", "failed"}
  \/ build[i] \in {"finished", "stuck"} /\ i \in old
BrokenInv ==
  /\ \A i \in Ids : status[i] = "none" <=> build[i] = "none"
  /\ \A u \in Workers :
       workers[u].at = "delete" /\ workers[u].kind \notin {"taint", "left"}
         => Condemnable(workers[u].id)

\* Nobody comes to delete a broken runner, or changes which.
NoneCondemns ==
  \A v \in Workers :
    workers'[v].at = "delete" /\ workers'[v].kind \notin {"taint", "left"}
      => workers'[v] = workers[v]

LEMMA EndCondemns ==
  ASSUME WorkTypes, NEW u \in Workers, End(u)
  PROVE  NoneCondemns
PROOF
  BY DEF WorkTypes, End, Idle, NoneCondemns

LEMMA GotoCondemns ==
  ASSUME WorkTypes, NEW u \in Workers, NEW p, p # "delete" \/ workers[u].kind = "left",
         Goto(u, p)
  PROVE  NoneCondemns
PROOF
  BY DEF WorkTypes, Goto, Goroutine, NoneCondemns

LEMMA BeginCondemns ==
  ASSUME WorkTypes, NEW u \in Workers, NEW p, NEW k, NEW i, p # "delete", Begin(u, p, k, i)
  PROVE  NoneCondemns
PROOF
  BY DEF WorkTypes, Begin, Goroutine, NoneCondemns

LEMMA ImportCondemns ==
  ASSUME WorkTypes, NEW u \in Workers, Import(u)
  PROVE  NoneCondemns
PROOF
  BY EndCondemns DEF Import, WorkTypes, Goroutine, NoneCondemns

\* While the platform stands still, a new verdict must be a right one.
LEMMA StillKeeps ==
  ASSUME BrokenInv, NoneCondemns, UNCHANGED platformVars
  PROVE  BrokenInv'
PROOF
  BY DEF BrokenInv, Condemnable, NoneCondemns, platformVars

LEMMA MadeBroken ==
  ASSUME TypeOK, HasId, BrokenInv, NoneCondemns, NEW i \in Ids, Made(i)
  PROVE  BrokenInv'
PROOF
<1>1. \A j \in Ids \ {i} : status'[j] = status[j] /\ build'[j] = build[j]
  BY DEF Made, TypeOK
<1>2. status'[i] = "ready" /\ build'[i] = "moving" /\ old' = old
  BY DEF Made, TypeOK
<1>3. \A u \in Workers : workers[u].id # i
  BY DEF Made
<1>4. (\A j \in Ids : status[j] = "none" <=> build[j] = "none")'
  BY <1>1, <1>2 DEF BrokenInv
<1>5. ASSUME NEW u \in Workers, workers'[u].at = "delete",
             workers'[u].kind \notin {"taint", "left"}
      PROVE  Condemnable(workers[u].id)' /\ workers'[u] = workers[u]
  <2>1. workers'[u] = workers[u] /\ workers[u].id # i
    BY <1>3, <1>5 DEF NoneCondemns
  <2>2. workers[u].id \in Ids /\ Condemnable(workers[u].id)
    BY <1>5, <2>1 DEF BrokenInv, HasId
  <2>3. build'[workers[u].id] = build[workers[u].id]
    BY <1>1, <2>1, <2>2
  <2>. QED
    BY <1>2, <2>1, <2>2, <2>3 DEF Condemnable
<1>. QED
  BY <1>4, <1>5 DEF BrokenInv

LEMMA NextBroken ==
  ASSUME TypeOK, HasId, BrokenInv, [Next]_vars
  PROVE  BrokenInv'
PROOF
<1>t. WorkTypes /\ WorldTypes
  BY TypesSplit
<1>w. ASSUME UNCHANGED worldVars PROVE UNCHANGED platformVars
  BY <1>w DEF worldVars
<1>k. ASSUME UNCHANGED workers PROVE NoneCondemns
  BY <1>k DEF NoneCondemns
<1>1. CASE UNCHANGED vars
  BY <1>1, <1>w, <1>k, StillKeeps DEF vars
<1>2. CASE PassBegins
  BY <1>t, <1>2, <1>w, BeginCondemns, StillKeeps DEF PassBegins
<1>3. ASSUME NEW u \in Workers, NEW kind \in {"job", "push"}, JobQueues(u, kind)
      PROVE  BrokenInv'
  BY <1>t, <1>3, BeginCondemns, StillKeeps DEF JobQueues
<1>4. ASSUME NEW u \in Workers, BuildWatched(u) PROVE BrokenInv'
  BY <1>t, <1>4, <1>w, BeginCondemns, StillKeeps DEF BuildWatched
<1>5. ASSUME NEW u \in Workers, NEW i \in Ids, Tainted(u, i) PROVE BrokenInv'
  BY <1>t, <1>5, <1>w, BeginCondemns, StillKeeps DEF Tainted
<1>6. ASSUME NEW u \in Workers, Replace(u) PROVE BrokenInv'
  <2>1. NoneCondemns
    BY <1>t, <1>6, EndCondemns DEF Replace, WorkTypes, Goroutine, NoneCondemns
  <2>. QED
    BY <1>6, <1>w, <2>1, StillKeeps DEF Replace
<1>7. ASSUME NEW u \in Workers, ReadRegistry(u) PROVE BrokenInv'
  <2>1. NoneCondemns
    BY <1>t, <1>7, EndCondemns DEF ReadRegistry, WorkTypes, Goroutine, NoneCondemns
  <2>. QED
    BY <1>7, <1>w, <2>1, StillKeeps DEF ReadRegistry
<1>8. ASSUME NEW u \in Workers, ListServices(u) PROVE BrokenInv'
  <2>1. NoneCondemns
    BY <1>t, <1>8, ListLooks DEF NoneCondemns
  <2>. QED
    BY <1>8, <1>w, <2>1, StillKeeps DEF ListServices
<1>9. ASSUME NEW u \in Workers,
             LookDeparted(u) \/ LookMends(u) \/ LookMissing(u) \/ ReadQueued(u)
               \/ BuildsLeave(u) \/ CallFails(u) \/ Await(u) \/ Relist(u)
      PROVE  BrokenInv'
  <2>1. NoneCondemns
    BY <1>t, <1>9, EndCondemns, GotoCondemns, ImportCondemns
       DEF LookDeparted, LookMends, LookMissing, ReadQueued, BuildsLeave, CallFails, Await,
           Relist
  <2>2. UNCHANGED worldVars
    BY <1>9 DEF LookDeparted, LookMends, LookMissing, ReadQueued, BuildsLeave, CallFails,
                Await, Relist
  <2>. QED
    BY <1>w, <2>1, <2>2, StillKeeps
<1>10. ASSUME NEW u \in Workers, BuildsAllow(u) PROVE BrokenInv'
  <2>1. UNCHANGED platformVars
    BY <1>10 DEF BuildsAllow, worldVars
  <2>2. CASE workers[u].id = NoId
    BY <1>t, <1>10, <2>1, <2>2, ImportCondemns, StillKeeps DEF BuildsAllow
  <2>3. CASE workers[u].id # NoId
    <3>1. workers[u].id \in Ids /\ Broken(workers[u].id)
      BY <1>t, <1>10, <2>3 DEF BuildsAllow, NeedsBuild, WorkTypes, Goroutine
    <3>2. Condemnable(workers[u].id)
      BY <1>t, <3>1 DEF Broken, Condemnable, WorldTypes, Builds
    <3>3. CASE End(u)
      BY <1>t, <2>1, <3>3, EndCondemns, StillKeeps
    <3>4. CASE workers' = [workers EXCEPT ![u].at = "delete"]
      <4>1. workers'[u].id = workers[u].id
        BY <1>t, <3>4 DEF WorkTypes, Goroutine
      <4>2. \A v \in Workers \ {u} : workers'[v] = workers[v]
        BY <1>t, <3>4 DEF WorkTypes
      <4>. QED
        BY <2>1, <3>2, <4>1, <4>2 DEF BrokenInv, Condemnable, platformVars
    <3>. QED
      BY <1>10, <2>3, <3>3, <3>4 DEF BuildsAllow, Repair
  <2>. QED
    BY <2>2, <2>3
<1>11. ASSUME NEW u \in Workers, Delete(u) PROVE BrokenInv'
  <2>1. NoneCondemns
    BY <1>t, <1>11, EndCondemns, GotoCondemns DEF Delete
  <2>2. UNCHANGED <<status, build, old>>
    BY <1>11 DEF Delete
  <2>. QED
    BY <2>1, <2>2 DEF BrokenInv, Condemnable, NoneCondemns
<1>12. ASSUME NEW u \in Workers, Sweep(u) \/ SweepFails(u) PROVE BrokenInv'
  <2>1. NoneCondemns
    BY <1>t, <1>12, EndCondemns, GotoCondemns DEF Sweep, SweepFails
  <2>. QED
    BY <1>12, <2>1, StillKeeps DEF Sweep, SweepFails
<1>13. ASSUME NEW u \in Workers, ImportServices(u) \/ ImportFails(u) PROVE BrokenInv'
  <2>1. NoneCondemns
    BY <1>t, <1>13, EndCondemns DEF ImportServices, ImportFails
  <2>. QED
    BY <1>13, <2>1, MadeBroken, StillKeeps DEF ImportServices, ImportFails
<1>14. ASSUME NEW i \in Ids, DeletionEnds(i) PROVE BrokenInv'
  <2>1. \A j \in Ids \ {i} : status'[j] = status[j] /\ build'[j] = build[j]
    BY <1>t, <1>14 DEF DeletionEnds, WorldTypes
  <2>2. status'[i] = "none" /\ build'[i] = "none" /\ old' = old \ {i} /\ workers' = workers
    BY <1>t, <1>14 DEF DeletionEnds, WorldTypes
  <2>3. \A u \in Workers : workers[u].at = "delete" => workers[u].id \in Ids
    BY DEF HasId
  <2>4. ASSUME NEW j \in Ids, Condemnable(j) PROVE Condemnable(j)'
    BY <2>1, <2>2, <2>4 DEF Condemnable
  <2>. QED
    BY <1>t, <2>1, <2>2, <2>3, <2>4 DEF BrokenInv, WorldTypes
<1>15. ASSUME NEW i \in Ids, BuildFinishes(i) \/ BuildFails(i) PROVE BrokenInv'
  <2>1. build[i] = "moving" /\ status[i] # "none"
    BY <1>15 DEF BuildFinishes, BuildFails, BrokenInv
  <2>2. \A j \in Ids \ {i} : build'[j] = build[j]
    BY <1>t, <1>15 DEF BuildFinishes, BuildFails, WorldTypes
  <2>3. build'[i] \in {"finished", "stuck", "failed"}
    BY <1>t, <1>15 DEF BuildFinishes, BuildFails, WorldTypes
  <2>4. UNCHANGED <<status, old, workers>>
    BY <1>15 DEF BuildFinishes, BuildFails
  <2>5. \A u \in Workers : workers[u].at = "delete" => workers[u].id \in Ids
    BY DEF HasId
  <2>6. ASSUME NEW j \in Ids, Condemnable(j) PROVE Condemnable(j)'
    BY <2>1, <2>2, <2>4, <2>6 DEF Condemnable
  <2>. QED
    BY <1>t, <2>1, <2>2, <2>3, <2>4, <2>5, <2>6 DEF BrokenInv, WorldTypes
<1>16. ASSUME NEW i \in Ids, Deployed(i) PROVE BrokenInv'
  <2>1. \A j \in Ids : status'[j] = "none" <=> status[j] = "none"
    BY <1>t, <1>16 DEF Deployed, WorldTypes
  <2>. QED
    BY <1>16, <2>1 DEF BrokenInv, Condemnable, Deployed
<1>17. ASSUME NEW i \in Ids, GetsOld(i) PROVE BrokenInv'
  BY <1>17 DEF GetsOld, BrokenInv, Condemnable
<1>18. ASSUME NEW i \in Ids, JobTaken(i) \/ DeletionFails(i) PROVE BrokenInv'
  BY <1>18 DEF JobTaken, DeletionFails, BrokenInv, Condemnable, platformVars
<1>19. CASE JobUnheard \/ WaitEnds \/ Leaves
  BY <1>19 DEF JobUnheard, WaitEnds, Leaves, BrokenInv, Condemnable, platformVars
<1>20. CASE Restart
  <2>1. NoneCondemns
    BY <1>20 DEF Restart, NoneCondemns, Idle
  <2>. QED
    BY <1>20, <1>w, <2>1, StillKeeps DEF Restart
<1>. QED
  BY <1>1, <1>2, <1>3, <1>4, <1>5, <1>6, <1>7, <1>8, <1>9, <1>10, <1>11, <1>12, <1>13,
     <1>14, <1>15, <1>16, <1>17, <1>18, <1>19, <1>20
     DEF Next, WorkerNext, PlatformNext, Ages, Outlasts

LEMMA StartBroken == Init => BrokenInv
PROOF
  BY DEF Init, BrokenInv, Idle

\* However slow builds are, no runner is deleted for being broken while its build
\* moves, nor one within runnerBuildBound whose build has not failed.
THEOREM SlowIsNeverBroken == Spec => SlowIsLeft
PROOF
<1>1. Spec => [](TypeOK /\ HasId /\ BrokenInv)
  BY Start, StartBroken, NextTypes, NextBroken, PTL DEF Spec
<1>2. ASSUME TypeOK, BrokenInv, [Next]_vars
      PROVE  [\A u \in Workers, i \in Ids : Condemned(u, i) =>
                build[i] # "moving" /\ (build[i] # "failed" => i \in old)]_vars
  <2>. SUFFICES ASSUME Next, NEW u \in Workers, NEW i \in Ids,
                       At(u, "delete"), workers[u].kind \notin {"taint", "left"},
                       At(u, "await")', i \in deleting' \ deleting
                PROVE  build[i] # "moving" /\ (build[i] # "failed" => i \in old)
    BY <1>2 DEF Condemned
  <2>1. \E v \in Workers : Delete(v)
    BY DEF Next, WorkerNext, PlatformNext, PassBegins, JobQueues, JobUnheard, BuildWatched,
           Tainted, Replace, ReadRegistry, ListServices, LookDeparted, LookMends,
           LookMissing, ReadQueued, BuildsLeave, BuildsAllow, Await, Relist, Sweep,
           ImportServices, ImportFails, Made, SweepFails, CallFails, DeletionEnds,
           BuildFinishes, Deployed, JobTaken,
           Ages, Outlasts, GetsOld, BuildFails, DeletionFails, WaitEnds,
           Leaves, Restart, worldVars, platformVars
  <2>2. PICK v \in Workers : Delete(v)
    BY <2>1
  <2>3. v = u
    <3>. SUFFICES ASSUME v # u PROVE FALSE
      OBVIOUS
    <3>1. workers'[u] = workers[u]
      BY <1>2, <2>2 DEF Delete, End, Goto, TypeOK
    <3>. QED
      BY <3>1 DEF At
  <2>4. i = workers[u].id /\ status[i] # "none"
    BY <2>2, <2>3 DEF Delete
  <2>. QED
    BY <1>2, <2>4 DEF BrokenInv, Condemnable, At
<1>. QED
  BY <1>1, <1>2, PTL DEF Spec, SlowIsLeft

-----------------------------------------------------------------------------
(* After StopAfter failed builds a further runner has a push of its own.    *)

\* What the platform shows of a service agrees: who runs was built, and no
\* build has failed since.
PlatformInv ==
  /\ \A i \in Ids : status[i] = "none" <=> build[i] = "none"
  /\ deleting \subseteq Listed
  /\ \A i \in Ids : status[i] = "ran" => build[i] = "finished"
  /\ \A i \in Ids : build[i] = "finished" => failures = 0

LEMMA StartPlatform == Init => PlatformInv
PROOF
  BY DEF Init, PlatformInv, Listed

LEMMA NextPlatform ==
  ASSUME TypeOK, HasId, ImportInv, PlatformInv, [Next]_vars
  PROVE  PlatformInv'
PROOF
<1>t. WorldTypes
  BY TypesSplit
<1>k. ASSUME UNCHANGED <<status, build, failures>>, deleting' \subseteq deleting
      PROVE  PlatformInv'
  BY <1>k DEF PlatformInv, Listed
<1>w. ASSUME UNCHANGED worldVars PROVE PlatformInv'
  BY <1>k, <1>w DEF worldVars, platformVars
<1>m. ASSUME NEW i \in Ids, Made(i) PROVE PlatformInv'
  <2>1. status'[i] = "ready" /\ build'[i] = "moving"
    BY <1>t, <1>m DEF Made, WorldTypes
  <2>2. \A j \in Ids \ {i} : status'[j] = status[j] /\ build'[j] = build[j]
    BY <1>t, <1>m DEF Made, WorldTypes
  <2>. QED
    BY <1>m, <2>1, <2>2 DEF PlatformInv, Listed, Made
<1>1. ASSUME NEW i \in Ids, DeletionEnds(i) PROVE PlatformInv'
  <2>1. status'[i] = "none" /\ build'[i] = "none" /\ deleting' = deleting \ {i}
    BY <1>t, <1>1 DEF DeletionEnds, WorldTypes
  <2>2. \A j \in Ids \ {i} : status'[j] = status[j] /\ build'[j] = build[j]
    BY <1>t, <1>1 DEF DeletionEnds, WorldTypes
  <2>3. i \in Listed
    BY <1>1 DEF DeletionEnds, PlatformInv
  <2>4. \A j \in Ids \ {i} : build[j] = "none"
    BY <2>3 DEF ImportInv, OneRunner, PlatformInv, Listed
  <2>. QED
    BY <2>1, <2>2, <2>4 DEF PlatformInv, Listed
<1>2. ASSUME NEW i \in Ids, BuildFinishes(i) PROVE PlatformInv'
  <2>1. build'[i] \in {"finished", "stuck"} /\ failures' = 0 /\ status[i] \notin {"none", "ran"}
    BY <1>t, <1>2 DEF BuildFinishes, WorldTypes, PlatformInv
  <2>2. \A j \in Ids \ {i} : build'[j] = build[j]
    BY <1>t, <1>2 DEF BuildFinishes, WorldTypes
  <2>. QED
    BY <1>2, <2>1, <2>2 DEF PlatformInv, Listed, BuildFinishes
<1>3. ASSUME NEW i \in Ids, BuildFails(i) PROVE PlatformInv'
  <2>1. build'[i] = "failed" /\ status[i] \notin {"none", "ran"}
    BY <1>t, <1>3 DEF BuildFails, WorldTypes, PlatformInv
  <2>2. \A j \in Ids \ {i} : build'[j] = build[j] /\ build[j] = "none"
    BY <1>t, <1>3, <2>1 DEF BuildFails, WorldTypes, ImportInv, OneRunner, PlatformInv, Listed
  <2>. QED
    BY <1>3, <2>1, <2>2 DEF PlatformInv, Listed, BuildFails
<1>4. ASSUME NEW i \in Ids, Deployed(i) PROVE PlatformInv'
  BY <1>t, <1>4 DEF PlatformInv, Listed, Deployed, WorldTypes
<1>5. ASSUME NEW u \in Workers, Delete(u) PROVE PlatformInv'
  <2>1. workers[u].id \in Ids
    BY <1>5 DEF Delete, At, HasId
  <2>2. deleting' \subseteq Listed
    BY <1>5, <2>1 DEF Delete, PlatformInv, Listed
  <2>. QED
    BY <1>5, <2>2 DEF Delete, PlatformInv, Listed
<1>6. ASSUME NEW u \in Workers, ImportServices(u) \/ ImportFails(u) PROVE PlatformInv'
  BY <1>6, <1>m, <1>k DEF ImportServices, ImportFails, platformVars
<1>7. ASSUME NEW i \in Ids, JobTaken(i) \/ GetsOld(i) \/ DeletionFails(i) PROVE PlatformInv'
  BY <1>7, <1>k DEF JobTaken, Ages, Outlasts, GetsOld, DeletionFails, platformVars
<1>8. ASSUME NEW u \in Workers,
             \/ Replace(u) \/ ReadRegistry(u) \/ ListServices(u) \/ LookDeparted(u)
             \/ LookMends(u) \/ LookMissing(u) \/ ReadQueued(u) \/ BuildsLeave(u)
             \/ BuildsAllow(u) \/ Await(u) \/ Relist(u) \/ BuildWatched(u) \/ CallFails(u)
      PROVE  PlatformInv'
  BY <1>8, <1>w
     DEF Replace, ReadRegistry, ListServices, LookDeparted, LookMends, LookMissing,
         ReadQueued, BuildsLeave, BuildsAllow, Await, Relist, BuildWatched, CallFails
<1>9. ASSUME NEW u \in Workers,
             \/ Sweep(u) \/ SweepFails(u) \/ \E i \in Ids : Tainted(u, i)
             \/ \E kind \in {"job", "push"} : JobQueues(u, kind)
      PROVE  PlatformInv'
  BY <1>9, <1>w, <1>k DEF Sweep, SweepFails, Tainted, JobQueues, platformVars
<1>10. CASE PassBegins \/ JobUnheard \/ WaitEnds \/ Leaves \/ Restart
  BY <1>10, <1>w, <1>k DEF PassBegins, JobUnheard, WaitEnds, Leaves, Restart, platformVars
<1>11. CASE UNCHANGED vars
  BY <1>11, <1>w DEF vars
<1>. QED
  BY <1>1, <1>2, <1>3, <1>4, <1>5, <1>6, <1>7, <1>8, <1>9, <1>10, <1>11
     DEF Next, WorkerNext, PlatformNext, Ages, Outlasts

\* A further build is in order: the stop is not reached or is lifted, and none
\* is on its way.
Clear == (failures < StopAfter \/ lifted) /\ ~Moving

\* Another runner stands in the way of an import, and who replaces its own keeps
\* everybody else from deleting it.
Elsewhere(u) == u \in replacing /\ \E j \in Listed \ deleting : j # workers[u].id

\* What a goroutine knows while the group is registered: the replacement it
\* makes is its own, and once it has decided to make a runner one is in order,
\* or somebody has made one since.
Sound(u) ==
  LET w == workers[u]
  IN /\ w.kind # "left"
     /\ w.kind = "taint" => w.at \notin {"services", "look", "queued", "builds"}
     /\ w.at = "taint" => w.kind = "taint"
     /\ w.at \in {"delete", "await"} \/ (w.at = "registry" /\ w.kind = "taint")
          => u \in replacing
     /\ w.at \in {"taint", "registry", "delete"} /\ w.kind = "taint"
          => status[w.id] \in {"none", "ran"}
     /\ w.at \in {"await", "relist"} \/ (w.at = "delete" /\ w.kind # "taint")
          => Clear \/ Elsewhere(u)
     /\ w.at \in {"sweep", "import"} => Clear

\* Pushes that may still lift a stop.
Deciding ==
  {u \in Workers : /\ workers[u].kind = "push"
                   /\ workers[u].at \in {"registry", "services", "look", "queued", "builds"}}

\* Each of them is asked for, and so is a stop that is lifted.
Counted ==
  /\ IsFiniteSet(Deciding)
  /\ Cardinality(Deciding) + (IF lifted THEN 1 ELSE 0) <= asked

StopInv == registered => Counted /\ \A u \in Workers : Sound(u)

\* The phases in which nothing is decided yet.
Undecided == {"idle", "services", "look", "queued", "builds"}

LEMMA StillSound ==
  ASSUME NEW u \in Workers, Sound(u), workers'[u] = workers[u],
         u \in replacing => u \in replacing',
         UNCHANGED <<status, deleting, build, failures>>, lifted => lifted'
  PROVE  Sound(u)'
PROOF
<1>1. Moving' <=> Moving
  BY DEF Moving
<1>2. Clear => Clear'
  BY <1>1 DEF Clear
<1>3. Elsewhere(u) => Elsewhere(u)'
  BY DEF Elsewhere, Listed
<1>. QED
  BY <1>2, <1>3 DEF Sound

LEMMA UndecidedSound ==
  ASSUME NEW u \in Workers, workers'[u].kind \notin {"left", "taint"},
         workers'[u].at \in Undecided \union {"registry"}
  PROVE  Sound(u)'
PROOF
  BY DEF Sound, Undecided

LEMMA LessCounted ==
  ASSUME TypeOK, Counted, Deciding' \subseteq Deciding, UNCHANGED asked, lifted' => lifted
  PROVE  Counted'
PROOF
<1>1. IsFiniteSet(Deciding') /\ Cardinality(Deciding') <= Cardinality(Deciding)
  BY FS_Subset DEF Counted
<1>2. Cardinality(Deciding) \in Nat /\ Cardinality(Deciding') \in Nat
  BY <1>1, FS_CardinalityType DEF Counted
<1>3. Cardinality(Deciding') + (IF lifted' THEN 1 ELSE 0) <= asked
  <2>1. Cardinality(Deciding) + (IF lifted THEN 1 ELSE 0) <= asked
    BY DEF Counted
  <2>2. asked \in Int
    BY DEF TypeOK
  <2>. QED
    BY <1>1, <1>2, <2>1, <2>2
<1>. QED
  BY <1>1, <1>3 DEF Counted

\* One goroutine goes on, and the platform stands still.
LEMMA OneStep ==
  ASSUME TypeOK, StopInv, registered' => registered, NEW u \in Workers,
         \A v \in Workers \ {u} : workers'[v] = workers[v],
         \A v \in replacing \ {u} : v \in replacing',
         UNCHANGED <<status, deleting, build, failures>>, lifted => lifted',
         registered => Counted' /\ Sound(u)'
  PROVE  StopInv'
PROOF
  BY StillSound DEF StopInv

\* What a goroutine's step leaves of the others.
LEMMA EndMoves ==
  ASSUME WorkTypes, NEW u \in Workers, End(u)
  PROVE  /\ workers'[u] = Idle
         /\ \A v \in Workers \ {u} : workers'[v] = workers[v]
         /\ \A v \in replacing \ {u} : v \in replacing'
PROOF
  BY DEF WorkTypes, End

LEMMA GotoMoves ==
  ASSUME WorkTypes, NEW u \in Workers, NEW p, Goto(u, p)
  PROVE  /\ workers'[u].at = p /\ workers'[u].kind = workers[u].kind
         /\ workers'[u].id = workers[u].id
         /\ \A v \in Workers \ {u} : workers'[v] = workers[v]
         /\ replacing' = replacing
PROOF
  BY DEF WorkTypes, Goto, Goroutine, lockVars

\* Nobody but one is at another phase, who is not about to decide.
LEMMA Decides ==
  ASSUME NEW u \in Workers, \A v \in Workers \ {u} : workers'[v] = workers[v],
         u \in Deciding' => u \in Deciding
  PROVE  Deciding' \subseteq Deciding
PROOF
  BY DEF Deciding

\* A goroutine that returns knows nothing.
LEMMA EndSound ==
  ASSUME TypeOK, StopInv, registered' => registered, NEW u \in Workers, End(u),
         UNCHANGED <<status, deleting, build, failures, asked, lifted>>
  PROVE  StopInv'
PROOF
<1>1. WorkTypes
  BY TypesSplit
<1>2. Sound(u)'
  BY <1>1, EndMoves, UndecidedSound DEF Idle, Undecided
<1>3. u \notin Deciding'
  BY <1>1, EndMoves DEF Deciding, Idle
<1>4. registered => Counted'
  BY <1>1, <1>3, EndMoves, Decides, LessCounted DEF StopInv
<1>. QED
  BY <1>1, <1>2, <1>4, EndMoves, OneStep

\* One that goes on and has decided nothing yet.
LEMMA GotoSound ==
  ASSUME TypeOK, StopInv, registered' => registered, NEW u \in Workers,
         NEW p \in Undecided, Goto(u, p),
         workers[u].at \in {"services", "look", "queued", "builds"},
         UNCHANGED <<status, deleting, build, failures, asked, lifted>>
  PROVE  StopInv'
PROOF
<1>1. WorkTypes
  BY TypesSplit
<1>2. registered => Sound(u)'
  BY <1>1, GotoMoves, UndecidedSound DEF StopInv, Sound
<1>3. u \in Deciding' => u \in Deciding
  BY <1>1, GotoMoves DEF Deciding, Undecided
<1>4. registered => Counted'
  BY <1>1, <1>3, GotoMoves, Decides, LessCounted DEF StopInv
<1>. QED
  BY <1>1, <1>2, <1>4, GotoMoves, OneStep

\* Who begins: a push is asked for.
LEMMA BeginSound ==
  ASSUME TypeOK, StopInv, UNCHANGED <<registered, lockVars>>, NEW u \in Workers, NEW p, NEW k,
         NEW i, Begin(u, p, k, i), k = "left" => ~registered,
         \/ p \in Undecided \union {"registry"} /\ k # "taint"
         \/ p = "taint" /\ k = "taint" /\ status[i] = "ran",
         asked' = (IF k = "push" THEN asked + 1 ELSE asked),
         UNCHANGED <<status, deleting, build, failures, lifted>>
  PROVE  StopInv'
PROOF
<1>1. WorkTypes
  BY TypesSplit
<1>2. /\ workers'[u].at = p /\ workers'[u].kind = k /\ workers'[u].id = i
      /\ \A v \in Workers \ {u} : workers'[v] = workers[v]
      /\ workers[u].at = "idle"
  BY <1>1 DEF Begin, WorkTypes
<1>3. registered => Sound(u)'
  BY <1>2 DEF Sound, Undecided
<1>4. registered => Counted'
  <2>1. Deciding' \subseteq Deciding \union {u} /\ (k # "push" => Deciding' \subseteq Deciding)
    BY <1>2 DEF Deciding
  <2>2. CASE k # "push"
    BY <2>1, <2>2, LessCounted DEF StopInv
  <2>3. CASE k = "push" /\ registered
    <3>1. IsFiniteSet(Deciding) /\ Cardinality(Deciding) \in Nat
      BY <2>3, FS_CardinalityType DEF StopInv, Counted
    <3>2. /\ IsFiniteSet(Deciding \union {u})
          /\ Cardinality(Deciding \union {u}) \in Nat
          /\ Cardinality(Deciding \union {u}) <= Cardinality(Deciding) + 1
      <4>. DEFINE D == Deciding
      <4>1. /\ IsFiniteSet(D \union {u})
            /\ Cardinality(D \union {u}) = IF u \in D THEN Cardinality(D) ELSE Cardinality(D) + 1
        BY <3>1, FS_AddElement
      <4>. QED
        BY <3>1, <4>1
    <3>3. IsFiniteSet(Deciding') /\ Cardinality(Deciding') <= Cardinality(Deciding \union {u})
      BY <2>1, <3>2, FS_Subset
    <3>4. Cardinality(Deciding') \in Nat
      BY <3>3, FS_CardinalityType
    <3>5. Cardinality(Deciding) + (IF lifted THEN 1 ELSE 0) <= asked /\ asked \in Int
      BY <2>3 DEF StopInv, Counted, TypeOK
    <3>6. Cardinality(Deciding') + (IF lifted THEN 1 ELSE 0) <= asked + 1
      BY <3>1, <3>2, <3>3, <3>4, <3>5
    <3>. QED
      BY <2>3, <3>3, <3>6 DEF Counted
  <2>. QED
    BY <2>2, <2>3
<1>. QED
  BY <1>2, <1>3, <1>4, OneStep DEF lockVars

\* What mayRebuild remembers: a push that lifts the stop stands for it from now on.
LEMMA RememberCounts ==
  ASSUME TypeOK, Counted, NEW u \in Workers, At(u, "builds"), Remember(u), UNCHANGED asked,
         \A v \in Workers \ {u} : workers'[v] = workers[v], u \notin Deciding'
  PROVE  Counted' /\ (lifted => lifted')
PROOF
<1>1. Deciding' \subseteq Deciding
  BY Decides
<1>2. CASE UNCHANGED lifted
  BY <1>1, <1>2, LessCounted
<1>3. CASE lifted' = Lifts(u) /\ ~lifted
  <2>1. CASE ~Lifts(u)
    BY <1>1, <1>3, <2>1, LessCounted
  <2>2. CASE Lifts(u)
    <3>. DEFINE D == Deciding
    <3>1. u \in D
      BY <2>2 DEF Lifts, At, Deciding
    <3>2. IsFiniteSet(D) /\ Cardinality(D) \in Nat /\ Cardinality(D) <= asked /\ asked \in Int
      <4>1. IsFiniteSet(D) /\ Cardinality(D) \in Nat
        BY FS_CardinalityType DEF Counted
      <4>2. Cardinality(D) + 0 <= asked
        BY <1>3 DEF Counted
      <4>. QED
        BY <4>1, <4>2 DEF TypeOK
    <3>3. IsFiniteSet(D \ {u}) /\ Cardinality(D \ {u}) = Cardinality(D) - 1
      BY <3>1, <3>2, FS_RemoveElement
    <3>4. Deciding' \subseteq D \ {u}
      BY <1>1
    <3>5. IsFiniteSet(Deciding') /\ Cardinality(Deciding') <= Cardinality(D) - 1
      BY <3>3, <3>4, FS_Subset
    <3>6. Cardinality(Deciding') \in Nat
      BY <3>5, FS_CardinalityType
    <3>. HIDE DEF D
    <3>7. Cardinality(Deciding') + 1 <= asked'
      BY <3>2, <3>5, <3>6
    <3>8. lifted'
      BY <1>3, <2>2
    <3>. QED
      BY <3>5, <3>7, <3>8 DEF Counted
  <2>. QED
    BY <2>1, <2>2
<1>. QED
  BY <1>2, <1>3 DEF Remember

\* The steps in which a goroutine reads and decides.
LEMMA DecisionSound ==
  ASSUME TypeOK, HasId, StopInv, NEW u \in Workers,
         \/ ReadRegistry(u) \/ ListServices(u) \/ Replace(u)
         \/ LookDeparted(u) \/ LookMends(u) \/ LookMissing(u) \/ ReadQueued(u)
         \/ BuildsLeave(u) \/ CallFails(u) \/ BuildWatched(u)
  PROVE  StopInv'
PROOF
<1>. USE DEF worldVars, platformVars, giteaVars, memoryVars
<1>t. WorkTypes
  BY TypesSplit
<1>w. workers[u] \in Goroutine
  BY <1>t DEF WorkTypes
<1>1. CASE Replace(u)
  <2>1. CASE End(u)
    BY <1>1, <2>1, EndSound DEF Replace
  <2>2. CASE replacing = {} /\ workers' = [workers EXCEPT ![u].at = "registry"] /\ replacing' = {u}
    <3>1. /\ workers'[u].at = "registry" /\ workers'[u].kind = workers[u].kind
          /\ workers'[u].id = workers[u].id
          /\ \A v \in Workers \ {u} : workers'[v] = workers[v]
      BY <1>t, <2>2 DEF WorkTypes, Goroutine
    <3>2. registered => Sound(u)'
      BY <1>1, <2>2, <3>1 DEF StopInv, Sound, Replace, At
    <3>3. registered => u \notin Deciding'
      BY <1>1, <3>1 DEF Deciding, Replace, At, StopInv, Sound
    <3>4. registered => Counted'
      BY <1>1, <3>1, <3>3, Decides, LessCounted DEF Replace, StopInv
    <3>. QED
      BY <1>1, <2>2, <3>1, <3>2, <3>4, OneStep DEF Replace
  <2>. QED
    BY <1>1, <2>1, <2>2 DEF Replace
<1>2. CASE ReadRegistry(u)
  <2>1. CASE End(u)
    BY <1>2, <2>1, EndSound DEF ReadRegistry
  <2>2. CASE ~End(u)
    <3>. DEFINE next == IF workers[u].kind = "taint" THEN "delete" ELSE "services"
    <3>1. workers' = [workers EXCEPT ![u].at = next, ![u].known = registered]
          /\ replacing' = replacing
      BY <1>2, <2>2 DEF ReadRegistry, lockVars
    <3>2. /\ workers'[u].at = next /\ workers'[u].kind = workers[u].kind
          /\ workers'[u].id = workers[u].id
          /\ \A v \in Workers \ {u} : workers'[v] = workers[v]
      BY <1>t, <3>1 DEF WorkTypes, Goroutine
    <3>3. registered => Sound(u)'
      BY <1>2, <3>1, <3>2 DEF StopInv, Sound, ReadRegistry, At
    <3>4. u \in Deciding' => u \in Deciding
      BY <1>2, <3>2 DEF Deciding, ReadRegistry, At
    <3>5. registered => Counted'
      BY <1>2, <3>2, <3>4, Decides, LessCounted DEF ReadRegistry, StopInv
    <3>. QED
      BY <1>2, <3>1, <3>2, <3>3, <3>5, OneStep DEF ReadRegistry
  <2>. QED
    BY <2>1, <2>2
<1>3. CASE ListServices(u)
  <2>1. /\ workers'[u].at = "look" /\ workers'[u].kind = workers[u].kind
        /\ \A v \in Workers \ {u} : workers'[v] = workers[v]
    BY <1>t, <1>3, ListLooks
  <2>2. registered => Sound(u)'
    BY <1>3, <2>1, UndecidedSound DEF StopInv, Sound, ListServices, At, Undecided
  <2>3. u \in Deciding' => u \in Deciding
    BY <1>3, <2>1 DEF Deciding, ListServices, At
  <2>4. registered => Counted'
    BY <1>3, <2>1, <2>3, Decides, LessCounted DEF ListServices, StopInv
  <2>. QED
    BY <1>3, <2>1, <2>2, <2>4, OneStep DEF ListServices, lockVars
<1>4. CASE LookDeparted(u) \/ LookMends(u) \/ LookMissing(u) \/ ReadQueued(u)
  <2>1. UNCHANGED <<status, deleting, build, failures, asked, lifted, registered>>
    BY <1>4 DEF LookDeparted, LookMends, LookMissing, ReadQueued
  <2>2. End(u) \/ Goto(u, "builds") \/ Goto(u, "queued") \/ ~registered
    BY <1>4 DEF LookDeparted, LookMends, LookMissing, ReadQueued, StopInv, Sound
  <2>3. workers[u].at \in {"look", "queued"}
    BY <1>4 DEF LookDeparted, LookMends, LookMissing, ReadQueued, At
  <2>4. CASE ~registered
    BY <2>1, <2>4 DEF StopInv
  <2>. QED
    BY <2>1, <2>2, <2>3, <2>4, EndSound, GotoSound DEF Undecided
<1>5. CASE BuildsLeave(u)
  <2>1. CASE UNCHANGED <<stopped, lifted>>
    BY <1>5, <2>1, EndSound DEF BuildsLeave
  <2>2. CASE Remember(u)
    <3>1. u \notin Deciding'
      BY <1>t, <1>5, EndMoves DEF BuildsLeave, Deciding, Idle
    <3>2. registered => Counted' /\ (lifted => lifted')
      BY <1>t, <1>5, <2>2, <3>1, EndMoves, RememberCounts DEF BuildsLeave, StopInv
    <3>3. Sound(u)'
      BY <1>t, <1>5, EndMoves, UndecidedSound DEF BuildsLeave, Idle, Undecided
    <3>4. CASE ~registered
      BY <1>5, <3>4 DEF BuildsLeave, StopInv
    <3>. QED
      BY <1>t, <1>5, <3>2, <3>3, <3>4, EndMoves, OneStep DEF BuildsLeave
  <2>. QED
    BY <1>5, <2>1, <2>2 DEF BuildsLeave
<1>6. CASE CallFails(u)
  BY <1>6, EndSound DEF CallFails
<1>7. CASE BuildWatched(u)
  BY <1>7, BeginSound DEF BuildWatched
<1>. QED
  BY <1>1, <1>2, <1>3, <1>4, <1>5, <1>6, <1>7

\* A new runner is one more for who replaces another, and its own for who made it.
LEMMA MadeSound ==
  ASSUME TypeOK, HasId, ImportInv, PlatformInv, StopInv, NEW u \in Workers, At(u, "import"),
         End(u), NEW i \in Ids, Made(i), UNCHANGED registered
  PROVE  StopInv'
PROOF
<1>. SUFFICES ASSUME registered PROVE StopInv'
  BY DEF StopInv
<1>t. WorkTypes /\ WorldTypes
  BY TypesSplit
<1>1. Counted /\ Clear
  BY DEF StopInv, Sound, At
<1>2. lifted' = FALSE /\ Deciding' \subseteq Deciding
  BY <1>t, EndMoves DEF Made, Deciding, Idle
<1>3. Counted'
  <2>1. CASE asked' = asked
    <3>1. TypeOK /\ ~lifted'
      BY <1>2
    <3>. QED
      BY <1>1, <1>2, <2>1, LessCounted
  <2>2. CASE asked' # asked
    <3>1. failures >= StopAfter /\ asked' = asked - 1
      BY <2>2 DEF Made
    <3>2. lifted
      BY <1>1, <3>1 DEF Clear, TypeOK
    <3>3. IsFiniteSet(Deciding) /\ Cardinality(Deciding) \in Nat
          /\ Cardinality(Deciding) + 1 <= asked
      BY <1>1, <3>2, FS_CardinalityType DEF Counted
    <3>4. IsFiniteSet(Deciding') /\ Cardinality(Deciding') <= Cardinality(Deciding)
      BY <1>2, <3>3, FS_Subset
    <3>5. Cardinality(Deciding') \in Nat /\ asked \in Int
      BY <3>4, FS_CardinalityType DEF TypeOK
    <3>6. Cardinality(Deciding') + 0 <= asked'
      BY <3>1, <3>3, <3>4, <3>5
    <3>. QED
      BY <1>2, <3>4, <3>6 DEF Counted
  <2>. QED
    BY <2>1, <2>2
<1>4. Sound(u)'
  BY <1>t, EndMoves, UndecidedSound DEF Idle, Undecided
<1>5. ASSUME NEW v \in Workers \ {u} PROVE Sound(v)'
  <2>1. workers'[v] = workers[v] /\ Sound(v) /\ (v \in replacing => v \in replacing')
    BY <1>t, EndMoves DEF StopInv
  <2>2. workers[v].at \notin InImport
    BY DEF ImportInv, Locked, At, InImport, TypeOK
  <2>3. v \in replacing => Elsewhere(v)'
    <3>1. i \in Listed' /\ i \notin deleting'
      BY <1>t DEF Made, Listed, WorldTypes, PlatformInv
    <3>2. i # workers'[v].id
      BY <2>1 DEF Made
    <3>. QED
      BY <2>1, <3>1, <3>2 DEF Elsewhere
  <2>4. workers[v].kind = "taint" =>
          workers[v].id \in Ids /\ status'[workers[v].id] = status[workers[v].id]
    BY <1>t DEF HasId, Made, WorldTypes
  <2>. QED
    BY <2>1, <2>2, <2>3, <2>4 DEF Sound, InImport
<1>. QED
  BY <1>3, <1>4, <1>5 DEF StopInv

\* The steps in which a goroutine acts.
LEMMA DeedSound ==
  ASSUME TypeOK, HasId, ImportInv, PlatformInv, StopInv, NEW u \in Workers,
         \/ BuildsAllow(u) \/ Delete(u) \/ Await(u) \/ Relist(u) \/ Sweep(u)
         \/ SweepFails(u) \/ ImportServices(u) \/ ImportFails(u)
  PROVE  StopInv'
PROOF
<1>. USE DEF worldVars, platformVars, giteaVars, memoryVars
<1>t. WorkTypes /\ WorldTypes
  BY TypesSplit
<1>w. workers[u] \in Goroutine
  BY <1>t DEF WorkTypes
<1>r. CASE ~registered
  <2>1. registered' = registered
    BY <1>r DEF BuildsAllow, Delete, Await, Relist, Sweep, SweepFails, ImportServices,
                ImportFails
  <2>. QED
    BY <1>r, <2>1 DEF StopInv
<1>. SUFFICES ASSUME registered PROVE StopInv'
  BY <1>r
<1>s. Sound(u) /\ Counted
  BY DEF StopInv
\* What an import or a repair makes of who may build.
<1>i. ASSUME Import(u) \/ Repair(u)
      PROVE  \/ End(u)
             \/ /\ workers'[u].at \in {"relist", "delete"} /\ workers'[u].kind = workers[u].kind
                /\ workers'[u].id = workers[u].id
                /\ \A v \in Workers \ {u} : workers'[v] = workers[v]
                /\ \A v \in replacing : v \in replacing'
                /\ workers'[u].at = "delete" => u \in replacing'
  BY <1>t, <1>i DEF Import, Repair, WorkTypes, Goroutine
<1>1. CASE BuildsAllow(u)
  <2>1. UNCHANGED <<status, deleting, build, failures, asked, registered>>
    BY <1>1 DEF BuildsAllow
  <2>2. \A v \in Workers \ {u} : workers'[v] = workers[v]
    BY <1>t, <1>1, <1>i, EndMoves DEF BuildsAllow
  <2>3. u \notin Deciding'
    BY <1>t, <1>1, <1>i, EndMoves DEF BuildsAllow, Deciding, Idle
  <2>4. Counted' /\ (lifted => lifted')
    BY <1>1, <1>s, <2>1, <2>2, <2>3, RememberCounts DEF BuildsAllow
  <2>5. Clear'
    <3>1. ~Moving' /\ failures' = failures
      BY <1>1, <2>1 DEF BuildsAllow, MayRebuild, Moving
    <3>2. failures < StopAfter \/ lifted'
      BY <1>1 DEF BuildsAllow, MayRebuild, Remember, TypeOK
    <3>. QED
      BY <3>1, <3>2 DEF Clear
  <2>6. Sound(u)'
    <3>1. CASE End(u)
      BY <1>t, <3>1, EndMoves, UndecidedSound DEF Idle, Undecided
    <3>2. CASE ~End(u)
      BY <1>1, <1>i, <1>s, <2>5, <3>2 DEF BuildsAllow, Sound, At
    <3>. QED
      BY <3>1, <3>2
  <2>7. \A v \in replacing \ {u} : v \in replacing'
    BY <1>t, <1>1, <1>i, EndMoves DEF BuildsAllow
  <2>. QED
    BY <2>1, <2>2, <2>4, <2>6, <2>7, OneStep
<1>2. CASE Delete(u)
  <2>1. CASE End(u) /\ UNCHANGED deleting
    BY <1>2, <2>1, EndSound DEF Delete
  <2>2. CASE /\ status[workers[u].id] # "none" /\ Goto(u, "await")
             /\ deleting' = deleting \union {workers[u].id}
    <3>1. UNCHANGED <<status, build, failures, asked, lifted, registered>>
      BY <1>2 DEF Delete
    <3>2. u \in replacing /\ workers[u].id \in Ids /\ workers[u].at = "delete"
      BY <1>2, <1>s DEF Delete, At, Sound, HasId
    <3>3. Moving' = Moving /\ (Clear => Clear') /\ Listed' = Listed
      BY <3>1 DEF Moving, Clear, Listed
    <3>4. Elsewhere(u) => Elsewhere(u)'
      BY <1>t, <2>2, <3>3, GotoMoves DEF Elsewhere
    <3>5. Clear \/ Elsewhere(u)
      <4>1. CASE workers[u].kind # "taint"
        BY <1>s, <3>2, <4>1 DEF Sound
      <4>2. CASE workers[u].kind = "taint"
        <5>1. status[workers[u].id] = "ran"
          BY <1>s, <2>2, <3>2, <4>2 DEF Sound
        <5>2. build[workers[u].id] = "finished" /\ failures = 0
          BY <3>2, <5>1 DEF PlatformInv
        <5>3. \A j \in Ids \ {workers[u].id} : build[j] = "none"
          BY <3>2, <5>1 DEF PlatformInv, ImportInv, OneRunner, Listed
        <5>4. ~Moving
          BY <3>2, <5>2, <5>3 DEF Moving
        <5>. QED
          BY <5>2, <5>4 DEF Clear
      <4>. QED
        BY <4>1, <4>2
    <3>6. Sound(u)'
      BY <1>t, <1>s, <2>2, <3>2, <3>3, <3>4, <3>5, GotoMoves DEF Sound
    <3>7. ASSUME NEW v \in Workers \ {u} PROVE Sound(v)'
      <4>1. workers'[v] = workers[v] /\ Sound(v) /\ v \notin replacing
        BY <1>t, <2>2, <3>2, GotoMoves DEF StopInv, WorkTypes
      <4>2. ~Elsewhere(v)
        BY <4>1 DEF Elsewhere
      <4>. QED
        BY <3>1, <3>3, <4>1, <4>2 DEF Sound
    <3>8. Deciding' \subseteq Deciding
      BY <1>t, <2>2, GotoMoves, Decides DEF Deciding
    <3>. QED
      BY <1>s, <3>1, <3>6, <3>7, <3>8, LessCounted DEF StopInv
  <2>. QED
    BY <1>2, <2>1, <2>2 DEF Delete
<1>3. CASE Await(u)
  <2>1. UNCHANGED <<status, deleting, build, failures, asked, lifted, registered>>
    BY <1>3 DEF Await
  <2>2. CASE End(u)
    BY <2>1, <2>2, EndSound
  <2>3. CASE Import(u) /\ ~End(u)
    <3>1. u \notin Deciding'
      BY <1>i, <2>3 DEF Deciding
    <3>2. Sound(u)'
      <4>1. Clear => Clear'
        BY <2>1 DEF Clear, Moving
      <4>2. Elsewhere(u) => Elsewhere(u)'
        BY <1>i, <2>1, <2>3 DEF Elsewhere, Listed
      <4>3. workers'[u].at = "relist"
        BY <1>t, <2>3 DEF Import, WorkTypes, Goroutine
      <4>. QED
        BY <1>i, <1>3, <1>s, <2>3, <4>1, <4>2, <4>3 DEF Sound, Await, At
    <3>. QED
      BY <1>i, <1>s, <2>1, <2>3, <3>1, <3>2, Decides, LessCounted, OneStep
  <2>. QED
    BY <1>3, <2>2, <2>3 DEF Await
<1>4. CASE Relist(u) \/ Sweep(u)
  <2>1. UNCHANGED <<status, deleting, build, failures, asked, lifted, registered>>
    BY <1>4 DEF Relist, Sweep
  <2>2. CASE End(u)
    BY <2>1, <2>2, EndSound
  <2>3. ASSUME NEW p \in {"sweep", "import"}, Goto(u, p), Clear PROVE StopInv'
    <3>1. Clear'
      BY <2>1, <2>3 DEF Clear, Moving
    <3>2. Sound(u)'
      BY <1>t, <1>s, <2>3, <3>1, GotoMoves DEF Sound
    <3>3. u \notin Deciding'
      BY <1>t, <2>3, GotoMoves DEF Deciding
    <3>. QED
      BY <1>t, <1>s, <2>1, <2>3, <3>2, <3>3, GotoMoves, Decides, LessCounted, OneStep
  <2>4. CASE Relist(u) /\ ~End(u)
    <3>1. Goto(u, "sweep") /\ Listed = {} /\ workers[u].at = "relist"
      BY <2>4 DEF Relist, At
    <3>2. Clear
      BY <1>s, <3>1 DEF Sound, Elsewhere
    <3>. QED
      BY <2>3, <3>1, <3>2
  <2>5. CASE Sweep(u)
    BY <1>s, <2>3, <2>5 DEF Sweep, At, Sound
  <2>. QED
    BY <1>4, <2>2, <2>4, <2>5
<1>5. CASE SweepFails(u)
  BY <1>5, EndSound DEF SweepFails
<1>6. CASE ImportServices(u) \/ ImportFails(u)
  <2>1. ASSUME NEW i \in Ids, Made(i) PROVE StopInv'
    BY <1>6, <2>1, MadeSound DEF ImportServices, ImportFails
  <2>2. CASE UNCHANGED <<platformVars, giteaVars, lifted>> /\ ImportFails(u)
    BY <2>2, EndSound DEF ImportFails
  <2>. QED
    BY <1>6, <2>1, <2>2 DEF ImportServices, ImportFails
<1>. QED
  BY <1>1, <1>2, <1>3, <1>4, <1>5, <1>6

\* The platform goes on; what a goroutine decided from, or the runner that stands
\* in its way, is still there.
LEMMA PlatformSound ==
  ASSUME TypeOK, HasId, ImportInv, PlatformInv, StopInv, NEW i \in Ids,
         \/ DeletionEnds(i) \/ BuildFinishes(i) \/ BuildFails(i) \/ Deployed(i)
         \/ JobTaken(i) \/ GetsOld(i) \/ DeletionFails(i)
  PROVE  StopInv'
PROOF
<1>. USE DEF platformVars, giteaVars, lockVars, memoryVars
<1>t. WorldTypes
  BY TypesSplit
<1>1. UNCHANGED <<workers, replacing, registered, asked, lifted>>
  BY DEF DeletionEnds, BuildFinishes, BuildFails, Deployed, JobTaken,
         Ages, Outlasts, GetsOld, DeletionFails
<1>2. deleting' \subseteq deleting /\ \A j \in Listed \ deleting : j \in Listed' \ deleting'
  BY <1>t DEF DeletionEnds, BuildFinishes, BuildFails, Deployed, JobTaken,
              Ages, Outlasts, GetsOld,
              DeletionFails, Listed, WorldTypes
<1>3. Clear => Clear'
  <2>1. CASE build[i] = "moving"
    BY <2>1 DEF Clear, Moving
  <2>2. CASE build[i] # "moving"
    <3>1. \A j \in Ids : build'[j] = "moving" => build[j] = "moving"
      BY <1>t, <2>2
         DEF DeletionEnds, BuildFinishes, BuildFails, Deployed, JobTaken,
             Ages, Outlasts, GetsOld,
             DeletionFails, WorldTypes
    <3>2. failures' = failures
      BY <2>2 DEF DeletionEnds, BuildFinishes, BuildFails, Deployed, JobTaken,
                  Ages, Outlasts, GetsOld,
                  DeletionFails
    <3>. QED
      BY <1>1, <3>1, <3>2 DEF Clear, Moving
  <2>. QED
    BY <2>1, <2>2
<1>4. \A j \in Ids : status[j] \in {"none", "ran"} => status'[j] \in {"none", "ran"}
  BY <1>t DEF DeletionEnds, BuildFinishes, BuildFails, Deployed, JobTaken,
              Ages, Outlasts, GetsOld,
              DeletionFails, WorldTypes
<1>5. ASSUME NEW u \in Workers, Sound(u) PROVE Sound(u)'
  <2>1. Elsewhere(u) => Elsewhere(u)'
    BY <1>1, <1>2 DEF Elsewhere
  <2>2. workers[u].kind = "taint" => workers[u].id \in Ids
    BY DEF HasId
  <2>. QED
    BY <1>1, <1>3, <1>4, <1>5, <2>1, <2>2 DEF Sound
<1>6. Deciding' = Deciding
  BY <1>1 DEF Deciding
<1>7. registered => Counted'
  BY <1>1, <1>6, LessCounted DEF StopInv
<1>. QED
  BY <1>1, <1>5, <1>7 DEF StopInv

LEMMA NextStop ==
  ASSUME TypeOK, HasId, ImportInv, PlatformInv, StopInv, [Next]_vars
  PROVE  StopInv'
PROOF
<1>. USE DEF worldVars, platformVars, giteaVars, lockVars, memoryVars
<1>t. WorkTypes
  BY TypesSplit
<1>k. ASSUME UNCHANGED <<status, deleting, build, failures, workers, replacing, asked, lifted>>,
             registered' => registered
      PROVE  StopInv'
  <2>1. \A u \in Workers : Sound(u) => Sound(u)'
    BY <1>k, StillSound
  <2>2. Deciding' = Deciding
    BY <1>k DEF Deciding
  <2>3. registered => Counted'
    BY <1>k, <2>2, LessCounted DEF StopInv
  <2>. QED
    BY <1>k, <2>1, <2>3 DEF StopInv
<1>1. CASE UNCHANGED vars
  BY <1>1, <1>k DEF vars
<1>2. CASE PassBegins
  BY <1>2, BeginSound DEF PassBegins, Undecided
<1>3. ASSUME NEW u \in Workers, NEW kind \in {"job", "push"}, JobQueues(u, kind)
      PROVE  StopInv'
  <2>. DEFINE p == "registry"
              i == NoId
  <2>1. /\ Begin(u, p, kind, i) /\ p = "registry" /\ kind # "taint" /\ kind # "left"
        /\ UNCHANGED <<registered, lockVars>>
        /\ asked' = (IF kind = "push" THEN asked + 1 ELSE asked)
        /\ UNCHANGED <<status, deleting, build, failures, lifted>>
    BY <1>3 DEF JobQueues
  <2>. HIDE DEF p, i
  <2>. QED
    BY <2>1, BeginSound
<1>4. ASSUME NEW u \in Workers, NEW i \in Ids, Tainted(u, i) PROVE StopInv'
  <2>. DEFINE p == "taint"
              k == "taint"
  <2>1. /\ Begin(u, p, k, i) /\ p = "taint" /\ k = "taint" /\ status[i] = "ran"
        /\ UNCHANGED <<registered, lockVars>>
        /\ asked' = (IF k = "push" THEN asked + 1 ELSE asked)
        /\ UNCHANGED <<status, deleting, build, failures, lifted>>
    BY <1>4 DEF Tainted
  <2>. HIDE DEF p, k
  <2>. QED
    BY <2>1, BeginSound
<1>5. CASE JobUnheard \/ WaitEnds \/ Leaves
  BY <1>5, <1>k DEF JobUnheard, WaitEnds, Leaves
<1>6. CASE Restart
  <2>1. \A u \in Workers : workers'[u] = Idle
    BY <1>6 DEF Restart
  <2>2. \A u \in Workers : Sound(u)'
    BY <2>1, UndecidedSound DEF Idle, Undecided
  <2>3. Deciding' \subseteq Deciding
    BY <2>1 DEF Deciding, Idle
  <2>4. ~lifted' /\ UNCHANGED <<asked, registered>>
    BY <1>6 DEF Restart
  <2>5. registered => Counted'
    BY <2>3, <2>4, LessCounted DEF StopInv
  <2>. QED
    BY <2>2, <2>4, <2>5 DEF StopInv
<1>7. ASSUME NEW u \in Workers, WorkerNext(u) \/ BuildWatched(u) \/ SweepFails(u)
                                  \/ ImportFails(u) \/ CallFails(u)
      PROVE  StopInv'
  BY <1>7, DecisionSound, DeedSound DEF WorkerNext
<1>8. ASSUME NEW i \in Ids, PlatformNext(i) \/ Outlasts(i) \/ BuildFails(i) \/ DeletionFails(i)
      PROVE  StopInv'
  BY <1>8, PlatformSound DEF PlatformNext, Ages, Outlasts
<1>. QED
  BY <1>1, <1>2, <1>3, <1>4, <1>5, <1>6, <1>7, <1>8 DEF Next

LEMMA StartStop == Init => StopInv
PROOF
<1>. SUFFICES ASSUME Init PROVE StopInv
  OBVIOUS
<1>1. \A u \in Workers : Sound(u)
  BY DEF Init, Sound, Idle
<1>2. Deciding = {} /\ asked = 0 /\ lifted = FALSE
  BY DEF Init, Deciding, Idle
<1>3. Counted
  BY <1>2, FS_EmptySet DEF Counted
<1>. QED
  BY <1>1, <1>3 DEF StopInv

\* After StopAfter failed builds in a row each further runner of a registered
\* group has a push of its own, for any number of goroutines, pushes, services,
\* failures and restarts (mayRebuild).
THEOREM StopIsKept == Spec => StopKept
PROOF
<1>1. ASSUME TypeOK, HasId, ImportInv, PlatformInv, StopInv, [Next]_vars
      PROVE  [(\E i \in Ids : status[i] = "none" /\ status'[i] # "none")
                => failures < StopAfter \/ asked > 0 \/ ~registered]_vars
  <2>. SUFFICES ASSUME Next, NEW i \in Ids, status[i] = "none", status'[i] # "none", registered
                PROVE  failures < StopAfter \/ asked > 0
    BY <1>1
  <2>1. CASE \E u \in Workers : ImportServices(u) \/ ImportFails(u)
    <3>1. Clear /\ Counted
      BY <1>1, <2>1 DEF ImportServices, ImportFails, StopInv, Sound, At
    <3>2. CASE lifted
      <4>1. Cardinality(Deciding) \in Nat /\ Cardinality(Deciding) + 1 <= asked /\ asked \in Int
        BY <1>1, <3>1, <3>2, FS_CardinalityType DEF Counted, TypeOK
      <4>. QED
        BY <4>1
    <3>. QED
      BY <3>1, <3>2 DEF Clear
  <2>2. CASE \E j \in Ids : DeletionEnds(j) \/ Deployed(j)
    <3>1. PICK j \in Ids : DeletionEnds(j) \/ Deployed(j)
      BY <2>2
    <3>2. status'[i] = status[i] \/ j = i
      BY <1>1, <3>1 DEF TypeOK, DeletionEnds, Deployed
    <3>. QED
      BY <1>1, <3>1, <3>2 DEF TypeOK, DeletionEnds, Deployed
  <2>3. CASE UNCHANGED status
    BY <2>3
  <2>. QED
    BY <2>1, <2>2, <2>3
       DEF Next, WorkerNext, PlatformNext, PassBegins, JobQueues, JobUnheard, BuildWatched,
           Tainted, Replace, ReadRegistry, ListServices, LookDeparted, LookMends,
           LookMissing, ReadQueued, BuildsLeave, BuildsAllow, Delete, Await, Relist, Sweep,
           SweepFails, CallFails, BuildFinishes, JobTaken,
           Ages, Outlasts, GetsOld, BuildFails,
           DeletionFails, WaitEnds, Leaves, Restart, worldVars, platformVars
<1>2. Spec => [](TypeOK /\ HasId /\ ImportInv /\ PlatformInv /\ StopInv)
  BY Start, StartImport, StartPlatform, StartStop, NextTypes, NextImport, NextPlatform,
     NextStop, PTL DEF Spec
<1>. QED
  BY <1>1, <1>2, PTL DEF Spec, StopKept

=============================================================================
