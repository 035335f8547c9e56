---------------------------- MODULE DeployWorker -----------------------------
(***************************************************************************)
(* What the deploy queue promises, without goroutines, a lock or books:    *)
(* each environment has one worker and a mailbox of one place.  A request  *)
(* to a resting worker is handed to it; one that comes while it works or   *)
(* is about to replaces what is in the mailbox, and keeps the person's ask *)
(* that was there.  A worker that ends its job takes what is in the        *)
(* mailbox.                                                                *)
(***************************************************************************)
CONSTANTS Envs, Job, NoJob

VARIABLES hand,      \* per environment: the worker's job, NoJob at rest
          busy,      \* per environment: whether the worker is performing it
          mailbox    \* per environment: the request that waits, or NoJob

workerVars == <<hand, busy, mailbox>>

WorkerInit ==
  /\ hand = [e \in Envs |-> NoJob]
  /\ busy = [e \in Envs |-> FALSE]
  /\ mailbox = [e \in Envs |-> NoJob]

Ask(e, job) ==
  /\ IF hand[e] = NoJob
     THEN /\ hand' = [hand EXCEPT ![e] = job]
          /\ UNCHANGED mailbox
     ELSE /\ mailbox' = [mailbox EXCEPT ![e] =
               [job EXCEPT !.requested = job.requested \/ mailbox[e].requested]]
          /\ UNCHANGED hand
  /\ UNCHANGED busy

Begin(e) ==
  /\ hand[e] # NoJob
  /\ ~busy[e]
  /\ busy' = [busy EXCEPT ![e] = TRUE]
  /\ UNCHANGED <<hand, mailbox>>

End(e) ==
  /\ busy[e]
  /\ busy' = [busy EXCEPT ![e] = FALSE]
  /\ hand' = [hand EXCEPT ![e] = mailbox[e]]
  /\ mailbox' = [mailbox EXCEPT ![e] = NoJob]

\* Begin and End in one step, where nothing looks at what is at work.
Turn(e) ==
  /\ hand[e] # NoJob /\ ~busy[e]
  /\ hand' = [hand EXCEPT ![e] = mailbox[e]]
  /\ mailbox' = [mailbox EXCEPT ![e] = NoJob]
  /\ UNCHANGED busy

WorkerNext ==
  \E e \in Envs : (\E job \in Job : Ask(e, job)) \/ Begin(e) \/ End(e)

WorkerSpec == WorkerInit /\ [][WorkerNext]_workerVars

=============================================================================
