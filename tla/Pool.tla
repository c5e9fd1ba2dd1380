-------------------------------- MODULE Pool --------------------------------
(***************************************************************************)
(* The thread pool of crates/sith_server/src/server/schedule/thread/       *)
(* pool.rs: one owner (the event loop) that spawns jobs into a bounded     *)
(* channel and finally drops the pool, and worker threads that receive     *)
(* and run them.  A job is a model value; its closure is abstracted to     *)
(* "ends" or "panics".                                                     *)
(***************************************************************************)
EXTENDS Naturals, Sequences, FiniteSets

CONSTANTS
    Workers,        \* the threads created by Pool::new
    Jobs,           \* the closures the owner may spawn
    requested,      \* the ThreadPriority each job is spawned with
    MaxPanics,      \* bound: how many job closures may panic
    NoJob

Priorities == {"Worker", "LatencySensitive"}

ASSUME WorkersAssumption ==
    /\ IsFiniteSet(Workers)
    /\ Workers # {}

ASSUME JobsAssumption ==
    /\ requested \in [Jobs -> Priorities]
    /\ NoJob \notin Jobs
    /\ MaxPanics \in Nat

VARIABLES
    owner,      \* what the owner of the pool is doing
    sending,    \* the job a blocked `send` holds, or NoJob
    spawned,    \* the jobs `spawn` has been called with (history)
    channel,    \* the bounded job channel
    thread,     \* where each worker is in its loop
    job,        \* the job each worker holds, or NoJob
    current_priority,
    extant_tasks,
    outcome     \* how each job ended, "none" while it has not

ownerVars == <<owner, sending, spawned>>
workerVars == <<thread, job, current_priority>>
vars == <<ownerVars, channel, workerVars, extant_tasks, outcome>>

(* The capacity of the channel, `min(threads * 2, 4)`. *)
Capacity ==
    LET n == 2 * Cardinality(Workers) IN IF n < 4 THEN n ELSE 4

(* A worker thread that is over no longer holds a receiver. *)
Alive == {w \in Workers : thread[w] \in {"recv", "start", "run"}}

Panicked == {j \in Jobs : outcome[j] = "panic"}

(* The type invariant. *)
TypeOK ==
    /\ owner \in {"idle", "sending", "joining", "joined", "panicked"}
    /\ sending \in Jobs \cup {NoJob}
    /\ spawned \subseteq Jobs
    /\ channel \in Seq(Jobs)
    /\ thread \in [Workers -> {"recv", "start", "run", "exited", "unwound"}]
    /\ job \in [Workers -> Jobs \cup {NoJob}]
    /\ current_priority \in [Workers -> Priorities]
    /\ extant_tasks \in Nat
    /\ outcome \in [Jobs -> {"none", "ok", "panic"}]

Init ==
    /\ owner = "idle"
    /\ sending = NoJob
    /\ spawned = {}
    /\ channel = <<>>
    /\ thread = [w \in Workers |-> "recv"]
    /\ job = [w \in Workers |-> NoJob]
    /\ current_priority = [w \in Workers |-> "Worker"]
    /\ extant_tasks = 0
    /\ outcome = [j \in Jobs |-> "none"]

(* Pool::spawn boxes the job and calls `send`, which may block. *)
Spawn(j) ==
    /\ owner = "idle"
    /\ j \notin spawned
    /\ owner' = "sending"
    /\ sending' = j
    /\ spawned' = spawned \cup {j}
    /\ UNCHANGED <<channel, workerVars, extant_tasks, outcome>>

(* Mutant: the newest job overtakes the queue. *)
SendToFront ==
    /\ owner = "sending"
    /\ Alive # {}
    /\ Len(channel) < Capacity
    /\ channel' = <<sending>> \o channel
    /\ owner' = "idle"
    /\ sending' = NoJob
    /\ UNCHANGED <<spawned, workerVars, extant_tasks, outcome>>

(* `send` returns once there is room in the channel. *)
Send ==
    /\ owner = "sending"
    /\ Alive # {}
    /\ Len(channel) < Capacity
    /\ channel' = Append(channel, sending)
    /\ owner' = "idle"
    /\ sending' = NoJob
    /\ UNCHANGED <<spawned, workerVars, extant_tasks, outcome>>

(* With every receiver gone `send` fails and the `unwrap` panics. *)
SendDisconnected ==
    /\ owner = "sending"
    /\ Alive = {}
    /\ owner' = "panicked"
    /\ UNCHANGED <<sending, spawned, channel, workerVars, extant_tasks, outcome>>

(* Dropping the pool drops `job_sender` first, which closes the channel,   *)
(* and then joins the handles.                                             *)
Drop ==
    /\ owner = "idle"
    /\ owner' = "joining"
    /\ UNCHANGED <<sending, spawned, channel, workerVars, extant_tasks, outcome>>

(* The join of the last handle returns; a handle of an unwound thread      *)
(* re-raises its panic.                                                    *)
Join ==
    /\ owner = "joining"
    /\ Alive = {}
    /\ owner' = IF \E w \in Workers : thread[w] = "unwound" THEN "panicked" ELSE "joined"
    /\ UNCHANGED <<sending, spawned, channel, workerVars, extant_tasks, outcome>>

(* Mutant: the job is read but left in the channel. *)
ReceiveWithoutRemoving(w) ==
    /\ thread[w] = "recv"
    /\ channel # <<>>
    /\ job' = [job EXCEPT ![w] = Head(channel)]
    /\ thread' = [thread EXCEPT ![w] = "start"]
    /\ UNCHANGED <<ownerVars, channel, current_priority, extant_tasks, outcome>>

(* Mutant: a worker waits until no other job is extant. *)
ReceiveAlone(w) ==
    /\ thread[w] = "recv"
    /\ channel # <<>>
    /\ extant_tasks = 0
    /\ job' = [job EXCEPT ![w] = Head(channel)]
    /\ channel' = Tail(channel)
    /\ thread' = [thread EXCEPT ![w] = "start"]
    /\ UNCHANGED <<ownerVars, current_priority, extant_tasks, outcome>>

(* `for job in job_receiver`: take the oldest job. *)
Receive(w) ==
    /\ thread[w] = "recv"
    /\ channel # <<>>
    /\ job' = [job EXCEPT ![w] = Head(channel)]
    /\ channel' = Tail(channel)
    /\ thread' = [thread EXCEPT ![w] = "start"]
    /\ UNCHANGED <<ownerVars, current_priority, extant_tasks, outcome>>

(* Mutant: the priority of the previous job stays in force. *)
StartAtOldPriority(w) ==
    /\ thread[w] = "start"
    /\ extant_tasks' = extant_tasks + 1
    /\ thread' = [thread EXCEPT ![w] = "run"]
    /\ UNCHANGED <<ownerVars, channel, job, current_priority, outcome>>

(* Adopt the priority the job asks for and count it as extant. *)
Start(w) ==
    /\ thread[w] = "start"
    /\ current_priority' = [current_priority EXCEPT ![w] = requested[job[w]]]
    /\ extant_tasks' = extant_tasks + 1
    /\ thread' = [thread EXCEPT ![w] = "run"]
    /\ UNCHANGED <<ownerVars, channel, job, outcome>>

(* The closure returns. *)
Finish(w) ==
    /\ thread[w] = "run"
    /\ extant_tasks' = extant_tasks - 1
    /\ outcome' = [outcome EXCEPT ![job[w]] = "ok"]
    /\ job' = [job EXCEPT ![w] = NoJob]
    /\ thread' = [thread EXCEPT ![w] = "recv"]
    /\ UNCHANGED <<ownerVars, channel, current_priority>>

(* The closure panics: the thread unwinds past the `fetch_sub`. *)
Panic(w) ==
    /\ thread[w] = "run"
    /\ Cardinality(Panicked) < MaxPanics
    /\ outcome' = [outcome EXCEPT ![job[w]] = "panic"]
    /\ job' = [job EXCEPT ![w] = NoJob]
    /\ thread' = [thread EXCEPT ![w] = "unwound"]
    /\ UNCHANGED <<ownerVars, channel, current_priority, extant_tasks>>

(* Mutant: workers leave as soon as the channel is closed. *)
ExitWithoutDraining(w) ==
    /\ thread[w] = "recv"
    /\ owner = "joining"
    /\ thread' = [thread EXCEPT ![w] = "exited"]
    /\ UNCHANGED <<ownerVars, channel, job, current_priority, extant_tasks, outcome>>

(* Mutant: `_handles` declared above `job_sender`, so that the workers are  *)
(* joined while the channel is still open.                                 *)
ExitAfterJoin(w) ==
    /\ thread[w] = "recv"
    /\ channel = <<>>
    /\ owner = "joined"
    /\ thread' = [thread EXCEPT ![w] = "exited"]
    /\ UNCHANGED <<ownerVars, channel, job, current_priority, extant_tasks, outcome>>

(* The iteration ends when the channel is closed and empty. *)
Exit(w) ==
    /\ thread[w] = "recv"
    /\ channel = <<>>
    /\ owner = "joining"
    /\ thread' = [thread EXCEPT ![w] = "exited"]
    /\ UNCHANGED <<ownerVars, channel, job, current_priority, extant_tasks, outcome>>

Worker(w) ==
    Receive(w) \/ Start(w) \/ Finish(w) \/ Panic(w) \/ Exit(w)

Owner ==
    \/ \E j \in Jobs : Spawn(j)
    \/ Send \/ SendDisconnected \/ Drop \/ Join

(* The pool is gone; the owner's panic unwinds further. *)
Terminated == owner \in {"joined", "panicked"} /\ UNCHANGED vars

Next ==
    \/ Owner
    \/ \E w \in Workers : Worker(w)
    \/ Terminated

Spec == Init /\ [][Next]_vars

(***************************************************************************)
(* Fairness: a thread of the operating system that can take a step takes   *)
(* one eventually, job closures return, and `send` and the joins return    *)
(* once they can.  Nothing obliges the owner to spawn or to drop.          *)
(***************************************************************************)
Fairness ==
    /\ WF_vars(Send \/ SendDisconnected \/ Join)
    /\ \A w \in Workers : WF_vars(Receive(w) \/ Start(w) \/ Finish(w) \/ Exit(w))

FairSpec == Spec /\ Fairness
-----------------------------------------------------------------------------
Waiting == {channel[i] : i \in 1..Len(channel)}
Held == {job[w] : w \in Workers} \ {NoJob}

(* No job is lost or duplicated by the hand-over from `spawn` through the  *)
(* channel to a worker: every job `spawn` was called with is in exactly    *)
(* one place, the blocked `send`, one slot of the channel, one worker, or  *)
(* the past.                                                               *)
OneHolder ==
    /\ \A i, k \in 1..Len(channel) : i # k => channel[i] # channel[k]
    /\ \A v, w \in Workers : v # w /\ job[v] # NoJob => job[v] # job[w]
    /\ Waiting \cap Held = {}
    /\ sending \notin Waiting \cup Held
    /\ \A j \in Jobs :
          /\ outcome[j] # "none" => j \notin Waiting \cup Held \cup {sending}
          /\ j \in spawned <=> (outcome[j] # "none" \/ j \in Waiting \cup Held \cup {sending})

(* extant_tasks (`Pool::len`) counts the jobs being run, plus one for      *)
(* every closure that unwound past the decrement.                          *)
ExtantCount ==
    extant_tasks = Cardinality({w \in Workers : thread[w] \in {"run", "unwound"}})

(* `assert_is_used_on_current_thread` in the boxed closure: a job runs     *)
(* only on a thread that has adopted the priority it was spawned with.     *)
RunsAtRequestedPriority ==
    \A w \in Workers : thread[w] = "run" => current_priority[w] = requested[job[w]]

(* A worker is in step with the job it runs: the counter and the priority  *)
(* have changed before the closure begins, and a panic leaves both as a    *)
(* later reader expects them.                                              *)
WorkersInStep == ExtantCount /\ RunsAtRequestedPriority

(* The comment on struct Pool: the channel is closed before the workers    *)
(* are joined, so the join waits for everything that was accepted.  When   *)
(* it is over no accepted job is left behind.                              *)
JoinDrains ==
    owner = "joined" => \A j \in spawned : outcome[j] = "ok"

(* Every job handed to `spawn` is eventually run, unless every worker has  *)
(* unwound: the workers that are left serve the whole channel.             *)
SpawnedJobRuns ==
    \A j \in Jobs :
        (j \in spawned) ~> (outcome[j] # "none" \/ \A w \in Workers : thread[w] = "unwound")

(* The owner is never stuck: a `spawn` blocked on a full channel returns,  *)
(* though the workers may unwind one by one, and a dropped pool is joined. *)
OwnerReturns ==
    /\ (owner = "sending") ~> (owner # "sending")
    /\ (owner = "joining") ~> (owner \in {"joined", "panicked"})

(* The pool implements the executor its users rely on: accepted jobs begin *)
(* in the order of their acceptance, on the threads the pool was created   *)
(* with and that no job has unwound, and each of them ends once.           *)
Executor == INSTANCE Executor WITH
    Slots <- Workers,
    Idle <- NoJob,
    pending <- channel,
    running <- job,
    ended <- {j \in Jobs : outcome[j] # "none"},
    lost <- {w \in Workers : thread[w] = "unwound"},
    open <- owner \in {"idle", "sending"}

ImplementsExecutor == Executor!Spec
=============================================================================
