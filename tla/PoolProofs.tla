----------------------------- MODULE PoolProofs -----------------------------
(***************************************************************************)
(* Proofs about Pool for any number of workers, jobs and panics.           *)
(***************************************************************************)
EXTENDS Pool, FiniteSetTheorems, SequenceTheorems, TLAPS

(* How the state of the owner and of the threads constrains the rest. *)
Coupling ==
    /\ owner = "sending" => sending # NoJob
    /\ owner \in {"idle", "joining", "joined"} => sending = NoJob
    /\ \A w \in Workers : thread[w] \in {"start", "run"} <=> job[w] # NoJob
    /\ \A w \in Workers :
          thread[w] = "exited" => channel = <<>> /\ owner \notin {"idle", "sending"}
    /\ owner = "joined" => \A w \in Workers : thread[w] = "exited"
    /\ \A j \in Jobs : outcome[j] = "panic" => \E w \in Workers : thread[w] = "unwound"

(* The inductive invariant: extant_tasks is only known to be a natural     *)
(* number because it counts threads, and a job is only known to have one   *)
(* holder because a thread that waits on the channel holds none.           *)
PoolInv == TypeOK /\ OneHolder /\ ExtantCount /\ RunsAtRequestedPriority /\ Coupling
-----------------------------------------------------------------------------
(* The elements of a sequence before and after an append. *)
LEMMA AppendElements ==
    ASSUME NEW S, NEW s \in Seq(S), NEW e \in S
    PROVE  {Append(s, e)[i] : i \in 1..Len(Append(s, e))} = {s[i] : i \in 1..Len(s)} \cup {e}
<1> DEFINE t == Append(s, e)
<1>1. /\ Len(t) = Len(s) + 1
      /\ \A i \in 1..Len(s) : t[i] = s[i]
      /\ t[Len(s) + 1] = e
      /\ Len(s) \in Nat
  BY AppendProperties, LenProperties
<1>2. ASSUME NEW x PROVE (\E i \in 1..Len(t) : x = t[i]) <=> (\E i \in 1..Len(s) : x = s[i]) \/ x = e
  <2>1. 1..Len(t) = 1..Len(s) \cup {Len(s) + 1}
    BY <1>1
  <2> QED
    BY <1>1, <2>1
<1> QED
  BY <1>2

(* The elements of a duplicate-free sequence without its head. *)
LEMMA TailElements ==
    ASSUME NEW S, NEW s \in Seq(S), s # <<>>,
           \A i, k \in 1..Len(s) : i # k => s[i] # s[k]
    PROVE  /\ {Tail(s)[i] : i \in 1..Len(Tail(s))} = {s[i] : i \in 1..Len(s)} \ {Head(s)}
           /\ Head(s) \in {s[i] : i \in 1..Len(s)}
           /\ \A i, k \in 1..Len(Tail(s)) : i # k => Tail(s)[i] # Tail(s)[k]
<1> DEFINE t == Tail(s)
<1>1. /\ Len(s) \in Nat \ {0}
      /\ Len(t) = Len(s) - 1
      /\ \A i \in 1..Len(t) : t[i] = s[i + 1]
  BY HeadTailProperties, EmptySeq, LenProperties
<1>2. Head(s) = s[1]
  OBVIOUS
<1>3. \A i, k \in 1..Len(t) : i # k => t[i] # t[k]
  BY <1>1
<1>4. ASSUME NEW x
      PROVE (\E i \in 1..Len(t) : x = t[i]) <=> (\E i \in 1..Len(s) : x = s[i]) /\ x # s[1]
  <2>1. ASSUME NEW i \in 1..Len(t), x = t[i] PROVE (\E k \in 1..Len(s) : x = s[k]) /\ x # s[1]
    <3>1. i + 1 \in 1..Len(s) /\ i + 1 # 1 /\ 1 \in 1..Len(s)
      BY <1>1
    <3> QED
      BY <1>1, <2>1, <3>1
  <2>2. ASSUME NEW k \in 1..Len(s), x = s[k], x # s[1] PROVE \E i \in 1..Len(t) : x = t[i]
    <3>1. k - 1 \in 1..Len(t) /\ (k - 1) + 1 = k
      BY <1>1, <2>2
    <3> QED
      BY <1>1, <2>2, <3>1
  <2> QED
    BY <2>1, <2>2
<1>5. Head(s) \in {s[i] : i \in 1..Len(s)}
  BY <1>1, <1>2
<1>6. {t[i] : i \in 1..Len(t)} = {s[i] : i \in 1..Len(s)} \ {Head(s)}
  <2> DEFINE A == {t[i] : i \in 1..Len(t)}
             B == {s[i] : i \in 1..Len(s)}
  <2>1. \A x : x \in A <=> x \in B /\ x # s[1]
    BY <1>4
  <2> HIDE DEF A, B
  <2>2. A = B \ {s[1]}
    BY <2>1
  <2> QED
    BY <1>2, <2>2 DEF A, B
<1> QED
  BY <1>3, <1>5, <1>6
-----------------------------------------------------------------------------
(* The initial state of Pool::new satisfies the invariant. *)
LEMMA PoolInvInit == Init => PoolInv
<1> SUFFICES ASSUME Init PROVE PoolInv
  OBVIOUS
<1>1. TypeOK
  BY JobsAssumption DEF Init, TypeOK, Priorities
<1>2. Waiting = {} /\ Held = {}
  BY DEF Init, Waiting, Held
<1>3. OneHolder
  BY <1>2, JobsAssumption DEF Init, OneHolder
<1>4. {w \in Workers : thread[w] \in {"run", "unwound"}} = {}
  BY DEF Init
<1>5. ExtantCount
  BY <1>4, FS_EmptySet DEF Init, ExtantCount
<1>6. Coupling /\ RunsAtRequestedPriority
  BY DEF Init, Coupling, RunsAtRequestedPriority
<1> QED
  BY <1>1, <1>3, <1>5, <1>6 DEF PoolInv

(* A thread enters or leaves the set that extant_tasks counts one at a time. *)
LEMMA CountedThreads ==
    ASSUME TypeOK, NEW w \in Workers
    PROVE  LET C == {v \in Workers : thread[v] \in {"run", "unwound"}}
           IN  /\ IsFiniteSet(C)
               /\ Cardinality(C) \in Nat
               /\ w \notin C => Cardinality(C \cup {w}) = Cardinality(C) + 1
               /\ w \in C => Cardinality(C \ {w}) = Cardinality(C) - 1
               /\ w \in C => Cardinality(C) # 0
<1> DEFINE C == {v \in Workers : thread[v] \in {"run", "unwound"}}
<1>1. C \in SUBSET Workers
  OBVIOUS
<1>2. IsFiniteSet(C)
  BY <1>1, FS_Subset, WorkersAssumption
<1> HIDE DEF C
<1>3. Cardinality(C) \in Nat /\ (w \in C => Cardinality(C) # 0)
  BY <1>2, FS_CardinalityType, FS_EmptySet
<1>4. /\ w \notin C => Cardinality(C \cup {w}) = Cardinality(C) + 1
      /\ w \in C => Cardinality(C \ {w}) = Cardinality(C) - 1
  BY <1>2, FS_AddElement, FS_RemoveElement
<1> QED
  BY <1>2, <1>3, <1>4 DEF C

(* Steps of the owner of the pool keep the invariant. *)
LEMMA OwnerInv == PoolInv /\ Owner => PoolInv'
<1> SUFFICES ASSUME PoolInv, Owner PROVE PoolInv'
  OBVIOUS
<1> USE DEF PoolInv, ownerVars, workerVars
<1> USE JobsAssumption
<1>1. ASSUME NEW j \in Jobs, Spawn(j) PROVE PoolInv'
  <2>1. TypeOK'
    BY <1>1 DEF TypeOK, Spawn
  <2>2. Waiting' = Waiting /\ Held' = Held
    BY <1>1 DEF Spawn, Waiting, Held
  <2>3. OneHolder'
    BY <1>1, <2>2 DEF Spawn, OneHolder, Coupling, TypeOK
  <2>4. ExtantCount' /\ RunsAtRequestedPriority' /\ Coupling'
    BY <1>1 DEF Spawn, ExtantCount, RunsAtRequestedPriority, Coupling
  <2> QED
    BY <2>1, <2>3, <2>4
<1>2. CASE Send
  <2>1. sending \in Jobs /\ channel \in Seq(Jobs) /\ Len(channel) \in Nat
    BY <1>2, LenProperties DEF Send, TypeOK, Coupling
  <2>2. /\ channel' \in Seq(Jobs) /\ channel' # <<>>
        /\ Len(channel') = Len(channel) + 1
        /\ \A i \in 1..Len(channel) : channel'[i] = channel[i]
        /\ channel'[Len(channel) + 1] = sending
    BY <1>2, <2>1, AppendProperties DEF Send
  <2>3. Waiting' = Waiting \cup {sending} /\ Held' = Held
    BY <1>2, <2>1, AppendElements DEF Send, Waiting, Held
  <2>4. TypeOK'
    BY <1>2, <2>2 DEF Send, TypeOK
  <2>5. \A i, k \in 1..Len(channel') : i # k => channel'[i] # channel'[k]
    <3>1. \A i \in 1..Len(channel) : channel[i] # sending
      BY DEF OneHolder, Waiting
    <3>2. \A i, k \in 1..Len(channel) : i # k => channel[i] # channel[k]
      BY DEF OneHolder
    <3> QED
      BY <2>1, <2>2, <3>1, <3>2
  <2>6. OneHolder'
    <3>1. NoJob \notin Waiting \cup {sending} \cup Held
      BY <2>1 DEF Waiting, Held
    <3> QED
      BY <1>2, <2>1, <2>3, <2>5, <3>1 DEF Send, OneHolder
  <2>7. ExtantCount' /\ RunsAtRequestedPriority' /\ Coupling'
    BY <1>2, <2>2 DEF Send, ExtantCount, RunsAtRequestedPriority, Coupling
  <2> QED
    BY <2>4, <2>6, <2>7
<1>3. CASE SendDisconnected \/ Drop
  <2>1. TypeOK'
    BY <1>3 DEF TypeOK, SendDisconnected, Drop
  <2>2. Waiting' = Waiting /\ Held' = Held
    BY <1>3 DEF SendDisconnected, Drop, Waiting, Held
  <2>3. OneHolder'
    BY <1>3, <2>2 DEF SendDisconnected, Drop, OneHolder
  <2>4. ExtantCount' /\ RunsAtRequestedPriority'
    BY <1>3 DEF SendDisconnected, Drop, ExtantCount, RunsAtRequestedPriority
  <2>5. Coupling'
    BY <1>3 DEF SendDisconnected, Drop, Coupling
  <2> QED
    BY <2>1, <2>3, <2>4, <2>5
<1>4. CASE Join
  <2>1. TypeOK'
    BY <1>4 DEF TypeOK, Join
  <2>2. Waiting' = Waiting /\ Held' = Held
    BY <1>4 DEF Join, Waiting, Held
  <2>3. OneHolder'
    BY <1>4, <2>2 DEF Join, OneHolder
  <2>4. ExtantCount' /\ RunsAtRequestedPriority'
    BY <1>4 DEF Join, ExtantCount, RunsAtRequestedPriority
  <2>5. \A w \in Workers : thread[w] \in {"exited", "unwound"}
    BY <1>4 DEF Join, Alive, TypeOK
  <2>6. Coupling'
    BY <1>4, <2>5 DEF Join, Coupling
  <2> QED
    BY <2>1, <2>3, <2>4, <2>6
<1> QED
  BY <1>1, <1>2, <1>3, <1>4 DEF Owner

(* Steps of a worker thread keep the invariant. *)
LEMMA WorkerInv == ASSUME PoolInv, NEW w \in Workers, Worker(w) PROVE PoolInv'
<1> USE DEF PoolInv, ownerVars, workerVars
<1> USE JobsAssumption
<1> DEFINE C == {v \in Workers : thread[v] \in {"run", "unwound"}}
<1>1. CASE Receive(w)
  <2> DEFINE h == Head(channel)
  <2>1. \A i, k \in 1..Len(channel) : i # k => channel[i] # channel[k]
    BY DEF OneHolder
  <2>2. /\ channel \in Seq(Jobs) /\ channel # <<>>
        /\ h \in Jobs /\ Tail(channel) \in Seq(Jobs)
    BY <1>1, HeadTailProperties DEF Receive, TypeOK
  <2>3. /\ Waiting' = Waiting \ {h}
        /\ h \in Waiting
        /\ \A i, k \in 1..Len(channel') : i # k => channel'[i] # channel'[k]
    <3>1. channel' = Tail(channel)
      BY <1>1 DEF Receive
    <3>2. /\ {Tail(channel)[i] : i \in 1..Len(Tail(channel))} = Waiting \ {h}
          /\ h \in Waiting
          /\ \A i, k \in 1..Len(Tail(channel)) : i # k => Tail(channel)[i] # Tail(channel)[k]
      BY <2>1, <2>2, TailElements DEF Waiting
    <3> QED
      BY <3>1, <3>2 DEF Waiting
  <2>4. job[w] = NoJob
    BY <1>1 DEF Receive, Coupling
  <2>5. Held' = Held \cup {h}
    BY <1>1, <2>2, <2>4 DEF Receive, Held, TypeOK
  <2>6. TypeOK'
    BY <1>1, <2>2 DEF Receive, TypeOK
  <2>7. \A v \in Workers : job[v] # h
    BY <2>2, <2>3 DEF OneHolder, Held
  <2>8. OneHolder'
    <3>1. \A u, v \in Workers : u # v /\ job'[u] # NoJob => job'[u] # job'[v]
      BY <1>1, <2>2, <2>7 DEF Receive, OneHolder, TypeOK
    <3>2. NoJob # h /\ sending # h /\ outcome[h] = "none"
      BY <2>2, <2>3 DEF OneHolder, TypeOK
    <3> QED
      BY <1>1, <2>3, <2>5, <3>1, <3>2 DEF Receive, OneHolder
  <2>9. C' = C
    BY <1>1 DEF Receive, TypeOK
  <2>10. ExtantCount' /\ RunsAtRequestedPriority'
    BY <1>1, <2>9 DEF Receive, ExtantCount, RunsAtRequestedPriority, TypeOK
  <2>11. Coupling'
    BY <1>1, <2>2 DEF Receive, Coupling, TypeOK
  <2> QED
    BY <2>6, <2>8, <2>10, <2>11
<1>2. CASE Start(w)
  <2>1. TypeOK'
    BY <1>2 DEF Start, TypeOK, Coupling
  <2>2. OneHolder'
    BY <1>2 DEF Start, OneHolder, Waiting, Held
  <2>3. w \notin C /\ C' = C \cup {w}
    BY <1>2 DEF Start, TypeOK
  <2>4. ExtantCount'
    BY <1>2, <2>3, CountedThreads DEF Start, ExtantCount
  <2>5. RunsAtRequestedPriority' /\ Coupling'
    BY <1>2 DEF Start, TypeOK, RunsAtRequestedPriority, Coupling
  <2> QED
    BY <2>1, <2>2, <2>4, <2>5
<1>3. ASSUME thread[w] = "run",
             job' = [job EXCEPT ![w] = NoJob],
             NEW o \in {"ok", "panic"}, outcome' = [outcome EXCEPT ![job[w]] = o],
             UNCHANGED <<ownerVars, channel>>
      PROVE  OneHolder' /\ job[w] \in Jobs
  <2>1. job[w] \in Jobs /\ job[w] \in Held
    BY <1>3 DEF Coupling, TypeOK, Held
  <2>2. Waiting' = Waiting
    BY <1>3 DEF Waiting
  <2>3. \A u, v \in Workers : u # v /\ job[u] # NoJob => job[u] # job[v]
    BY DEF OneHolder
  <2>4. Held' = Held \ {job[w]}
    BY <1>3, <2>1, <2>3 DEF Held, TypeOK
  <2>5. \A u, v \in Workers : u # v /\ job'[u] # NoJob => job'[u] # job'[v]
    BY <1>3, <2>3 DEF TypeOK
  <2>6. \A j \in Jobs : outcome'[j] = IF j = job[w] THEN o ELSE outcome[j]
    BY <1>3, <2>1 DEF TypeOK
  <2>7. job[w] \notin Waiting /\ job[w] # sending
    BY <2>1 DEF OneHolder
  <2> QED
    BY <1>3, <2>1, <2>2, <2>4, <2>5, <2>6, <2>7 DEF OneHolder
<1>4. CASE Finish(w)
  <2>1. OneHolder' /\ job[w] \in Jobs
    BY <1>3, <1>4 DEF Finish
  <2>2. w \in C /\ C' = C \ {w}
    BY <1>4 DEF Finish, TypeOK
  <2>3. ExtantCount' /\ extant_tasks' \in Nat
    <3>1. /\ extant_tasks = Cardinality(C) /\ Cardinality(C) \in Nat \ {0}
          /\ Cardinality(C \ {w}) = Cardinality(C) - 1
      BY <2>2, CountedThreads DEF ExtantCount
    <3>2. Cardinality(C') = Cardinality(C) - 1
      BY <2>2, <3>1
    <3>3. extant_tasks' = extant_tasks - 1
      BY <1>4 DEF Finish
    <3> HIDE DEF C
    <3>4. extant_tasks' = Cardinality(C') /\ extant_tasks' \in Nat
      BY <3>1, <3>2, <3>3
    <3> QED
      BY <3>4 DEF ExtantCount, C
  <2>4. TypeOK'
    BY <1>4, <2>1, <2>3 DEF Finish, TypeOK
  <2>5. RunsAtRequestedPriority' /\ Coupling'
    BY <1>4, <2>1 DEF Finish, TypeOK, RunsAtRequestedPriority, Coupling
  <2> QED
    BY <2>1, <2>3, <2>4, <2>5
<1>5. CASE Panic(w)
  <2>1. OneHolder' /\ job[w] \in Jobs
    BY <1>3, <1>5 DEF Panic
  <2>2. C' = C
    BY <1>5 DEF Panic, TypeOK
  <2>3. ExtantCount'
    BY <1>5, <2>2 DEF Panic, ExtantCount
  <2>4. TypeOK'
    BY <1>5, <2>1 DEF Panic, TypeOK
  <2>5. RunsAtRequestedPriority' /\ Coupling'
    BY <1>5, <2>1 DEF Panic, TypeOK, RunsAtRequestedPriority, Coupling
  <2> QED
    BY <2>1, <2>3, <2>4, <2>5
<1>6. CASE Exit(w)
  <2>1. TypeOK'
    BY <1>6 DEF Exit, TypeOK
  <2>2. OneHolder'
    BY <1>6 DEF Exit, OneHolder, Waiting, Held
  <2>3. C' = C
    BY <1>6 DEF Exit, TypeOK
  <2>4. ExtantCount'
    BY <1>6, <2>3 DEF Exit, ExtantCount
  <2>5. RunsAtRequestedPriority' /\ Coupling'
    BY <1>6 DEF Exit, TypeOK, RunsAtRequestedPriority, Coupling
  <2> QED
    BY <2>1, <2>2, <2>4, <2>5
<1> QED
  BY <1>1, <1>2, <1>4, <1>5, <1>6 DEF Worker

(* A stuttering step keeps the invariant. *)
LEMMA StutterInv == PoolInv /\ UNCHANGED vars => PoolInv'
<1> SUFFICES ASSUME PoolInv, UNCHANGED vars PROVE PoolInv'
  OBVIOUS
<1> USE DEF PoolInv, vars, ownerVars, workerVars
<1>1. TypeOK' /\ ExtantCount'
  BY DEF TypeOK, ExtantCount
<1>2. Waiting' = Waiting /\ Held' = Held
  BY DEF Waiting, Held
<1>3. OneHolder'
  BY <1>2 DEF OneHolder
<1>4. RunsAtRequestedPriority' /\ Coupling'
  BY DEF RunsAtRequestedPriority, Coupling
<1> QED
  BY <1>1, <1>3, <1>4

(* The inductive invariant of the pool. *)
THEOREM PoolInvariant == Spec => []PoolInv
<1>1. PoolInv /\ [Next]_vars => PoolInv'
  BY OwnerInv, WorkerInv, StutterInv DEF Next, Terminated
<1> QED
  BY PoolInvInit, <1>1, PTL DEF Spec

(* Type correctness; in particular extant_tasks, an unsigned counter in    *)
(* the code, never wraps below zero.                                       *)
THEOREM TypeCorrect == Spec => []TypeOK
BY PoolInvariant, PTL DEF PoolInv

(* Every job passed to `Pool::spawn` is in exactly one place: no job is    *)
(* lost, none runs twice.                                                  *)
THEOREM JobsHaveOneHolder == Spec => []OneHolder
BY PoolInvariant, PTL DEF PoolInv

(* `Pool::len` counts the running jobs and the closures that unwound, and  *)
(* the debug assertion in the closure `spawn` boxes never fails.           *)
THEOREM WorkersStayInStep == Spec => []WorkersInStep
BY PoolInvariant, PTL DEF PoolInv, WorkersInStep

(* When the drop of a pool has joined its workers, every job that was      *)
(* spawned has run to its end.                                             *)
THEOREM JoinDrainsTheChannel == Spec => []JoinDrains
<1>1. PoolInv => JoinDrains
  <2> SUFFICES ASSUME PoolInv, owner = "joined", NEW j \in spawned PROVE outcome[j] = "ok"
    BY DEF JoinDrains
  <2>1. \A w \in Workers : thread[w] = "exited" /\ job[w] = NoJob
    BY DEF PoolInv, Coupling, TypeOK
  <2>2. PICK w \in Workers : thread[w] = "exited"
    BY <2>1, WorkersAssumption
  <2>3. channel = <<>> /\ sending = NoJob
    BY <2>2 DEF PoolInv, Coupling
  <2>4. Waiting = {} /\ Held = {}
    BY <2>1, <2>3 DEF Waiting, Held
  <2>5. j \in Jobs /\ outcome[j] \in {"none", "ok", "panic"}
    BY DEF PoolInv, TypeOK
  <2>6. outcome[j] # "none"
    BY <2>3, <2>4, <2>5, JobsAssumption DEF PoolInv, OneHolder
  <2>7. outcome[j] # "panic"
    BY <2>1, <2>5 DEF PoolInv, Coupling
  <2> QED
    BY <2>5, <2>6, <2>7
<1> QED
  BY PoolInvariant, <1>1, PTL
-----------------------------------------------------------------------------
(* The pool implements the abstract executor: what `spawn` accepts begins  *)
(* in order, on the threads that no job has unwound, and ends              *)
(* once.  Receiving a job is what begins it; a worker that waits on the    *)
(* channel holds no job, which leaves a slot free.                         *)
THEOREM PoolImplementsExecutor == Spec => ImplementsExecutor
<1>1. Init => Executor!Init
  <2> SUFFICES ASSUME Init PROVE Executor!Init
    OBVIOUS
  <2>1. {j \in Jobs : outcome[j] # "none"} = {} /\ {w \in Workers : thread[w] = "unwound"} = {}
    BY DEF Init
  <2> QED
    BY <2>1 DEF Init, Executor!Init
<1>2. PoolInv /\ [Next]_vars => [Executor!Next]_(Executor!executorVars)
  <2> SUFFICES ASSUME PoolInv, [Next]_vars
               PROVE  Executor!Next \/ UNCHANGED Executor!executorVars
    OBVIOUS
  <2> USE DEF ownerVars, workerVars
  <2> DEFINE E == {j \in Jobs : outcome[j] # "none"}
             L == {w \in Workers : thread[w] = "unwound"}
             open == owner \in {"idle", "sending"}
  <2>1. ASSUME NEW j \in Jobs, Spawn(j) PROVE UNCHANGED Executor!executorVars
    BY <2>1 DEF Spawn, Executor!executorVars
  <2>2. CASE Send
    <3>1. sending \in Jobs /\ sending \notin Waiting \cup Held \cup E
      BY <2>2 DEF Send, PoolInv, TypeOK, OneHolder, Coupling
    <3>2. /\ open = TRUE /\ open' = open
          /\ channel' = Append(channel, sending)
          /\ job' = job /\ E' = E /\ L' = L
          /\ L # Workers
      BY <2>2 DEF Send, Alive
    <3>3. sending \notin Executor!Queued \cup Executor!Running
      BY <3>1, JobsAssumption DEF Executor!Queued, Executor!Running, Waiting, Held
    <3>4. Executor!Submit(sending)
      BY <3>1, <3>2, <3>3 DEF Executor!Submit
    <3> QED
      BY <3>1, <3>4 DEF Executor!Next
  <2>3. CASE SendDisconnected \/ Drop
    <3>1. job' = job /\ E' = E /\ L' = L /\ channel' = channel
      BY <2>3 DEF SendDisconnected, Drop
    <3>2. open = TRUE /\ open' = FALSE
      BY <2>3 DEF SendDisconnected, Drop
    <3>3. Executor!Close
      BY <3>1, <3>2 DEF Executor!Close
    <3> QED
      BY <3>3 DEF Executor!Next
  <2>4. CASE Join
    <3>1. job' = job /\ E' = E /\ L' = L /\ channel' = channel
      BY <2>4 DEF Join
    <3>2. open' = open
      BY <2>4 DEF Join
    <3> QED
      BY <3>1, <3>2 DEF Executor!executorVars
  <2>5. ASSUME NEW w \in Workers, Receive(w) PROVE Executor!Next
    <3> DEFINE h == Head(channel)
    <3>1. job[w] = NoJob /\ w \notin L
      BY <2>5 DEF Receive, PoolInv, Coupling
    <3>2. h \in Jobs /\ h \in Waiting
      <4>1. channel \in Seq(Jobs) /\ channel # <<>>
        BY <2>5 DEF PoolInv, TypeOK, Receive
      <4>2. \A i, k \in 1..Len(channel) : i # k => channel[i] # channel[k]
        BY DEF PoolInv, OneHolder
      <4> QED
        BY <4>1, <4>2, TailElements, HeadTailProperties DEF Waiting
    <3>3. h \notin Executor!Running
      BY <3>2, JobsAssumption DEF PoolInv, OneHolder, Held, Executor!Running
    <3>4. /\ channel # <<>> /\ channel' = Tail(channel)
          /\ job' = [job EXCEPT ![w] = h]
          /\ E' = E /\ L' = L /\ open' = open
      BY <2>5 DEF Receive, PoolInv, TypeOK
    <3>5. Executor!Begin(w)
      BY <3>1, <3>3, <3>4 DEF Executor!Begin
    <3> QED
      BY <3>5 DEF Executor!Next
  <2>6. ASSUME NEW w \in Workers, Start(w) \/ Exit(w) PROVE UNCHANGED Executor!executorVars
    <3>1. L' = L
      BY <2>6 DEF Start, Exit, PoolInv, TypeOK
    <3> QED
      BY <2>6, <3>1 DEF Start, Exit, Executor!executorVars
  <2>7. ASSUME NEW w \in Workers, Finish(w) \/ Panic(w) PROVE Executor!Next
    <3>1. job[w] \in Jobs /\ job[w] # NoJob
      BY <2>7 DEF Finish, Panic, PoolInv, TypeOK, Coupling
    <3>2. E' = E \cup {job[w]}
      BY <2>7, <3>1 DEF Finish, Panic, PoolInv, TypeOK
    <3>3. channel' = channel /\ open' = open /\ job' = [job EXCEPT ![w] = NoJob]
      BY <2>7 DEF Finish, Panic
    <3>4. ASSUME Finish(w) PROVE Executor!End(w)
      <4>1. L' = L
        BY <3>4 DEF Finish, PoolInv, TypeOK
      <4> QED
        BY <3>1, <3>2, <3>3, <4>1 DEF Executor!End
    <3>5. ASSUME Panic(w) PROVE Executor!Unwind(w)
      <4>1. L' = L \cup {w}
        BY <3>5 DEF Panic, PoolInv, TypeOK
      <4> QED
        BY <3>1, <3>2, <3>3, <4>1 DEF Executor!Unwind
    <3> QED
      BY <2>7, <3>4, <3>5 DEF Executor!Next
  <2>8. CASE UNCHANGED vars
    BY <2>8 DEF vars, Executor!executorVars
  <2> HIDE DEF ownerVars, workerVars
  <2> QED
    BY <2>1, <2>2, <2>3, <2>4, <2>5, <2>6, <2>7, <2>8 DEF Next, Owner, Worker, Terminated
<1> QED
  BY <1>1, <1>2, PoolInvariant, PTL DEF Spec, ImplementsExecutor, Executor!Spec
=============================================================================
