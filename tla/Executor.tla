------------------------------ MODULE Executor ------------------------------
(***************************************************************************)
(* What `thread::Pool` promises its owner: jobs accepted by `spawn` wait   *)
(* in one queue, begin in the order in which they were accepted, at most   *)
(* one per slot at a time, and end once.  A job that unwinds takes its     *)
(* slot with it; nothing is accepted when no slot is left, or after the    *)
(* pool has been closed.  `Pool` implements this specification (see PoolMC *)
(* and PoolProofs).                                                        *)
(***************************************************************************)
EXTENDS Naturals, Sequences

CONSTANTS Jobs, Slots, Idle

VARIABLES
    pending,    \* accepted jobs that have not begun, oldest first
    running,    \* the job each slot runs, or Idle
    ended,      \* jobs that have ended
    lost,       \* slots whose thread a job has unwound
    open        \* the owner may still submit

executorVars == <<pending, running, ended, lost, open>>

Queued == {pending[i] : i \in 1..Len(pending)}
Running == {running[s] : s \in Slots}

Init ==
    /\ pending = <<>>
    /\ running = [s \in Slots |-> Idle]
    /\ ended = {}
    /\ lost = {}
    /\ open = TRUE

Submit(j) ==
    /\ open
    /\ lost # Slots
    /\ j \notin Queued \cup Running \cup ended
    /\ pending' = Append(pending, j)
    /\ UNCHANGED <<running, ended, lost, open>>

Begin(s) ==
    /\ pending # <<>>
    /\ s \notin lost
    /\ running[s] = Idle
    /\ Head(pending) \notin Running
    /\ running' = [running EXCEPT ![s] = Head(pending)]
    /\ pending' = Tail(pending)
    /\ UNCHANGED <<ended, lost, open>>

End(s) ==
    /\ running[s] # Idle
    /\ running' = [running EXCEPT ![s] = Idle]
    /\ ended' = ended \cup {running[s]}
    /\ UNCHANGED <<pending, lost, open>>

Unwind(s) ==
    /\ running[s] # Idle
    /\ running' = [running EXCEPT ![s] = Idle]
    /\ ended' = ended \cup {running[s]}
    /\ lost' = lost \cup {s}
    /\ UNCHANGED <<pending, open>>

Close ==
    /\ open
    /\ open' = FALSE
    /\ UNCHANGED <<pending, running, ended, lost>>

Next ==
    \/ \E j \in Jobs : Submit(j)
    \/ \E s \in Slots : Begin(s) \/ End(s) \/ Unwind(s)
    \/ Close

Spec == Init /\ [][Next]_executorVars
=============================================================================
