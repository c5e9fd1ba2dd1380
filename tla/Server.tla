------------------------------- MODULE Server -------------------------------
(***************************************************************************)
(* crates/sith_server/src/server.rs with server/api.rs, client.rs and      *)
(* schedule.rs: the event loop reads the client's messages in order, turns *)
(* each into a task and either runs it or hands it to a thread pool with a *)
(* snapshot of its document; when the loop ends the pools are dropped.     *)
(* The pools are two Executors and the session a Documents, which Pool and *)
(* Session implement.                                                      *)
(*                                                                         *)
(* The client is external: `script` is what it sends.  A request's id, and *)
(* the text a notification gives its document, is the message's position.  *)
(* The handlers are external too: `method` says which of the task builders *)
(* of api.rs a message is routed to, and any handler of a request may fail.*)
(***************************************************************************)
EXTENDS Naturals, Sequences, FiniteSets

CONSTANTS
    Urls,           \* documents
    Messages,       \* messages the client may send
    MaxMessages,    \* bound: messages in a script
    WorkerThreads,  \* threads of the background pool
    None

Requests == {"unrouted", "refused", "local", "background", "fmt"}
Notifications == {"unrouted", "refused", "open", "change", "close"}
Answers == {"error", "value", "garbage", "null"}

ASSUME MessagesAssumption ==
    \A m \in Messages :
        \/ m.kind = "request" /\ m.method \in Requests /\ m.url \in Urls
        \/ m.kind = "notification" /\ m.method \in Notifications /\ m.url \in Urls
        \/ m.kind = "response" /\ m.id \in Nat /\ m.answer \in Answers
        \/ m.kind \in {"shutdown", "exit"}
ASSUME ServerAssumption ==
    MaxMessages \in Nat /\ WorkerThreads # {} /\ None \notin Nat \cup {"unit", "value"}

VARIABLES
    script,             \* the client's messages
    closes,             \* whether the client then closes the connection
    at,                 \* the next message
    loop,               \* where the event loop is
    result,             \* what it returned
    spawning,           \* the task a blocked spawn holds
    responses,          \* ids of the requests answered, in order
    response_handlers,  \* Requester: type of the result expected for each id
    next_request_id,
    called,             \* ids whose handler ran, in order
    documents, copies,  \* Documents
    read,               \* the text a background request was computed from
    failed,             \* ids of the requests whose answer was lost to a panic
    bgPending, bgRunning, bgEnded, bgLost, bgOpen,      \* background_pool
    fmtPending, fmtRunning, fmtEnded, fmtLost, fmtOpen  \* fmt_pool

clientVars == <<script, closes>>
requesterVars == <<response_handlers, next_request_id, called>>
sessionVars == <<documents, copies>>
bgVars == <<bgPending, bgRunning, bgEnded, bgLost, bgOpen>>
fmtVars == <<fmtPending, fmtRunning, fmtEnded, fmtLost, fmtOpen>>
poolVars == <<bgVars, fmtVars>>
vars == <<clientVars, at, loop, result, spawning, responses, requesterVars,
          sessionVars, read, failed, poolVars>>

Ids == 1..MaxMessages

(* Mutant: a second thread for formatting. *)
FmtThreadsTwo == {1, 2}

FmtThreads == {1}

(* The capacity of a pool's channel (see Pool). *)
Capacity(threads) == IF Cardinality(threads) < 2 THEN 2 ELSE 4

Store == INSTANCE Documents WITH Texts <- Ids, Tasks <- Ids
Background == INSTANCE Executor WITH Jobs <- Ids, Slots <- WorkerThreads, Idle <- None,
    pending <- bgPending, running <- bgRunning, ended <- bgEnded, lost <- bgLost,
    open <- bgOpen
Fmt == INSTANCE Executor WITH Jobs <- Ids, Slots <- FmtThreads, Idle <- None,
    pending <- fmtPending, running <- fmtRunning, ended <- fmtEnded, lost <- fmtLost,
    open <- fmtOpen

FmtRequests ==
    {i \in 1..Len(script) : script[i].kind = "request" /\ script[i].method = "fmt"}

(* The pool of a request has lost all its threads. *)
WithoutThreads(i) ==
    IF i \in FmtRequests THEN fmtLost = FmtThreads ELSE bgLost = WorkerThreads

(* The reader thread of the connection stops after an exit notification. *)
Scripts ==
    {s \in UNION {[1..n -> Messages] : n \in 0..MaxMessages} :
        \A i \in 1..Len(s) - 1 : s[i].kind # "exit"}

Init ==
    /\ script \in Scripts
    /\ closes \in BOOLEAN
    /\ (\E i \in 1..Len(script) : script[i].kind = "exit") => closes
    /\ at = 1
    /\ loop = "register"
    /\ result = None
    /\ spawning = None
    /\ responses = <<>>
    /\ response_handlers = [i \in {1} |-> None]
    /\ next_request_id = 1
    /\ called = <<>>
    /\ Store!Init
    /\ read = [i \in Ids |-> None]
    /\ failed = {}
    /\ Background!Init
    /\ Fmt!Init

Exhausted == at > Len(script)

Routed(kind, method) ==
    /\ loop = "receive"
    /\ ~Exhausted
    /\ script[at].kind = kind
    /\ script[at].method = method
-----------------------------------------------------------------------------
(* try_register_capabilities: a request to a client that supports it. *)
Register ==
    /\ loop = "register"
    /\ loop' = "receive"
    /\ \/ UNCHANGED requesterVars
       \/ \E type \in {"unit", "value"} :
             /\ response_handlers' = [response_handlers EXCEPT ![next_request_id] = type]
             /\ next_request_id' = next_request_id + 1
             /\ UNCHANGED called
    /\ UNCHANGED <<clientVars, at, result, spawning, responses, sessionVars, read, failed, poolVars>>

(* A method without a handler: Task::nothing, and no answer. *)
ReceiveUnrouted ==
    /\ Routed("request", "unrouted") \/ Routed("notification", "unrouted")
    /\ at' = at + 1
    /\ UNCHANGED <<clientVars, loop, result, spawning, responses, requesterVars,
                   sessionVars, read, failed, poolVars>>

(* Parameters that do not parse: a request's answer would be               *)
(* Task::immediate, but formatting the error, for the log or the answer,   *)
(* unwraps a source that it does not have.                                 *)
ReceiveRefused ==
    /\ Routed("request", "refused") \/ Routed("notification", "refused")
    /\ at' = at + 1
    /\ loop' = "drop_fmt"
    /\ result' = "panicked"
    /\ UNCHANGED <<clientVars, spawning, responses, requesterVars, sessionVars, read, failed, poolVars>>

(* Mutant: a local request is handed to the pool as well. *)
ReceiveLocalTwice ==
    /\ Routed("request", "local")
    /\ at' = at + 1
    /\ responses' = Append(responses, at)
    /\ IF documents[script[at].url] # None
       THEN Store!TakeSnapshot(at, script[at].url)
       ELSE UNCHANGED sessionVars
    /\ spawning' = at
    /\ loop' = "spawn"
    /\ UNCHANGED <<clientVars, result, requesterVars, read, failed, poolVars>>

(* local_request_task: run on the event loop, and answered with a value or *)
(* an error that has a source.                                             *)
ReceiveLocal ==
    /\ Routed("request", "local")
    /\ at' = at + 1
    /\ responses' = Append(responses, at)
    /\ UNCHANGED <<clientVars, loop, result, spawning, requesterVars, sessionVars, read, failed, poolVars>>

(* The handler returns an error without a source: formatting it for the    *)
(* answer unwinds the event loop.                                          *)
ReceiveLocalFails ==
    /\ Routed("request", "local")
    /\ at' = at + 1
    /\ failed' = failed \cup {at}
    /\ loop' = "drop_fmt"
    /\ result' = "panicked"
    /\ UNCHANGED <<clientVars, spawning, responses, requesterVars, sessionVars, read, poolVars>>

(* background_request_task: the builder takes the snapshot on the event    *)
(* loop; without a document the task does nothing, and never answers.      *)
ReceiveBackground ==
    /\ Routed("request", "background") \/ Routed("request", "fmt")
    /\ at' = at + 1
    /\ IF documents[script[at].url] # None
       THEN Store!TakeSnapshot(at, script[at].url)
       ELSE UNCHANGED sessionVars
    /\ spawning' = at
    /\ loop' = "spawn"
    /\ UNCHANGED <<clientVars, result, responses, requesterVars, read, failed, poolVars>>

(* Scheduler::dispatch blocks in spawn while the channel is full. *)
Spawn ==
    /\ loop = "spawn"
    /\ IF script[spawning].method = "fmt"
       THEN Len(fmtPending) < Capacity(FmtThreads) /\ Fmt!Submit(spawning) /\ UNCHANGED bgVars
       ELSE Len(bgPending) < Capacity(WorkerThreads) /\ Background!Submit(spawning) /\ UNCHANGED fmtVars
    /\ spawning' = None
    /\ loop' = "receive"
    /\ UNCHANGED <<clientVars, at, result, responses, requesterVars, sessionVars, read, failed>>

(* With the threads of the pool gone `send().unwrap()` unwinds the loop;   *)
(* the task is dropped with its snapshot.                                  *)
SpawnFails ==
    /\ loop = "spawn"
    /\ WithoutThreads(spawning)
    /\ IF copies[spawning] # None THEN Store!DropSnapshot(spawning) ELSE UNCHANGED sessionVars
    /\ spawning' = None
    /\ loop' = "drop_fmt"
    /\ result' = "panicked"
    /\ UNCHANGED <<clientVars, at, responses, requesterVars, read, failed, poolVars>>

(* local_notification_task: the session is changed on the event loop. *)
ReceiveNotification ==
    /\ \/ Routed("notification", "open") /\ Store!Open(script[at].url, at)
       \/ Routed("notification", "change") /\ Store!Change(script[at].url, at)
       \/ Routed("notification", "close") /\ Store!Close(script[at].url)
    /\ at' = at + 1
    /\ UNCHANGED <<clientVars, loop, result, spawning, responses, requesterVars, read, failed, poolVars>>

(* The session's error for a document that is not open: the task logs it,  *)
(* and it has no source either.                                            *)
NotificationFails ==
    /\ Routed("notification", "change") \/ Routed("notification", "close")
    /\ documents[script[at].url] = None
    /\ at' = at + 1
    /\ loop' = "drop_fmt"
    /\ result' = "panicked"
    /\ UNCHANGED <<clientVars, spawning, responses, requesterVars, sessionVars, read, failed, poolVars>>

(* The handlers left by the lookup of one of them. *)
Popped(id) == [response_handlers EXCEPT ![id] = None]

(* pop_response_task: an error, or a result that does not parse, is        *)
(* logged.  Without a result a handler of `()` is called all the same (its *)
(* own task is dropped there; the only handler returns Task::nothing).     *)
ReceiveResponse ==
    /\ loop = "receive"
    /\ ~Exhausted
    /\ script[at].kind = "response"
    /\ LET id == script[at].id
           type == IF id \in DOMAIN response_handlers THEN response_handlers[id] ELSE None
           calls == \/ type = "value" /\ script[at].answer = "value"
                    \/ type = "unit" /\ script[at].answer = "null"
       IN  /\ response_handlers' = IF type = None THEN response_handlers ELSE Popped(id)
           /\ called' = IF calls THEN Append(called, id) ELSE called
    /\ at' = at + 1
    /\ UNCHANGED <<clientVars, loop, result, spawning, responses, next_request_id,
                   sessionVars, read, failed, poolVars>>

(* An exit notification without a shutdown is a method without a handler. *)
ReceiveExit ==
    /\ loop = "receive"
    /\ ~Exhausted
    /\ script[at].kind = "exit"
    /\ at' = at + 1
    /\ UNCHANGED <<clientVars, loop, result, spawning, responses, requesterVars,
                   sessionVars, read, failed, poolVars>>

(* Connection::handle_shutdown answers, and waits for the exit. *)
ReceiveShutdown ==
    /\ loop = "receive"
    /\ ~Exhausted
    /\ script[at].kind = "shutdown"
    /\ at' = at + 1
    /\ responses' = Append(responses, at)
    /\ loop' = "exiting"
    /\ UNCHANGED <<clientVars, result, spawning, requesterVars, sessionVars, read, failed, poolVars>>

(* Mutant: an error of handle_shutdown is ignored, and the loop goes on. *)
LeaveShutdownContinues ==
    /\ loop = "exiting"
    /\ \/ /\ ~Exhausted
          /\ at' = at + 1
          /\ IF script[at].kind = "exit"
             THEN loop' = "drop_fmt" /\ result' = "ok"
             ELSE loop' = "receive" /\ UNCHANGED result
       \/ UNCHANGED <<at, result>> /\ loop' = "receive"
    /\ UNCHANGED <<clientVars, spawning, responses, requesterVars, sessionVars, read, failed, poolVars>>

(* The exit, another message (a protocol error), or 30 seconds without one. *)
LeaveShutdown ==
    /\ loop = "exiting"
    /\ loop' = "drop_fmt"
    /\ \/ /\ ~Exhausted
          /\ at' = at + 1
          /\ result' = IF script[at].kind = "exit" THEN "ok" ELSE "error"
       \/ UNCHANGED at /\ result' = "error"
    /\ UNCHANGED <<clientVars, spawning, responses, requesterVars, sessionVars, read, failed, poolVars>>

(* The connection is closed: the iterator over its messages ends. *)
Disconnect ==
    /\ loop = "receive"
    /\ Exhausted
    /\ closes
    /\ loop' = "drop_fmt"
    /\ result' = "ok"
    /\ UNCHANGED <<clientVars, at, spawning, responses, requesterVars, sessionVars, read, failed, poolVars>>
-----------------------------------------------------------------------------
(* Drop of the scheduler: fmt_pool and then background_pool.  Each closes  *)
(* its channel and waits for its threads (see Pool!Drop and Pool!Join).    *)
(* The join of an unwound thread unwinds the loop in turn; the other pool  *)
(* is dropped all the same.                                                *)

DropFmt ==
    /\ loop = "drop_fmt"
    /\ Fmt!Close
    /\ loop' = "join_fmt"
    /\ UNCHANGED <<clientVars, at, result, spawning, responses, requesterVars, sessionVars,
                   read, failed, bgVars>>

(* The queue of a pool without threads is dropped, by the last of its      *)
(* receivers or with its sender; here one snapshot at a time.              *)
Discard ==
    \E i \in Ids :
        /\ i \in Fmt!Queued \cup Background!Queued
        /\ WithoutThreads(i)
        /\ Store!DropSnapshot(i)
        /\ UNCHANGED <<clientVars, at, loop, result, spawning, responses, requesterVars,
                       read, failed, poolVars>>

JoinFmt ==
    /\ loop = "join_fmt"
    /\ Fmt!Running = {None}
    /\ fmtPending = <<>> \/ fmtLost = FmtThreads
    /\ \A i \in Fmt!Queued : copies[i] = None
    /\ loop' = "drop_background"
    /\ result' = IF fmtLost = {} THEN result ELSE "panicked"
    /\ UNCHANGED <<clientVars, at, spawning, responses, requesterVars, sessionVars,
                   read, failed, poolVars>>

DropBackground ==
    /\ loop = "drop_background"
    /\ Background!Close
    /\ loop' = "join_background"
    /\ UNCHANGED <<clientVars, at, result, spawning, responses, requesterVars, sessionVars,
                   read, failed, fmtVars>>

(* Mutant: the threads are detached. *)
JoinBackgroundDetached ==
    /\ loop = "join_background"
    /\ loop' = "ended"
    /\ UNCHANGED <<clientVars, at, result, spawning, responses, requesterVars, sessionVars,
                   read, failed, poolVars>>

JoinBackground ==
    /\ loop = "join_background"
    /\ Background!Running = {None}
    /\ bgPending = <<>> \/ bgLost = WorkerThreads
    /\ \A i \in Background!Queued : copies[i] = None
    /\ loop' = "ended"
    /\ result' = IF bgLost = {} THEN result ELSE "panicked"
    /\ UNCHANGED <<clientVars, at, spawning, responses, requesterVars, sessionVars,
                   read, failed, poolVars>>
-----------------------------------------------------------------------------
BeginBackground(w) ==
    /\ Background!Begin(w)
    /\ UNCHANGED <<clientVars, at, loop, result, spawning, responses, requesterVars,
                   sessionVars, read, failed, fmtVars>>

BeginFmt(w) ==
    /\ Fmt!Begin(w)
    /\ UNCHANGED <<clientVars, at, loop, result, spawning, responses, requesterVars,
                   sessionVars, read, failed, bgVars>>

(* Mutant: the handler reads the session instead of its snapshot. *)
TextReadLive(i) == documents[script[i].url]

(* run_with_snapshot computes its result from the snapshot. *)
TextRead(i) == copies[i]

(* The closure of a task: run_with_snapshot and respond, with a value or   *)
(* an error that has a source, and the drop of the snapshot; nothing       *)
(* without one.                                                            *)
Answer(i) ==
    IF copies[i] = None
    THEN UNCHANGED <<responses, read, sessionVars>>
    ELSE /\ read' = [read EXCEPT ![i] = TextRead(i)]
         /\ responses' = Append(responses, i)
         /\ Store!DropSnapshot(i)

(* The handler returns an error without a source: respond formats it, and  *)
(* the closure unwinds without an answer.                                  *)
Fail(i) ==
    /\ read' = [read EXCEPT ![i] = TextRead(i)]
    /\ failed' = failed \cup {i}
    /\ Store!DropSnapshot(i)
    /\ UNCHANGED responses

FinishBackground(w) ==
    /\ Background!End(w)
    /\ Answer(bgRunning[w])
    /\ UNCHANGED <<clientVars, at, loop, result, spawning, requesterVars, failed, fmtVars>>

FinishFmt(w) ==
    /\ Fmt!End(w)
    /\ Answer(fmtRunning[w])
    /\ UNCHANGED <<clientVars, at, loop, result, spawning, requesterVars, failed, bgVars>>

FailBackground(w) ==
    /\ Background!Unwind(w)
    /\ Fail(bgRunning[w])
    /\ UNCHANGED <<clientVars, at, loop, result, spawning, requesterVars, fmtVars>>

FailFmt(w) ==
    /\ Fmt!Unwind(w)
    /\ Fail(fmtRunning[w])
    /\ UNCHANGED <<clientVars, at, loop, result, spawning, requesterVars, bgVars>>

(* The loop has ended, or waits for a client that keeps silent. *)
AtRest ==
    /\ loop = "ended" \/ (loop = "receive" /\ Exhausted /\ ~closes)
    /\ UNCHANGED vars

Loop ==
    \/ Register \/ ReceiveUnrouted \/ ReceiveRefused \/ ReceiveLocal \/ ReceiveLocalFails
    \/ ReceiveBackground \/ Spawn \/ SpawnFails \/ ReceiveNotification \/ NotificationFails
    \/ ReceiveResponse \/ ReceiveExit \/ ReceiveShutdown \/ LeaveShutdown \/ Disconnect
    \/ DropFmt \/ JoinFmt \/ DropBackground \/ JoinBackground \/ Discard

Thread(w) == BeginBackground(w) \/ FinishBackground(w) \/ FailBackground(w)
FmtThread(w) == BeginFmt(w) \/ FinishFmt(w) \/ FailFmt(w)

Next ==
    \/ Loop
    \/ \E w \in WorkerThreads : Thread(w)
    \/ \E w \in FmtThreads : FmtThread(w)
    \/ AtRest

(* The event loop and the pools' threads are threads of the system. *)
Fairness ==
    /\ WF_vars(Loop)
    /\ \A w \in WorkerThreads : WF_vars(Thread(w))
    /\ \A w \in FmtThreads : WF_vars(FmtThread(w))

Spec == Init /\ [][Next]_vars /\ Fairness
-----------------------------------------------------------------------------
(* The type invariant. *)
TypeOK ==
    /\ at \in 1..Len(script) + 1
    /\ loop \in {"register", "receive", "spawn", "exiting", "drop_fmt", "join_fmt",
                 "drop_background", "join_background", "ended"}
    /\ result \in {None, "ok", "error", "panicked"}
    /\ spawning \in Ids \cup {None}
    /\ responses \in Seq(Ids)
    /\ documents \in [Urls -> Ids \cup {None}]
    /\ copies \in [Ids -> Ids \cup {None}]
    /\ read \in [Ids -> Ids \cup {None}]
    /\ failed \subseteq Ids
    /\ bgLost \subseteq WorkerThreads
    /\ fmtLost \subseteq FmtThreads

Answered(i) == \E n \in 1..Len(responses) : responses[n] = i

(* The text of a document after the first messages of the script: that of  *)
(* the last message that opened or changed it, if it is open then.         *)
TextBefore(u, i) ==
    LET about(methods) == {n \in 1..i - 1 : /\ script[n].kind = "notification"
                                            /\ script[n].method \in methods
                                            /\ script[n].url = u}
        last(S) == CHOOSE n \in S : \A m \in S : m <= n
        toggles == about({"open", "close"})
    IN  IF toggles = {} THEN None
        ELSE IF script[last(toggles)].method = "close" THEN None
        ELSE last(about({"open", "change"}))

(* A request in the background is computed from the document as the        *)
(* messages before the request left it, not from what came later and not   *)
(* from an older state, however late its thread runs (take_snapshot in the *)
(* task's builder).                                                        *)
ReadsRequestedText ==
    \A i \in Ids : read[i] # None => read[i] = TextBefore(script[i].url, i)

(* No request is answered twice, whichever task and thread answers it, and *)
(* nothing but requests is answered (respond); the handler of a response   *)
(* runs at most once, however many the client sends (pop_response_task).   *)
ServedOnce ==
    /\ \A m, n \in 1..Len(called) : called[m] = called[n] => m = n
    /\ \A m, n \in 1..Len(responses) : responses[m] = responses[n] => m = n
    /\ \A n \in 1..Len(responses) : script[responses[n]].kind \in {"request", "shutdown"}

(* Formatting requests are answered in the order they came: they have a    *)
(* pool of one thread (FMT_THREADS).                                       *)
FmtAnswersInOrder ==
    \A m, n \in 1..Len(responses) :
        /\ m < n
        /\ \A k \in {m, n} : script[responses[k]].kind = "request" /\ script[responses[k]].method = "fmt"
        => responses[m] < responses[n]

(* However the loop ends, a request it accepted whose document was open    *)
(* holds no snapshot any more, and it is answered unless its handler       *)
(* failed with an error that cannot be formatted, or such failures left    *)
(* its pool without threads: dropping the scheduler drains both pools.     *)
(* And no failure is lost: one on a pool's thread, too, ends up in the     *)
(* result of the loop.                                                     *)
EndsDrained ==
    loop = "ended" =>
        /\ \A i \in 1..at - 1 :
              /\ script[i].kind = "request" /\ script[i].method \in {"background", "fmt"}
              /\ \A k \in 1..i : script[k].kind # "shutdown"
              /\ TextBefore(script[i].url, i) # None
              => copies[i] = None /\ (Answered(i) \/ i \in failed \/ WithoutThreads(i))
        /\ failed # {} => result = "panicked"

(* Nothing hangs.  A request that holds a snapshot is answered in the end, *)
(* unless its handler fails or its pool has lost all its threads, also     *)
(* when the loop blocks on a full pool, panics or shuts down.  A blocked   *)
(* spawn returns, though the threads unwind one by one.  A shutdown, a     *)
(* closed connection or a panic ends the loop, which waits for the tasks   *)
(* that still run and for nothing else.                                    *)
NothingHangs ==
    /\ \A i \in Ids : copies[i] # None ~> Answered(i) \/ i \in failed \/ WithoutThreads(i)
    /\ loop = "spawn" ~> loop # "spawn"
    /\ loop \in {"exiting", "drop_fmt"} ~> loop = "ended"
=============================================================================
