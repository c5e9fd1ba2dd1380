---------------------------- MODULE ServerProofs ----------------------------
(***************************************************************************)
(* Proofs about Server for any documents, messages, scripts and background *)
(* threads: what every answer is computed from, in which order and how     *)
(* often answers are given, and that the end of the loop drains the pools. *)
(***************************************************************************)
EXTENDS Server, SequenceTheorems, TLAPS

(* The elements of a sequence, and the jobs a pool has begun or will. *)
Elements(p) == {p[n] : n \in 1..Len(p)}
Held(p, r, S) == Elements(p) \cup ({r[s] : s \in S} \ {None})

(* A job of a pool waits once, runs on one thread, or has ended. *)
PoolShape(p, r, e, S) ==
    /\ p \in Seq(Ids)
    /\ r \in [S -> Ids \cup {None}]
    /\ e \in SUBSET Ids
    /\ \A m, n \in 1..Len(p) : p[m] = p[n] => m = n
    /\ \A s, t \in S : r[s] = r[t] /\ r[s] # None => s = t
    /\ \A s \in S, n \in 1..Len(p) : r[s] # p[n]
    /\ Held(p, r, S) \cap e = {}

BgHeld == Held(bgPending, bgRunning, WorkerThreads)
FmtHeld == Held(fmtPending, fmtRunning, FmtThreads)

(* The tasks that have been built and have not ended. *)
InFlight == BgHeld \cup FmtHeld \cup ({spawning} \ {None})

IsTask(i, methods) == script[i].kind = "request" /\ script[i].method \in methods

(* Types that TypeOK leaves open. *)
TypeInv ==
    /\ TypeOK
    /\ script \in Seq(Messages) /\ Len(script) <= MaxMessages
    /\ PoolShape(bgPending, bgRunning, bgEnded, WorkerThreads)
    /\ PoolShape(fmtPending, fmtRunning, fmtEnded, FmtThreads)

(* The server makes one request, whose handler is gone once it has run. *)
RequesterInv ==
    /\ response_handlers \in [{1} -> {None, "unit", "value"}]
    /\ loop = "register" => next_request_id = 1 /\ called = <<>>
    /\ called \in Seq({1})
    /\ Len(called) <= 1
    /\ called # <<>> => response_handlers[1] = None

(* The task a blocked spawn holds is that of the last message. *)
SpawnInv ==
    /\ loop = "spawn" <=> spawning # None
    /\ spawning # None => spawning = at - 1 /\ IsTask(spawning, {"background", "fmt"})

(* A pool has the requests of its kind that came before. *)
PlaceInv ==
    /\ \A i \in BgHeld \cup bgEnded :
          i < at /\ i # spawning /\ IsTask(i, {"background"})
    /\ \A i \in FmtHeld \cup fmtEnded :
          i < at /\ i # spawning /\ IsTask(i, {"fmt"})

(* While messages are handled the session is as the messages left it, and  *)
(* the tasks in flight hold what it was when their request came, unless    *)
(* their pool is without threads and drops them.                           *)
TextInv ==
    /\ loop \in {"register", "receive", "spawn"} =>
          \A u \in Urls : documents[u] = TextBefore(u, at)
    /\ \A i \in Ids :
          copies[i] = None \/ (i \in InFlight /\ copies[i] = TextBefore(script[i].url, i))
    /\ \A i \in InFlight :
          copies[i] = TextBefore(script[i].url, i) \/ WithoutThreads(i)

(* Who has been answered. *)
AnswersInv ==
    /\ \A n \in 1..Len(responses) :
          /\ responses[n] < at
          /\ script[responses[n]].kind \in {"request", "shutdown"}
          /\ IsTask(responses[n], {"background"}) => responses[n] \in bgEnded
          /\ IsTask(responses[n], {"fmt"}) => responses[n] \in fmtEnded
    /\ \A m, n \in 1..Len(responses) : responses[m] = responses[n] => m = n

(* A task with a document is in flight until it is answered or fails, and  *)
(* the loop leaves a pool behind only when it holds nothing, or is without *)
(* threads and holds no snapshot.                                          *)
Accepted(i) ==
    /\ IsTask(i, {"background", "fmt"})
    /\ \A k \in 1..i : script[k].kind # "shutdown"
    /\ TextBefore(script[i].url, i) # None

Served(i) == i \in InFlight \/ Answered(i) \/ i \in failed \/ WithoutThreads(i)

BgLeft == \A i \in BgHeld : copies[i] = None /\ bgLost = WorkerThreads
FmtLeft == \A i \in FmtHeld : copies[i] = None /\ fmtLost = FmtThreads

DrainInv ==
    /\ loop = "exiting" => at > 1 /\ script[at - 1].kind = "shutdown"
    /\ \A i \in 1..at - 1 : Accepted(i) => Served(i)
    /\ loop \in {"drop_background", "join_background", "ended"} => FmtLeft
    /\ loop = "ended" => BgLeft

(* A failure has unwound a thread or the loop, and the join of an unwound  *)
(* thread has unwound the loop.                                            *)
FailInv ==
    /\ failed # {} =>
          \/ bgLost # {} \/ fmtLost # {}
          \/ /\ result = "panicked"
             /\ loop \in {"drop_fmt", "join_fmt", "drop_background", "join_background", "ended"}
    /\ loop \in {"drop_background", "join_background", "ended"} /\ fmtLost # {} =>
          result = "panicked"
    /\ loop = "ended" /\ bgLost # {} => result = "panicked"

(* Formatting tasks pass through their pool in the order of the requests. *)
FmtOrderInv ==
    /\ \A m, n \in 1..Len(fmtPending) : m < n => fmtPending[m] < fmtPending[n]
    /\ \A s \in FmtThreads, n \in 1..Len(fmtPending) :
          fmtRunning[s] # None => fmtRunning[s] < fmtPending[n]
    /\ \A i \in fmtEnded, k \in FmtHeld : i < k

(* The inductive invariant. *)
ServerInv ==
    /\ TypeInv
    /\ RequesterInv
    /\ SpawnInv
    /\ PlaceInv
    /\ TextInv
    /\ AnswersInv
    /\ DrainInv
    /\ FailInv
    /\ FmtOrderInv
    /\ ReadsRequestedText
    /\ FmtAnswersInOrder
-----------------------------------------------------------------------------
(* The elements of a sequence before and after an append. *)
LEMMA AppendElements ==
    ASSUME NEW S, NEW p \in Seq(S), NEW j \in S
    PROVE  /\ Append(p, j) \in Seq(S)
           /\ Len(p) \in Nat
           /\ Len(Append(p, j)) = Len(p) + 1
           /\ \A n \in 1..Len(p) : Append(p, j)[n] = p[n]
           /\ Append(p, j)[Len(p) + 1] = j
           /\ Elements(Append(p, j)) = Elements(p) \cup {j}
<1> DEFINE q == Append(p, j)
<1>1. /\ q \in Seq(S)
      /\ Len(q) = Len(p) + 1
      /\ \A n \in 1..Len(p) : q[n] = p[n]
      /\ q[Len(p) + 1] = j
      /\ Len(p) \in Nat
  BY AppendProperties, LenProperties
<1>2. 1..Len(q) = 1..Len(p) \cup {Len(p) + 1}
  BY <1>1
<1>3. ASSUME NEW x PROVE (\E n \in 1..Len(q) : x = q[n]) <=> (\E n \in 1..Len(p) : x = p[n]) \/ x = j
  BY <1>1, <1>2
<1> QED
  BY <1>1, <1>3 DEF Elements

(* The elements of a duplicate-free sequence without its head. *)
LEMMA TailElements ==
    ASSUME NEW S, NEW p \in Seq(S), p # <<>>, \A m, n \in 1..Len(p) : p[m] = p[n] => m = n
    PROVE  /\ Tail(p) \in Seq(S)
           /\ Len(p) \in Nat \ {0}
           /\ Len(Tail(p)) = Len(p) - 1
           /\ \A n \in 1..Len(Tail(p)) : n + 1 \in 1..Len(p) /\ Tail(p)[n] = p[n + 1]
           /\ Head(p) = p[1]
           /\ Head(p) \in Elements(p)
           /\ Elements(Tail(p)) = Elements(p) \ {Head(p)}
<1> DEFINE q == Tail(p)
<1>1. /\ q \in Seq(S)
      /\ Len(p) \in Nat \ {0}
      /\ Len(q) = Len(p) - 1
      /\ \A n \in 1..Len(q) : q[n] = p[n + 1]
  BY HeadTailProperties, EmptySeq, LenProperties
<1>2. Head(p) = p[1]
  OBVIOUS
<1>3. \A n \in 1..Len(q) : n + 1 \in 1..Len(p) /\ n + 1 # 1
  BY <1>1
<1>4. 1 \in 1..Len(p)
  BY <1>1
<1>5. ASSUME NEW x PROVE (\E n \in 1..Len(q) : x = q[n]) <=> (\E n \in 1..Len(p) : x = p[n]) /\ x # p[1]
  <2>1. ASSUME NEW n \in 1..Len(q), x = q[n] PROVE (\E k \in 1..Len(p) : x = p[k]) /\ x # p[1]
    BY <1>1, <1>3, <1>4, <2>1
  <2>2. ASSUME NEW k \in 1..Len(p), x = p[k], x # p[1] PROVE \E n \in 1..Len(q) : x = q[n]
    <3>1. k - 1 \in 1..Len(q) /\ (k - 1) + 1 = k
      BY <1>1, <2>2
    <3> QED
      BY <1>1, <2>2, <3>1
  <2> QED
    BY <2>1, <2>2
<1>6. \A x : x \in Elements(q) <=> x \in Elements(p) /\ x # p[1]
  BY <1>5, SMTT(30) DEF Elements
<1>7. Elements(q) = Elements(p) \ {p[1]}
  BY <1>6
<1>8. p[1] \in Elements(p)
  BY <1>4 DEF Elements
<1> QED
  BY <1>1, <1>2, <1>3, <1>7, <1>8

(* A job that a pool does not know joins its queue. *)
LEMMA PoolSubmit ==
    ASSUME NEW p, NEW r, NEW e, NEW S, PoolShape(p, r, e, S),
           NEW j \in Ids, j \notin Held(p, r, S), j \notin e
    PROVE  /\ PoolShape(Append(p, j), r, e, S)
           /\ Held(Append(p, j), r, S) = Held(p, r, S) \cup {j}
<1> DEFINE q == Append(p, j)
<1>1. /\ q \in Seq(Ids)
      /\ Len(p) \in Nat
      /\ Len(q) = Len(p) + 1
      /\ \A n \in 1..Len(p) : q[n] = p[n]
      /\ q[Len(p) + 1] = j
      /\ Elements(q) = Elements(p) \cup {j}
  BY AppendElements DEF PoolShape
<1>2. Held(q, r, S) = Held(p, r, S) \cup {j}
  BY <1>1 DEF Held
<1>3. \A n \in 1..Len(p) : p[n] # j
  BY DEF Held, Elements
<1>4. \A n \in 1..Len(q) : n \in 1..Len(p) \/ n = Len(p) + 1
  BY <1>1
<1>5. \A m, n \in 1..Len(q) : q[m] = q[n] => m = n
  BY <1>1, <1>3, <1>4 DEF PoolShape
<1>6. j # None
  BY ServerAssumption DEF Ids
<1>7. \A s \in S : r[s] # j
  BY <1>6 DEF Held
<1>8. \A s \in S, n \in 1..Len(q) : r[s] # q[n]
  BY <1>1, <1>4, <1>7 DEF PoolShape
<1>9. Held(q, r, S) \cap e = {}
  BY <1>2 DEF PoolShape
<1> QED
  BY <1>1, <1>2, <1>5, <1>8, <1>9 DEF PoolShape

(* An idle thread takes the head of the queue. *)
LEMMA PoolBegin ==
    ASSUME NEW p, NEW r, NEW e, NEW S, PoolShape(p, r, e, S),
           p # <<>>, NEW s \in S, r[s] = None
    PROVE  /\ PoolShape(Tail(p), [r EXCEPT ![s] = Head(p)], e, S)
           /\ Held(Tail(p), [r EXCEPT ![s] = Head(p)], S) = Held(p, r, S)
<1> DEFINE q == Tail(p)
           t == [r EXCEPT ![s] = Head(p)]
<1>1. /\ q \in Seq(Ids)
      /\ Len(p) \in Nat \ {0}
      /\ \A n \in 1..Len(q) : n + 1 \in 1..Len(p) /\ q[n] = p[n + 1]
      /\ Head(p) = p[1]
      /\ Head(p) \in Elements(p)
      /\ Elements(q) = Elements(p) \ {Head(p)}
  BY TailElements DEF PoolShape
<1>2. Elements(p) \subseteq Ids
  BY ElementOfSeq DEF Elements, PoolShape
<1>3. Head(p) \in Ids /\ Head(p) # None /\ 1 \in 1..Len(p)
  BY <1>1, <1>2, ServerAssumption DEF Ids
<1>4. /\ t \in [S -> Ids \cup {None}]
      /\ t[s] = Head(p)
      /\ \A v \in S : v # s => t[v] = r[v]
  BY <1>3 DEF PoolShape
<1>5. {t[v] : v \in S} \ {None} = ({r[v] : v \in S} \ {None}) \cup {Head(p)}
  BY <1>3, <1>4
<1>6. Held(q, t, S) = Held(p, r, S)
  BY <1>1, <1>5 DEF Held
<1>7. \A m, n \in 1..Len(q) : q[m] = q[n] => m = n
  BY <1>1 DEF PoolShape
<1>8. \A v, w \in S : t[v] = t[w] /\ t[v] # None => v = w
  <2>1. \A v \in S : r[v] # p[1]
    BY <1>3 DEF PoolShape
  <2> QED
    BY <1>1, <1>4, <2>1 DEF PoolShape
<1>9. \A v \in S, n \in 1..Len(q) : t[v] # q[n]
  <2>1. \A n \in 1..Len(q) : n + 1 \in 1..Len(p) /\ n + 1 # 1
    BY <1>1
  <2>2. \A n \in 1..Len(q) : q[n] # p[1]
    BY <1>1, <1>3, <2>1 DEF PoolShape
  <2>3. \A v \in S, n \in 1..Len(q) : r[v] # q[n]
    BY <1>1 DEF PoolShape
  <2> QED
    BY <1>1, <1>4, <2>2, <2>3
<1> QED
  BY <1>1, <1>4, <1>6, <1>7, <1>8, <1>9 DEF PoolShape

(* A thread ends its job. *)
LEMMA PoolEnd ==
    ASSUME NEW p, NEW r, NEW e, NEW S, PoolShape(p, r, e, S),
           NEW s \in S, r[s] # None
    PROVE  /\ PoolShape(p, [r EXCEPT ![s] = None], e \cup {r[s]}, S)
           /\ Held(p, [r EXCEPT ![s] = None], S) = Held(p, r, S) \ {r[s]}
           /\ r[s] \in Held(p, r, S)
           /\ r[s] \in Ids
           /\ r[s] \notin e
<1> DEFINE t == [r EXCEPT ![s] = None]
<1>1. /\ t \in [S -> Ids \cup {None}]
      /\ t[s] = None
      /\ \A v \in S : v # s => t[v] = r[v]
  BY DEF PoolShape
<1>2. r[s] \in Ids /\ r[s] \in Held(p, r, S)
  BY DEF PoolShape, Held
<1>3. \A v \in S : v # s => r[v] # r[s]
  BY DEF PoolShape
<1>4. {t[v] : v \in S} \ {None} = ({r[v] : v \in S} \ {None}) \ {r[s]}
  BY <1>1, <1>3
<1>5. r[s] \notin Elements(p)
  BY DEF PoolShape, Elements
<1>6. Held(p, t, S) = Held(p, r, S) \ {r[s]}
  BY <1>4, <1>5 DEF Held
<1>7. \A n \in 1..Len(p) : p[n] # None
  BY ElementOfSeq, ServerAssumption DEF PoolShape, Ids
<1>8. PoolShape(p, t, e \cup {r[s]}, S)
  BY <1>1, <1>2, <1>6, <1>7 DEF PoolShape
<1>9. r[s] \notin e
  BY <1>2 DEF PoolShape
<1> QED
  BY <1>2, <1>6, <1>8, <1>9
-----------------------------------------------------------------------------
(* The script never changes, and with it the texts that documents have had. *)
LEMMA TextBeforeFrame ==
    ASSUME script' = script
    PROVE  /\ \A u, i : TextBefore(u, i)' = TextBefore(u, i)
           /\ \A i, methods : IsTask(i, methods)' = IsTask(i, methods)
           /\ FmtRequests' = FmtRequests
           /\ UNCHANGED <<bgLost, fmtLost>> => \A i : WithoutThreads(i)' = WithoutThreads(i)
<1>1. FmtRequests' = FmtRequests
  BY DEF FmtRequests
<1> QED
  BY <1>1 DEF TextBefore, IsTask, WithoutThreads

(* What one more message does to the text of a document. *)
LEMMA TextBeforeNext ==
    ASSUME NEW u, NEW i \in Nat \ {0}
    PROVE  /\ TextBefore(u, 1) = None
           /\ ~ (/\ script[i].kind = "notification"
                 /\ script[i].method \in {"open", "change", "close"}
                 /\ script[i].url = u)
              => TextBefore(u, i + 1) = TextBefore(u, i)
           /\ script[i].kind = "notification" /\ script[i].url = u
              => /\ script[i].method = "open" => TextBefore(u, i + 1) = i
                 /\ script[i].method = "close" => TextBefore(u, i + 1) = None
                 /\ script[i].method = "change" /\ TextBefore(u, i) # None
                    => TextBefore(u, i + 1) = i
<1> DEFINE about(k, methods) == {n \in 1..k - 1 : /\ script[n].kind = "notification"
                                                  /\ script[n].method \in methods
                                                  /\ script[n].url = u}
           last(S) == CHOOSE n \in S : \A m \in S : m <= n
           toggles(k) == about(k, {"open", "close"})
           text(k) == IF toggles(k) = {} THEN None
                      ELSE IF script[last(toggles(k))].method = "close" THEN None
                      ELSE last(about(k, {"open", "change"}))
<1>1. \A k : TextBefore(u, k) = text(k)
  BY DEF TextBefore
<1>2. ASSUME NEW methods
      PROVE  about(i + 1, methods) =
                 IF /\ script[i].kind = "notification"
                    /\ script[i].method \in methods
                    /\ script[i].url = u
                 THEN about(i, methods) \cup {i} ELSE about(i, methods)
  <2>1. 1..(i + 1) - 1 = (1..i - 1) \cup {i}
    OBVIOUS
  <2> QED
    BY <2>1
<1>3. ASSUME NEW methods, i \in about(i + 1, methods)
      PROVE  last(about(i + 1, methods)) = i
  <2> DEFINE S == about(i + 1, methods)
  <2>1. \A m \in S : m \in Nat /\ m <= i
    OBVIOUS
  <2> HIDE DEF S
  <2>2. \A n \in S : (\A m \in S : m <= n) <=> n = i
    BY <1>3, <2>1 DEF S
  <2> QED
    BY <1>3, <2>2 DEF S
<1>4. toggles(1) = {}
  OBVIOUS
<1> HIDE DEF about, last
<1>5. TextBefore(u, 1) = None
  BY <1>1, <1>4
<1>6. ASSUME ~ (/\ script[i].kind = "notification"
                /\ script[i].method \in {"open", "change", "close"}
                /\ script[i].url = u)
      PROVE  TextBefore(u, i + 1) = TextBefore(u, i)
  BY <1>1, <1>2, <1>6
<1>7. ASSUME script[i].kind = "notification", script[i].url = u, script[i].method = "open"
      PROVE  TextBefore(u, i + 1) = i
  <2>1. i \in toggles(i + 1) /\ i \in about(i + 1, {"open", "change"})
    BY <1>2, <1>7
  <2> QED
    BY <1>1, <1>3, <1>7, <2>1
<1>8. ASSUME script[i].kind = "notification", script[i].url = u, script[i].method = "close"
      PROVE  TextBefore(u, i + 1) = None
  <2>1. i \in toggles(i + 1)
    BY <1>2, <1>8
  <2> QED
    BY <1>1, <1>3, <1>8, <2>1
<1>9. ASSUME script[i].kind = "notification", script[i].url = u, script[i].method = "change",
             TextBefore(u, i) # None
      PROVE  TextBefore(u, i + 1) = i
  <2>1. i \in about(i + 1, {"open", "change"}) /\ toggles(i + 1) = toggles(i)
    BY <1>2, <1>9
  <2>2. text(i + 1) = last(about(i + 1, {"open", "change"}))
    BY <1>1, <1>9, <2>1
  <2> QED
    BY <1>1, <1>3, <2>1, <2>2
<1> QED
  BY <1>5, <1>6, <1>7, <1>8, <1>9
-----------------------------------------------------------------------------
(* The messages that leave the documents, the tasks and the pools alone. *)
Quiet ==
    ReceiveUnrouted \/ ReceiveRefused \/ ReceiveLocal \/ ReceiveLocalFails
    \/ NotificationFails \/ ReceiveResponse \/ ReceiveExit \/ ReceiveShutdown

(* The steps of the loop that take no message. *)
Housekeeping ==
    Register \/ Disconnect \/ DropFmt \/ JoinFmt \/ DropBackground \/ JoinBackground
    \/ UNCHANGED vars

(* The steps of the system, for the proofs to be by cases of. *)
LEMMA Steps ==
    [Next]_vars =>
        \/ Quiet \/ Housekeeping \/ ReceiveBackground \/ Spawn \/ SpawnFails
        \/ ReceiveNotification \/ LeaveShutdown \/ Discard
        \/ \E w \in WorkerThreads : BeginBackground(w) \/ FinishBackground(w) \/ FailBackground(w)
        \/ \E w \in FmtThreads : BeginFmt(w) \/ FinishFmt(w) \/ FailFmt(w)
  BY DEF Next, Loop, Thread, FmtThread, AtRest, Quiet, Housekeeping

(* The script is what the client sends, whatever the server does. *)
LEMMA ScriptFrame == [Next]_vars => script' = script
<1> SUFFICES ASSUME [Next]_vars PROVE script' = script
  OBVIOUS
<1>1. CASE Quiet
  BY <1>1 DEF Quiet, ReceiveUnrouted, ReceiveRefused, ReceiveLocal, ReceiveLocalFails,
              NotificationFails, ReceiveResponse, ReceiveExit, ReceiveShutdown, clientVars
<1>2. CASE Housekeeping
  BY <1>2 DEF Housekeeping, Register, Disconnect, DropFmt, JoinFmt, DropBackground,
              JoinBackground, vars, clientVars
<1> QED
  BY <1>1, <1>2, Steps
     DEF ReceiveBackground, Spawn, SpawnFails, ReceiveNotification, LeaveShutdown, Discard,
         BeginBackground, FinishBackground, FailBackground, BeginFmt, FinishFmt, FailFmt, clientVars
-----------------------------------------------------------------------------
(* What a group of steps does to the variables the invariant is about. *)
LEMMA QuietEffect ==
    ASSUME TypeInv, Quiet
    PROVE  /\ loop = "receive" /\ loop' \in {"receive", "exiting", "drop_fmt"}
           /\ at \in 1..Len(script) /\ at \in Ids /\ at' = at + 1
           /\ loop' = "exiting" => script[at].kind = "shutdown"
           /\ loop' = "receive" =>
                 ~ (/\ script[at].kind = "notification"
                    /\ script[at].method \in {"open", "change", "close"})
           /\ ~ IsTask(at, {"background", "fmt"})
           /\ \/ responses' = responses
              \/ responses' = Append(responses, at) /\ script[at].kind \in {"request", "shutdown"}
           /\ \/ failed' = failed
              \/ failed' = failed \cup {at} /\ loop' = "drop_fmt" /\ result' = "panicked"
           /\ result' \in {result, "panicked"}
           /\ UNCHANGED <<script, spawning, documents, copies, read,
                          bgPending, bgRunning, bgEnded, bgLost,
                          fmtPending, fmtRunning, fmtEnded, fmtLost>>
<1> USE DEF Routed, Exhausted, TypeInv, TypeOK, IsTask, Ids, clientVars, sessionVars, poolVars,
            bgVars, fmtVars
<1>1. Len(script) \in Nat /\ MaxMessages \in Nat
  BY LenProperties, ServerAssumption
<1>2. CASE ReceiveUnrouted
  BY <1>1, <1>2 DEF ReceiveUnrouted
<1>3. CASE ReceiveRefused
  BY <1>1, <1>3 DEF ReceiveRefused
<1>4. CASE ReceiveLocal
  BY <1>1, <1>4 DEF ReceiveLocal
<1>5. CASE NotificationFails
  BY <1>1, <1>5 DEF NotificationFails
<1>6. CASE ReceiveResponse
  BY <1>1, <1>6 DEF ReceiveResponse
<1>7. CASE ReceiveExit
  BY <1>1, <1>7 DEF ReceiveExit
<1>8. CASE ReceiveShutdown
  BY <1>1, <1>8 DEF ReceiveShutdown
<1>9. CASE ReceiveLocalFails
  BY <1>1, <1>9 DEF ReceiveLocalFails
<1> QED
  BY <1>2, <1>3, <1>4, <1>5, <1>6, <1>7, <1>8, <1>9 DEF Quiet

(* A pool with idle threads holds its queue, and one with an empty queue   *)
(* nothing.                                                                *)
LEMMA HeldQueued ==
    /\ \A p, r, S : {r[s] : s \in S} = {None} => Held(p, r, S) = Elements(p)
    /\ Elements(<<>>) = {}
  BY DEF Held, Elements

LEMMA HousekeepingEffect ==
    ASSUME TypeInv, Housekeeping
    PROVE  /\ UNCHANGED <<script, at, spawning, responses, documents, copies, read, failed,
                          bgPending, bgRunning, bgEnded, bgLost,
                          fmtPending, fmtRunning, fmtEnded, fmtLost>>
           /\ loop' # loop => loop # "spawn" /\ loop' \notin {"spawn", "register", "exiting"}
           /\ loop' = "receive" => loop \in {"receive", "register"}
           /\ loop' = loop
              \/ loop' \in {"receive", "drop_fmt", "join_fmt", "drop_background",
                            "join_background", "ended"}
           /\ \/ loop' # "drop_background"
              \/ loop = "drop_background"
              \/ FmtLeft /\ (fmtLost # {} => result' = "panicked")
           /\ loop' = "join_background" => loop \in {"join_background", "drop_background"}
           /\ \/ loop' # "ended"
              \/ loop = "ended"
              \/ loop = "join_background" /\ BgLeft /\ (bgLost # {} => result' = "panicked")
           /\ \/ result' \in {result, "panicked"}
              \/ result' = "ok" /\ loop = "receive" /\ loop' = "drop_fmt"
           /\ loop \in {"drop_fmt", "join_fmt", "drop_background", "join_background", "ended"}
                 => loop' \in {"drop_fmt", "join_fmt", "drop_background", "join_background", "ended"}
<1> USE DEF clientVars, sessionVars, poolVars, bgVars, fmtVars
<1>1. CASE Register
  BY <1>1 DEF Register
<1>2. CASE Disconnect
  BY <1>2 DEF Disconnect
<1>3. CASE DropFmt
  BY <1>3 DEF DropFmt, Fmt!Close
<1>4. CASE JoinFmt
  <2>1. /\ Fmt!Running = {None} /\ (fmtPending = <<>> \/ fmtLost = FmtThreads)
        /\ \A i \in Fmt!Queued : copies[i] = None
    BY <1>4 DEF JoinFmt
  <2>2. FmtHeld = Elements(fmtPending)
    BY <2>1, HeldQueued DEF FmtHeld, Fmt!Running
  <2>3. FmtLeft
    BY <2>1, <2>2, HeldQueued DEF FmtLeft, Fmt!Queued, Elements
  <2> QED
    BY <1>4, <2>3 DEF JoinFmt
<1>5. CASE DropBackground
  BY <1>5 DEF DropBackground, Background!Close
<1>6. CASE JoinBackground
  <2>1. /\ Background!Running = {None} /\ (bgPending = <<>> \/ bgLost = WorkerThreads)
        /\ \A i \in Background!Queued : copies[i] = None
    BY <1>6 DEF JoinBackground
  <2>2. BgHeld = Elements(bgPending)
    BY <2>1, HeldQueued DEF BgHeld, Background!Running
  <2>3. BgLeft
    BY <2>1, <2>2, HeldQueued DEF BgLeft, Background!Queued, Elements
  <2> QED
    BY <1>6, <2>3 DEF JoinBackground
<1>7. CASE UNCHANGED vars
  BY <1>7 DEF vars
<1> QED
  BY <1>1, <1>2, <1>3, <1>4, <1>5, <1>6, <1>7 DEF Housekeeping

LEMMA ReceiveBackgroundEffect ==
    ASSUME TypeInv, SpawnInv, PlaceInv, TextInv, ReceiveBackground
    PROVE  /\ loop = "receive" /\ loop' = "spawn"
           /\ at \in 1..Len(script) /\ at \in Ids /\ at' = at + 1
           /\ spawning = None /\ spawning' = at /\ at # None
           /\ IsTask(at, {"background", "fmt"})
           /\ script[at].url \in Urls
           /\ at \notin InFlight
           /\ copies' = [copies EXCEPT ![at] = documents[script[at].url]]
           /\ UNCHANGED <<script, documents, responses, read, failed, result,
                          bgPending, bgRunning, bgEnded, bgLost,
                          fmtPending, fmtRunning, fmtEnded, fmtLost>>
<1> USE DEF clientVars, sessionVars, poolVars, bgVars, fmtVars, ReceiveBackground
<1>1. Len(script) \in Nat /\ MaxMessages \in Nat
  BY LenProperties, ServerAssumption DEF TypeInv
<1>2. /\ loop = "receive" /\ loop' = "spawn"
      /\ at \in 1..Len(script) /\ at \in Ids /\ at' = at + 1
      /\ spawning' = at
      /\ IsTask(at, {"background", "fmt"})
  BY <1>1 DEF Routed, Exhausted, TypeInv, TypeOK, IsTask, Ids
<1>3. at # None /\ spawning = None
  BY <1>2, ServerAssumption DEF SpawnInv, Ids
<1>4. script[at].url \in Urls
  <2>1. script[at] \in Messages
    BY <1>2, ElementOfSeq DEF TypeInv
  <2> QED
    BY <1>2, <2>1, MessagesAssumption DEF IsTask
<1>5. at \notin InFlight
  BY <1>2, <1>3 DEF PlaceInv, InFlight, Ids
<1>6. copies[at] = None
  BY <1>2, <1>5 DEF TextInv
<1>7. copies' = [copies EXCEPT ![at] = documents[script[at].url]] /\ documents' = documents
  <2>1. CASE documents[script[at].url] # None
    BY <2>1 DEF Store!TakeSnapshot
  <2>2. CASE documents[script[at].url] = None
    <3>1. copies \in [Ids -> Ids \cup {None}]
      BY DEF TypeInv, TypeOK
    <3>2. copies' = copies /\ documents' = documents
      BY <2>2
    <3> QED
      BY <1>2, <1>6, <2>2, <3>1, <3>2
  <2> QED
    BY <2>1, <2>2
<1> QED
  BY <1>2, <1>3, <1>4, <1>5, <1>7

LEMMA ReceiveNotificationEffect ==
    ASSUME TypeInv, ReceiveNotification
    PROVE  /\ loop = "receive" /\ loop' = loop
           /\ at \in 1..Len(script) /\ at \in Ids /\ at' = at + 1
           /\ script[at].kind = "notification"
           /\ script[at].url \in Urls
           /\ \/ script[at].method = "open"
                 /\ documents' = [documents EXCEPT ![script[at].url] = at]
              \/ script[at].method = "change" /\ documents[script[at].url] # None
                 /\ documents' = [documents EXCEPT ![script[at].url] = at]
              \/ script[at].method = "close"
                 /\ documents' = [documents EXCEPT ![script[at].url] = None]
           /\ UNCHANGED <<script, spawning, copies, responses, read, failed, result,
                          bgPending, bgRunning, bgEnded, bgLost,
                          fmtPending, fmtRunning, fmtEnded, fmtLost>>
<1> USE DEF clientVars, poolVars, bgVars, fmtVars, ReceiveNotification, Routed, Exhausted
<1>1. Len(script) \in Nat /\ MaxMessages \in Nat
  BY LenProperties, ServerAssumption DEF TypeInv
<1>2. /\ loop = "receive" /\ loop' = loop
      /\ at \in 1..Len(script) /\ at \in Ids /\ at' = at + 1
      /\ script[at].kind = "notification"
  BY <1>1 DEF TypeInv, TypeOK, Ids
<1>3. script[at].url \in Urls
  <2>1. script[at] \in Messages
    BY <1>2, ElementOfSeq DEF TypeInv
  <2> QED
    BY <1>2, <2>1, MessagesAssumption
<1> QED
  BY <1>2, <1>3 DEF Store!Open, Store!Change, Store!Close

LEMMA LeaveShutdownEffect ==
    ASSUME TypeInv, LeaveShutdown
    PROVE  /\ loop = "exiting" /\ loop' = "drop_fmt"
           /\ at' = at \/ (at' = at + 1 /\ at \in 1..Len(script))
           /\ result' \in {"ok", "error"}
           /\ UNCHANGED <<script, spawning, documents, copies, responses, read, failed,
                          bgPending, bgRunning, bgEnded, bgLost,
                          fmtPending, fmtRunning, fmtEnded, fmtLost>>
<1>1. Len(script) \in Nat
  BY LenProperties DEF TypeInv
<1> QED
  BY <1>1 DEF LeaveShutdown, Exhausted, TypeInv, TypeOK, clientVars, sessionVars, poolVars,
              bgVars, fmtVars
-----------------------------------------------------------------------------
(* A blocked spawn hands its task to the pool of its kind. *)
LEMMA SpawnEffect ==
    ASSUME TypeInv, SpawnInv, PlaceInv, Spawn
    PROVE  /\ loop = "spawn" /\ loop' = "receive"
           /\ spawning \in Ids /\ spawning # None /\ spawning' = None
           /\ UNCHANGED <<script, at, documents, copies, responses, read, failed, result,
                          bgRunning, bgEnded, bgLost, fmtRunning, fmtEnded, fmtLost>>
           /\ \/ /\ IsTask(spawning, {"fmt"})
                 /\ fmtPending' = Append(fmtPending, spawning)
                 /\ FmtHeld' = FmtHeld \cup {spawning}
                 /\ bgPending' = bgPending /\ BgHeld' = BgHeld
              \/ /\ IsTask(spawning, {"background"})
                 /\ BgHeld' = BgHeld \cup {spawning}
                 /\ fmtPending' = fmtPending /\ FmtHeld' = FmtHeld
           /\ InFlight' = InFlight
           /\ PoolShape(bgPending', bgRunning', bgEnded', WorkerThreads)
           /\ PoolShape(fmtPending', fmtRunning', fmtEnded', FmtThreads)
<1>1. /\ loop = "spawn" /\ loop' = "receive"
      /\ spawning \in Ids /\ spawning # None /\ spawning' = None
      /\ UNCHANGED <<script, at, documents, copies, responses, read, failed, result>>
      /\ IsTask(spawning, {"background", "fmt"})
  BY DEF Spawn, SpawnInv, TypeInv, TypeOK, clientVars, sessionVars
<1>2. CASE script[spawning].method = "fmt"
  <2>1. /\ fmtPending' = Append(fmtPending, spawning)
        /\ spawning \notin FmtHeld /\ spawning \notin fmtEnded
        /\ UNCHANGED <<bgPending, bgRunning, bgEnded, bgLost, fmtRunning, fmtEnded, fmtLost>>
    BY <1>2 DEF Spawn, Fmt!Submit, Fmt!Queued, Fmt!Running, bgVars, FmtHeld, Held, Elements
  <2>2. /\ FmtHeld' = FmtHeld \cup {spawning}
        /\ PoolShape(fmtPending', fmtRunning', fmtEnded', FmtThreads)
    BY <1>1, <2>1, PoolSubmit DEF FmtHeld, TypeInv
  <2>3. BgHeld' = BgHeld /\ PoolShape(bgPending', bgRunning', bgEnded', WorkerThreads)
    BY <2>1 DEF BgHeld, TypeInv
  <2>4. InFlight' = InFlight
    BY <1>1, <2>2, <2>3 DEF InFlight
  <2> QED
    BY <1>1, <1>2, <2>1, <2>2, <2>3, <2>4 DEF IsTask
<1>3. CASE script[spawning].method # "fmt"
  <2>1. /\ bgPending' = Append(bgPending, spawning)
        /\ spawning \notin BgHeld /\ spawning \notin bgEnded
        /\ UNCHANGED <<fmtPending, fmtRunning, fmtEnded, fmtLost, bgRunning, bgEnded, bgLost>>
    BY <1>3 DEF Spawn, Background!Submit, Background!Queued, Background!Running, fmtVars, BgHeld,
                Held, Elements
  <2>2. /\ BgHeld' = BgHeld \cup {spawning}
        /\ PoolShape(bgPending', bgRunning', bgEnded', WorkerThreads)
    BY <1>1, <2>1, PoolSubmit DEF BgHeld, TypeInv
  <2>3. FmtHeld' = FmtHeld /\ PoolShape(fmtPending', fmtRunning', fmtEnded', FmtThreads)
    BY <2>1 DEF FmtHeld, TypeInv
  <2>4. InFlight' = InFlight
    BY <1>1, <2>2, <2>3 DEF InFlight
  <2> QED
    BY <1>1, <1>3, <2>1, <2>2, <2>3, <2>4 DEF IsTask
<1> QED
  BY <1>2, <1>3

(* With the threads of its pool gone the task a spawn holds is dropped. *)
LEMMA SpawnFailsEffect ==
    ASSUME TypeInv, SpawnInv, PlaceInv, SpawnFails
    PROVE  /\ loop = "spawn" /\ loop' = "drop_fmt" /\ result' = "panicked"
           /\ spawning \in Ids /\ spawning # None /\ spawning' = None
           /\ WithoutThreads(spawning)
           /\ copies' = [copies EXCEPT ![spawning] = None]
           /\ InFlight' = InFlight \ {spawning}
           /\ UNCHANGED <<script, at, documents, responses, read, failed,
                          bgPending, bgRunning, bgEnded, bgLost,
                          fmtPending, fmtRunning, fmtEnded, fmtLost>>
<1>1. /\ loop = "spawn" /\ loop' = "drop_fmt" /\ result' = "panicked"
      /\ spawning \in Ids /\ spawning # None /\ spawning' = None
      /\ WithoutThreads(spawning)
      /\ UNCHANGED <<script, at, responses, read, failed,
                     bgPending, bgRunning, bgEnded, bgLost,
                     fmtPending, fmtRunning, fmtEnded, fmtLost>>
  BY DEF SpawnFails, SpawnInv, TypeInv, TypeOK, clientVars, poolVars, bgVars, fmtVars
<1>2. copies \in [Ids -> Ids \cup {None}]
  BY DEF TypeInv, TypeOK
<1>3. copies' = [copies EXCEPT ![spawning] = None] /\ documents' = documents
  <2>1. CASE copies[spawning] # None
    BY <2>1 DEF SpawnFails, Store!DropSnapshot
  <2>2. CASE copies[spawning] = None
    <3>1. copies' = copies /\ documents' = documents
      BY <2>2 DEF SpawnFails, sessionVars
    <3> QED
      BY <1>1, <1>2, <2>2, <3>1
  <2> QED
    BY <2>1, <2>2
<1>4. spawning \notin BgHeld \cup FmtHeld
  BY DEF PlaceInv
<1>5. BgHeld' = BgHeld /\ FmtHeld' = FmtHeld
  BY <1>1 DEF BgHeld, FmtHeld
<1>6. InFlight' = InFlight \ {spawning}
  BY <1>1, <1>4, <1>5 DEF InFlight
<1> QED
  BY <1>1, <1>3, <1>6

(* The snapshot of a queued task is dropped with its pool. *)
TaskDiscarded(i) ==
    /\ i \in Ids /\ WithoutThreads(i)
    /\ copies' = [copies EXCEPT ![i] = None]
    /\ UNCHANGED <<script, at, loop, spawning, documents, responses, read, failed, result,
                   bgPending, bgRunning, bgEnded, bgLost,
                   fmtPending, fmtRunning, fmtEnded, fmtLost>>

LEMMA DiscardEffect == Discard => \E i \in Ids : TaskDiscarded(i)
  BY DEF Discard, TaskDiscarded, Store!DropSnapshot, clientVars, poolVars, bgVars, fmtVars

(* A thread of either pool takes a task: the pools hold what they held. *)
TaskBegins ==
    /\ UNCHANGED <<script, at, loop, spawning, documents, copies, responses, read, failed,
                   result, bgEnded, bgLost, fmtEnded, fmtLost>>
    /\ BgHeld' = BgHeld /\ FmtHeld' = FmtHeld
    /\ InFlight' = InFlight
    /\ PoolShape(bgPending', bgRunning', bgEnded', WorkerThreads)
    /\ PoolShape(fmtPending', fmtRunning', fmtEnded', FmtThreads)
    /\ \/ UNCHANGED <<fmtPending, fmtRunning>>
       \/ /\ fmtPending # <<>> /\ fmtPending' = Tail(fmtPending)
          /\ \E w \in FmtThreads : fmtRunning' = [fmtRunning EXCEPT ![w] = Head(fmtPending)]

LEMMA BeginEffect ==
    ASSUME TypeInv,
           \/ \E w \in WorkerThreads : BeginBackground(w)
           \/ \E w \in FmtThreads : BeginFmt(w)
    PROVE  TaskBegins
<1> USE DEF clientVars, sessionVars, bgVars, fmtVars
<1>1. ASSUME NEW w \in WorkerThreads, BeginBackground(w) PROVE TaskBegins
  <2>1. /\ UNCHANGED <<script, at, loop, spawning, documents, copies, responses, read, failed,
                       result, bgEnded, bgLost, fmtPending, fmtRunning, fmtEnded, fmtLost>>
        /\ bgPending # <<>> /\ bgRunning[w] = None
        /\ bgPending' = Tail(bgPending)
        /\ bgRunning' = [bgRunning EXCEPT ![w] = Head(bgPending)]
    BY <1>1 DEF BeginBackground, Background!Begin
  <2>2. BgHeld' = BgHeld /\ PoolShape(bgPending', bgRunning', bgEnded', WorkerThreads)
    BY <2>1, PoolBegin DEF BgHeld, TypeInv
  <2>3. FmtHeld' = FmtHeld /\ PoolShape(fmtPending', fmtRunning', fmtEnded', FmtThreads)
    BY <2>1 DEF FmtHeld, TypeInv
  <2> QED
    BY <2>1, <2>2, <2>3 DEF TaskBegins, InFlight
<1>2. ASSUME NEW w \in FmtThreads, BeginFmt(w) PROVE TaskBegins
  <2>1. /\ UNCHANGED <<script, at, loop, spawning, documents, copies, responses, read, failed,
                       result, bgPending, bgRunning, bgEnded, bgLost, fmtEnded, fmtLost>>
        /\ fmtPending # <<>> /\ fmtRunning[w] = None
        /\ fmtPending' = Tail(fmtPending)
        /\ fmtRunning' = [fmtRunning EXCEPT ![w] = Head(fmtPending)]
    BY <1>2 DEF BeginFmt, Fmt!Begin
  <2>2. FmtHeld' = FmtHeld /\ PoolShape(fmtPending', fmtRunning', fmtEnded', FmtThreads)
    BY <2>1, PoolBegin, ZenonT(60) DEF FmtHeld, TypeInv
  <2>3. BgHeld' = BgHeld /\ PoolShape(bgPending', bgRunning', bgEnded', WorkerThreads)
    BY <2>1 DEF BgHeld, TypeInv
  <2> QED
    BY <2>1, <2>2, <2>3 DEF TaskBegins, InFlight
<1> QED
  BY <1>1, <1>2

(* What running the task i does: it answers if it has a text, or fails and *)
(* takes a thread of its pool with it.                                     *)
Ran(i) ==
    \/ copies[i] = None /\ UNCHANGED <<responses, read, failed, bgLost, fmtLost>>
    \/ /\ copies[i] # None
       /\ read' = [read EXCEPT ![i] = copies[i]]
       /\ \/ responses' = Append(responses, i) /\ UNCHANGED <<failed, bgLost, fmtLost>>
          \/ /\ failed' = failed \cup {i}
             /\ responses' = responses
             /\ \/ /\ i \in BgHeld /\ fmtLost' = fmtLost
                   /\ \E w \in WorkerThreads : bgLost' = bgLost \cup {w}
                \/ /\ i \in FmtHeld /\ bgLost' = bgLost
                   /\ \E w \in FmtThreads : fmtLost' = fmtLost \cup {w}

(* A thread of either pool ends the task i. *)
TaskEnds(i) ==
    /\ i \in Ids /\ i \in InFlight /\ i # spawning /\ i \notin bgEnded \cup fmtEnded
    /\ UNCHANGED <<script, at, loop, spawning, documents, result, bgPending, fmtPending>>
    /\ copies' = [copies EXCEPT ![i] = None]
    /\ InFlight' = InFlight \ {i}
    /\ Ran(i)
    /\ \/ /\ i \in BgHeld /\ BgHeld' = BgHeld \ {i} /\ bgEnded' = bgEnded \cup {i}
          /\ FmtHeld' = FmtHeld /\ UNCHANGED <<fmtRunning, fmtEnded>>
       \/ /\ i \in FmtHeld /\ FmtHeld' = FmtHeld \ {i} /\ fmtEnded' = fmtEnded \cup {i}
          /\ BgHeld' = BgHeld /\ UNCHANGED <<bgRunning, bgEnded>>
          /\ \E w \in FmtThreads : i = fmtRunning[w] /\ fmtRunning' = [fmtRunning EXCEPT ![w] = None]
    /\ PoolShape(bgPending', bgRunning', bgEnded', WorkerThreads)
    /\ PoolShape(fmtPending', fmtRunning', fmtEnded', FmtThreads)

LEMMA AnswerEffect ==
    ASSUME TypeInv, NEW i \in Ids, Answer(i)
    PROVE  /\ documents' = documents
           /\ copies' = [copies EXCEPT ![i] = None]
           /\ \/ copies[i] = None /\ UNCHANGED <<responses, read>>
              \/ copies[i] # None /\ responses' = Append(responses, i)
                 /\ read' = [read EXCEPT ![i] = copies[i]]
<1>1. copies \in [Ids -> Ids \cup {None}]
  BY DEF TypeInv, TypeOK
<1>2. CASE copies[i] = None
  <2>1. copies' = copies
    BY <1>2 DEF Answer, sessionVars
  <2>2. copies = [copies EXCEPT ![i] = None]
    BY <1>1, <1>2
  <2> QED
    BY <1>2, <2>1, <2>2 DEF Answer, sessionVars
<1>3. CASE copies[i] # None
  BY <1>3 DEF Answer, TextRead, Store!DropSnapshot
<1> QED
  BY <1>2, <1>3

LEMMA FailEffect ==
    ASSUME TypeInv, NEW i \in Ids, Fail(i)
    PROVE  /\ documents' = documents
           /\ copies[i] # None
           /\ copies' = [copies EXCEPT ![i] = None]
           /\ responses' = responses
           /\ read' = [read EXCEPT ![i] = copies[i]]
           /\ failed' = failed \cup {i}
  BY DEF Fail, TextRead, Store!DropSnapshot

LEMMA FinishEffect ==
    ASSUME TypeInv, PlaceInv,
           \/ \E w \in WorkerThreads : FinishBackground(w) \/ FailBackground(w)
           \/ \E w \in FmtThreads : FinishFmt(w) \/ FailFmt(w)
    PROVE  \E i \in Ids : TaskEnds(i)
<1> USE DEF clientVars, sessionVars, bgVars, fmtVars
<1>1. ASSUME NEW w \in WorkerThreads, FinishBackground(w) \/ FailBackground(w)
      PROVE  TaskEnds(bgRunning[w])
  <2> DEFINE i == bgRunning[w]
  <2>1. /\ UNCHANGED <<script, at, loop, spawning, result, bgPending, fmtPending, fmtRunning,
                       fmtEnded>>
        /\ i # None
        /\ bgRunning' = [bgRunning EXCEPT ![w] = None]
        /\ bgEnded' = bgEnded \cup {i}
        /\ \/ Answer(i) /\ UNCHANGED <<failed, bgLost, fmtLost>>
           \/ Fail(i) /\ bgLost' = bgLost \cup {w} /\ fmtLost' = fmtLost
    BY <1>1 DEF FinishBackground, FailBackground, Background!End, Background!Unwind
  <2>2. /\ i \in Ids /\ i \in BgHeld /\ i \notin bgEnded
        /\ BgHeld' = BgHeld \ {i}
        /\ PoolShape(bgPending', bgRunning', bgEnded', WorkerThreads)
    <3>1. PoolShape(bgPending, bgRunning, bgEnded, WorkerThreads) /\ bgRunning[w] # None
      BY <2>1 DEF TypeInv
    <3>2. /\ PoolShape(bgPending, [bgRunning EXCEPT ![w] = None],
                       bgEnded \cup {bgRunning[w]}, WorkerThreads)
          /\ Held(bgPending, [bgRunning EXCEPT ![w] = None], WorkerThreads)
                = Held(bgPending, bgRunning, WorkerThreads) \ {bgRunning[w]}
          /\ bgRunning[w] \in Held(bgPending, bgRunning, WorkerThreads)
          /\ bgRunning[w] \in Ids /\ bgRunning[w] \notin bgEnded
      BY <3>1, PoolEnd
    <3> QED
      BY <2>1, <3>2 DEF BgHeld
  <2>3. FmtHeld' = FmtHeld /\ PoolShape(fmtPending', fmtRunning', fmtEnded', FmtThreads)
    BY <2>1 DEF FmtHeld, TypeInv
  <2>4. i # spawning /\ i \notin FmtHeld \cup fmtEnded
    BY <2>2 DEF PlaceInv, IsTask
  <2>5. InFlight' = InFlight \ {i} /\ i \in InFlight
    BY <2>1, <2>2, <2>3, <2>4 DEF InFlight
  <2>6. documents' = documents /\ copies' = [copies EXCEPT ![i] = None] /\ Ran(i)
    BY <2>1, <2>2, AnswerEffect, FailEffect DEF Ran
  <2> QED
    BY <2>1, <2>2, <2>3, <2>4, <2>5, <2>6 DEF TaskEnds
<1>2. ASSUME NEW w \in FmtThreads, FinishFmt(w) \/ FailFmt(w)
      PROVE  TaskEnds(fmtRunning[w])
  <2> DEFINE i == fmtRunning[w]
  <2>1. /\ UNCHANGED <<script, at, loop, spawning, result, bgPending, fmtPending, bgRunning,
                       bgEnded>>
        /\ i # None
        /\ fmtRunning' = [fmtRunning EXCEPT ![w] = None]
        /\ fmtEnded' = fmtEnded \cup {i}
        /\ \/ Answer(i) /\ UNCHANGED <<failed, bgLost, fmtLost>>
           \/ Fail(i) /\ fmtLost' = fmtLost \cup {w} /\ bgLost' = bgLost
    BY <1>2 DEF FinishFmt, FailFmt, Fmt!End, Fmt!Unwind
  <2>2. /\ i \in Ids /\ i \in FmtHeld /\ i \notin fmtEnded
        /\ FmtHeld' = FmtHeld \ {i}
        /\ PoolShape(fmtPending', fmtRunning', fmtEnded', FmtThreads)
    <3>1. PoolShape(fmtPending, fmtRunning, fmtEnded, FmtThreads) /\ fmtRunning[w] # None
      BY <2>1 DEF TypeInv
    <3>2. /\ PoolShape(fmtPending, [fmtRunning EXCEPT ![w] = None],
                       fmtEnded \cup {fmtRunning[w]}, FmtThreads)
          /\ Held(fmtPending, [fmtRunning EXCEPT ![w] = None], FmtThreads)
                = Held(fmtPending, fmtRunning, FmtThreads) \ {fmtRunning[w]}
          /\ fmtRunning[w] \in Held(fmtPending, fmtRunning, FmtThreads)
          /\ fmtRunning[w] \in Ids /\ fmtRunning[w] \notin fmtEnded
      BY <3>1, PoolEnd
    <3> QED
      BY <2>1, <3>2 DEF FmtHeld
  <2>3. BgHeld' = BgHeld /\ PoolShape(bgPending', bgRunning', bgEnded', WorkerThreads)
    BY <2>1 DEF BgHeld, TypeInv
  <2>4. i # spawning /\ i \notin BgHeld \cup bgEnded
    BY <2>2 DEF PlaceInv, IsTask
  <2>5. InFlight' = InFlight \ {i} /\ i \in InFlight
    BY <2>1, <2>2, <2>3, <2>4 DEF InFlight
  <2>6. documents' = documents /\ copies' = [copies EXCEPT ![i] = None] /\ Ran(i)
    BY <2>1, <2>2, AnswerEffect, FailEffect DEF Ran
  <2> QED
    BY <2>1, <2>2, <2>3, <2>4, <2>5, <2>6 DEF TaskEnds
<1>3. ASSUME NEW i, TaskEnds(i) PROVE i \in Ids
  BY <1>3 DEF TaskEnds
<1> QED
  BY <1>1, <1>2, <1>3
-----------------------------------------------------------------------------
(* The cases of the proofs below. *)
LEMMA StepCases ==
    ASSUME ServerInv, [Next]_vars
    PROVE  \/ Quiet \/ Housekeeping \/ ReceiveBackground \/ Spawn \/ SpawnFails
           \/ ReceiveNotification \/ LeaveShutdown \/ TaskBegins
           \/ \E i \in Ids : TaskEnds(i)
           \/ \E i \in Ids : TaskDiscarded(i)
  BY Steps, BeginEffect, FinishEffect, DiscardEffect DEF ServerInv

(* Threads that are lost stay so, and so do failures. *)
Growing ==
    /\ bgLost \subseteq bgLost' /\ bgLost' \subseteq WorkerThreads
    /\ fmtLost \subseteq fmtLost' /\ fmtLost' \subseteq FmtThreads
    /\ failed \subseteq failed' /\ failed' \subseteq Ids

LEMMA LostGrows ==
    ASSUME ServerInv, [Next]_vars
    PROVE  Growing /\ \A i : WithoutThreads(i) => WithoutThreads(i)'
<1> USE DEF ServerInv
<1>1. bgLost \subseteq WorkerThreads /\ fmtLost \subseteq FmtThreads /\ failed \subseteq Ids
  BY DEF TypeInv, TypeOK
<1>2. UNCHANGED <<bgLost, fmtLost, failed>> => Growing
  BY <1>1 DEF Growing
<1>3. ASSUME NEW i \in Ids, TaskEnds(i) PROVE Growing
  BY <1>1, <1>3 DEF TaskEnds, Ran, Growing
<1>4. ASSUME Quiet PROVE Growing
  <2>1. /\ UNCHANGED <<bgLost, fmtLost>> /\ at \in Ids
        /\ failed' = failed \/ failed' = failed \cup {at}
    BY <1>4, QuietEffect
  <2> QED
    BY <1>1, <2>1 DEF Growing
<1>5. Growing
  BY <1>2, <1>3, <1>4, StepCases, HousekeepingEffect, ReceiveBackgroundEffect, SpawnEffect,
     SpawnFailsEffect, ReceiveNotificationEffect, LeaveShutdownEffect
     DEF TaskBegins, TaskDiscarded
<1>6. FmtRequests' = FmtRequests
  BY ScriptFrame, TextBeforeFrame
<1> QED
  BY <1>1, <1>5, <1>6 DEF WithoutThreads, Growing

LEMMA TypeStep ==
    ASSUME ServerInv, [Next]_vars
    PROVE  TypeInv'
<1> USE DEF ServerInv
<1>1. /\ Len(script) \in Nat /\ responses \in Seq(Ids)
      /\ \A i \in Ids : Append(responses, i) \in Seq(Ids)
  BY LenProperties, AppendProperties DEF TypeInv, TypeOK
<1>2. script' = script
  BY ScriptFrame
<1>3. UNCHANGED <<bgPending, bgRunning, bgEnded, fmtPending, fmtRunning, fmtEnded>>
      => /\ PoolShape(bgPending', bgRunning', bgEnded', WorkerThreads)
         /\ PoolShape(fmtPending', fmtRunning', fmtEnded', FmtThreads)
  BY DEF TypeInv
<1>4. ASSUME TypeOK',
             PoolShape(bgPending', bgRunning', bgEnded', WorkerThreads),
             PoolShape(fmtPending', fmtRunning', fmtEnded', FmtThreads)
      PROVE  TypeInv'
  BY <1>2, <1>4 DEF TypeInv
<1>5. failed' \subseteq Ids /\ bgLost' \subseteq WorkerThreads /\ fmtLost' \subseteq FmtThreads
  BY LostGrows DEF Growing
<1>6. CASE Quiet
  <2>1. TypeOK'
    <3>1. /\ at' \in 1..Len(script') + 1
          /\ responses' \in Seq(Ids)
      BY <1>1, <1>2, <1>6, QuietEffect, SMTT(30)
    <3>2. UNCHANGED <<spawning, documents, copies, read>>
          /\ loop' \in {"receive", "exiting", "drop_fmt"} /\ result' \in {result, "panicked"}
      BY <1>6, QuietEffect
    <3> QED
      BY <1>5, <3>1, <3>2 DEF TypeInv, TypeOK
  <2> QED
    BY <1>3, <1>4, <1>6, <2>1, QuietEffect
<1>7. CASE Housekeeping
  <2>1. TypeOK'
    BY <1>5, <1>1, <1>7, HousekeepingEffect DEF TypeInv, TypeOK
  <2> QED
    BY <1>3, <1>4, <1>7, <2>1, HousekeepingEffect
<1>8. CASE ReceiveBackground
  <2>1. TypeOK'
    BY <1>5, <1>1, <1>8, ReceiveBackgroundEffect, SMTT(30) DEF TypeInv, TypeOK
  <2> QED
    BY <1>3, <1>4, <1>8, <2>1, ReceiveBackgroundEffect
<1>9. CASE Spawn
  <2>1. TypeOK'
    BY <1>5, <1>9, SpawnEffect DEF TypeInv, TypeOK
  <2> QED
    BY <1>4, <1>9, <2>1, SpawnEffect
<1>10. CASE ReceiveNotification
  <2>1. TypeOK'
    BY <1>5, <1>1, <1>10, ReceiveNotificationEffect, SMTT(30) DEF TypeInv, TypeOK
  <2> QED
    BY <1>3, <1>4, <1>10, <2>1, ReceiveNotificationEffect
<1>11. CASE LeaveShutdown
  <2>1. TypeOK'
    BY <1>5, <1>1, <1>11, LeaveShutdownEffect DEF TypeInv, TypeOK
  <2> QED
    BY <1>3, <1>4, <1>11, <2>1, LeaveShutdownEffect
<1>12. CASE TaskBegins
  <2>1. TypeOK'
    BY <1>5, <1>12 DEF TaskBegins, TypeInv, TypeOK
  <2> QED
    BY <1>4, <1>12, <2>1 DEF TaskBegins
<1>13. ASSUME NEW i \in Ids, TaskEnds(i) PROVE TypeInv'
  <2>1. TypeOK'
    BY <1>5, <1>1, <1>13 DEF TaskEnds, Ran, TypeInv, TypeOK
  <2> QED
    BY <1>4, <1>13, <2>1 DEF TaskEnds
<1>14. CASE SpawnFails
  <2>1. TypeOK'
    BY <1>5, <1>14, SpawnFailsEffect DEF TypeInv, TypeOK
  <2> QED
    BY <1>3, <1>4, <1>14, <2>1, SpawnFailsEffect
<1>15. ASSUME NEW i \in Ids, TaskDiscarded(i) PROVE TypeInv'
  <2>1. TypeOK'
    BY <1>5, <1>15 DEF TaskDiscarded, TypeInv, TypeOK
  <2> QED
    BY <1>3, <1>4, <1>15, <2>1 DEF TaskDiscarded
<1> QED
  BY <1>6, <1>7, <1>8, <1>9, <1>10, <1>11, <1>12, <1>13, <1>14, <1>15, StepCases

(* The handler of a response is popped before it is called. *)
LEMMA RequesterStep ==
    ASSUME ServerInv, [Next]_vars
    PROVE  RequesterInv'
<1> USE DEF ServerInv
<1>1. CASE Register
  BY <1>1, EmptySeq DEF Register, RequesterInv, requesterVars
<1>2. CASE ReceiveResponse
  <2> DEFINE id == script[at].id
             type == IF id \in DOMAIN response_handlers THEN response_handlers[id] ELSE None
  <2>1. loop' # "register"
    BY <1>2, QuietEffect DEF Quiet
  <2>2. response_handlers \in [{1} -> {None, "unit", "value"}] /\ called \in Seq({1})
    BY DEF RequesterInv
  <2>3. CASE type = None
    BY <1>2, <2>1, <2>2, <2>3, ServerAssumption DEF ReceiveResponse, RequesterInv
  <2>4. CASE type # None
    <3>1. id = 1 /\ response_handlers[1] # None
      BY <2>2, <2>4
    <3>2. Len(called) = 0
      BY <2>2, <3>1, EmptySeq DEF RequesterInv
    <3>3. response_handlers' = Popped(1) /\ (called' = called \/ called' = Append(called, 1))
      BY <1>2, <2>4, <3>1 DEF ReceiveResponse
    <3>4. Len(called') <= 1 /\ called' \in Seq({1})
      <4>1. Append(called, 1) \in Seq({1}) /\ Len(Append(called, 1)) = Len(called) + 1
        BY <2>2, AppendProperties
      <4>2. Len(called) <= 1 /\ Len(Append(called, 1)) <= 1
        BY <3>2, <4>1
      <4> QED
        BY <2>2, <3>3, <4>1, <4>2
    <3>5. response_handlers' \in [{1} -> {None, "unit", "value"}] /\ response_handlers'[1] = None
      BY <2>2, <3>3 DEF Popped
    <3> QED
      BY <2>1, <3>4, <3>5 DEF RequesterInv
  <2> QED
    BY <2>3, <2>4
<1>3. CASE UNCHANGED requesterVars /\ (loop' = "register" => loop = "register")
  BY <1>3 DEF RequesterInv, requesterVars
<1>4. CASE Quiet /\ ~ ReceiveResponse
  BY <1>3, <1>4, QuietEffect
     DEF Quiet, ReceiveUnrouted, ReceiveRefused, ReceiveLocal, ReceiveLocalFails,
         NotificationFails, ReceiveExit, ReceiveShutdown
<1>5. CASE Housekeeping /\ ~ Register
  BY <1>3, <1>5 DEF Housekeeping, Disconnect, DropFmt, JoinFmt, DropBackground, JoinBackground,
                    vars
<1> QED
  BY <1>1, <1>2, <1>3, <1>4, <1>5, Steps
     DEF ReceiveBackground, Spawn, SpawnFails, ReceiveNotification, LeaveShutdown, Discard,
         BeginBackground, FinishBackground, FailBackground, BeginFmt, FinishFmt, FailFmt

(* A spawn waits for nothing but its pool. *)
LEMMA SpawnStep ==
    ASSUME ServerInv, [Next]_vars
    PROVE  SpawnInv'
<1> USE DEF ServerInv, SpawnInv
<1>1. \A i, methods : IsTask(i, methods)' = IsTask(i, methods)
  BY ScriptFrame, TextBeforeFrame
<1>2. at \in Nat
  BY LenProperties DEF TypeInv, TypeOK
<1>3. CASE Quiet
  BY <1>3, QuietEffect
<1>4. CASE Housekeeping
  BY <1>1, <1>4, HousekeepingEffect, ScriptFrame DEF IsTask
<1>5. CASE ReceiveBackground
  BY <1>2, <1>5, ReceiveBackgroundEffect DEF IsTask
<1>6. CASE Spawn
  BY <1>6, SpawnEffect
<1>7. CASE ReceiveNotification
  BY <1>7, ReceiveNotificationEffect
<1>8. CASE LeaveShutdown
  BY <1>8, LeaveShutdownEffect
<1>9. CASE TaskBegins
  BY <1>9, ScriptFrame DEF TaskBegins, IsTask
<1>10. ASSUME NEW i \in Ids, TaskEnds(i) PROVE SpawnInv'
  BY <1>10, ScriptFrame DEF TaskEnds, IsTask
<1>11. CASE SpawnFails
  BY <1>11, SpawnFailsEffect
<1>12. ASSUME NEW i \in Ids, TaskDiscarded(i) PROVE SpawnInv'
  BY <1>12, ScriptFrame DEF TaskDiscarded, IsTask
<1> QED
  BY <1>3, <1>4, <1>5, <1>6, <1>7, <1>8, <1>9, <1>10, <1>11, <1>12, StepCases
-----------------------------------------------------------------------------
(* What the pools hold when their queues and threads stay as they are. *)
LEMMA HeldFrame ==
    ASSUME UNCHANGED <<bgPending, bgRunning, fmtPending, fmtRunning>>
    PROVE  /\ BgHeld' = BgHeld /\ FmtHeld' = FmtHeld
           /\ spawning' = spawning => InFlight' = InFlight
           /\ spawning = None /\ spawning' # None => InFlight' = InFlight \cup {spawning'}
  BY DEF BgHeld, FmtHeld, InFlight

LEMMA HeldIds ==
    ASSUME TypeInv
    PROVE  /\ BgHeld \cup FmtHeld \cup bgEnded \cup fmtEnded \subseteq Ids
           /\ InFlight \subseteq Ids
           /\ None \notin Ids /\ Ids \subseteq Nat
           /\ at \in Nat \ {0}
<1>1. ASSUME NEW p, NEW r, NEW e, NEW S, PoolShape(p, r, e, S)
      PROVE  Held(p, r, S) \cup e \subseteq Ids
  BY <1>1, ElementOfSeq DEF PoolShape, Held, Elements
<1>2. /\ PoolShape(bgPending, bgRunning, bgEnded, WorkerThreads)
      /\ PoolShape(fmtPending, fmtRunning, fmtEnded, FmtThreads)
  BY DEF TypeInv
<1>3. BgHeld \cup bgEnded \subseteq Ids
  BY <1>1, <1>2 DEF BgHeld
<1>4. FmtHeld \cup fmtEnded \subseteq Ids
  BY <1>1, <1>2 DEF FmtHeld
<1>5. None \notin Ids /\ Ids \subseteq Nat
  BY ServerAssumption DEF Ids
<1>6. spawning \in Ids \cup {None} /\ at \in Nat \ {0}
  BY LenProperties DEF TypeInv, TypeOK
<1> QED
  BY <1>3, <1>4, <1>5, <1>6 DEF InFlight

(* The pools hold what came before. *)
LEMMA PlaceStep ==
    ASSUME ServerInv, [Next]_vars
    PROVE  PlaceInv'
<1> USE DEF ServerInv
<1>1. \A i : /\ IsTask(i, {"background"})' = IsTask(i, {"background"})
            /\ IsTask(i, {"fmt"})' = IsTask(i, {"fmt"})
  BY ScriptFrame, TextBeforeFrame
<1>2. /\ BgHeld \cup FmtHeld \cup bgEnded \cup fmtEnded \subseteq Ids
      /\ None \notin Ids /\ Ids \subseteq Nat /\ at \in Nat
  BY HeldIds
<1>3. ASSUME at' \in {at, at + 1}, spawning' \in {spawning, at},
             BgHeld' \cup bgEnded' \subseteq BgHeld \cup bgEnded,
             FmtHeld' \cup fmtEnded' \subseteq FmtHeld \cup fmtEnded
      PROVE  PlaceInv'
  <2>1. \A i \in Ids : i < at /\ i # spawning => i < at' /\ i # spawning'
    BY <1>2, <1>3
  <2>2. ASSUME NEW i \in BgHeld' \cup bgEnded'
        PROVE  i < at' /\ i # spawning' /\ IsTask(i, {"background"})'
    BY <1>1, <1>2, <1>3, <2>1 DEF PlaceInv
  <2>3. ASSUME NEW i \in FmtHeld' \cup fmtEnded'
        PROVE  i < at' /\ i # spawning' /\ IsTask(i, {"fmt"})'
    BY <1>1, <1>2, <1>3, <2>1 DEF PlaceInv
  <2> QED
    BY <2>2, <2>3 DEF PlaceInv
<1>4. CASE Quiet
  BY <1>3, <1>4, QuietEffect, HeldFrame
<1>5. CASE Housekeeping
  BY <1>3, <1>5, HousekeepingEffect, HeldFrame
<1>6. CASE ReceiveBackground
  BY <1>3, <1>6, ReceiveBackgroundEffect, HeldFrame
<1>7. CASE Spawn
  <2>1. /\ spawning \in Ids /\ spawning = at - 1 /\ spawning' = None
        /\ UNCHANGED <<at, script, bgEnded, fmtEnded>>
    BY <1>7, SpawnEffect DEF SpawnInv
  <2>2. \A i \in Ids : i < at \/ i = spawning => i < at' /\ i # spawning'
    BY <1>2, <2>1
  <2>3. /\ BgHeld' \subseteq BgHeld \cup {i \in {spawning} : IsTask(i, {"background"})}
        /\ FmtHeld' \subseteq FmtHeld \cup {i \in {spawning} : IsTask(i, {"fmt"})}
    BY <1>7, SpawnEffect
  <2>4. ASSUME NEW i \in BgHeld' \cup bgEnded'
        PROVE  i < at' /\ i # spawning' /\ IsTask(i, {"background"})'
    BY <1>1, <1>2, <2>1, <2>2, <2>3 DEF PlaceInv
  <2>5. ASSUME NEW i \in FmtHeld' \cup fmtEnded'
        PROVE  i < at' /\ i # spawning' /\ IsTask(i, {"fmt"})'
    BY <1>1, <1>2, <2>1, <2>2, <2>3 DEF PlaceInv
  <2> QED
    BY <2>4, <2>5 DEF PlaceInv
<1>8. CASE ReceiveNotification
  BY <1>3, <1>8, ReceiveNotificationEffect, HeldFrame
<1>9. CASE LeaveShutdown
  BY <1>3, <1>9, LeaveShutdownEffect, HeldFrame
<1>10. CASE TaskBegins
  BY <1>3, <1>10 DEF TaskBegins
<1>11. ASSUME NEW i \in Ids, TaskEnds(i) PROVE PlaceInv'
  BY <1>3, <1>11 DEF TaskEnds
<1>12. CASE SpawnFails
  <2>1. \A i \in Ids : i # spawning'
    BY <1>2, <1>12, SpawnFailsEffect
  <2>2. /\ BgHeld' \cup bgEnded' = BgHeld \cup bgEnded
        /\ FmtHeld' \cup fmtEnded' = FmtHeld \cup fmtEnded
        /\ at' = at
    BY <1>12, SpawnFailsEffect, HeldFrame
  <2> QED
    BY <1>1, <1>2, <2>1, <2>2 DEF PlaceInv
<1>13. ASSUME NEW i \in Ids, TaskDiscarded(i) PROVE PlaceInv'
  BY <1>3, <1>13, HeldFrame DEF TaskDiscarded
<1> QED
  BY <1>4, <1>5, <1>6, <1>7, <1>8, <1>9, <1>10, <1>11, <1>12, <1>13, StepCases

(* What tasks hold is what the documents were: the session changes only    *)
(* while no task is being built.                                           *)
LEMMA TextStep ==
    ASSUME ServerInv, [Next]_vars
    PROVE  TextInv'
<1> USE DEF ServerInv
<1>1. script' = script /\ \A u, i : TextBefore(u, i)' = TextBefore(u, i)
  BY ScriptFrame, TextBeforeFrame
<1>2. at \in Nat \ {0} /\ InFlight \subseteq Ids
  BY HeldIds
<1>3. /\ documents \in [Urls -> Ids \cup {None}]
      /\ copies \in [Ids -> Ids \cup {None}]
  BY DEF TypeInv, TypeOK
<1>4. \A i : WithoutThreads(i) => WithoutThreads(i)'
  BY LostGrows
<1>5. ASSUME loop' \in {"register", "receive", "spawn"} =>
                 \A u \in Urls : documents'[u] = TextBefore(u, at'),
              \A i \in Ids :
                 \/ copies'[i] = None
                 \/ i \in InFlight' /\ copies'[i] = TextBefore(script[i].url, i),
              \A i \in InFlight' :
                 copies'[i] = TextBefore(script[i].url, i) \/ WithoutThreads(i)'
       PROVE  TextInv'
  <2>1. \A u : TextBefore(u, at)' = TextBefore(u, at')
    BY <1>1 DEF TextBefore
  <2> QED
    BY <1>1, <1>5, <2>1 DEF TextInv
<1>6. ASSUME copies' = copies, InFlight' = InFlight,
             loop' \in {"register", "receive", "spawn"} =>
                \A u \in Urls : documents'[u] = TextBefore(u, at')
      PROVE  TextInv'
  BY <1>6, <1>4, <1>5 DEF TextInv
<1>7. CASE Quiet
  <2>1. loop' = "receive" => \A u : TextBefore(u, at + 1) = TextBefore(u, at)
    BY <1>2, <1>7, QuietEffect, TextBeforeNext
  <2>2. loop' \in {"register", "receive", "spawn"} =>
           \A u \in Urls : documents'[u] = TextBefore(u, at')
    BY <1>7, <2>1, QuietEffect DEF TextInv
  <2> QED
    BY <1>6, <1>7, <2>2, QuietEffect, HeldFrame
<1>8. CASE Housekeeping
  <2>1. loop' \in {"register", "receive", "spawn"} => loop \in {"register", "receive", "spawn"}
    BY <1>8, HousekeepingEffect
  <2>2. loop' \in {"register", "receive", "spawn"} =>
           \A u \in Urls : documents'[u] = TextBefore(u, at')
    BY <1>8, <2>1, HousekeepingEffect DEF TextInv
  <2> QED
    BY <1>6, <1>8, <2>2, HousekeepingEffect, HeldFrame
<1>9. CASE ReceiveBackground
  <2> DEFINE url == script[at].url
  <2>1. /\ at \in Ids /\ at \notin InFlight /\ url \in Urls
        /\ copies' = [copies EXCEPT ![at] = documents[url]]
        /\ documents' = documents /\ loop = "receive" /\ at' = at + 1
    BY <1>9, ReceiveBackgroundEffect
  <2>2. InFlight' = InFlight \cup {at}
    BY <1>9, ReceiveBackgroundEffect, HeldFrame
  <2>3. documents[url] = TextBefore(url, at)
    BY <2>1 DEF TextInv
  <2>4. \A u : TextBefore(u, at') = TextBefore(u, at)
    <3>1. script[at].kind = "request"
      BY <1>9, ReceiveBackgroundEffect DEF IsTask
    <3>2. \A u : TextBefore(u, at + 1) = TextBefore(u, at)
      BY <1>2, <3>1, TextBeforeNext
    <3> QED
      BY <2>1, <3>2
  <2>5. \A u \in Urls : documents'[u] = TextBefore(u, at')
    BY <2>1, <2>4 DEF TextInv
  <2>6. copies'[at] = TextBefore(url, at) /\ \A i \in Ids \ {at} : copies'[i] = copies[i]
    BY <1>3, <2>1, <2>3
  <2>7. \A i \in Ids :
           copies'[i] = None \/ (i \in InFlight' /\ copies'[i] = TextBefore(script[i].url, i))
    BY <2>2, <2>6 DEF TextInv
  <2>8. \A i \in InFlight' : copies'[i] = TextBefore(script[i].url, i) \/ WithoutThreads(i)'
    BY <1>2, <1>4, <2>2, <2>6 DEF TextInv
  <2> QED
    BY <1>5, <2>5, <2>7, <2>8
<1>10. CASE Spawn
  BY <1>6, <1>10, SpawnEffect DEF TextInv
<1>11. CASE ReceiveNotification
  <2> DEFINE url == script[at].url
  <2>0. /\ script[at].kind = "notification"
        /\ \/ script[at].method = "open" /\ documents' = [documents EXCEPT ![url] = at]
           \/ script[at].method = "change" /\ documents[url] # None
              /\ documents' = [documents EXCEPT ![url] = at]
           \/ script[at].method = "close" /\ documents' = [documents EXCEPT ![url] = None]
    BY <1>11, ReceiveNotificationEffect
  <2>1. \A u \in Urls : documents[u] = TextBefore(u, at)
    BY <1>11, ReceiveNotificationEffect DEF TextInv
  <2>2. ASSUME NEW u \in Urls PROVE documents'[u] = TextBefore(u, at + 1)
    <3>1. CASE u # url
      <4>1. TextBefore(u, at + 1) = TextBefore(u, at)
        BY <1>2, <3>1, TextBeforeNext
      <4>2. documents'[u] = documents[u]
        BY <1>3, <1>11, <3>1, ReceiveNotificationEffect
      <4> QED
        BY <2>1, <4>1, <4>2
    <3>2. CASE u = url /\ script[at].method = "open"
      <4>1. TextBefore(u, at + 1) = at
        BY <1>2, <2>0, <3>2, TextBeforeNext
      <4>2. documents'[u] = at
        BY <1>3, <2>0, <3>2
      <4> QED
        BY <4>1, <4>2
    <3>3. CASE u = url /\ script[at].method = "change"
      <4>1. TextBefore(u, at) # None
        BY <2>0, <2>1, <3>3
      <4>2. TextBefore(u, at + 1) = at
        BY <1>2, <2>0, <3>3, <4>1, TextBeforeNext
      <4>3. documents'[u] = at
        BY <1>3, <2>0, <3>3
      <4> QED
        BY <4>2, <4>3
    <3>4. CASE u = url /\ script[at].method = "close"
      <4>1. TextBefore(u, at + 1) = None
        BY <1>2, <2>0, <3>4, TextBeforeNext
      <4>2. documents'[u] = None
        BY <1>3, <2>0, <3>4
      <4> QED
        BY <4>1, <4>2
    <3> QED
      BY <1>11, <3>1, <3>2, <3>3, <3>4, ReceiveNotificationEffect
  <2> QED
    BY <1>6, <1>11, <2>2, ReceiveNotificationEffect, HeldFrame
<1>12. CASE LeaveShutdown
  BY <1>6, <1>12, LeaveShutdownEffect, HeldFrame
<1>13. CASE TaskBegins
  BY <1>6, <1>13 DEF TaskBegins, TextInv
<1>14. ASSUME NEW k \in Ids, copies' = [copies EXCEPT ![k] = None],
              UNCHANGED documents, InFlight \ {k} \subseteq InFlight', InFlight' \subseteq InFlight,
              at' = at, loop' = loop \/ loop' = "drop_fmt",
              k \in InFlight' => WithoutThreads(k)
       PROVE  TextInv'
  <2>1. copies'[k] = None /\ \A i \in Ids \ {k} : copies'[i] = copies[i]
    BY <1>3, <1>14
  <2>2. \A i \in InFlight' : copies'[i] = TextBefore(script[i].url, i) \/ WithoutThreads(i)'
    BY <1>2, <1>4, <1>14, <2>1 DEF TextInv
  <2>3. \A i \in Ids :
           copies'[i] = None \/ (i \in InFlight' /\ copies'[i] = TextBefore(script[i].url, i))
    BY <1>14, <2>1 DEF TextInv
  <2>4. loop' \in {"register", "receive", "spawn"} =>
           \A u \in Urls : documents'[u] = TextBefore(u, at')
    BY <1>14 DEF TextInv
  <2> QED
    BY <1>5, <1>14, <2>1, <2>2, <2>3, <2>4
<1>15. ASSUME NEW k \in Ids, TaskEnds(k) PROVE TextInv'
  BY <1>15, <1>14 DEF TaskEnds
<1>16. CASE SpawnFails
  BY <1>14, <1>16, SpawnFailsEffect
<1>17. ASSUME NEW k \in Ids, TaskDiscarded(k) PROVE TextInv'
  BY <1>14, <1>17, HeldFrame DEF TaskDiscarded
<1> QED
  BY <1>7, <1>8, <1>9, <1>10, <1>11, <1>12, <1>13, <1>15, <1>16, <1>17, StepCases

(* A background request is computed from what its task holds. *)
LEMMA ReadStep ==
    ASSUME ServerInv, [Next]_vars
    PROVE  ReadsRequestedText'
<1> USE DEF ServerInv
<1>1. script' = script /\ \A u, i : TextBefore(u, i)' = TextBefore(u, i)
  BY ScriptFrame, TextBeforeFrame
<1>2. CASE read' = read
  BY <1>1, <1>2 DEF ReadsRequestedText
<1>3. ASSUME NEW k \in Ids, TaskEnds(k) PROVE ReadsRequestedText'
  <2>1. copies[k] # None => copies[k] = TextBefore(script[k].url, k)
    BY <1>3 DEF TextInv
  <2>2. read \in [Ids -> Ids \cup {None}]
    BY DEF TypeInv, TypeOK
  <2>3. read' = read \/ (copies[k] # None /\ read' = [read EXCEPT ![k] = copies[k]])
    BY <1>3 DEF TaskEnds, Ran
  <2>4. \A i \in Ids : read'[i] # None => read'[i] = TextBefore(script[i].url, i)
    BY <2>1, <2>2, <2>3 DEF ReadsRequestedText
  <2> QED
    BY <1>1, <2>4 DEF ReadsRequestedText
<1> QED
  BY <1>2, <1>3, StepCases, QuietEffect, HousekeepingEffect, ReceiveBackgroundEffect, SpawnEffect,
     SpawnFailsEffect, ReceiveNotificationEffect, LeaveShutdownEffect
     DEF TaskBegins, TaskDiscarded
-----------------------------------------------------------------------------
(* Answers are only added. *)
LEMMA ResponsesGrow ==
    ASSUME TypeInv, NEW j \in Ids, responses' = Append(responses, j)
    PROVE  /\ Len(responses) \in Nat
           /\ \A n \in 1..Len(responses') : n \in 1..Len(responses) \/ n = Len(responses) + 1
           /\ \A n \in 1..Len(responses) : responses'[n] = responses[n]
           /\ responses'[Len(responses) + 1] = j
           /\ \A i : Answered(i) => Answered(i)'
           /\ Answered(j)'
<1>1. /\ Len(responses') = Len(responses) + 1
      /\ \A n \in 1..Len(responses) : responses'[n] = responses[n]
      /\ responses'[Len(responses) + 1] = j
      /\ Len(responses) \in Nat
  BY AppendElements DEF TypeInv, TypeOK
<1>2. \A n : n \in 1..Len(responses') <=> n \in 1..Len(responses) \/ n = Len(responses) + 1
  BY <1>1
<1>3. ASSUME NEW i, Answered(i) \/ i = j PROVE Answered(i)'
  <2>1. \E n \in 1..Len(responses') : responses'[n] = i
    BY <1>1, <1>2, <1>3 DEF Answered
  <2> QED
    BY <2>1 DEF Answered
<1> QED
  BY <1>1, <1>2, <1>3

(* Nothing is answered before it has come or, if it is a task, ended. *)
LEMMA AnswersStep ==
    ASSUME ServerInv, [Next]_vars
    PROVE  AnswersInv'
<1> USE DEF ServerInv
<1>1. script' = script
  BY ScriptFrame
<1>2. /\ BgHeld \cup FmtHeld \subseteq Ids
      /\ Ids \subseteq Nat /\ at \in Nat
      /\ \A n \in 1..Len(responses) : responses[n] \in Ids
  BY HeldIds, ElementOfSeq DEF TypeInv, TypeOK
<1>3. ASSUME responses' = responses, at' \in {at, at + 1},
             bgEnded \subseteq bgEnded', fmtEnded \subseteq fmtEnded'
      PROVE  AnswersInv'
  <2>1. ASSUME NEW n \in 1..Len(responses)
        PROVE  /\ responses[n] < at'
               /\ script[responses[n]].kind \in {"request", "shutdown"}
               /\ IsTask(responses[n], {"background"}) => responses[n] \in bgEnded'
               /\ IsTask(responses[n], {"fmt"}) => responses[n] \in fmtEnded'
    <3>1. responses[n] < at /\ responses[n] \in Nat
      BY <1>2 DEF AnswersInv
    <3>2. responses[n] < at'
      BY <1>2, <1>3, <3>1
    <3> QED
      BY <1>3, <3>2 DEF AnswersInv
  <2>2. \A m, n \in 1..Len(responses') : responses'[m] = responses'[n] => m = n
    BY <1>3 DEF AnswersInv
  <2> QED
    BY <1>1, <1>3, <2>1, <2>2 DEF AnswersInv, IsTask
<1>4. ASSUME NEW j \in Ids, responses' = Append(responses, j), at' \in {at, at + 1},
             bgEnded \subseteq bgEnded', fmtEnded \subseteq fmtEnded',
             j < at', script[j].kind \in {"request", "shutdown"},
             IsTask(j, {"background"}) => j \in bgEnded',
             IsTask(j, {"fmt"}) => j \in fmtEnded',
             \A n \in 1..Len(responses) : responses[n] # j
      PROVE  AnswersInv'
  <2>1. /\ \A n \in 1..Len(responses') : n \in 1..Len(responses) \/ n = Len(responses) + 1
        /\ \A n \in 1..Len(responses) : responses'[n] = responses[n]
        /\ responses'[Len(responses) + 1] = j
    BY <1>4, ResponsesGrow
  <2>2. ASSUME NEW n \in 1..Len(responses)
        PROVE  /\ responses[n] < at'
               /\ script[responses[n]].kind \in {"request", "shutdown"}
               /\ IsTask(responses[n], {"background"}) => responses[n] \in bgEnded'
               /\ IsTask(responses[n], {"fmt"}) => responses[n] \in fmtEnded'
    <3>1. responses[n] < at /\ responses[n] \in Nat
      BY <1>2 DEF AnswersInv
    <3>2. responses[n] < at'
      BY <1>2, <1>4, <3>1
    <3> QED
      BY <1>4, <3>2 DEF AnswersInv
  <2>3. ASSUME NEW n \in 1..Len(responses')
        PROVE  /\ responses'[n] < at'
               /\ script[responses'[n]].kind \in {"request", "shutdown"}
               /\ IsTask(responses'[n], {"background"}) => responses'[n] \in bgEnded'
               /\ IsTask(responses'[n], {"fmt"}) => responses'[n] \in fmtEnded'
    BY <1>4, <2>1, <2>2
  <2>4. \A m, n \in 1..Len(responses') : responses'[m] = responses'[n] => m = n
    BY <1>4, <2>1 DEF AnswersInv
  <2> QED
    BY <1>1, <2>3, <2>4 DEF AnswersInv, IsTask
<1>5. CASE Quiet
  <2>1. CASE responses' = responses
    BY <1>3, <1>5, <2>1, QuietEffect
  <2>2. CASE responses' # responses
    <3>1. /\ responses' = Append(responses, at) /\ script[at].kind \in {"request", "shutdown"}
          /\ ~ IsTask(at, {"background", "fmt"}) /\ at \in Ids /\ at' = at + 1
          /\ UNCHANGED <<bgEnded, fmtEnded>>
      BY <1>5, <2>2, QuietEffect
    <3>2. \A n \in 1..Len(responses) : responses[n] # at
      BY <1>2 DEF AnswersInv
    <3>3. ~ IsTask(at, {"background"}) /\ ~ IsTask(at, {"fmt"}) /\ at < at'
      BY <1>2, <3>1 DEF IsTask
    <3> QED
      BY <1>4, <3>1, <3>2, <3>3
  <2> QED
    BY <2>1, <2>2
<1>6. ASSUME NEW i \in Ids, TaskEnds(i) PROVE AnswersInv'
  <2>1. at' = at /\ bgEnded \subseteq bgEnded' /\ fmtEnded \subseteq fmtEnded'
    BY <1>6 DEF TaskEnds
  <2>2. CASE responses' = responses
    BY <1>3, <2>1, <2>2
  <2>3. CASE responses' # responses
    <3>1. /\ responses' = Append(responses, i) /\ i \notin bgEnded /\ i \notin fmtEnded
          /\ \/ i \in BgHeld /\ i \in bgEnded'
             \/ i \in FmtHeld /\ i \in fmtEnded'
      BY <1>6, <2>3 DEF TaskEnds, Ran
    <3>2. /\ i < at /\ script[i].kind = "request"
          /\ IsTask(i, {"background"}) => i \in bgEnded'
          /\ IsTask(i, {"fmt"}) => i \in fmtEnded'
          /\ IsTask(i, {"background"}) \/ IsTask(i, {"fmt"})
      BY <3>1 DEF PlaceInv, IsTask
    <3>3. \A n \in 1..Len(responses) : responses[n] # i
      BY <3>1, <3>2 DEF AnswersInv
    <3> QED
      BY <1>4, <2>1, <3>1, <3>2, <3>3
  <2> QED
    BY <2>2, <2>3
<1> QED
  BY <1>3, <1>5, <1>6, StepCases, HousekeepingEffect, ReceiveBackgroundEffect, SpawnEffect,
     SpawnFailsEffect, ReceiveNotificationEffect, LeaveShutdownEffect
     DEF TaskBegins, TaskDiscarded

(* A formatting request is answered by the one thread, after those that    *)
(* ended before.                                                           *)
LEMMA FmtAnswersStep ==
    ASSUME ServerInv, [Next]_vars
    PROVE  FmtAnswersInOrder'
<1> USE DEF ServerInv
<1> DEFINE fmt(i) == script[i].kind = "request" /\ script[i].method = "fmt"
<1>1. script' = script
  BY ScriptFrame
<1>2. CASE responses' = responses
  BY <1>1, <1>2 DEF FmtAnswersInOrder
<1>3. ASSUME NEW j \in Ids, responses' = Append(responses, j),
             fmt(j) => \A n \in 1..Len(responses) : fmt(responses[n]) => responses[n] < j
      PROVE  FmtAnswersInOrder'
  <2>1. /\ Len(responses) \in Nat
        /\ \A n \in 1..Len(responses') : n \in 1..Len(responses) \/ n = Len(responses) + 1
        /\ \A n \in 1..Len(responses) : responses'[n] = responses[n]
        /\ responses'[Len(responses) + 1] = j
    BY <1>3, ResponsesGrow
  <2>2. ASSUME NEW m \in 1..Len(responses'), NEW n \in 1..Len(responses'), m < n,
               fmt(responses'[m]), fmt(responses'[n])
        PROVE  responses'[m] < responses'[n]
    <3>1. m \in 1..Len(responses)
      BY <2>1, <2>2
    <3>2. CASE n \in 1..Len(responses)
      BY <2>1, <2>2, <3>1, <3>2 DEF FmtAnswersInOrder
    <3>3. CASE n = Len(responses) + 1
      BY <1>3, <2>1, <2>2, <3>1, <3>3
    <3> QED
      BY <2>1, <3>2, <3>3
  <2> QED
    BY <1>1, <2>2 DEF FmtAnswersInOrder
<1>4. CASE Quiet
  <2>1. ~ IsTask(at, {"background", "fmt"}) /\ at \in Ids
        /\ (responses' = responses \/ responses' = Append(responses, at))
    BY <1>4, QuietEffect
  <2>2. ~ fmt(at)
    BY <2>1 DEF IsTask
  <2> QED
    BY <1>2, <1>3, <2>1, <2>2
<1>5. ASSUME NEW i \in Ids, TaskEnds(i) PROVE FmtAnswersInOrder'
  <2>1. responses' = responses \/ responses' = Append(responses, i)
    BY <1>5 DEF TaskEnds, Ran
  <2>2. ASSUME fmt(i), NEW n \in 1..Len(responses), fmt(responses[n]) PROVE responses[n] < i
    <3>1. responses[n] \in fmtEnded
      BY <2>2 DEF AnswersInv, IsTask
    <3>2. i \in FmtHeld
      BY <1>5, <2>2 DEF TaskEnds, PlaceInv, IsTask
    <3> QED
      BY <3>1, <3>2 DEF FmtOrderInv
  <2> QED
    BY <1>2, <1>3, <2>1, <2>2
<1> QED
  BY <1>2, <1>4, <1>5, StepCases, HousekeepingEffect, ReceiveBackgroundEffect, SpawnEffect,
     SpawnFailsEffect, ReceiveNotificationEffect, LeaveShutdownEffect
     DEF TaskBegins, TaskDiscarded
-----------------------------------------------------------------------------
(* The loop leaves a pool when it holds no snapshot, and every task it      *)
(* accepted has then been answered, has failed or has lost its threads.    *)
LEMMA DrainStep ==
    ASSUME ServerInv, [Next]_vars
    PROVE  DrainInv'
<1> USE DEF ServerInv
<1>1. /\ script' = script
      /\ \A i : Accepted(i)' = Accepted(i)
      /\ \A i : Accepted(i) => IsTask(i, {"background", "fmt"})
  BY ScriptFrame, TextBeforeFrame DEF Accepted, IsTask
<1>2. at \in Nat \ {0} /\ InFlight \subseteq Ids /\ Ids \subseteq Nat
  BY HeldIds
<1>3. /\ \A i : WithoutThreads(i) => WithoutThreads(i)'
      /\ Growing
  BY LostGrows
<1>4. ASSUME responses' = responses \/ \E j \in Ids : responses' = Append(responses, j)
      PROVE  \A i : Answered(i) => Answered(i)'
  <2>1. CASE responses' = responses
    BY <2>1 DEF Answered
  <2> QED
    BY <1>4, <2>1, ResponsesGrow
<1>5. ASSUME \A i : Answered(i) => Answered(i)',
             NEW i, Served(i), i \in InFlight => Served(i)'
      PROVE  Served(i)'
  <2>1. CASE i \in failed
    BY <1>3, <2>1 DEF Served, Growing
  <2>2. CASE WithoutThreads(i)
    BY <1>3, <2>2 DEF Served
  <2>3. CASE Answered(i)
    BY <1>5, <2>3 DEF Served
  <2> QED
    BY <1>5, <2>1, <2>2, <2>3 DEF Served
<1>6. ASSUME loop' = "exiting" => at' > 1 /\ script[at' - 1].kind = "shutdown",
             \A i \in 1..at' - 1 : Accepted(i) => Served(i)',
             loop' \in {"drop_background", "join_background", "ended"} => FmtLeft',
             loop' = "ended" => BgLeft'
      PROVE  DrainInv'
  <2>1. \A i : Accepted(i)' <=> Accepted(i)
    BY <1>1
  <2> QED
    BY <1>1, <1>6, <2>1 DEF DrainInv
<1>7. ASSUME UNCHANGED <<bgPending, bgRunning, bgLost, fmtPending, fmtRunning, fmtLost>>,
             copies' = copies \/ \E i \in Ids : copies' = [copies EXCEPT ![i] = None]
      PROVE  (FmtLeft => FmtLeft') /\ (BgLeft => BgLeft')
  <2>1. BgHeld' = BgHeld /\ FmtHeld' = FmtHeld
    BY <1>7, HeldFrame
  <2>2. \A i \in Ids : copies[i] = None => copies'[i] = None
    BY <1>7 DEF TypeInv, TypeOK
  <2>3. BgHeld \cup FmtHeld \subseteq Ids
    BY HeldIds
  <2> QED
    BY <1>7, <2>1, <2>2, <2>3 DEF FmtLeft, BgLeft
<1>8. CASE Quiet
  <2>1. /\ loop' \in {"receive", "exiting", "drop_fmt"} /\ at' = at + 1
        /\ loop' = "exiting" => script[at].kind = "shutdown"
        /\ ~ Accepted(at)
    BY <1>1, <1>8, QuietEffect
  <2>2. InFlight' = InFlight
    BY <1>8, QuietEffect, HeldFrame
  <2>3. \A i : Answered(i) => Answered(i)'
    BY <1>4, <1>8, QuietEffect
  <2>4. \A i \in 1..at' - 1 : i \in 1..at - 1 \/ i = at
    BY <1>2, <2>1
  <2>5. \A i \in 1..at' - 1 : Accepted(i) => Served(i)'
    BY <1>5, <2>1, <2>2, <2>3, <2>4 DEF DrainInv, Served
  <2>6. loop' = "exiting" => at' > 1 /\ script[at' - 1].kind = "shutdown"
    BY <1>2, <2>1
  <2> QED
    BY <1>6, <2>1, <2>5, <2>6
<1>9. CASE Housekeeping
  <2>1. /\ UNCHANGED <<at, responses, spawning, copies, bgPending, bgRunning, bgLost,
                       fmtPending, fmtRunning, fmtLost>>
        /\ loop' = "exiting" => loop = "exiting"
    BY <1>9, HousekeepingEffect
  <2>2. InFlight' = InFlight /\ (FmtLeft => FmtLeft') /\ (BgLeft => BgLeft')
    BY <1>7, <2>1, HeldFrame
  <2>3. \A i \in 1..at' - 1 : Accepted(i) => Served(i)'
    BY <1>4, <1>5, <2>1, <2>2 DEF DrainInv, Served
  <2>4. loop' \in {"drop_background", "join_background", "ended"} => FmtLeft'
    BY <1>9, <2>2, HousekeepingEffect DEF DrainInv
  <2>5. loop' = "ended" => BgLeft'
    BY <1>9, <2>2, HousekeepingEffect DEF DrainInv
  <2>6. loop' = "exiting" => at' > 1 /\ script[at' - 1].kind = "shutdown"
    BY <2>1 DEF DrainInv
  <2> QED
    BY <1>6, <2>3, <2>4, <2>5, <2>6
<1>10. CASE ReceiveBackground
  <2>1. loop' = "spawn" /\ at' = at + 1 /\ responses' = responses
    BY <1>10, ReceiveBackgroundEffect
  <2>2. InFlight' = InFlight \cup {at}
    BY <1>10, ReceiveBackgroundEffect, HeldFrame
  <2>3. \A i \in 1..at' - 1 : i \in 1..at - 1 \/ i = at
    BY <1>2, <2>1
  <2>4. \A i \in 1..at' - 1 : Accepted(i) => Served(i)'
    BY <1>4, <1>5, <2>1, <2>2, <2>3 DEF DrainInv, Served
  <2> QED
    BY <1>6, <2>1, <2>4
<1>11. CASE Spawn
  <2>1. loop' = "receive" /\ at' = at /\ responses' = responses /\ InFlight' = InFlight
    BY <1>11, SpawnEffect
  <2>2. \A i \in 1..at' - 1 : Accepted(i) => Served(i)'
    BY <1>4, <1>5, <2>1 DEF DrainInv, Served
  <2> QED
    BY <1>6, <2>1, <2>2
<1>12. CASE SpawnFails
  <2>1. /\ loop' = "drop_fmt" /\ at' = at /\ responses' = responses
        /\ InFlight' = InFlight \ {spawning} /\ WithoutThreads(spawning)
    BY <1>12, SpawnFailsEffect
  <2>2. \A i \in InFlight : Served(i)'
    BY <1>3, <2>1 DEF Served
  <2>3. \A i \in 1..at' - 1 : Accepted(i) => Served(i)'
    BY <1>4, <1>5, <2>1, <2>2 DEF DrainInv
  <2> QED
    BY <1>6, <2>1, <2>3
<1>13. CASE ReceiveNotification
  <2>1. /\ loop' = "receive" /\ at' = at + 1 /\ responses' = responses
        /\ ~ IsTask(at, {"background", "fmt"})
    BY <1>13, ReceiveNotificationEffect DEF IsTask
  <2>2. InFlight' = InFlight
    BY <1>13, ReceiveNotificationEffect, HeldFrame
  <2>3. \A i \in 1..at' - 1 : i \in 1..at - 1 \/ i = at
    BY <1>2, <2>1
  <2>4. \A i \in 1..at' - 1 : Accepted(i) => Served(i)'
    BY <1>1, <1>4, <1>5, <2>1, <2>2, <2>3 DEF DrainInv, Served
  <2> QED
    BY <1>6, <2>1, <2>4
<1>14. CASE LeaveShutdown
  <2>1. /\ loop = "exiting" /\ loop' = "drop_fmt" /\ responses' = responses
        /\ at' = at \/ at' = at + 1
    BY <1>14, LeaveShutdownEffect
  <2>2. InFlight' = InFlight
    BY <1>14, LeaveShutdownEffect, HeldFrame
  <2>3. ~ Accepted(at)
    <3>1. at - 1 \in 1..at /\ script[at - 1].kind = "shutdown"
      BY <1>2, <2>1 DEF DrainInv
    <3> QED
      BY <3>1 DEF Accepted
  <2>4. \A i \in 1..at' - 1 : i \in 1..at - 1 \/ i = at
    BY <1>2, <2>1
  <2>5. \A i \in 1..at' - 1 : Accepted(i) => Served(i)'
    BY <1>4, <1>5, <2>1, <2>2, <2>3, <2>4 DEF DrainInv, Served
  <2> QED
    BY <1>6, <2>1, <2>5
<1>15. CASE TaskBegins
  <2>1. UNCHANGED <<script, loop, at, responses, copies, bgLost, fmtLost>>
        /\ BgHeld' = BgHeld /\ FmtHeld' = FmtHeld /\ InFlight' = InFlight
    BY <1>15 DEF TaskBegins
  <2>2. \A i \in 1..at' - 1 : Accepted(i) => Served(i)'
    BY <1>4, <1>5, <2>1 DEF DrainInv, Served
  <2>3. (FmtLeft => FmtLeft') /\ (BgLeft => BgLeft')
    BY <2>1 DEF FmtLeft, BgLeft
  <2> QED
    BY <1>6, <2>1, <2>2, <2>3 DEF DrainInv
<1>16. ASSUME NEW k \in Ids, TaskEnds(k) PROVE DrainInv'
  <2>1. /\ UNCHANGED <<script, loop, at>> /\ BgHeld' \subseteq BgHeld /\ FmtHeld' \subseteq FmtHeld
        /\ InFlight' = InFlight \ {k} /\ k \in InFlight
        /\ copies' = [copies EXCEPT ![k] = None]
    BY <1>16 DEF TaskEnds
  <2>2. \/ copies[k] = None /\ responses' = responses
        \/ responses' = Append(responses, k)
        \/ k \in failed' /\ responses' = responses
    BY <1>16 DEF TaskEnds, Ran
  <2>3. \A i : Answered(i) => Answered(i)'
    BY <1>4, <2>2
  <2>4. Accepted(k) => Served(k)'
    <3>1. CASE copies[k] = None
      BY <1>3, <2>1, <3>1 DEF TextInv, Accepted, Served
    <3>2. CASE responses' = Append(responses, k)
      BY <3>2, ResponsesGrow DEF Served
    <3>3. CASE k \in failed'
      BY <3>3 DEF Served
    <3> QED
      BY <2>2, <3>1, <3>2, <3>3
  <2>5. \A i \in InFlight \ {k} : Served(i)'
    BY <2>1 DEF Served
  <2>6. \A i \in 1..at' - 1 : Accepted(i) => Served(i)'
    BY <1>5, <2>1, <2>3, <2>4, <2>5 DEF DrainInv
  <2>7. (FmtLeft => FmtLeft') /\ (BgLeft => BgLeft')
    <3>1. \A i \in BgHeld \cup FmtHeld : copies[i] = None => copies'[i] = None
      BY <2>1, HeldIds DEF TypeInv, TypeOK
    <3>2. bgLost = WorkerThreads => bgLost' = WorkerThreads
      BY <1>3 DEF Growing
    <3>3. fmtLost = FmtThreads => fmtLost' = FmtThreads
      BY <1>3 DEF Growing
    <3> QED
      BY <2>1, <3>1, <3>2, <3>3 DEF FmtLeft, BgLeft
  <2> QED
    BY <1>6, <2>1, <2>6, <2>7 DEF DrainInv
<1>17. ASSUME NEW k \in Ids, TaskDiscarded(k) PROVE DrainInv'
  <2>1. /\ UNCHANGED <<loop, at, responses, spawning, bgPending, bgRunning, bgLost,
                       fmtPending, fmtRunning, fmtLost>>
        /\ copies' = [copies EXCEPT ![k] = None]
    BY <1>17 DEF TaskDiscarded
  <2>2. InFlight' = InFlight /\ (FmtLeft => FmtLeft') /\ (BgLeft => BgLeft')
    BY <1>7, <2>1, HeldFrame
  <2>3. \A i \in 1..at' - 1 : Accepted(i) => Served(i)'
    BY <1>4, <1>5, <2>1, <2>2 DEF DrainInv, Served
  <2> QED
    BY <1>1, <1>6, <2>1, <2>2, <2>3 DEF DrainInv
<1> QED
  BY <1>8, <1>9, <1>10, <1>11, <1>12, <1>13, <1>14, <1>15, <1>16, <1>17, StepCases

(* A failure unwinds the loop, or a thread that is joined before the loop  *)
(* ends.                                                                   *)
LEMMA FailStep ==
    ASSUME ServerInv, [Next]_vars
    PROVE  FailInv'
<1> USE DEF ServerInv, FailInv
<1>1. CASE Quiet
  BY <1>1, QuietEffect
<1>2. CASE Housekeeping
  BY <1>2, HousekeepingEffect
<1>3. CASE ReceiveBackground
  BY <1>3, ReceiveBackgroundEffect
<1>4. CASE Spawn
  BY <1>4, SpawnEffect
<1>5. CASE SpawnFails
  BY <1>5, SpawnFailsEffect
<1>6. CASE ReceiveNotification
  BY <1>6, ReceiveNotificationEffect
<1>7. CASE LeaveShutdown
  BY <1>7, LeaveShutdownEffect
<1>8. CASE TaskBegins
  BY <1>8 DEF TaskBegins
<1>9. ASSUME NEW i \in Ids, TaskDiscarded(i) PROVE FailInv'
  BY <1>9 DEF TaskDiscarded
<1>10. ASSUME NEW i \in Ids, TaskEnds(i) PROVE FailInv'
  <2>1. loop' = loop /\ result' = result
    BY <1>10 DEF TaskEnds
  <2>2. CASE UNCHANGED <<failed, bgLost, fmtLost>>
    BY <2>1, <2>2
  <2>3. ASSUME copies[i] # None, i \in BgHeld, fmtLost' = fmtLost,
               NEW w \in WorkerThreads, bgLost' = bgLost \cup {w}
        PROVE  FailInv'
    <3>1. loop # "ended"
      BY <2>3 DEF DrainInv, BgLeft
    <3>2. bgLost' # {}
      BY <2>3
    <3> QED
      BY <2>1, <2>3, <3>1, <3>2
  <2>4. ASSUME copies[i] # None, i \in FmtHeld, bgLost' = bgLost,
               NEW w \in FmtThreads, fmtLost' = fmtLost \cup {w}
        PROVE  FailInv'
    <3>1. loop \notin {"drop_background", "join_background", "ended"}
      BY <2>4 DEF DrainInv, FmtLeft
    <3>2. fmtLost' # {}
      BY <2>4
    <3> QED
      BY <2>1, <2>4, <3>1, <3>2
  <2> QED
    BY <1>10, <2>2, <2>3, <2>4 DEF TaskEnds, Ran
<1> QED
  BY <1>1, <1>2, <1>3, <1>4, <1>5, <1>6, <1>7, <1>8, <1>9, <1>10, StepCases
-----------------------------------------------------------------------------
(* One thread and one queue keep the order. *)
LEMMA FmtOrderStep ==
    ASSUME ServerInv, [Next]_vars
    PROVE  FmtOrderInv'
<1> USE DEF ServerInv
<1>1. CASE FmtHeld' = FmtHeld /\ UNCHANGED <<fmtPending, fmtRunning, fmtEnded>>
  BY <1>1 DEF FmtOrderInv
<1>2. /\ FmtHeld \cup fmtEnded \subseteq Ids /\ Ids \subseteq Nat
      /\ at \in Nat /\ None \notin Ids
  BY HeldIds
<1>3. /\ fmtPending \in Seq(Ids)
      /\ \A m, n \in 1..Len(fmtPending) : fmtPending[m] = fmtPending[n] => m = n
      /\ fmtRunning \in [FmtThreads -> Ids \cup {None}]
  BY DEF TypeInv, PoolShape
<1>4. /\ \A n \in 1..Len(fmtPending) : fmtPending[n] \in FmtHeld
      /\ \A s \in FmtThreads : fmtRunning[s] # None => fmtRunning[s] \in FmtHeld
  BY DEF FmtHeld, Held, Elements
<1>5. ASSUME Spawn, fmtPending' = Append(fmtPending, spawning), FmtHeld' = FmtHeld \cup {spawning}
      PROVE  FmtOrderInv'
  <2>1. spawning \in Ids /\ spawning = at - 1 /\ UNCHANGED <<fmtRunning, fmtEnded>>
    BY <1>5, SpawnEffect DEF SpawnInv
  <2>2. \A i \in FmtHeld \cup fmtEnded : i < spawning
    <3>1. \A i \in FmtHeld \cup fmtEnded : i \in Nat /\ i < at /\ i # spawning
      BY <1>2 DEF PlaceInv
    <3> QED
      BY <1>2, <2>1, <3>1
  <2>3. /\ Len(fmtPending) \in Nat
        /\ Len(fmtPending') = Len(fmtPending) + 1
        /\ \A n \in 1..Len(fmtPending) : fmtPending'[n] = fmtPending[n]
        /\ fmtPending'[Len(fmtPending) + 1] = spawning
    BY <1>3, <1>5, <2>1, AppendElements
  <2>4. \A n \in 1..Len(fmtPending') : n \in 1..Len(fmtPending) \/ n = Len(fmtPending) + 1
    BY <2>3
  <2>5. \A m, n \in 1..Len(fmtPending') : m < n => fmtPending'[m] < fmtPending'[n]
    BY <1>4, <2>2, <2>3, <2>4 DEF FmtOrderInv
  <2>6. \A s \in FmtThreads, n \in 1..Len(fmtPending') :
           fmtRunning'[s] # None => fmtRunning'[s] < fmtPending'[n]
    BY <1>4, <2>1, <2>2, <2>3, <2>4 DEF FmtOrderInv
  <2>7. \A i \in fmtEnded', k \in FmtHeld' : i < k
    BY <1>5, <2>1, <2>2 DEF FmtOrderInv
  <2> QED
    BY <2>5, <2>6, <2>7 DEF FmtOrderInv
<1>6. CASE TaskBegins
  <2>1. CASE UNCHANGED <<fmtPending, fmtRunning>>
    BY <1>1, <1>6, <2>1 DEF TaskBegins
  <2>2. ASSUME fmtPending # <<>>, fmtPending' = Tail(fmtPending), NEW w \in FmtThreads,
               fmtRunning' = [fmtRunning EXCEPT ![w] = Head(fmtPending)]
        PROVE  FmtOrderInv'
    <3>1. /\ Len(fmtPending) \in Nat \ {0}
          /\ \A n \in 1..Len(fmtPending') : /\ n + 1 \in 1..Len(fmtPending)
                                            /\ fmtPending'[n] = fmtPending[n + 1]
          /\ Head(fmtPending) = fmtPending[1]
      BY <1>3, <2>2, TailElements
    <3>2. 1 \in 1..Len(fmtPending) /\ Len(fmtPending') \in Nat
      BY <1>3, <2>2, <3>1, HeadTailProperties
    <3>3. \A m, n \in 1..Len(fmtPending') : m < n => fmtPending'[m] < fmtPending'[n]
      BY <3>1, <3>2 DEF FmtOrderInv
    <3>4. \A s \in FmtThreads : fmtRunning'[s] = fmtPending[1]
      BY <1>3, <2>2, <3>1 DEF FmtThreads
    <3>5. \A n \in 1..Len(fmtPending') : fmtPending[1] < fmtPending'[n]
      BY <3>1, <3>2 DEF FmtOrderInv
    <3>6. \A i \in fmtEnded', k \in FmtHeld' : i < k
      BY <1>6 DEF TaskBegins, FmtOrderInv
    <3> QED
      BY <3>3, <3>4, <3>5, <3>6 DEF FmtOrderInv
  <2> QED
    BY <1>6, <2>1, <2>2 DEF TaskBegins
<1>7. ASSUME NEW i \in Ids, TaskEnds(i) PROVE FmtOrderInv'
  <2>1. CASE FmtHeld' = FmtHeld /\ UNCHANGED <<fmtRunning, fmtEnded>>
    BY <1>1, <1>7, <2>1 DEF TaskEnds
  <2>2. ASSUME FmtHeld' = FmtHeld \ {i}, fmtEnded' = fmtEnded \cup {i}, fmtPending' = fmtPending,
               NEW w \in FmtThreads, i = fmtRunning[w],
               fmtRunning' = [fmtRunning EXCEPT ![w] = None]
        PROVE  FmtOrderInv'
    <3>1. \A s \in FmtThreads : s = w /\ fmtRunning'[s] = None /\ i # None
      BY <1>2, <1>3, <2>2 DEF FmtThreads
    <3>2. ASSUME NEW k \in FmtHeld \ {i} PROVE i < k
      <4>1. PICK n \in 1..Len(fmtPending) : k = fmtPending[n]
        BY <2>2, <3>1, <3>2 DEF FmtHeld, Held, Elements
      <4> QED
        BY <2>2, <3>1, <4>1 DEF FmtOrderInv
    <3> QED
      BY <2>2, <3>1, <3>2 DEF FmtOrderInv
  <2> QED
    BY <1>7, <2>1, <2>2 DEF TaskEnds
<1>8. CASE Spawn
  BY <1>1, <1>5, <1>8, SpawnEffect
<1> QED
  BY <1>1, <1>6, <1>7, <1>8, StepCases, HeldFrame, QuietEffect, HousekeepingEffect,
     ReceiveBackgroundEffect, SpawnFailsEffect, ReceiveNotificationEffect, LeaveShutdownEffect
     DEF TaskDiscarded
-----------------------------------------------------------------------------
(* Before the first message nothing has happened. *)
LEMMA ServerInvInit == Init => ServerInv
<1> SUFFICES ASSUME Init PROVE ServerInv
  OBVIOUS
<1> USE DEF Init
<1>1. PICK n \in 0..MaxMessages : script \in [1..n -> Messages]
  BY DEF Scripts
<1>2. script \in Seq(Messages) /\ Len(script) = n
  BY <1>1, IsASeq, LenProperties, ServerAssumption
<1>3. <<>> \in Seq(Ids) /\ <<>> \in Seq({1}) /\ Len(<<>>) = 0
  OBVIOUS
<1>4. TypeOK
  BY <1>2, <1>3, ServerAssumption DEF TypeOK, Store!Init, Background!Init, Fmt!Init
<1>5. \A S : Held(<<>>, [s \in S |-> None], S) = {} /\ PoolShape(<<>>, [s \in S |-> None], {}, S)
  BY <1>3 DEF Held, Elements, PoolShape
<1>6. TypeInv /\ BgHeld = {} /\ FmtHeld = {}
  BY <1>2, <1>4, <1>5, ServerAssumption DEF TypeInv, BgHeld, FmtHeld, Background!Init, Fmt!Init
<1>7. RequesterInv
  BY <1>3 DEF RequesterInv
<1>8. SpawnInv /\ PlaceInv
  BY <1>6 DEF SpawnInv, PlaceInv, Background!Init, Fmt!Init
<1>9. TextInv
  <2>1. ASSUME NEW u PROVE TextBefore(u, 1) = None
    <3>1. 1 \in Nat \ {0}
      OBVIOUS
    <3> HIDE DEF Init
    <3> QED
      BY <3>1, TextBeforeNext
  <2> QED
    BY <1>6, <2>1 DEF TextInv, InFlight, Store!Init
<1>10. AnswersInv /\ FmtAnswersInOrder
  BY <1>3 DEF AnswersInv, FmtAnswersInOrder
<1>11. DrainInv /\ FailInv /\ FmtOrderInv
  BY <1>3, <1>6 DEF DrainInv, FailInv, FmtOrderInv, Fmt!Init
<1>12. ReadsRequestedText
  BY DEF ReadsRequestedText
<1> QED
  BY <1>6, <1>7, <1>8, <1>9, <1>10, <1>11, <1>12 DEF ServerInv

LEMMA ServerInvStep == ServerInv /\ [Next]_vars => ServerInv'
  BY TypeStep, RequesterStep, SpawnStep, PlaceStep, TextStep, AnswersStep, DrainStep, FailStep,
     FmtOrderStep, ReadStep, FmtAnswersStep DEF ServerInv

LEMMA Invariance == Spec => []ServerInv
  BY ServerInvInit, ServerInvStep, PTL DEF Spec

(* The server's variables keep their types. *)
THEOREM ServerTypes == Spec => []TypeOK
<1>1. ServerInv => TypeOK
  BY DEF ServerInv, TypeInv
<1> QED
  BY <1>1, Invariance, PTL

(* Whatever the client sends, however many threads there are and however   *)
(* late they run, a background request is computed from the document as    *)
(* the messages before the request left it.                                *)
THEOREM RequestedText == Spec => []ReadsRequestedText
<1>1. ServerInv => ReadsRequestedText
  BY DEF ServerInv
<1> QED
  BY <1>1, Invariance, PTL

(* Formatting requests are answered in the order in which they came. *)
THEOREM FmtOrder == Spec => []FmtAnswersInOrder
<1>1. ServerInv => FmtAnswersInOrder
  BY DEF ServerInv
<1> QED
  BY <1>1, Invariance, PTL

(* No request is answered twice and no response is handled twice. *)
THEOREM Once == Spec => []ServedOnce
<1>1. ServerInv => ServedOnce
  <2> SUFFICES ASSUME ServerInv PROVE ServedOnce
    OBVIOUS
  <2>1. \A m, n \in 1..Len(called) : m = n
    <3>1. Len(called) \in Nat /\ Len(called) <= 1
      BY LenProperties DEF ServerInv, RequesterInv
    <3> QED
      BY <3>1
  <2> QED
    BY <2>1 DEF ServedOnce, ServerInv, AnswersInv
<1> QED
  BY <1>1, Invariance, PTL

(* However the loop ends, no snapshot is left, the requests that it        *)
(* accepted and that had a document have been answered unless their        *)
(* handler failed or such failures left their pool without threads, and a  *)
(* failure is in the result of the loop.                                   *)
THEOREM Drained == Spec => []EndsDrained
<1>1. ServerInv => EndsDrained
  <2> SUFFICES ASSUME ServerInv, loop = "ended" PROVE EndsDrained
    BY DEF EndsDrained
  <2>1. FmtLeft /\ BgLeft /\ spawning = None
    BY DEF ServerInv, DrainInv, SpawnInv
  <2>2. \A i \in InFlight : copies[i] = None
    BY <2>1 DEF InFlight, FmtLeft, BgLeft
  <2>3. /\ at \in 1..Len(script) + 1 /\ Len(script) \in Nat /\ Len(script) <= MaxMessages
        /\ MaxMessages \in Nat
    BY LenProperties, ServerAssumption DEF ServerInv, TypeInv, TypeOK
  <2>4. ASSUME NEW i \in 1..at - 1, Accepted(i)
        PROVE  copies[i] = None /\ (Answered(i) \/ i \in failed \/ WithoutThreads(i))
    <3>1. i \in Ids /\ i \in 1..Len(script)
      BY <2>3 DEF Ids
    <3>2. copies[i] = None
      BY <2>2, <3>1 DEF ServerInv, TextInv
    <3>3. ASSUME i \in FmtHeld PROVE WithoutThreads(i)
      <4>1. i \in FmtRequests
        BY <3>1, <3>3 DEF ServerInv, PlaceInv, IsTask, FmtRequests
      <4> QED
        BY <2>1, <3>3, <4>1 DEF FmtLeft, WithoutThreads
    <3>4. ASSUME i \in BgHeld PROVE WithoutThreads(i)
      <4>1. i \notin FmtRequests
        BY <3>4 DEF ServerInv, PlaceInv, IsTask, FmtRequests
      <4> QED
        BY <2>1, <3>4, <4>1 DEF BgLeft, WithoutThreads
    <3>5. Served(i)
      BY <2>4 DEF ServerInv, DrainInv
    <3> QED
      BY <2>1, <3>2, <3>3, <3>4, <3>5 DEF Served, InFlight
  <2>5. failed # {} => result = "panicked"
    BY DEF ServerInv, FailInv
  <2> QED
    BY <2>4, <2>5 DEF EndsDrained, Accepted, IsTask
<1> QED
  BY <1>1, Invariance, PTL
=============================================================================
