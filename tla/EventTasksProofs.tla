-------------------------- MODULE EventTasksProofs --------------------------
(***************************************************************************)
(* Theorems about EventTasks, for any number of workers and tasks: a task  *)
(* is in one place at a time, so that no two threads handle it, it stays   *)
(* with its worker, nothing is used after it was deleted, and no response  *)
(* waits behind a watcher for input.                                       *)
(***************************************************************************)
EXTENDS EventTasks, ListLemmas

\* Who runs a loop, and what a thread has in its hands at which place.
WorkerOK(w) ==
    /\ at[w] \in {"loop", "calls", "async"} => w \in leaders
    /\ at[w] = "free" => w \notin leaders
    /\ todo[w] # {} => at[w] \in {"calls", "async"}
    /\ qcpy[w] # <<>> => at[w] = "async"
    /\ at[w] \in {"free", "loop"} => m_events_queue[w] = <<>>
    /\ at[w] \in {"update", "close", "connect", "cont", "end", "clean", "pop"} => m_events_queue[w] # <<>>

ThreadPart ==
    /\ \A w, v \in leaders: loop_ptr(w) = loop_ptr(v) => w = v
    /\ ~SingleLoop => leaders = Workers
    /\ \A w \in Workers: WorkerOK(w)

\* The functors f that are queued or about to run refer to objects of the right kind.
FunctorOK(f, objects) ==
    /\ f.obj \in objects
    /\ f.op = "event" => f.obj \in DiskTasks
    /\ f.op # "event" => f.obj \notin DiskTasks
    /\ f.op \in {"stop", "update", "respond", "dispose", "add"} => f.obj \in IoTasks

RefPart ==
    /\ Signals \subseteq created
    /\ \A w \in Workers: \A i \in DOMAIN tfq[w]: FunctorOK(tfq[w][i], created)
    /\ \A w \in Workers: \A i \in DOMAIN qcpy[w]: FunctorOK(qcpy[w][i], created)
    /\ \A w \in Workers: \A i \in DOMAIN m_events_queue[w]: m_events_queue[w][i].obj \in created
    /\ \A o \in Tasks: active[o] # None => o \in created \ DiskTasks
    /\ \A t \in AsyncTasks: Cleanup(t) \in created \/ Removal(t) \in created => t \in created

OpPart == \A t \in AsyncTasks: op[t] # "none" => t \in created

\* What kind of task reaches which place of the handlers.
PlacePart ==
    \A w \in Workers:
        /\ at[w] \in {"close", "connect"} => Current(w) \in Reconnecting
        /\ at[w] = "update" => Current(w) \in IoTasks
        /\ at[w] = "cont" => Current(w) \notin DiskTasks
        /\ at[w] = "clean" => Current(w) \in AsyncTasks /\ Cleanup(Current(w)) \in created

\* The callbacks that a loop still has to call are those of its own watchers.
TodoPart ==
    \A w \in Workers:
        /\ \A o \in todo[w] \cap Objects: active[o] = loop_ptr(w)
        /\ \A v \in todo[w] \cap Workers: loop_ptr(v) = loop_ptr(w)

\* In MULTI_LOOP mode everything about a task is with the worker that it was
\* assigned to.
AssignedPart ==
    ~SingleLoop =>
        /\ \A o \in Tasks: active[o] # None => m_worker[o] = active[o]
        /\ \A w \in Workers: \A i \in DOMAIN tfq[w]:
              tfq[w][i].op # "event" => m_worker[tfq[w][i].obj] = w
        /\ \A w \in Workers: \A i \in DOMAIN qcpy[w]:
              qcpy[w][i].op # "event" => m_worker[qcpy[w][i].obj] = w
        /\ \A w \in Workers: \A i \in DOMAIN m_events_queue[w]:
              m_events_queue[w][i].obj \notin DiskTasks => m_worker[m_events_queue[w][i].obj] = w
        /\ \A o \in DiskTasks: m_worker[o] = None
        /\ \A o \in Tasks: m_worker[o] # None => o \in created
        /\ \A o \in IoTasks \cap created: m_worker[o] # None
        /\ \A t \in AsyncTasks:
              /\ Cleanup(t) \in created => m_worker[Cleanup(t)] = m_worker[t]
              /\ Removal(t) \in created => m_worker[Removal(t)] = m_worker[t]

\* In MULTI_LOOP mode a handler may activate its own task's watcher again.
Rewatched(o, l) ==
    ~SingleLoop /\ l \in Workers /\ at[l] = "cont" /\ m_events_queue[l] # <<>> /\ Current(l) = o

Moves == {"start", "add", "event"}

\* The places where a task can be: the event, the functor or the watcher that
\* will have it handled.
EventTok(w, i, o) == w \in Workers /\ i \in Pending(w) /\ m_events_queue[w][i].obj = o
MoveTok(q, w, i, o) ==
    w \in Workers /\ i \in DOMAIN q[w] /\ q[w][i].obj = o /\ q[w][i].op \in Moves
WatchTok(w, i, o) == w = active[o] /\ w # None /\ i = 0 /\ ~Rewatched(o, w)

Token(kind, w, i, o) ==
    \/ kind = "event" /\ EventTok(w, i, o)
    \/ kind = "tfq" /\ MoveTok(tfq, w, i, o)
    \/ kind = "qcpy" /\ MoveTok(qcpy, w, i, o)
    \/ kind = "watch" /\ WatchTok(w, i, o)

NoToken(o) == \A k, w, i: ~Token(k, w, i, o)

One(o) ==
    \A k, g, w, v, i, j: Token(k, w, i, o) /\ Token(g, v, j, o) => k = g /\ w = v /\ i = j

\* A task is in one place.
TokenPart == \A o \in Tasks: One(o)

\* A task that is left to a cleanup task is nowhere else, and there is one
\* cleanup task of each sort.
CleanupPart ==
    \A t \in AsyncTasks:
        /\ Removal(t) \in created => t \in disposed
        /\ Cleanup(t) \in created =>
              \A k, w, i: Token(k, w, i, t) => k = "event" /\ i = 1 /\ at[w] = "clean"
        /\ \A w \in Workers: at[w] = "clean" /\ Current(w) = t => NoToken(Cleanup(t))

PlaceInv == TypeOK /\ ThreadPart /\ RefPart /\ OpPart /\ PlacePart /\ TodoPart /\ AssignedPart
TokenInv == PlaceInv /\ TokenPart /\ CleanupPart
-----------------------------------------------------------------------------
\* Functor name for o is the i-th of w's queue.
FunctorAt(q, w, i, name, o) ==
    w \in Workers /\ i \in DOMAIN q[w] /\ q[w][i].op = name /\ q[w][i].obj = o

\* The disposal of t is queued.
DisposeAt(kind, w, i, t) ==
    \/ kind = "tfq" /\ FunctorAt(tfq, w, i, "dispose", t)
    \/ kind = "qcpy" /\ FunctorAt(qcpy, w, i, "dispose", t)

Disposing(t) == \E k, w, i: DisposeAt(k, w, i, t)

OneDisposal(t) ==
    \A k, g, w, v, i, j:
        DisposeAt(k, w, i, t) /\ DisposeAt(g, v, j, t) => k = g /\ w = v /\ i = j

\* A cleanup task will dispose of t.
CleaningUp(t) ==
    /\ Cleanup(t) \in created \ deleted
    /\ \A w \in Workers: at[w] = "end" => Current(w) # Cleanup(t)

\* A functor for the disposal of t is the last reference to it, if the application
\* has not removed t: then there may be another such functor, and events.
DisposeOK(t) == OneDisposal(t) /\ (Disposing(t) => NoToken(t) /\ t \notin deleted)
CleanOK(t) == CleaningUp(t) => ~Disposing(t) /\ t \notin deleted

DisposePart ==
    /\ \A t \in Tasks: t \notin disposed => DisposeOK(t)
    /\ \A t \in AsyncTasks: t \notin disposed => CleanOK(t)

\* What was deleted is not watched, and is nowhere if the application has not
\* removed it; and a cleanup task is not deleted before it starts.
DeletedPart ==
    /\ \A o \in Tasks: o \in deleted => active[o] = None /\ (o \notin disposed => NoToken(o))
    /\ \A w \in Workers: at[w] = "clean" => Cleanup(Current(w)) \notin deleted

\* While an asynchronous handler works for t, t cannot be disposed of.
AsyncPart ==
    \A t \in AsyncTasks:
        /\ op[t] \in Working => ~m_can_dispose[t]
        /\ t \notin disposed /\ (t \in deleted \/ Disposing(t)) => m_can_dispose[t]

\* A functor that updates a watcher is followed by the one that starts it, or
\* the worker that queued it is about to queue that one.
Holds(w, o) == at[w] = "cont" /\ w \notin leaders /\ m_events_queue[w] # <<>> /\ Current(w) = o

UpdatePart ==
    \A o \in Tasks, w \in Workers, i \in Nat:
        /\ FunctorAt(tfq, w, i, "update", o) =>
              Holds(w, o) \/ \E j \in Nat: j > i /\ FunctorAt(tfq, w, j, "start", o)
        /\ FunctorAt(qcpy, w, i, "update", o) =>
              \/ \E v \in Workers: Holds(v, o)
              \/ \E j \in Nat: j > i /\ FunctorAt(qcpy, w, j, "start", o)
              \/ \E v \in Workers, j \in Nat: FunctorAt(tfq, v, j, "start", o)

\* A watcher is stopped at once.
StopPart == \A w, i, o: ~FunctorAt(tfq, w, i, "stop", o) /\ ~FunctorAt(qcpy, w, i, "stop", o)

SafePart == StopPart /\ DeletedPart /\ DisposePart /\ AsyncPart /\ UpdatePart
SafeInv == TokenInv /\ SafePart

\* No http_sender connects elsewhere while another worker leads its loop.
OwnLoop == SingleLoop => Reconnecting = {}
-----------------------------------------------------------------------------
(* Kinds of objects, loops and queues                                      *)

\* What a task may be, and what it then is not.
LEMMA KindFacts ==
    /\ AsyncTasks \subseteq IoTasks /\ Reconnecting \subseteq IoTasks
    /\ IoTasks \subseteq Tasks /\ Timers \subseteq Tasks /\ DiskTasks \subseteq Tasks
    /\ Cleanups \subseteq Tasks /\ Tasks \subseteq Objects
    /\ \A t \in AsyncTasks: Cleanup(t) \in Cleanups /\ Removal(t) \in Cleanups
    /\ \A o \in DiskTasks: o \notin IoTasks /\ o \notin Timers /\ o \notin Cleanups
    /\ \A o \in Cleanups: o \notin IoTasks /\ o \notin Timers
    /\ \A o \in Timers: o \notin IoTasks
    /\ \A o \in Objects: o \notin Workers
    /\ \A o \in Tasks: o \notin Signals
BY EventTasksAssumption, KindsAssumption DEF Tasks, Objects, Cleanups

LEMMA CleanupFacts ==
    ASSUME NEW t, NEW s
    PROVE  /\ Cleanup(t) = Cleanup(s) => t = s
           /\ Removal(t) = Removal(s) => t = s
           /\ Cleanup(t) # Removal(s)
BY DEF Cleanup, Removal

LEMMA LoopFacts ==
    /\ \A w \in Workers: loop_ptr(w) \in Loops /\ loop_ptr(w) # None
    /\ None \notin Loops /\ None \notin Workers
    /\ ~SingleLoop => Loops = Workers /\ \A w \in Workers: loop_ptr(w) = w
BY EventTasksAssumption DEF loop_ptr, Loops

\* r is q with element e at the end of v's queue.
Appended(q, r, v, e) ==
    /\ \A u \in Workers: u # v => r[u] = q[u]
    /\ DOMAIN r[v] = DOMAIN q[v] \cup {Len(q[v]) + 1}
    /\ \A i \in DOMAIN q[v]: r[v][i] = q[v][i]
    /\ r[v][Len(q[v]) + 1] = e
    /\ Len(q[v]) + 1 \notin DOMAIN q[v] /\ Len(q[v]) + 1 \in Nat
    /\ r[v] # <<>>
    /\ q[v] # <<>> => Head(r[v]) = Head(q[v])

LEMMA AppendQueue ==
    ASSUME NEW S, NEW q \in [Workers -> Seq(S)], NEW v \in Workers, NEW e \in S
    PROVE  /\ [q EXCEPT ![v] = Append(@, e)] \in [Workers -> Seq(S)]
           /\ Appended(q, [q EXCEPT ![v] = Append(@, e)], v, e)
<1> DEFINE s == q[v]
           t == Append(s, e)
           r == [q EXCEPT ![v] = Append(@, e)]
<1>1. s \in Seq(S) /\ Len(s) \in Nat
  OBVIOUS
<1>2. /\ t \in Seq(S) /\ Len(t) = Len(s) + 1 /\ t[Len(s) + 1] = e
      /\ \A i \in 1..Len(s): t[i] = s[i]
  BY <1>1
<1>3. DOMAIN s = 1..Len(s) /\ DOMAIN t = 1..(Len(s) + 1)
  BY <1>1, <1>2
<1>4. DOMAIN t = DOMAIN s \cup {Len(s) + 1} /\ Len(s) + 1 \notin DOMAIN s /\ Len(s) + 1 \in Nat
  BY <1>1, <1>3
<1>5. t # <<>>
  BY <1>1, <1>2
<1>6. s # <<>> => Head(t) = Head(s)
  <2> SUFFICES ASSUME s # <<>> PROVE Head(t) = Head(s)
    OBVIOUS
  <2>1. 1 \in 1..Len(s) /\ Head(s) = s[1]
    BY <1>1
  <2>2. Head(t) = t[1]
    BY <1>2, <1>5
  <2> QED
    BY <1>2, <2>1, <2>2
<1>7. r[v] = t /\ \A u \in Workers: u # v => r[u] = q[u]
  OBVIOUS
<1>8. r \in [Workers -> Seq(S)]
  BY <1>2
<1> HIDE DEF r, t
<1> QED
  BY <1>2, <1>3, <1>4, <1>5, <1>6, <1>7, <1>8 DEF Appended, r

\* r is q without the first element of w's queue.
Shifted(q, r, w) ==
    /\ \A u \in Workers: u # w => r[u] = q[u]
    /\ \A i \in DOMAIN r[w]: i + 1 \in DOMAIN q[w] /\ r[w][i] = q[w][i + 1] /\ i \in Nat /\ i > 0
    /\ \A i \in DOMAIN q[w]: i > 1 => i - 1 \in DOMAIN r[w] /\ r[w][i - 1] = q[w][i]
    /\ 1 \in DOMAIN q[w] /\ Head(q[w]) = q[w][1]

LEMMA ShiftQueue ==
    ASSUME NEW S, NEW q \in [Workers -> Seq(S)], NEW w \in Workers, q[w] # <<>>
    PROVE  /\ [q EXCEPT ![w] = Tail(@)] \in [Workers -> Seq(S)]
           /\ Shifted(q, [q EXCEPT ![w] = Tail(@)], w)
<1> DEFINE s == q[w]
           t == Tail(s)
           r == [q EXCEPT ![w] = Tail(@)]
<1>1. s \in Seq(S) /\ Len(s) \in Nat /\ Len(s) > 0
  OBVIOUS
<1>2. /\ t \in Seq(S) /\ Len(t) = Len(s) - 1
      /\ \A i \in 1..(Len(s) - 1): t[i] = s[i + 1]
  BY <1>1
<1>3. DOMAIN s = 1..Len(s) /\ DOMAIN t = 1..(Len(s) - 1) /\ Head(s) = s[1]
  BY <1>1, <1>2
<1>4. r[w] = t /\ \A u \in Workers: u # w => r[u] = q[u]
  OBVIOUS
<1>5. r \in [Workers -> Seq(S)]
  BY <1>2
<1>6. /\ \A i \in DOMAIN t: i + 1 \in DOMAIN s /\ t[i] = s[i + 1] /\ i \in Nat /\ i > 0
      /\ \A i \in DOMAIN s: i > 1 => i - 1 \in DOMAIN t /\ t[i - 1] = s[i]
      /\ 1 \in DOMAIN s
  BY <1>1, <1>2, <1>3
<1> HIDE DEF r, t
<1> QED
  BY <1>3, <1>4, <1>5, <1>6 DEF Shifted, r

\* The positions of a queue are numbers from 1 on; the first one is its head.
LEMMA QueueFacts ==
    ASSUME NEW S, NEW q \in Seq(S)
    PROVE  /\ \A i \in DOMAIN q: i \in Nat /\ i > 0 /\ q[i] \in S
           /\ q # <<>> => 1 \in DOMAIN q /\ q[1] = Head(q) /\ Head(q) \in S
           /\ q = <<>> => DOMAIN q = {}
<1>1. DOMAIN q = 1..Len(q) /\ Len(q) \in Nat
  OBVIOUS
<1> QED
  BY <1>1

LEMMA FunctorFacts ==
    ASSUME NEW name \in {"start", "stop", "update", "respond", "dispose", "add", "event"},
           NEW o \in Tasks
    PROVE  /\ Functor(name, o) \in Functors
           /\ Functor(name, o).op = name /\ Functor(name, o).obj = o
BY DEF Functor, Functors
-----------------------------------------------------------------------------
(* Types                                                                   *)

\* The variables that functors change.
ExecTypes ==
    /\ todo \in [Workers -> SUBSET (Objects \cup Workers)]
    /\ m_events_queue \in [Workers -> Seq(Events)]
    /\ deleted \subseteq created
    /\ m_worker \in [Tasks -> Workers \cup {None}]
    /\ active \in [Objects -> Loops \cup {None}]
    /\ m_events \in [Tasks -> Masks] /\ mask \in [Tasks -> Masks]

CallTypes == tfq \in [Workers -> Seq(Functors)] /\ sent \subseteq Workers

OtherTypes ==
    /\ leaders \subseteq Workers /\ at \in [Workers -> Places]
    /\ qcpy \in [Workers -> Seq(Functors)]
    /\ created \subseteq Objects /\ disposed \subseteq IoTasks /\ crashed \in BOOLEAN

AsyncTypes ==
    /\ m_can_dispose \in [AsyncTasks -> BOOLEAN] /\ error \in [AsyncTasks -> BOOLEAN]
    /\ op \in [AsyncTasks -> Working \cup {"none", "done"}]
    /\ reply \in [AsyncTasks -> {"none", "waiting", "written"}]
    /\ replaced \subseteq AsyncTasks

LEMMA TypeParts ==
    /\ TypeOK <=> ExecTypes /\ CallTypes /\ OtherTypes /\ AsyncTypes
    /\ TypeOK' <=> ExecTypes' /\ CallTypes' /\ OtherTypes' /\ AsyncTypes'
BY DEF TypeOK, ExecTypes, CallTypes, OtherTypes, AsyncTypes

LEMMA ExecKeepsTypes ==
    ASSUME ExecTypes, NEW w \in Workers, NEW f \in Functors, Exec(w, f),
           created \subseteq created', f.obj \in created'
    PROVE  ExecTypes'
<1>1. f.obj \in Tasks /\ f.obj \in Objects
  BY KindFacts DEF Functors
<1>2. loop_ptr(w) \in Loops /\ None \notin Loops
  BY LoopFacts
<1>3. ASSUME Start(w, f.obj) PROVE ExecTypes'
  BY <1>1, <1>2, <1>3 DEF ExecTypes, Start
<1>4. ASSUME NEW e \in Masks, Update(w, f.obj, e) PROVE ExecTypes'
  BY <1>1, <1>4 DEF ExecTypes, Update
<1>5. ASSUME Dispose(w, f.obj) PROVE ExecTypes'
  BY <1>1, <1>2, <1>5 DEF ExecTypes, Dispose
<1>6. ASSUME Add(w, f.obj) PROVE ExecTypes'
  BY <1>1, <1>2, <1>6 DEF ExecTypes, Add, assign_worker
<1>7. ASSUME AddEvent(w, f.obj) PROVE ExecTypes'
  <2>1. [obj |-> f.obj, revents |-> mask[f.obj]] \in Events
    BY <1>1 DEF ExecTypes, Events
  <2>2. m_events_queue' \in [Workers -> Seq(Events)]
    BY <1>7, <2>1, AppendQueue DEF ExecTypes, AddEvent
  <2> QED
    BY <1>7, <2>2 DEF ExecTypes, AddEvent
<1>8. m_events[f.obj] \in Masks /\ "WRITE" \in Masks
  BY <1>1 DEF ExecTypes, Masks
<1>9. ASSUME Stop(w, f.obj) PROVE ExecTypes'
  BY <1>1, <1>2, <1>9 DEF ExecTypes, Stop
<1> QED
  BY <1>9, <1>3, <1>4, <1>5, <1>6, <1>7, <1>8 DEF Exec

LEMMA CallKeepsTypes ==
    ASSUME CallTypes, NEW w \in Workers, NEW f \in Functors, async_call(w, f)
    PROVE  CallTypes'
BY AppendQueue DEF CallTypes, async_call

LEMMA ContextKeepsTypes ==
    ASSUME ExecTypes, CallTypes, NEW self \in Workers, NEW w \in Workers, NEW f \in Functors,
           exec_in_worker_ctx(self, w, f), created \subseteq created', f.obj \in created'
    PROVE  ExecTypes' /\ CallTypes'
<1>1. CASE w \in leaders /\ self = w
  <2>1. Exec(w, f) /\ UNCHANGED callVars
    BY <1>1 DEF exec_in_worker_ctx
  <2> QED
    BY <2>1, ExecKeepsTypes DEF CallTypes, callVars
<1>2. CASE ~(w \in leaders /\ self = w)
  <2>1. async_call(w, f) /\ UNCHANGED execVars
    BY <1>2 DEF exec_in_worker_ctx
  <2> QED
    BY <2>1, CallKeepsTypes DEF ExecTypes, execVars
<1> QED
  BY <1>1, <1>2

\* The task that a worker handles.
LEMMA CurrentFacts ==
    ASSUME ExecTypes, RefPart, NEW w \in Workers, m_events_queue[w] # <<>>
    PROVE  Current(w) \in Tasks /\ Current(w) \in created
<1>1. m_events_queue[w] \in Seq(Events)
  BY DEF ExecTypes
<1>2. 1 \in DOMAIN m_events_queue[w] /\ m_events_queue[w][1] = Head(m_events_queue[w])
      /\ Head(m_events_queue[w]) \in Events
  BY <1>1, QueueFacts
<1> QED
  BY <1>2 DEF RefPart, Current, Events

LEMMA GetWorkerType ==
    ASSUME ExecTypes, AssignedPart, NEW w \in Workers, NEW o \in IoTasks, o \in created
    PROVE  get_worker_by_task(w, o) \in Workers
BY KindFacts DEF ExecTypes, AssignedPart, get_worker_by_task

LEMMA TypeStep == TypeOK /\ ThreadPart /\ RefPart /\ PlacePart /\ AssignedPart /\ [Next]_vars => TypeOK'
<1> SUFFICES ASSUME ExecTypes, CallTypes, OtherTypes, AsyncTypes, ThreadPart, RefPart,
                    PlacePart, AssignedPart, [Next]_vars
             PROVE  ExecTypes' /\ CallTypes' /\ OtherTypes' /\ AsyncTypes'
  BY TypeParts
<1> DEFINE Goal == ExecTypes' /\ CallTypes' /\ OtherTypes' /\ AsyncTypes'
<1> USE DEF threadVars, execVars, callVars, asyncVars
<1>a. \A w \in Workers, p \in Places: [at EXCEPT ![w] = p] \in [Workers -> Places]
  BY DEF OtherTypes
<1>b. {"free", "loop", "calls", "async", "handle", "update", "close", "connect", "cont",
       "end", "clean", "pop"} = Places
  BY DEF Places
<1>1. ASSUME NEW w \in Workers, NEW fired \in SUBSET Objects, EventLoop(w, fired) PROVE Goal
  BY <1>1, <1>a, <1>b DEF EventLoop, Goto, ExecTypes, CallTypes, OtherTypes, AsyncTypes
<1>2. ASSUME NEW w \in Workers, NEW o \in Objects, EventCallback(w, o) PROVE Goal
  <2>1. [obj |-> o, revents |-> mask[o]] \in Events
    BY <1>2 DEF EventCallback, ExecTypes, Events
  <2>2. m_events_queue' \in [Workers -> Seq(Events)]
    BY <1>2, <2>1, AppendQueue DEF ExecTypes, EventCallback
  <2> QED
    BY <1>2, <2>2 DEF EventCallback, ExecTypes, CallTypes, OtherTypes, AsyncTypes
<1>3. ASSUME NEW w \in Workers, NEW o \in Objects, SignalCallback(w, o) PROVE Goal
  <2>1. o \in created
    BY <1>3 DEF SignalCallback, RefPart
  <2> QED
    BY <1>3, <2>1 DEF SignalCallback, ExecTypes, CallTypes, OtherTypes, AsyncTypes
<1>4. ASSUME NEW w \in Workers, NEW v \in Workers, AsyncCallback(w, v) PROVE Goal
  <2>1. qcpy' \in [Workers -> Seq(Functors)] /\ tfq' \in [Workers -> Seq(Functors)]
    BY <1>4 DEF AsyncCallback, CallTypes, OtherTypes
  <2> QED
    BY <1>4, <1>a, <1>b, <2>1 DEF AsyncCallback, Goto, ExecTypes, CallTypes, OtherTypes, AsyncTypes
<1>5. ASSUME NEW w \in Workers, RunFunctor(w) PROVE Goal
  <2>1. qcpy[w] \in Seq(Functors) /\ qcpy[w] # <<>>
    BY <1>5 DEF RunFunctor, OtherTypes
  <2>2. Head(qcpy[w]) \in Functors /\ Head(qcpy[w]).obj \in created
    BY <2>1, QueueFacts DEF RefPart, FunctorOK
  <2>3. ExecTypes' /\ CallTypes'
    BY <1>5, <2>2, ContextKeepsTypes DEF RunFunctor
  <2>4. qcpy' \in [Workers -> Seq(Functors)]
    BY <1>5, <2>1, ShiftQueue DEF RunFunctor, OtherTypes
  <2> QED
    BY <1>5, <2>3, <2>4 DEF RunFunctor, OtherTypes, AsyncTypes
<1>6. ASSUME NEW w \in Workers, AsyncDone(w) \/ HandledAll(w) PROVE Goal
  BY <1>6, <1>a, <1>b DEF AsyncDone, HandledAll, Goto, ExecTypes, CallTypes, OtherTypes, AsyncTypes
<1>7. ASSUME NEW w \in Workers, LoopReturns(w) PROVE Goal
  <2>1. at' \in [Workers -> Places] /\ leaders' \subseteq Workers
    BY <1>7, <1>b DEF LoopReturns, OtherTypes
  <2> QED
    BY <1>7, <2>1 DEF LoopReturns, ExecTypes, CallTypes, OtherTypes, AsyncTypes
<1>8. ASSUME NEW w \in Workers, Pop(w) PROVE Goal
  <2>0. m_events_queue[w] # <<>>
    BY <1>8 DEF Pop, Goto, ThreadPart, WorkerOK
  <2>1. m_events_queue' \in [Workers -> Seq(Events)]
    BY <1>8, <2>0, ShiftQueue DEF Pop, ExecTypes
  <2> QED
    BY <1>8, <1>a, <1>b, <2>1 DEF Pop, Goto, ExecTypes, CallTypes, OtherTypes, AsyncTypes
<1>9. ASSUME NEW w \in Workers, NEW o \in Tasks, HandlePlain(w, o) \/ HandleAsync(w, o)
      PROVE  Goal
  <2>1. CASE HandlePlain(w, o)
    BY <2>1, <1>a, <1>b DEF HandlePlain, Goto, ExecTypes, CallTypes, OtherTypes, AsyncTypes
  <2>2. CASE HandleAsync(w, o)
    <3>1. AsyncTypes'
      BY <2>2 DEF HandleAsync, ResetHandler, Working, AsyncTypes
    <3> QED
      BY <2>2, <1>a, <1>b, <3>1 DEF HandleAsync, Goto, ExecTypes, CallTypes, OtherTypes
  <2> QED
    BY <1>9, <2>1, <2>2
<1>10. ASSUME NEW w \in Workers, NEW o \in Tasks, HandleEnd(w, o) PROVE Goal
  <2>1. AsyncTypes'
    BY <1>10 DEF HandleEnd, AsyncTypes
  <2> QED
    BY <1>10, <1>a, <1>b, <2>1 DEF HandleEnd, Goto, ExecTypes, CallTypes, OtherTypes
<1>11. ASSUME NEW w \in Workers, NEW o \in Tasks, HandleSetEvents(w, o) PROVE Goal
  <2>1. AsyncTypes'
    BY <1>11 DEF HandleSetEvents, ResetHandler, Working, AsyncTypes
  <2>2. ExecTypes'
    BY <1>11 DEF HandleSetEvents, ExecTypes, Masks
  <2> QED
    BY <1>11, <1>a, <1>b, <2>1, <2>2 DEF HandleSetEvents, Goto, CallTypes, OtherTypes
<1>12. ASSUME NEW w \in Workers, NEW o \in Tasks, HandleConnect(w, o) PROVE Goal
  <2>1. ExecTypes'
    BY <1>12 DEF HandleConnect, ExecTypes, Masks
  <2> QED
    BY <1>12, <1>a, <1>b, <2>1 DEF HandleConnect, Goto, CallTypes, OtherTypes, AsyncTypes
<1>13. ASSUME NEW w \in Workers, NEW v \in Workers, NEW name \in {"start", "stop", "update", "dispose"},
              NEW o \in Tasks, o \in created, exec_in_worker_ctx(w, v, Functor(name, o)),
              UNCHANGED created
       PROVE  ExecTypes' /\ CallTypes'
  BY <1>13, FunctorFacts, ContextKeepsTypes
<1>14. ASSUME NEW w \in Workers, NEW o \in Tasks, Handles(w, o) PROVE o \in created
  BY <1>14, CurrentFacts DEF Handles
<1>15. ASSUME NEW w \in Workers, NEW o \in Tasks,
              HandleUpdate(w, o) \/ HandleStop(w, o) \/ HandleReadd(w, o) \/ Continue(w, o)
       PROVE  Goal
  <2>1. ExecTypes' /\ CallTypes'
    BY <1>13, <1>14, <1>15 DEF HandleUpdate, HandleStop, HandleReadd, Continue
  <2> QED
    BY <1>15, <1>a, <1>b, <2>1
       DEF HandleUpdate, HandleStop, HandleReadd, Continue, Goto, OtherTypes, AsyncTypes
<1>16. ASSUME NEW w \in Workers, NEW o \in IoTasks, NEW n \in IoTasks, HandleAccept(w, o, n)
       PROVE  Goal
  <2>1. n \in Tasks /\ n \in Objects
    BY KindFacts
  <2>2. created \subseteq created' /\ n \in created' /\ created' \subseteq Objects
    BY <1>16, <2>1 DEF HandleAccept, OtherTypes
  <2>3. ExecTypes' /\ CallTypes'
    BY <1>16, <2>1, <2>2, FunctorFacts, ContextKeepsTypes DEF HandleAccept
  <2> QED
    BY <1>16, <1>a, <1>b, <2>2, <2>3 DEF HandleAccept, Goto, OtherTypes, AsyncTypes
<1>17. ASSUME NEW w \in Workers, NEW t \in AsyncTasks, HandleCleanup(w, t) PROVE Goal
  <2>1. t \in Tasks /\ Cleanup(t) \in Tasks /\ Removal(t) \in Tasks
    BY KindFacts
  <2>2. Cleanup(t) \in created \/ Removal(t) \in created
    BY <1>14, <1>17, <2>1 DEF HandleCleanup
  <2>3. t \in created
    BY <2>2 DEF RefPart
  <2>4. ExecTypes' /\ CallTypes'
    BY <1>13, <1>17, <2>1, <2>3 DEF HandleCleanup, ExecTypes, CallTypes
  <2>5. at' \in [Workers -> Places]
    BY <1>17, <1>a, <1>b DEF HandleCleanup, Goto
  <2> QED
    BY <1>17, <2>4, <2>5 DEF HandleCleanup, OtherTypes, AsyncTypes
<1>18. ASSUME NEW w \in Workers, NEW o \in Tasks, FinishDelete(w, o) PROVE Goal
  <2>1. o \in created
    BY <1>14, <1>18 DEF FinishDelete
  <2> QED
    BY <1>18, <1>a, <1>b, <2>1
       DEF FinishDelete, Goto, ExecTypes, CallTypes, OtherTypes, AsyncTypes
<1>19. ASSUME NEW w \in Workers, NEW o \in Tasks, FinishDispose(w, o) PROVE Goal
  <2>1. o \in created
    BY <1>14, <1>19 DEF FinishDispose
  <2>2. get_worker_by_task(w, o) \in Workers
    BY <1>19, <2>1, GetWorkerType DEF FinishDispose, CanDispose
  <2>3. ExecTypes' /\ CallTypes'
    BY <1>13, <1>19, <2>1, <2>2 DEF FinishDispose
  <2> QED
    BY <1>19, <1>a, <1>b, <2>3 DEF FinishDispose, Goto, OtherTypes, AsyncTypes
<1>20. ASSUME NEW w \in Workers, NEW o \in Tasks, FinishLater(w, o) PROVE Goal
  <2>1. o \in AsyncTasks /\ Cleanup(o) \in Tasks /\ Cleanup(o) \in Objects
    BY <1>20, KindFacts DEF FinishLater
  <2>2. o \in created
    BY <1>14, <1>20 DEF FinishLater
  <2>3. get_worker_by_task(w, o) \in Workers
    BY <2>1, <2>2, KindFacts, GetWorkerType
  <2>4. m_worker' \in [Tasks -> Workers \cup {None}]
    BY <1>20, <2>1, <2>3 DEF FinishLater, assign_worker, ExecTypes
  <2> QED
    BY <1>20, <1>a, <1>b, <2>1, <2>4
       DEF FinishLater, Goto, ExecTypes, CallTypes, OtherTypes, AsyncTypes
<1>21. ASSUME NEW w \in Workers, NEW o \in Tasks, StartCleanup(w, o) PROVE Goal
  <2>1. o \in AsyncTasks /\ Cleanup(o) \in created /\ Cleanup(o) \in Tasks /\ o \in created
    <3>1. at[w] = "clean" /\ Current(w) = o /\ Handles(w, o)
      BY <1>21 DEF StartCleanup, Goto, Handles
    <3>2. o \in AsyncTasks /\ Cleanup(o) \in created
      BY <3>1 DEF PlacePart
    <3> QED
      BY <1>14, <3>1, <3>2, KindFacts
  <2>2. get_worker_by_task(w, o) \in Workers
    BY <2>1, KindFacts, GetWorkerType
  <2>3. ExecTypes' /\ CallTypes'
    BY <1>13, <1>21, <2>1, <2>2 DEF StartCleanup
  <2> QED
    BY <1>21, <1>a, <1>b, <2>3 DEF StartCleanup, Goto, OtherTypes, AsyncTypes
<1>22. ASSUME NEW o \in Tasks, NEW w \in Workers, AddTask(o, w) PROVE Goal
  <2>1. CallTypes'
    BY <1>22, FunctorFacts, CallKeepsTypes DEF AddTask
  <2>2. o \in Objects
    BY KindFacts
  <2> QED
    BY <1>22, <2>1, <2>2 DEF AddTask, assign_worker, ExecTypes, OtherTypes, AsyncTypes
<1>23. ASSUME NEW o \in Tasks, NEW w \in Workers, AddDiskTask(o, w) PROVE Goal
  <2>1. CallTypes'
    BY <1>23, FunctorFacts, CallKeepsTypes DEF AddDiskTask
  <2>2. o \in Objects
    BY KindFacts
  <2> QED
    BY <1>23, <2>1, <2>2 DEF AddDiskTask, ExecTypes, OtherTypes, AsyncTypes
<1>24. ASSUME NEW o \in Timers, AddImmediate(o) PROVE Goal
  <2>2. o \in Objects
    BY KindFacts
  <2> QED
    BY <1>24, <2>2 DEF AddImmediate, ExecTypes, CallTypes, OtherTypes, AsyncTypes
<1>25. ASSUME NEW t \in AsyncTasks, FinishAsync(t) \/ EnableDispose(t) PROVE Goal
  BY <1>25 DEF FinishAsync, EnableDispose, Working, ExecTypes, CallTypes, OtherTypes, AsyncTypes
<1>26. ASSUME NEW t \in AsyncTasks, NEW w \in Workers, QueueResponse(t, w) PROVE Goal
  <2>1. CallTypes'
    BY <1>26, KindFacts, FunctorFacts, CallKeepsTypes DEF QueueResponse
  <2> QED
    BY <1>26, <2>1 DEF QueueResponse, Working, ExecTypes, OtherTypes, AsyncTypes
<1>27. ASSUME NEW t \in IoTasks, NEW w \in Workers, RemoveTask(t, w) PROVE Goal
  <2>1. t \in Tasks
    BY KindFacts
  <2>2. CASE CanDispose(t)
    <3>1. CallTypes'
      BY <1>27, <2>1, <2>2, FunctorFacts, CallKeepsTypes DEF RemoveTask
    <3> QED
      BY <1>27, <2>1, <2>2, <3>1 DEF RemoveTask, ExecTypes, OtherTypes, AsyncTypes
  <2>3. CASE ~CanDispose(t)
    <3>1. t \in AsyncTasks /\ Removal(t) \in Tasks /\ Removal(t) \in Objects
      BY <2>3, KindFacts DEF CanDispose
    <3>2. CallTypes'
      BY <1>27, <2>3, <3>1, FunctorFacts, CallKeepsTypes DEF RemoveTask
    <3>3. m_worker' \in [Tasks -> Workers \cup {None}] /\ created' \subseteq Objects
          /\ created \subseteq created' /\ disposed' \subseteq IoTasks
      BY <1>27, <2>3, <3>1 DEF RemoveTask, assign_worker, ExecTypes, OtherTypes
    <3> QED
      BY <1>27, <3>2, <3>3 DEF RemoveTask, ExecTypes, OtherTypes, AsyncTypes
  <2> QED
    BY <2>2, <2>3
<1>28. ASSUME Crash PROVE Goal
  BY <1>28 DEF Crash, ExecTypes, CallTypes, OtherTypes, AsyncTypes
<1>29. ASSUME UNCHANGED vars PROVE Goal
  BY <1>29 DEF vars, ExecTypes, CallTypes, OtherTypes, AsyncTypes
<1> HIDE DEF Goal
<1>30. ASSUME NEW w \in Workers, ThreadStep(w) PROVE Goal
  BY <1>30, <1>2, <1>3, <1>4, <1>5, <1>6, <1>7, <1>8, <1>9, <1>10, <1>11, <1>12, <1>15, <1>16,
     <1>17, <1>18, <1>19, <1>20, <1>21 DEF ThreadStep
<1>31. Goal
  BY <1>1, <1>22, <1>23, <1>24, <1>25, <1>26, <1>27, <1>28, <1>29, <1>30 DEF Next, AsyncStep
<1> QED
  BY <1>31 DEF Goal
-----------------------------------------------------------------------------
(* What functors and handlers change                                       *)

\* Functor f ran on w's thread.
Ran(w, f) ==
    /\ w \in leaders /\ tfq' = tfq
    /\ todo' = todo \/ todo' = [todo EXCEPT ![w] = @ \ {f.obj}]
    /\ f.op # "event" => m_events_queue' = m_events_queue
    /\ f.op = "event" =>
          Appended(m_events_queue, m_events_queue', w, [obj |-> f.obj, revents |-> mask[f.obj]])
    /\ \A o \in Objects: o # f.obj => active'[o] = active[o]
    /\ f.op \in {"start", "add"} =>
          active'[f.obj] = IF active[f.obj] = None THEN loop_ptr(w) ELSE active[f.obj]
    /\ f.op \in {"update", "respond", "event"} => active' = active
    /\ f.op \in {"stop", "dispose"} =>
          active'[f.obj] = None /\ todo' = [todo EXCEPT ![w] = @ \ {f.obj}]
    /\ f.op # "dispose" => deleted' = deleted
    /\ f.op = "dispose" => deleted' = deleted \cup {f.obj}
    /\ f.op # "add" => m_worker' = m_worker
    /\ \A o \in Tasks: o # f.obj => m_worker'[o] = m_worker[o]
    /\ f.op = "add" =>
          m_worker'[f.obj] = IF SingleLoop \/ m_worker[f.obj] # None THEN m_worker[f.obj] ELSE w

\* Functor f was queued with w.
Called(w, f) ==
    /\ Appended(tfq, tfq', w, f)
    /\ UNCHANGED <<todo, m_events_queue, deleted, m_worker, active>>

LEMMA ExecRan ==
    ASSUME ExecTypes, NEW w \in leaders, w \in Workers, NEW f \in Functors, Exec(w, f), tfq' = tfq
    PROVE  Ran(w, f)
<1>1. f.obj \in Tasks /\ f.obj \in Objects
  BY KindFacts DEF Functors
<1>2. CASE f.op = "start"
  <2>1. Start(w, f.obj)
    BY <1>2 DEF Exec
  <2> QED
    BY <1>1, <1>2, <2>1 DEF Ran, Start, ExecTypes
<1>3. CASE f.op \in {"update", "respond"}
  <2>1. PICK e: Update(w, f.obj, e)
    BY <1>3 DEF Exec
  <2> QED
    BY <1>1, <1>3, <2>1 DEF Ran, Update, ExecTypes
<1>4. CASE f.op = "dispose"
  <2>1. Dispose(w, f.obj)
    BY <1>4 DEF Exec
  <2> QED
    BY <1>1, <1>4, <2>1 DEF Ran, Dispose, ExecTypes
<1>5. CASE f.op = "add"
  <2>1. Add(w, f.obj)
    BY <1>5 DEF Exec
  <2> QED
    BY <1>1, <1>5, <2>1 DEF Ran, Add, assign_worker, ExecTypes
<1>6. CASE f.op = "event"
  <2>1. AddEvent(w, f.obj)
    BY <1>6 DEF Exec
  <2>2. [obj |-> f.obj, revents |-> mask[f.obj]] \in Events
    BY <1>1 DEF ExecTypes, Events
  <2>3. Appended(m_events_queue, m_events_queue', w, [obj |-> f.obj, revents |-> mask[f.obj]])
    BY <2>1, <2>2, AppendQueue DEF ExecTypes, AddEvent
  <2> QED
    BY <1>6, <2>1, <2>3 DEF Ran, AddEvent
<1>7. CASE f.op = "stop"
  <2>1. Stop(w, f.obj)
    BY <1>7 DEF Exec
  <2> QED
    BY <1>1, <1>7, <2>1 DEF Ran, Stop, ExecTypes
<1> QED
  BY <1>7, <1>2, <1>3, <1>4, <1>5, <1>6 DEF Functors

LEMMA CallCalled ==
    ASSUME CallTypes, NEW w \in Workers, NEW f \in Functors, async_call(w, f)
    PROVE  Appended(tfq, tfq', w, f)
BY AppendQueue DEF CallTypes, async_call

\* exec_in_worker_ctx runs the functor or queues it.
LEMMA ContextCases ==
    ASSUME ExecTypes, CallTypes, NEW self \in Workers, NEW w \in Workers, NEW f \in Functors,
           exec_in_worker_ctx(self, w, f)
    PROVE  \/ self = w /\ Ran(w, f)
           \/ ~(w \in leaders /\ self = w) /\ Called(w, f)
<1>1. CASE w \in leaders /\ self = w
  <2>1. Exec(w, f) /\ tfq' = tfq
    BY <1>1 DEF exec_in_worker_ctx, callVars
  <2> QED
    BY <1>1, <2>1, ExecRan
<1>2. CASE ~(w \in leaders /\ self = w)
  <2>1. async_call(w, f) /\ UNCHANGED execVars
    BY <1>2 DEF exec_in_worker_ctx
  <2> QED
    BY <1>2, <2>1, CallCalled DEF Called, execVars
<1> QED
  BY <1>1, <1>2

\* A functor that a handler on w's thread has run in the context of v.
InContext(w, v, f) ==
    \/ w = v /\ Ran(w, f)
    \/ ~(v \in leaders /\ w = v) /\ Called(v, f)

LEMMA HandlerContext ==
    ASSUME ExecTypes, CallTypes, ThreadPart, NEW w \in Workers, NEW v \in Workers,
           NEW o \in Tasks, NEW name \in {"start", "stop", "update", "dispose", "add"},
           at[w] \notin {"calls", "async"}, exec_in_worker_ctx(w, v, Functor(name, o))
    PROVE  /\ UNCHANGED <<m_events_queue, todo>>
           /\ InContext(w, v, Functor(name, o))
<1>1. Functor(name, o) \in Functors /\ Functor(name, o).op = name
  BY FunctorFacts
<1>2. CASE w = v /\ Ran(w, Functor(name, o))
  <2>1. todo[w] = {}
    BY DEF ThreadPart, WorkerOK
  <2>2. todo' = todo
    <3>1. todo[w] \ {Functor(name, o).obj} = todo[w]
      BY <2>1
    <3>2. todo = [u \in Workers |-> todo[u]]
      BY DEF ExecTypes
    <3>3. [todo EXCEPT ![w] = @ \ {Functor(name, o).obj}] = todo
      BY <3>1, <3>2
    <3> QED
      BY <1>2, <3>3 DEF Ran
  <2>3. m_events_queue' = m_events_queue
    BY <1>1, <1>2 DEF Ran
  <2> QED
    BY <1>2, <2>2, <2>3 DEF InContext
<1>3. CASE ~(v \in leaders /\ w = v) /\ Called(v, Functor(name, o))
  BY <1>3 DEF Called, InContext
<1> QED
  BY <1>1, <1>2, <1>3, ContextCases
-----------------------------------------------------------------------------
(* The steps, by what they do to the places where tasks are                *)

Quiet ==
    /\ UNCHANGED <<leaders, at, todo, qcpy, m_events_queue, tfq, m_worker, active, disposed>>
    /\ created \subseteq created' /\ created' \ created \subseteq Timers
    /\ deleted' = deleted \cup (created' \ created)

\* The first functor of qcpy runs.
RunStep(w) ==
    /\ at[w] = "async" /\ qcpy[w] # <<>> /\ qcpy[w][1].obj \notin deleted
    /\ Ran(w, qcpy[w][1]) /\ Shifted(qcpy, qcpy', w)
    /\ UNCHANGED <<leaders, at, created, disposed>>

PopStep(w) ==
    /\ at[w] = "pop" /\ at' = [at EXCEPT ![w] = "handle"]
    /\ Shifted(m_events_queue, m_events_queue', w)
    /\ UNCHANGED <<leaders, qcpy, todo, tfq, m_worker, active, created, deleted, disposed>>

\* The thread of w goes from one place of an event handler to another.
Goes(w, p, q) ==
    /\ at[w] = p /\ at' = [at EXCEPT ![w] = q]
    /\ m_events_queue[w] # <<>> /\ Current(w) \notin deleted
    /\ UNCHANGED <<leaders, qcpy, m_events_queue, todo>>

\* Steps of a handler that run no functor.
PlainStep(w) ==
    /\ UNCHANGED <<tfq, m_worker, active, created, disposed>>
    /\ \/ /\ Goes(w, "handle", "cont")
          /\ Current(w) \in IoTasks \cup Timers \cup Cleanups /\ UNCHANGED deleted
       \/ Goes(w, "handle", "end") /\ Current(w) \notin Cleanups /\ UNCHANGED deleted
       \/ Goes(w, "handle", "update") /\ Current(w) \in IoTasks /\ UNCHANGED deleted
       \/ Goes(w, "close", "connect") /\ Current(w) \in Reconnecting /\ UNCHANGED deleted
       \/ /\ Goes(w, "end", "pop")
          /\ Current(w) \notin IoTasks /\ deleted' = deleted \cup {Current(w)}

\* Steps of a handler that run or queue one.
FunctorStep(w) ==
    /\ UNCHANGED <<created, disposed>>
    /\ LET o == Current(w)
           v == get_worker_by_task(w, o)
       IN \/ /\ Goes(w, "handle", "close") /\ o \in Reconnecting
             /\ InContext(w, w, Functor("stop", o))
          \/ Goes(w, "update", "cont") /\ InContext(w, w, Functor("update", o))
          \/ Goes(w, "connect", "cont") /\ InContext(w, w, Functor("start", o))
          \/ Goes(w, "cont", "pop") /\ InContext(w, w, Functor("start", o))
          \/ Goes(w, "end", "pop") /\ CanDispose(o) /\ InContext(w, v, Functor("dispose", o))
          \/ Goes(w, "clean", "pop") /\ InContext(w, v, Functor("start", Cleanup(o)))
          \/ /\ Goes(w, "handle", "end")
             /\ \E t \in AsyncTasks:
                   /\ o \in {Cleanup(t), Removal(t)} /\ t \notin deleted /\ m_can_dispose[t]
                   /\ InContext(w, w, Functor("dispose", t))

AcceptStep(w) ==
    /\ Goes(w, "handle", "cont") /\ Current(w) \in IoTasks
    /\ \E n \in IoTasks \ created: /\ created' = created \cup {n}
                                   /\ InContext(w, w, Functor("add", n))
    /\ UNCHANGED disposed

LaterStep(w) ==
    /\ Goes(w, "end", "clean") /\ Current(w) \in AsyncTasks
    /\ created' = created \cup {Cleanup(Current(w))}
    /\ assign_worker(Cleanup(Current(w)), get_worker_by_task(w, Current(w)))
    /\ UNCHANGED <<tfq, active, deleted, disposed>>

\* Threads that are no workers queue functor f with w.
CallStep(w, f) ==
    /\ UNCHANGED <<leaders, at, todo, qcpy, m_events_queue, active, deleted>>
    /\ Appended(tfq, tfq', w, f)
    /\ \/ /\ f.obj \in (IoTasks \cup Timers) \ created /\ f.op = "start"
          /\ created' = created \cup {f.obj} /\ assign_worker(f.obj, w) /\ UNCHANGED disposed
       \/ /\ f.obj \in DiskTasks \ created /\ f.op = "event"
          /\ created' = created \cup {f.obj} /\ UNCHANGED <<m_worker, disposed>>
       \/ /\ f.obj \in AsyncTasks \cap created /\ f.op = "respond" /\ op[f.obj] = "send"
          /\ AnyWorker(f.obj, w) /\ UNCHANGED <<created, m_worker, disposed>>
       \/ /\ OutsideRemoval /\ f.obj \in IoTasks \cap created /\ f.op = "dispose"
          /\ AnyWorker(f.obj, w) /\ UNCHANGED <<created, m_worker>>
          /\ disposed' = disposed \cup {f.obj}
       \/ \E t \in (AsyncTasks \cap created) \ disposed:
             /\ OutsideRemoval /\ f = Functor("start", Removal(t)) /\ AnyWorker(t, w)
             /\ created' = created \cup {Removal(t)} /\ assign_worker(Removal(t), w)
             /\ disposed' = disposed \cup {t}

PlaceSteps == \E w \in Workers:
    \/ \E fired \in SUBSET Objects: EventLoop(w, fired)
    \/ \E o \in Objects: EventCallback(w, o) \/ SignalCallback(w, o)
    \/ \E v \in Workers: AsyncCallback(w, v)
    \/ RunStep(w) \/ PopStep(w)
    \/ AsyncDone(w) \/ LoopReturns(w) \/ HandledAll(w)
    \/ PlainStep(w) \/ FunctorStep(w) \/ AcceptStep(w) \/ LaterStep(w)
    \/ \E f \in Functors: CallStep(w, f)

LEMMA StepCases ==
    ASSUME TypeOK, ThreadPart, RefPart, OpPart, PlacePart, AssignedPart, [Next]_vars
    PROVE  Quiet \/ PlaceSteps
<1> USE DEF threadVars, execVars, callVars, asyncVars
<1>0. ExecTypes /\ CallTypes /\ OtherTypes /\ AsyncTypes
  BY TypeParts
<1>1. ASSUME UNCHANGED vars \/ Crash \/ \E t \in AsyncTasks: FinishAsync(t) \/ EnableDispose(t)
      PROVE  Quiet
  BY <1>1 DEF vars, Crash, FinishAsync, EnableDispose, Quiet
<1>2. ASSUME NEW o \in Timers, AddImmediate(o) PROVE Quiet
  BY <1>2 DEF AddImmediate, Quiet
<1>3. ASSUME NEW w \in Workers, NEW o \in Tasks, Handles(w, o)
      PROVE  o = Current(w) /\ m_events_queue[w] # <<>> /\ Current(w) \notin deleted /\ o \in created
  BY <1>0, <1>3, CurrentFacts DEF Handles
<1>4. ASSUME NEW w \in Workers, RunFunctor(w) PROVE RunStep(w)
  <2>1. qcpy[w] \in Seq(Functors) /\ qcpy[w] # <<>> /\ at[w] = "async"
    BY <1>0, <1>4 DEF RunFunctor, OtherTypes
  <2>2. Head(qcpy[w]) \in Functors /\ Head(qcpy[w]) = qcpy[w][1]
    BY <2>1, QueueFacts
  <2>3. w \in leaders
    BY <2>1 DEF ThreadPart, WorkerOK
  <2>4. Ran(w, qcpy[w][1])
    BY <1>0, <1>4, <2>2, <2>3, ContextCases DEF RunFunctor
  <2>5. Shifted(qcpy, qcpy', w)
    BY <1>0, <1>4, <2>1, ShiftQueue DEF RunFunctor, OtherTypes
  <2> QED
    BY <1>4, <2>1, <2>2, <2>4, <2>5 DEF RunFunctor, RunStep
<1>5. ASSUME NEW w \in Workers, Pop(w) PROVE PopStep(w)
  <2>1. m_events_queue[w] # <<>>
    BY <1>5 DEF Pop, Goto, ThreadPart, WorkerOK
  <2>2. Shifted(m_events_queue, m_events_queue', w)
    BY <1>0, <1>5, <2>1, ShiftQueue DEF Pop, ExecTypes
  <2> QED
    BY <1>5, <2>2 DEF Pop, Goto, PopStep
<1>6. ASSUME NEW w \in Workers, NEW o \in Tasks, HandlePlain(w, o) \/ HandleAsync(w, o)
      PROVE  PlainStep(w)
  <2>1. Handles(w, o) /\ o \in IoTasks \cup Timers
    BY <1>6, KindFacts DEF HandlePlain, HandleAsync
  <2>2. Goes(w, "handle", "cont")
    BY <1>3, <1>6, <2>1 DEF HandlePlain, HandleAsync, Goto, Goes
  <2>3. UNCHANGED <<tfq, m_worker, active, created, disposed, deleted>>
    BY <1>6 DEF HandlePlain, HandleAsync
  <2> QED
    BY <1>3, <2>1, <2>2, <2>3 DEF PlainStep
<1>7. ASSUME NEW w \in Workers, NEW o \in Tasks, HandleEnd(w, o) PROVE PlainStep(w)
  <2>1. Handles(w, o) /\ o \notin Cleanups
    BY <1>7 DEF HandleEnd
  <2>2. Goes(w, "handle", "end")
    BY <1>3, <1>7, <2>1 DEF HandleEnd, Goto, Goes
  <2>3. UNCHANGED <<tfq, m_worker, active, created, disposed, deleted>>
    BY <1>7 DEF HandleEnd
  <2> QED
    BY <1>3, <2>1, <2>2, <2>3 DEF PlainStep
<1>8. ASSUME NEW w \in Workers, NEW o \in Tasks, HandleSetEvents(w, o) PROVE PlainStep(w)
  <2>1. Handles(w, o) /\ o \in IoTasks
    BY <1>8 DEF HandleSetEvents
  <2>2. Goes(w, "handle", "update")
    BY <1>3, <1>8, <2>1 DEF HandleSetEvents, Goto, Goes
  <2>3. UNCHANGED <<tfq, m_worker, active, created, disposed, deleted>>
    BY <1>8 DEF HandleSetEvents
  <2> QED
    BY <1>3, <2>1, <2>2, <2>3 DEF PlainStep
<1>9. ASSUME NEW w \in Workers, NEW o \in Tasks, HandleConnect(w, o) PROVE PlainStep(w)
  <2>1. Handles(w, o) /\ o \in Reconnecting
    BY <1>3, <1>9 DEF HandleConnect, Goto, PlacePart
  <2>2. Goes(w, "close", "connect")
    BY <1>3, <1>9, <2>1 DEF HandleConnect, Goto, Goes
  <2>3. UNCHANGED <<tfq, m_worker, active, created, disposed, deleted>>
    BY <1>9 DEF HandleConnect
  <2> QED
    BY <1>3, <2>1, <2>2, <2>3 DEF PlainStep
<1>10. ASSUME NEW w \in Workers, NEW o \in Tasks, FinishDelete(w, o) PROVE PlainStep(w)
  <2>1. Handles(w, o) /\ o \notin IoTasks
    BY <1>10 DEF FinishDelete
  <2>2. Goes(w, "end", "pop")
    BY <1>3, <1>10, <2>1 DEF FinishDelete, Goto, Goes
  <2>3. UNCHANGED <<tfq, m_worker, active, created, disposed>> /\ deleted' = deleted \cup {o}
    BY <1>10 DEF FinishDelete
  <2> QED
    BY <1>3, <2>1, <2>2, <2>3 DEF PlainStep
<1>11. ASSUME NEW w \in Workers, NEW o \in Tasks, HandleUpdate(w, o) PROVE FunctorStep(w)
  <2>1. Handles(w, o) /\ at[w] = "update"
    BY <1>11 DEF HandleUpdate, Goto
  <2>2. InContext(w, w, Functor("update", o)) /\ UNCHANGED <<m_events_queue, todo>>
    BY <1>0, <1>11, <2>1, HandlerContext DEF HandleUpdate
  <2>3. Goes(w, "update", "cont")
    BY <1>3, <1>11, <2>1, <2>2 DEF HandleUpdate, Goto, Goes
  <2> QED
    BY <1>3, <1>11, <2>1, <2>2, <2>3 DEF HandleUpdate, FunctorStep
<1>12. ASSUME NEW w \in Workers, NEW o \in Tasks, HandleReadd(w, o) PROVE FunctorStep(w)
  <2>1. Handles(w, o) /\ at[w] = "connect"
    BY <1>12 DEF HandleReadd, Goto
  <2>2. InContext(w, w, Functor("start", o)) /\ UNCHANGED <<m_events_queue, todo>>
    BY <1>0, <1>12, <2>1, HandlerContext DEF HandleReadd
  <2>3. Goes(w, "connect", "cont")
    BY <1>3, <1>12, <2>1, <2>2 DEF HandleReadd, Goto, Goes
  <2> QED
    BY <1>3, <1>12, <2>1, <2>2, <2>3 DEF HandleReadd, FunctorStep
<1>13. ASSUME NEW w \in Workers, NEW o \in Tasks, Continue(w, o) PROVE FunctorStep(w)
  <2>1. Handles(w, o) /\ at[w] = "cont"
    BY <1>13 DEF Continue, Goto
  <2>2. InContext(w, w, Functor("start", o)) /\ UNCHANGED <<m_events_queue, todo>>
    BY <1>0, <1>13, <2>1, HandlerContext DEF Continue
  <2>3. Goes(w, "cont", "pop")
    BY <1>3, <1>13, <2>1, <2>2 DEF Continue, Goto, Goes
  <2> QED
    BY <1>3, <1>13, <2>1, <2>2, <2>3 DEF Continue, FunctorStep
<1>14. ASSUME NEW w \in Workers, NEW o \in Tasks, FinishDispose(w, o) PROVE FunctorStep(w)
  <2>1. Handles(w, o) /\ at[w] = "end" /\ CanDispose(o) /\ o \in IoTasks
    BY <1>14 DEF FinishDispose, Goto, CanDispose
  <2>2. get_worker_by_task(w, o) \in Workers
    BY <1>0, <1>3, <2>1, GetWorkerType
  <2>3. /\ InContext(w, get_worker_by_task(w, o), Functor("dispose", o))
        /\ UNCHANGED <<m_events_queue, todo>>
    BY <1>0, <1>14, <2>1, <2>2, HandlerContext DEF FinishDispose
  <2>4. Goes(w, "end", "pop")
    BY <1>3, <1>14, <2>1, <2>3 DEF FinishDispose, Goto, Goes
  <2> QED
    BY <1>3, <1>14, <2>1, <2>3, <2>4 DEF FinishDispose, FunctorStep
<1>15. ASSUME NEW w \in Workers, NEW o \in Tasks, StartCleanup(w, o) PROVE FunctorStep(w)
  <2>1. Handles(w, o) /\ at[w] = "clean"
    BY <1>15 DEF StartCleanup, Goto
  <2>2. o \in AsyncTasks /\ o \in IoTasks /\ Cleanup(o) \in Tasks
    BY <1>3, <2>1, KindFacts DEF PlacePart
  <2>3. get_worker_by_task(w, o) \in Workers
    BY <1>0, <1>3, <2>1, <2>2, GetWorkerType
  <2>4. /\ InContext(w, get_worker_by_task(w, o), Functor("start", Cleanup(o)))
        /\ UNCHANGED <<m_events_queue, todo>>
    BY <1>0, <1>15, <2>1, <2>2, <2>3, HandlerContext DEF StartCleanup
  <2>5. Goes(w, "clean", "pop")
    BY <1>3, <1>15, <2>1, <2>4 DEF StartCleanup, Goto, Goes
  <2> QED
    BY <1>3, <1>15, <2>1, <2>4, <2>5 DEF StartCleanup, FunctorStep
<1>16. ASSUME NEW w \in Workers, NEW t \in AsyncTasks, HandleCleanup(w, t)
       PROVE  FunctorStep(w) \/ PlainStep(w)
  <2>1. /\ t \in Tasks /\ Cleanup(t) \in Tasks /\ Removal(t) \in Tasks
        /\ Cleanup(t) \in Cleanups /\ Removal(t) \in Cleanups
    BY KindFacts
  <2>2. /\ Current(w) \in {Cleanup(t), Removal(t)} /\ at[w] = "handle" /\ t \notin deleted
        /\ m_events_queue[w] # <<>> /\ Current(w) \notin deleted
    BY <1>3, <1>16, <2>1 DEF HandleCleanup, Goto
  <2>3. CASE m_can_dispose[t]
    <3>1. InContext(w, w, Functor("dispose", t)) /\ UNCHANGED <<m_events_queue, todo>>
      BY <1>0, <1>16, <2>1, <2>2, <2>3, HandlerContext DEF HandleCleanup
    <3>2. Goes(w, "handle", "end")
      BY <1>16, <2>2, <2>3, <3>1 DEF HandleCleanup, Goto, Goes
    <3> QED
      BY <1>16, <2>2, <2>3, <3>1, <3>2 DEF HandleCleanup, FunctorStep
  <2>4. CASE ~m_can_dispose[t]
    <3>1. Goes(w, "handle", "cont")
      BY <1>16, <2>2, <2>4 DEF HandleCleanup, Goto, Goes
    <3> QED
      BY <1>16, <2>1, <2>2, <2>4, <3>1 DEF HandleCleanup, PlainStep
  <2> QED
    BY <2>3, <2>4
<1>17. ASSUME NEW w \in Workers, NEW o \in IoTasks, NEW n \in IoTasks, HandleAccept(w, o, n)
       PROVE  AcceptStep(w)
  <2>1. o \in Tasks /\ n \in Tasks
    BY KindFacts
  <2>2. Handles(w, o) /\ at[w] = "handle" /\ n \notin created
    BY <1>17 DEF HandleAccept, Goto
  <2>3. InContext(w, w, Functor("add", n)) /\ UNCHANGED <<m_events_queue, todo>>
    BY <1>0, <1>17, <2>1, <2>2, HandlerContext DEF HandleAccept
  <2>4. Goes(w, "handle", "cont")
    BY <1>3, <1>17, <2>1, <2>2, <2>3 DEF HandleAccept, Goto, Goes
  <2> QED
    BY <1>3, <1>17, <2>1, <2>2, <2>3, <2>4 DEF HandleAccept, AcceptStep
<1>18. ASSUME NEW w \in Workers, NEW o \in Tasks, FinishLater(w, o) PROVE LaterStep(w)
  <2>1. Handles(w, o) /\ at[w] = "end"
    BY <1>18 DEF FinishLater, Goto
  <2>2. Goes(w, "end", "clean")
    BY <1>3, <1>18, <2>1 DEF FinishLater, Goto, Goes
  <2> QED
    BY <1>3, <1>18, <2>1, <2>2 DEF FinishLater, LaterStep
<1>19. ASSUME NEW o \in Tasks, NEW w \in Workers, AddTask(o, w)
       PROVE  \E f \in Functors: CallStep(w, f)
  <2> DEFINE f == Functor("start", o)
  <2>1. f \in Functors /\ f.obj = o /\ f.op = "start"
    BY FunctorFacts
  <2>2. Appended(tfq, tfq', w, f)
    BY <1>0, <1>19, <2>1, CallCalled DEF AddTask
  <2> HIDE DEF f
  <2>3. CallStep(w, f)
    BY <1>19, <2>1, <2>2 DEF AddTask, CallStep
  <2> QED
    BY <2>1, <2>3
<1>20. ASSUME NEW o \in Tasks, NEW w \in Workers, AddDiskTask(o, w)
       PROVE  \E f \in Functors: CallStep(w, f)
  <2> DEFINE f == Functor("event", o)
  <2>1. f \in Functors /\ f.obj = o /\ f.op = "event"
    BY FunctorFacts
  <2>2. Appended(tfq, tfq', w, f)
    BY <1>0, <1>20, <2>1, CallCalled DEF AddDiskTask
  <2> HIDE DEF f
  <2>3. CallStep(w, f)
    BY <1>20, <2>1, <2>2 DEF AddDiskTask, CallStep
  <2> QED
    BY <2>1, <2>3
<1>21. ASSUME NEW t \in AsyncTasks, NEW w \in Workers, QueueResponse(t, w)
       PROVE  \E f \in Functors: CallStep(w, f)
  <2> DEFINE f == Functor("respond", t)
  <2>1. f \in Functors /\ f.obj = t /\ f.op = "respond"
    BY KindFacts, FunctorFacts
  <2>2. Appended(tfq, tfq', w, f)
    BY <1>0, <1>21, <2>1, CallCalled DEF QueueResponse
  <2>3. t \in created
    BY <1>21 DEF QueueResponse, OpPart
  <2> HIDE DEF f
  <2>4. CallStep(w, f)
    BY <1>21, <2>1, <2>2, <2>3 DEF QueueResponse, CallStep
  <2> QED
    BY <2>1, <2>4
<1>22. ASSUME NEW t \in IoTasks, NEW w \in Workers, RemoveTask(t, w)
       PROVE  \E f \in Functors: CallStep(w, f)
  <2>1. CASE CanDispose(t)
    <3> DEFINE f == Functor("dispose", t)
    <3>1. f \in Functors /\ f.obj = t /\ f.op = "dispose"
      BY KindFacts, FunctorFacts
    <3>2. Appended(tfq, tfq', w, f)
      BY <1>0, <1>22, <2>1, <3>1, CallCalled DEF RemoveTask
    <3> HIDE DEF f
    <3>3. CallStep(w, f)
      BY <1>22, <2>1, <3>1, <3>2 DEF RemoveTask, CallStep
    <3> QED
      BY <3>1, <3>3
  <2>2. CASE ~CanDispose(t)
    <3> DEFINE f == Functor("start", Removal(t))
    <3>1. t \in AsyncTasks /\ Removal(t) \in Tasks
      BY <2>2, KindFacts DEF CanDispose
    <3>2. f \in Functors
      BY <3>1, FunctorFacts
    <3>3. Appended(tfq, tfq', w, f)
      BY <1>0, <1>22, <2>2, <3>2, CallCalled DEF RemoveTask
    <3>4. CallStep(w, f)
      <4>1. f = Functor("start", Removal(t))
        OBVIOUS
      <4> HIDE DEF f
      <4> QED
        BY <1>22, <2>2, <3>1, <3>3, <4>1 DEF RemoveTask, CallStep
    <3> QED
      BY <3>2, <3>4
  <2> QED
    BY <2>1, <2>2
<1>24. ASSUME NEW w \in Workers, NEW o \in Tasks, HandleStop(w, o) PROVE FunctorStep(w)
  <2>1. Handles(w, o) /\ at[w] = "handle" /\ o \in Reconnecting
    BY <1>24 DEF HandleStop, Goto
  <2>2. InContext(w, w, Functor("stop", o)) /\ UNCHANGED <<m_events_queue, todo>>
    BY <1>0, <1>24, <2>1, HandlerContext DEF HandleStop
  <2>3. Goes(w, "handle", "close")
    BY <1>3, <1>24, <2>1, <2>2 DEF HandleStop, Goto, Goes
  <2> QED
    BY <1>3, <1>24, <2>1, <2>2, <2>3 DEF HandleStop, FunctorStep
<1>23. ASSUME NEW w \in Workers, ThreadStep(w) PROVE PlaceSteps
  BY <1>24, <1>4, <1>5, <1>6, <1>7, <1>8, <1>9, <1>10, <1>11, <1>12, <1>13, <1>14, <1>15, <1>16, <1>17,
     <1>18, <1>23 DEF ThreadStep, PlaceSteps
<1> QED
  BY <1>1, <1>2, <1>19, <1>20, <1>21, <1>22, <1>23 DEF Next, AsyncStep, PlaceSteps
-----------------------------------------------------------------------------
(* Threads                                                                 *)

\* A handler goes from one of its places to another.
LEMMA HandlerGoes ==
    ASSUME NEW w, PlainStep(w) \/ FunctorStep(w) \/ AcceptStep(w) \/ LaterStep(w)
    PROVE  \E p \in {"handle", "update", "close", "connect", "cont", "end", "clean"},
              q \in {"update", "close", "connect", "cont", "end", "clean", "pop"}: Goes(w, p, q)
BY DEF PlainStep, FunctorStep, AcceptStep, LaterStep

\* Only the row of worker w changes.
OnlyRow(w) ==
    /\ leaders' = leaders
    /\ \A u \in Workers: u # w => /\ at'[u] = at[u] /\ todo'[u] = todo[u] /\ qcpy'[u] = qcpy[u]
                                  /\ m_events_queue'[u] = m_events_queue[u]

LEMMA ThreadKept ==
    ASSUME ThreadPart, NEW w \in Workers, OnlyRow(w), WorkerOK(w)'
    PROVE  ThreadPart'
BY DEF ThreadPart, WorkerOK, OnlyRow

LEMMA ThreadsKept ==
    ASSUME TypeOK, ThreadPart, Quiet \/ PlaceSteps
    PROVE  ThreadPart'
<1>0. ExecTypes /\ CallTypes /\ OtherTypes
  BY TypeParts
<1>1. CASE Quiet \/ \E w \in Workers, f \in Functors: CallStep(w, f)
  BY <1>1 DEF Quiet, CallStep, ThreadPart, WorkerOK
<1>2. ASSUME NEW w \in Workers, NEW fired \in SUBSET Objects, EventLoop(w, fired)
      PROVE  ThreadPart'
  <2>1. OnlyRow(w) /\ at[w] = "loop" /\ at'[w] = "calls" /\ qcpy' = qcpy
    BY <1>0, <1>2 DEF EventLoop, Goto, OnlyRow, ExecTypes, OtherTypes
  <2>2. WorkerOK(w)'
    BY <2>1 DEF ThreadPart, WorkerOK, OnlyRow
  <2> QED
    BY <2>1, <2>2, ThreadKept
<1>3. ASSUME NEW w \in Workers, NEW o \in Objects, EventCallback(w, o) \/ SignalCallback(w, o)
      PROVE  ThreadPart'
  <2>1. OnlyRow(w) /\ at[w] = "calls" /\ at' = at /\ qcpy' = qcpy
    BY <1>0, <1>3 DEF EventCallback, SignalCallback, OnlyRow, ExecTypes, threadVars
  <2>2. WorkerOK(w)'
    BY <2>1 DEF ThreadPart, WorkerOK, OnlyRow
  <2> QED
    BY <2>1, <2>2, ThreadKept
<1>4. ASSUME NEW w \in Workers, NEW v \in Workers, AsyncCallback(w, v)
      PROVE  ThreadPart'
  <2>1. OnlyRow(w) /\ at[w] = "calls" /\ at'[w] = "async"
    BY <1>0, <1>4 DEF AsyncCallback, Goto, OnlyRow, ExecTypes, OtherTypes
  <2>2. WorkerOK(w)'
    BY <2>1 DEF ThreadPart, WorkerOK, OnlyRow
  <2> QED
    BY <2>1, <2>2, ThreadKept
<1>5. ASSUME NEW w \in Workers, RunStep(w)
      PROVE  ThreadPart'
  <2>0. \A u \in Workers: u # w => qcpy'[u] = qcpy[u] /\ m_events_queue'[u] = m_events_queue[u]
    BY <1>5 DEF RunStep, Shifted, Ran, Appended
  <2>1. OnlyRow(w) /\ at[w] = "async" /\ at' = at
    BY <1>0, <1>5, <2>0 DEF RunStep, Ran, OnlyRow, ExecTypes
  <2>2. WorkerOK(w)'
    BY <2>1 DEF ThreadPart, WorkerOK, OnlyRow
  <2> QED
    BY <2>1, <2>2, ThreadKept
<1>6. ASSUME NEW w \in Workers, PopStep(w)
      PROVE  ThreadPart'
  <2>1. OnlyRow(w) /\ at[w] = "pop" /\ at'[w] = "handle" /\ UNCHANGED <<todo, qcpy>>
    BY <1>0, <1>6 DEF PopStep, Shifted, OnlyRow, OtherTypes
  <2>2. WorkerOK(w)'
    BY <2>1 DEF ThreadPart, WorkerOK, OnlyRow
  <2> QED
    BY <2>1, <2>2, ThreadKept
<1>7. ASSUME NEW w \in Workers, AsyncDone(w)
      PROVE  ThreadPart'
  <2>1. /\ OnlyRow(w) /\ at[w] = "async" /\ at'[w] = "calls" /\ qcpy[w] = <<>>
        /\ UNCHANGED <<todo, qcpy, m_events_queue>>
    BY <1>0, <1>7 DEF AsyncDone, Goto, OnlyRow, OtherTypes, execVars
  <2>2. WorkerOK(w)'
    BY <2>1 DEF ThreadPart, WorkerOK, OnlyRow
  <2> QED
    BY <2>1, <2>2, ThreadKept
<1>8. ASSUME NEW w \in Workers, HandledAll(w)
      PROVE  ThreadPart'
  <2>1. /\ OnlyRow(w) /\ at[w] = "handle" /\ m_events_queue[w] = <<>>
        /\ at'[w] = IF w \in leaders THEN "loop" ELSE "free"
        /\ UNCHANGED <<todo, qcpy, m_events_queue>>
    BY <1>0, <1>8 DEF HandledAll, Goto, OnlyRow, OtherTypes, execVars
  <2>2. WorkerOK(w)'
    BY <2>1 DEF ThreadPart, WorkerOK, OnlyRow
  <2> QED
    BY <2>1, <2>2, ThreadKept
<1>9. ASSUME NEW w \in Workers, NEW p \in {"handle", "update", "close", "connect", "cont", "end", "clean"},
             NEW q \in {"update", "close", "connect", "cont", "end", "clean", "pop"}, Goes(w, p, q)
      PROVE  ThreadPart'
  <2>1. /\ OnlyRow(w) /\ at[w] = p /\ at'[w] = q /\ m_events_queue[w] # <<>>
        /\ UNCHANGED <<todo, qcpy, m_events_queue>>
    BY <1>0, <1>9 DEF Goes, OnlyRow, OtherTypes
  <2>2. WorkerOK(w)'
    BY <2>1 DEF ThreadPart, WorkerOK, OnlyRow
  <2> QED
    BY <2>1, <2>2, ThreadKept
<1>10. ASSUME NEW w \in Workers, LoopReturns(w)
       PROVE  ThreadPart'
  <2>1. at[w] = "calls" /\ todo[w] = {} /\ UNCHANGED <<todo, qcpy, m_events_queue>>
    BY <1>10 DEF LoopReturns, execVars
  <2>2. CASE ~(m_events_queue[w] # <<>> /\ {v \in Workers: at[v] = "free"} # {})
    <3>1. /\ OnlyRow(w)
          /\ at'[w] = IF m_events_queue[w] = <<>> THEN "loop" ELSE "handle"
      BY <1>0, <1>10, <2>1, <2>2 DEF LoopReturns, OnlyRow, OtherTypes
    <3>2. WorkerOK(w)'
      BY <2>1, <3>1 DEF ThreadPart, WorkerOK, OnlyRow
    <3> QED
      BY <3>1, <3>2, ThreadKept
  <2>3. CASE m_events_queue[w] # <<>> /\ {v \in Workers: at[v] = "free"} # {}
    <3>1. PICK v \in Workers: /\ at[v] = "free" /\ leaders' = {v}
                              /\ at' = [at EXCEPT ![w] = "handle", ![v] = "loop"]
      BY <1>10, <2>3 DEF LoopReturns
    <3>2. w # v /\ at'[w] = "handle" /\ at'[v] = "loop"
          /\ \A u \in Workers: u # w /\ u # v => at'[u] = at[u]
      BY <1>0, <2>1, <3>1 DEF OtherTypes
    <3>3. w \in leaders /\ v \notin leaders /\ SingleLoop
      BY <2>1, <3>1 DEF ThreadPart, WorkerOK
    <3>4. \A u \in Workers: u \in leaders => u = w
      BY <3>3 DEF ThreadPart, loop_ptr
    <3>5. \A u \in Workers: WorkerOK(u)'
      <4> SUFFICES ASSUME NEW u \in Workers PROVE WorkerOK(u)'
        OBVIOUS
      <4>0. WorkerOK(u) /\ WorkerOK(w) /\ WorkerOK(v)
        BY DEF ThreadPart
      <4>1. CASE u = w
        BY <2>1, <3>1, <3>2, <4>0, <4>1 DEF WorkerOK
      <4>2. CASE u = v
        BY <2>1, <3>1, <3>2, <4>0, <4>2 DEF WorkerOK
      <4>3. CASE u # w /\ u # v
        BY <2>1, <3>1, <3>2, <3>4, <4>0, <4>3 DEF WorkerOK
      <4> QED
        BY <4>1, <4>2, <4>3
    <3> QED
      BY <3>1, <3>3, <3>5 DEF ThreadPart
  <2> QED
    BY <2>2, <2>3
<1> QED
  BY <1>1, <1>2, <1>3, <1>4, <1>5, <1>6, <1>7, <1>8, <1>9, <1>10, HandlerGoes DEF PlaceSteps
-----------------------------------------------------------------------------
(* References                                                              *)

\* What a step may add to the queues, and when that keeps RefPart.
RefStep ==
    /\ created \subseteq created'
    /\ \A w \in Workers: \A i \in DOMAIN tfq'[w]:
          FunctorOK(tfq'[w][i], created') \/ \E v \in Workers: \E j \in DOMAIN tfq[v]: tfq'[w][i] = tfq[v][j]
    /\ \A w \in Workers: \A i \in DOMAIN qcpy'[w]:
          \/ \E v \in Workers: \E j \in DOMAIN tfq[v]: qcpy'[w][i] = tfq[v][j]
          \/ \E v \in Workers: \E j \in DOMAIN qcpy[v]: qcpy'[w][i] = qcpy[v][j]
    /\ \A w \in Workers: \A i \in DOMAIN m_events_queue'[w]:
          \/ m_events_queue'[w][i].obj \in created'
          \/ \E j \in DOMAIN m_events_queue[w]: m_events_queue'[w][i] = m_events_queue[w][j]
    /\ \A o \in Tasks: active'[o] # None => active[o] # None \/ o \in created' \ DiskTasks
    /\ \A t \in AsyncTasks:
          Cleanup(t) \in created' \ created \/ Removal(t) \in created' \ created => t \in created

LEMMA RefKept == RefPart /\ RefStep => RefPart'
<1> SUFFICES ASSUME RefPart, RefStep PROVE RefPart'
  OBVIOUS
<1>1. created \subseteq created'
  BY DEF RefStep
<1>2. \A f: FunctorOK(f, created) => FunctorOK(f, created')
  BY <1>1 DEF FunctorOK
<1>3. \A w \in Workers: \A i \in DOMAIN tfq'[w]: FunctorOK(tfq'[w][i], created')
  BY <1>2 DEF RefPart, RefStep
<1>4. \A w \in Workers: \A i \in DOMAIN qcpy'[w]: FunctorOK(qcpy'[w][i], created')
  BY <1>2 DEF RefPart, RefStep
<1>5. \A w \in Workers: \A i \in DOMAIN m_events_queue'[w]: m_events_queue'[w][i].obj \in created'
  BY <1>1 DEF RefPart, RefStep
<1>6. \A o \in Tasks: active'[o] # None => o \in created' \ DiskTasks
  BY <1>1 DEF RefPart, RefStep
<1>7. \A t \in AsyncTasks: Cleanup(t) \in created' \/ Removal(t) \in created' => t \in created'
  BY <1>1 DEF RefPart, RefStep
<1> QED
  BY <1>1, <1>3, <1>4, <1>5, <1>6, <1>7 DEF RefPart

\* A functor that runs or is queued keeps RefPart.
LEMMA RanRefs ==
    ASSUME TypeOK, NEW w \in Workers, NEW v \in Workers, NEW f \in Functors, FunctorOK(f, created'),
           InContext(w, v, f), m_events_queue' = m_events_queue, qcpy' = qcpy,
           created \subseteq created',
           \A t \in AsyncTasks: Cleanup(t) \notin created' \ created /\ Removal(t) \notin created' \ created
    PROVE  RefStep
<1>0. f.obj \in Tasks /\ f.obj \in Objects /\ Tasks \subseteq Objects
  BY KindFacts DEF Functors
<1>1. CASE Ran(w, f)
  <2>1. \A o \in Tasks: active'[o] # None => active[o] # None \/ o \in created' \ DiskTasks
    <3> SUFFICES ASSUME NEW o \in Tasks, active'[o] # None, active[o] = None
                 PROVE  o \in created' \ DiskTasks
      OBVIOUS
    <3>1. o = f.obj
      BY <1>0, <1>1 DEF Ran
    <3>2. f.op \in {"start", "add"}
      BY <1>1, <3>1 DEF Ran, Functors
    <3> QED
      BY <3>1, <3>2 DEF FunctorOK
  <2>2. tfq' = tfq
    BY <1>1 DEF Ran
  <2> QED
    BY <2>1, <2>2 DEF RefStep
<1>2. CASE Called(v, f)
  <2>1. \A u \in Workers: \A i \in DOMAIN tfq'[u]:
          FunctorOK(tfq'[u][i], created') \/ \E z \in Workers: \E j \in DOMAIN tfq[z]: tfq'[u][i] = tfq[z][j]
    <3> SUFFICES ASSUME NEW u \in Workers, NEW i \in DOMAIN tfq'[u]
                 PROVE  tfq'[u][i] = f \/ (i \in DOMAIN tfq[u] /\ tfq'[u][i] = tfq[u][i])
      OBVIOUS
    <3> QED
      BY <1>2 DEF Called, Appended
  <2> QED
    BY <1>2, <2>1 DEF RefStep, Called
<1> QED
  BY <1>1, <1>2 DEF InContext

LEMMA RefsKept ==
    ASSUME TypeOK, ThreadPart, RefPart, PlacePart, TodoPart, AssignedPart, Quiet \/ PlaceSteps
    PROVE  RefPart'
<1> SUFFICES RefStep
  BY RefKept
<1>0. ExecTypes /\ CallTypes /\ OtherTypes
  BY TypeParts
<1>1. CASE Quiet
  <2>1. \A t \in AsyncTasks: Cleanup(t) \notin created' \ created /\ Removal(t) \notin created' \ created
    BY <1>1, KindFacts DEF Quiet
  <2> QED
    BY <1>1, <2>1 DEF Quiet, RefStep
<1>2. ASSUME NEW w \in Workers, NEW fired \in SUBSET Objects, EventLoop(w, fired)
      PROVE  RefStep
  BY <1>2 DEF EventLoop, RefStep
<1>3. ASSUME NEW w \in Workers, NEW o \in Objects, EventCallback(w, o)
      PROVE  RefStep
  <2>1. o \in Tasks /\ o \in todo[w] /\ [obj |-> o, revents |-> mask[o]] \in Events
    BY <1>0, <1>3 DEF EventCallback, ExecTypes, Events
  <2>2. o \in created
    BY <2>1, LoopFacts DEF TodoPart, RefPart
  <2>3. Appended(m_events_queue, m_events_queue', w, [obj |-> o, revents |-> mask[o]])
    BY <1>0, <1>3, <2>1, AppendQueue DEF ExecTypes, EventCallback
  <2>4. \A u \in Workers: \A i \in DOMAIN m_events_queue'[u]:
          \/ m_events_queue'[u][i].obj = o
          \/ i \in DOMAIN m_events_queue[u] /\ m_events_queue'[u][i] = m_events_queue[u][i]
    BY <2>3 DEF Appended
  <2>5. \A x \in Tasks: active'[x] # None => active[x] # None
    BY <1>0, <1>3, KindFacts DEF EventCallback, ExecTypes
  <2>6. UNCHANGED <<tfq, qcpy, created>>
    BY <1>3 DEF EventCallback, threadVars, callVars
  <2> QED
    BY <2>2, <2>4, <2>5, <2>6 DEF RefStep
<1>4. ASSUME NEW w \in Workers, NEW o \in Objects, SignalCallback(w, o)
      PROVE  RefStep
  BY <1>4 DEF SignalCallback, RefStep, threadVars, callVars
<1>5. ASSUME NEW w \in Workers, NEW v \in Workers, AsyncCallback(w, v)
      PROVE  RefStep
  <2>1. UNCHANGED <<m_events_queue, active, created>>
    BY <1>5 DEF AsyncCallback
  <2>2. \A u \in Workers: \A i \in DOMAIN tfq'[u]: i \in DOMAIN tfq[u] /\ tfq'[u][i] = tfq[u][i]
    BY <1>0, <1>5 DEF AsyncCallback, CallTypes
  <2>3. \A u \in Workers: \A i \in DOMAIN qcpy'[u]:
           \/ i \in DOMAIN tfq[v] /\ qcpy'[u][i] = tfq[v][i]
           \/ i \in DOMAIN qcpy[u] /\ qcpy'[u][i] = qcpy[u][i]
    BY <1>0, <1>5 DEF AsyncCallback, OtherTypes
  <2> QED
    BY <2>1, <2>2, <2>3 DEF RefStep
<1>6. ASSUME NEW w \in Workers, RunStep(w)
      PROVE  RefStep
  <2> DEFINE f == qcpy[w][1]
  <2>1. qcpy[w] \in Seq(Functors) /\ Ran(w, f) /\ Shifted(qcpy, qcpy', w) /\ created' = created
    BY <1>0, <1>6 DEF RunStep, OtherTypes
  <2>2. 1 \in DOMAIN qcpy[w] /\ f \in Functors
    BY <1>6, <2>1, QueueFacts DEF RunStep
  <2>3. FunctorOK(f, created) /\ f.obj \in Tasks /\ Tasks \subseteq Objects
    BY <2>2, KindFacts DEF RefPart, Functors
  <2> HIDE DEF f
  <2>4. \A o \in Tasks: active'[o] # None => active[o] # None \/ o \in created' \ DiskTasks
    <3> SUFFICES ASSUME NEW o \in Tasks, active'[o] # None, active[o] = None
                 PROVE  o \in created' \ DiskTasks
      OBVIOUS
    <3>1. o = f.obj
      BY <2>1, <2>3 DEF Ran
    <3>2. f.op \in {"start", "add"}
      BY <2>1, <2>2, <3>1 DEF Ran, Functors
    <3> QED
      BY <2>1, <2>3, <3>1, <3>2 DEF FunctorOK
  <2>5. \A u \in Workers: \A i \in DOMAIN m_events_queue'[u]:
          \/ m_events_queue'[u][i].obj \in created'
          \/ \E j \in DOMAIN m_events_queue[u]: m_events_queue'[u][i] = m_events_queue[u][j]
    BY <2>1, <2>3 DEF Ran, Appended, FunctorOK
  <2>6. \A u \in Workers: \A i \in DOMAIN qcpy'[u]:
          \E v \in Workers: \E j \in DOMAIN qcpy[v]: qcpy'[u][i] = qcpy[v][j]
    BY <2>1 DEF Shifted
  <2> QED
    BY <2>1, <2>4, <2>5, <2>6 DEF RefStep, Ran
<1>7. ASSUME NEW w \in Workers, PopStep(w)
      PROVE  RefStep
  <2>1. \A u \in Workers: \A i \in DOMAIN m_events_queue'[u]:
          \E j \in DOMAIN m_events_queue[u]: m_events_queue'[u][i] = m_events_queue[u][j]
    BY <1>7 DEF PopStep, Shifted
  <2> QED
    BY <1>7, <2>1 DEF PopStep, RefStep
<1>8. ASSUME NEW w \in Workers, AsyncDone(w) \/ LoopReturns(w) \/ HandledAll(w) \/ PlainStep(w)
      PROVE  RefStep
  <2>1. UNCHANGED <<tfq, qcpy, m_events_queue, active, created>>
    BY <1>8 DEF AsyncDone, LoopReturns, HandledAll, PlainStep, Goes, execVars, callVars
  <2> QED
    BY <2>1 DEF RefStep
<1>9. ASSUME NEW w \in Workers, FunctorStep(w)
      PROVE  RefStep
  <2>1. /\ UNCHANGED <<created, qcpy, m_events_queue>>
        /\ m_events_queue[w] # <<>>
    BY <1>9 DEF FunctorStep, Goes
  <2>2. Current(w) \in Tasks /\ Current(w) \in created
    BY <1>0, <2>1, CurrentFacts
  <2>3. ASSUME NEW v, NEW name \in {"start", "stop", "update", "dispose"}, NEW o \in created,
               o \in Tasks \ DiskTasks, name # "start" => o \in IoTasks,
               v \in Workers, InContext(w, v, Functor(name, o))
        PROVE  RefStep
    <3>1. /\ Functor(name, o) \in Functors /\ Functor(name, o).op = name
          /\ Functor(name, o).obj = o
      BY <2>3, FunctorFacts
    <3>2. FunctorOK(Functor(name, o), created')
      BY <2>1, <2>3, <3>1 DEF FunctorOK
    <3> QED
      BY <2>1, <2>3, <3>1, <3>2, RanRefs
  <2> DEFINE o == Current(w)
             v == get_worker_by_task(w, o)
  <2>4. CASE Goes(w, "update", "cont") /\ InContext(w, w, Functor("update", o))
    <3>1. o \in IoTasks /\ o \in Tasks \ DiskTasks
      BY <2>2, <2>4, KindFacts DEF Goes, PlacePart
    <3> QED
      BY <2>2, <2>3, <2>4, <3>1
  <2>9. CASE Goes(w, "handle", "close") /\ o \in Reconnecting /\ InContext(w, w, Functor("stop", o))
    <3>1. o \in IoTasks /\ o \in Tasks \ DiskTasks
      BY <2>2, <2>9, KindFacts
    <3> QED
      BY <2>2, <2>3, <2>9, <3>1
  <2>5. CASE (Goes(w, "connect", "cont") \/ Goes(w, "cont", "pop")) /\ InContext(w, w, Functor("start", o))
    <3>1. o \in Tasks \ DiskTasks
      BY <2>2, <2>5, KindFacts DEF Goes, PlacePart
    <3> QED
      BY <2>2, <2>3, <2>5, <3>1
  <2>6. CASE Goes(w, "end", "pop") /\ CanDispose(o) /\ InContext(w, v, Functor("dispose", o))
    <3>1. o \in IoTasks /\ o \in Tasks \ DiskTasks
      BY <2>2, <2>6, KindFacts DEF CanDispose
    <3>2. v \in Workers
      BY <1>0, <2>2, <3>1, GetWorkerType
    <3> QED
      BY <2>2, <2>3, <2>6, <3>1, <3>2
  <2>7. CASE Goes(w, "clean", "pop") /\ InContext(w, v, Functor("start", Cleanup(o)))
    <3>1. o \in IoTasks /\ Cleanup(o) \in created /\ Cleanup(o) \in Tasks \ DiskTasks
      BY <2>2, <2>7, KindFacts DEF Goes, PlacePart
    <3>2. v \in Workers
      BY <1>0, <2>2, <3>1, GetWorkerType
    <3> QED
      BY <2>3, <2>7, <3>1, <3>2
  <2>8. CASE /\ Goes(w, "handle", "end")
             /\ \E t \in AsyncTasks:
                   /\ o \in {Cleanup(t), Removal(t)} /\ t \notin deleted /\ m_can_dispose[t]
                   /\ InContext(w, w, Functor("dispose", t))
    <3>1. PICK t \in AsyncTasks: o \in {Cleanup(t), Removal(t)} /\ InContext(w, w, Functor("dispose", t))
      BY <2>8
    <3>2. t \in created /\ t \in IoTasks /\ t \in Tasks \ DiskTasks
      BY <2>2, <3>1, KindFacts DEF RefPart
    <3> QED
      BY <2>3, <3>1, <3>2
  <2> QED
    BY <1>9, <2>4, <2>5, <2>6, <2>7, <2>8, <2>9 DEF FunctorStep
<1>10. ASSUME NEW w \in Workers, AcceptStep(w)
       PROVE  RefStep
  <2>1. PICK n \in IoTasks \ created: created' = created \cup {n} /\ InContext(w, w, Functor("add", n))
    BY <1>10 DEF AcceptStep
  <2>2. /\ n \in Tasks \ DiskTasks
        /\ \A t \in AsyncTasks: Cleanup(t) # n /\ Removal(t) # n
    BY KindFacts
  <2>3. /\ Functor("add", n) \in Functors /\ Functor("add", n).op = "add"
        /\ Functor("add", n).obj = n
    BY <2>2, FunctorFacts
  <2>4. FunctorOK(Functor("add", n), created')
    BY <2>1, <2>2, <2>3 DEF FunctorOK
  <2> QED
    BY <1>10, <2>1, <2>2, <2>3, <2>4, RanRefs DEF AcceptStep, Goes
<1>11. ASSUME NEW w \in Workers, LaterStep(w)
       PROVE  RefStep
  <2>1. m_events_queue[w] # <<>> /\ UNCHANGED <<tfq, qcpy, m_events_queue, active>>
    BY <1>11 DEF LaterStep, Goes
  <2>2. Current(w) \in created /\ created' = created \cup {Cleanup(Current(w))}
    BY <1>0, <1>11, <2>1, CurrentFacts DEF LaterStep
  <2>3. \A t \in AsyncTasks:
          Cleanup(t) \in created' \ created \/ Removal(t) \in created' \ created => t \in created
    BY <2>2, CleanupFacts
  <2> QED
    BY <2>1, <2>2, <2>3 DEF RefStep
<1>12. ASSUME NEW w \in Workers, NEW f \in Functors, CallStep(w, f)
       PROVE  RefStep
  <2>1. UNCHANGED <<qcpy, m_events_queue, active>> /\ Appended(tfq, tfq', w, f)
    BY <1>12 DEF CallStep
  <2> DEFINE Fresh ==
        /\ FunctorOK(f, created') /\ created \subseteq created'
        /\ \A t \in AsyncTasks:
              Cleanup(t) \in created' \ created \/ Removal(t) \in created' \ created => t \in created
  <2>2. Fresh
    <3>1. CASE f.obj \in (IoTasks \cup Timers) \ created /\ f.op = "start" /\ created' = created \cup {f.obj}
      BY <3>1, KindFacts DEF FunctorOK
    <3>2. CASE f.obj \in DiskTasks \ created /\ f.op = "event" /\ created' = created \cup {f.obj}
      BY <3>2, KindFacts DEF FunctorOK
    <3>3. CASE f.obj \in IoTasks \cap created /\ f.op \in {"respond", "dispose"} /\ created' = created
      BY <3>3, KindFacts DEF FunctorOK
    <3>4. ASSUME NEW t \in AsyncTasks \cap created, f = Functor("start", Removal(t)),
                 created' = created \cup {Removal(t)}
          PROVE  Fresh
      <4>1. Removal(t) \in Tasks \ DiskTasks
        BY KindFacts
      <4>2. f.op = "start" /\ f.obj = Removal(t)
        BY <3>4, <4>1, FunctorFacts
      <4>3. FunctorOK(f, created')
        BY <3>4, <4>1, <4>2 DEF FunctorOK
      <4>4. \A s \in AsyncTasks: Cleanup(s) # Removal(t) /\ (Removal(s) = Removal(t) => s = t)
        BY CleanupFacts
      <4> QED
        BY <3>4, <4>3, <4>4
    <3> QED
      BY <1>12, <3>1, <3>2, <3>3, <3>4, KindFacts DEF CallStep
  <2>3. \A u \in Workers: \A i \in DOMAIN tfq'[u]:
          tfq'[u][i] = f \/ (i \in DOMAIN tfq[u] /\ tfq'[u][i] = tfq[u][i])
    BY <2>1 DEF Appended
  <2> QED
    BY <2>1, <2>2, <2>3 DEF RefStep
<1> QED
  BY <1>1, <1>2, <1>3, <1>4, <1>5, <1>6, <1>7, <1>8, <1>9, <1>10, <1>11, <1>12 DEF PlaceSteps
-----------------------------------------------------------------------------
(* Places, callbacks and assignments                                       *)

LEMMA OpsKept ==
    ASSUME TypeOK, RefPart, OpPart, [Next]_vars
    PROVE  OpPart'
<1> USE DEF threadVars, execVars, callVars, asyncVars
<1>0. ExecTypes /\ AsyncTypes
  BY TypeParts
<1>1. ASSUME created \subseteq created', op' = op PROVE OpPart'
  BY <1>1 DEF OpPart
<1>2. ASSUME NEW t, t \in AsyncTasks => t \in created, created' = created,
             \A s \in AsyncTasks: s # t => op'[s] = op[s]
      PROVE  OpPart'
  BY <1>2 DEF OpPart
<1>3. ASSUME NEW w \in Workers, NEW o \in Tasks, HandleSetEvents(w, o) \/ HandleAsync(w, o)
      PROVE  OpPart'
  <2>1. o \in created
    BY <1>0, <1>3, CurrentFacts DEF HandleSetEvents, HandleAsync, Handles
  <2>2. created' = created /\ \A s \in AsyncTasks: s # o => op'[s] = op[s]
    BY <1>0, <1>3 DEF HandleSetEvents, HandleAsync, AsyncTypes
  <2> QED
    BY <1>2, <2>1, <2>2
<1>4. ASSUME NEW t \in AsyncTasks, AsyncStep(t) PROVE OpPart'
  <2>1. op[t] # "none" /\ created' = created /\ \A s \in AsyncTasks: s # t => op'[s] = op[s]
    BY <1>0, <1>4 DEF AsyncStep, FinishAsync, QueueResponse, EnableDispose, AsyncTypes
  <2> QED
    BY <1>2, <2>1 DEF OpPart
<1>5. ASSUME NEW w \in Workers, ThreadStep(w) PROVE OpPart'
  <2>1. CASE \E o \in Tasks: HandleSetEvents(w, o) \/ HandleAsync(w, o)
    BY <1>3, <2>1
  <2>2. CASE (\E o \in Objects: EventCallback(w, o) \/ SignalCallback(w, o))
             \/ (\E v \in Workers: AsyncCallback(w, v))
             \/ RunFunctor(w) \/ AsyncDone(w) \/ LoopReturns(w) \/ Pop(w) \/ HandledAll(w)
    <3>1. op' = op /\ created' = created
      BY <2>2 DEF EventCallback, SignalCallback, AsyncCallback, RunFunctor, AsyncDone, LoopReturns,
                  Pop, HandledAll
    <3> QED
      BY <1>1, <3>1
  <2>3. ASSUME NEW o \in Tasks,
               \/ HandlePlain(w, o) \/ HandleEnd(w, o) \/ HandleUpdate(w, o)
               \/ HandleStop(w, o) \/ HandleConnect(w, o) \/ HandleReadd(w, o) \/ Continue(w, o)
               \/ FinishDelete(w, o) \/ FinishDispose(w, o) \/ FinishLater(w, o)
               \/ StartCleanup(w, o)
        PROVE  OpPart'
    <3>1. op' = op /\ created \subseteq created'
      BY <2>3 DEF HandlePlain, HandleEnd, HandleUpdate, HandleStop, HandleConnect, HandleReadd, Continue,
                  FinishDelete, FinishDispose, FinishLater, StartCleanup
    <3> QED
      BY <1>1, <3>1
  <2>4. ASSUME (\E o, n \in IoTasks: HandleAccept(w, o, n)) \/ \E t \in AsyncTasks: HandleCleanup(w, t)
        PROVE  OpPart'
    <3>1. op' = op /\ created \subseteq created'
      BY <2>4 DEF HandleAccept, HandleCleanup
    <3> QED
      BY <1>1, <3>1
  <2> QED
    BY <1>5, <2>1, <2>2, <2>3, <2>4 DEF ThreadStep
<1>6. ASSUME \/ \E w \in Workers: \E fired \in SUBSET Objects: EventLoop(w, fired)
             \/ \E o \in Tasks, w \in Workers: AddTask(o, w) \/ AddDiskTask(o, w)
             \/ \E o \in Timers: AddImmediate(o)
             \/ \E t \in IoTasks, w \in Workers: RemoveTask(t, w)
             \/ Crash \/ UNCHANGED vars
      PROVE  OpPart'
  <2>1. op' = op /\ created \subseteq created'
    BY <1>6 DEF EventLoop, AddTask, AddDiskTask, AddImmediate, RemoveTask, Crash, vars
  <2> QED
    BY <1>1, <2>1
<1> QED
  BY <1>4, <1>5, <1>6 DEF Next

\* The handled task of a worker stays the same while its queue does.
LEMMA PlacesKept ==
    ASSUME TypeOK, ThreadPart, RefPart, PlacePart, RefPart', Quiet \/ PlaceSteps
    PROVE  PlacePart'
<1>0. ExecTypes /\ CallTypes /\ OtherTypes
  BY TypeParts
<1> DEFINE PlaceOK(w) ==
        /\ at[w] \in {"close", "connect"} => Current(w) \in Reconnecting
        /\ at[w] = "update" => Current(w) \in IoTasks
        /\ at[w] = "cont" => Current(w) \notin DiskTasks
        /\ at[w] = "clean" => Current(w) \in AsyncTasks /\ Cleanup(Current(w)) \in created
      Plain == {"free", "loop", "calls", "async", "handle", "end", "pop"}
<1>1. ASSUME created \subseteq created',
             \A w \in Workers: \/ at'[w] \in Plain
                               \/ at'[w] = at[w] /\ m_events_queue'[w] = m_events_queue[w]
      PROVE  PlacePart'
  BY <1>1 DEF PlacePart, Current
<1>2. ASSUME NEW w \in Workers, NEW p, NEW q, Goes(w, p, q), created \subseteq created', PlaceOK(w)'
      PROVE  PlacePart'
  BY <1>0, <1>2 DEF PlacePart, Current, Goes, OtherTypes
<1>3. CASE Quiet \/ \E w \in Workers, f \in Functors: CallStep(w, f)
  <2>1. created \subseteq created' /\ UNCHANGED <<at, m_events_queue>>
    BY <1>3 DEF Quiet, CallStep
  <2> QED
    BY <1>1, <2>1
<1>4. ASSUME NEW w \in Workers,
             \/ \E fired \in SUBSET Objects: EventLoop(w, fired)
             \/ \E o \in Objects: EventCallback(w, o) \/ SignalCallback(w, o)
             \/ \E v \in Workers: AsyncCallback(w, v)
             \/ AsyncDone(w) \/ HandledAll(w)
      PROVE  PlacePart'
  <2>1. created' = created /\ \A u \in Workers:
           at'[u] \in Plain \/ (at'[u] = at[u] /\ m_events_queue'[u] = m_events_queue[u])
    <3>1. CASE \E fired \in SUBSET Objects: EventLoop(w, fired)
      BY <1>0, <3>1 DEF EventLoop, Goto, OtherTypes, threadVars, execVars
    <3>2. CASE \E o \in Objects: EventCallback(w, o) \/ SignalCallback(w, o)
      BY <1>0, <3>2 DEF EventCallback, SignalCallback, Goto, OtherTypes, ExecTypes, threadVars, execVars
    <3>3. CASE \E v \in Workers: AsyncCallback(w, v)
      BY <1>0, <3>3 DEF AsyncCallback, Goto, OtherTypes, ExecTypes, threadVars, execVars
    <3>4. CASE AsyncDone(w) \/ HandledAll(w)
      BY <1>0, <3>4 DEF AsyncDone, HandledAll, Goto, OtherTypes, threadVars, execVars
    <3> QED
      BY <1>4, <3>1, <3>2, <3>3, <3>4
  <2> QED
    BY <1>1, <2>1
<1>5. ASSUME NEW w \in Workers, LoopReturns(w) PROVE PlacePart'
  <2>1. created' = created /\ \A u \in Workers:
           at'[u] \in Plain \/ (at'[u] = at[u] /\ m_events_queue'[u] = m_events_queue[u])
    BY <1>0, <1>5 DEF LoopReturns, OtherTypes, ExecTypes, execVars
  <2> QED
    BY <1>1, <2>1
<1>6. ASSUME NEW w \in Workers, RunStep(w) \/ PopStep(w) PROVE PlacePart'
  <2>1. created' = created /\ \A u \in Workers: u # w =>
           at'[u] = at[u] /\ m_events_queue'[u] = m_events_queue[u]
    BY <1>0, <1>6 DEF RunStep, PopStep, Ran, Shifted, Appended, OtherTypes
  <2>2. at'[w] \in Plain
    BY <1>0, <1>6 DEF RunStep, PopStep, OtherTypes
  <2> QED
    BY <1>1, <2>1, <2>2
<1>7. ASSUME NEW w \in Workers, PlainStep(w) PROVE PlacePart'
  <2>1. created' = created
    BY <1>7 DEF PlainStep
  <2>2. PICK p, q: Goes(w, p, q) /\ PlaceOK(w)'
    BY <1>0, <1>7, KindFacts DEF PlainStep, Goes, Current, OtherTypes
  <2> QED
    BY <1>2, <2>1, <2>2
<1>8. ASSUME NEW w \in Workers, FunctorStep(w) PROVE PlacePart'
  <2>1. created' = created
    BY <1>8 DEF FunctorStep
  <2>2. PICK p, q: Goes(w, p, q) /\ PlaceOK(w)'
    BY <1>0, <1>8, KindFacts DEF FunctorStep, Goes, Current, OtherTypes, PlacePart
  <2> QED
    BY <1>2, <2>1, <2>2
<1>9. ASSUME NEW w \in Workers, AcceptStep(w) PROVE PlacePart'
  <2>1. created \subseteq created'
    BY <1>9 DEF AcceptStep
  <2>2. Goes(w, "handle", "cont") /\ PlaceOK(w)'
    BY <1>0, <1>9, KindFacts DEF AcceptStep, Goes, Current, OtherTypes
  <2> QED
    BY <1>2, <2>1, <2>2
<1>10. ASSUME NEW w \in Workers, LaterStep(w) PROVE PlacePart'
  <2>1. created \subseteq created'
    BY <1>10 DEF LaterStep
  <2>2. Goes(w, "end", "clean") /\ PlaceOK(w)'
    BY <1>0, <1>10, KindFacts DEF LaterStep, Goes, Current, OtherTypes
  <2> QED
    BY <1>2, <2>1, <2>2
<1> QED
  BY <1>3, <1>4, <1>5, <1>6, <1>7, <1>8, <1>9, <1>10 DEF PlaceSteps

\* An assigned worker stays, and a created I/O task has one.
Assigns ==
    \A o \in Tasks: m_worker[o] # None => m_worker'[o] = m_worker[o]

\* In MULTI_LOOP mode a handler always runs its functors itself, for a task
\* that is assigned to its worker.
LEMMA MultiRuns ==
    ASSUME ThreadPart, ~SingleLoop, NEW w \in Workers, NEW f, InContext(w, w, f)
    PROVE  Ran(w, f)
BY DEF InContext, ThreadPart

LEMMA CurrentAssigned ==
    ASSUME ExecTypes, RefPart, AssignedPart, ~SingleLoop, NEW w \in Workers,
           m_events_queue[w] # <<>>, Current(w) \notin DiskTasks
    PROVE  m_worker[Current(w)] = w
<1>1. m_events_queue[w] \in Seq(Events)
  BY DEF ExecTypes
<1>2. 1 \in DOMAIN m_events_queue[w] /\ m_events_queue[w][1] = Head(m_events_queue[w])
  BY <1>1, QueueFacts
<1> QED
  BY <1>2 DEF AssignedPart, Current

\* The steps of handlers in MULTI_LOOP mode: a functor for a task of the
\* worker's own runs at once, if any.
LEMMA MultiFunctor ==
    ASSUME TypeOK, ThreadPart, RefPart, PlacePart, AssignedPart, ~SingleLoop, NEW w \in Workers,
           FunctorStep(w)
    PROVE  \E f \in Functors:
              /\ f.op \in {"start", "stop", "update", "dispose"} /\ f.obj \in created
              /\ Ran(w, f) /\ m_worker[f.obj] = w
<1>0. ExecTypes
  BY TypeParts
<1>1. m_events_queue[w] # <<>>
  BY DEF FunctorStep, Goes
<1> DEFINE o == Current(w)
           v == get_worker_by_task(w, o)
<1>2. o \in Tasks /\ o \in created
  BY <1>0, <1>1, CurrentFacts
<1>3. o \notin DiskTasks => m_worker[o] = w
  BY <1>0, <1>1, CurrentAssigned
<1>4. ASSUME NEW name \in {"start", "stop", "update", "dispose"}, NEW t \in Tasks, t \in created,
             m_worker[t] = w, InContext(w, w, Functor(name, t))
      PROVE  \E f \in Functors:
              /\ f.op \in {"start", "stop", "update", "dispose"} /\ f.obj \in created
              /\ Ran(w, f) /\ m_worker[f.obj] = w
  <2>1. /\ Functor(name, t) \in Functors /\ Functor(name, t).op = name
        /\ Functor(name, t).obj = t
    BY FunctorFacts
  <2>2. Ran(w, Functor(name, t))
    BY <1>4, MultiRuns
  <2> QED
    BY <1>4, <2>1, <2>2
<1>5. CASE Goes(w, "update", "cont") /\ InContext(w, w, Functor("update", o))
  <2>1. o \notin DiskTasks
    BY <1>5, KindFacts DEF Goes, PlacePart
  <2> QED
    BY <1>2, <1>3, <1>4, <1>5, <2>1
<1>10. CASE Goes(w, "handle", "close") /\ o \in Reconnecting /\ InContext(w, w, Functor("stop", o))
  <2>1. o \notin DiskTasks
    BY <1>10, KindFacts
  <2> QED
    BY <1>2, <1>3, <1>4, <1>10, <2>1
<1>6. CASE (Goes(w, "connect", "cont") \/ Goes(w, "cont", "pop")) /\ InContext(w, w, Functor("start", o))
  <2>1. o \notin DiskTasks
    BY <1>6, KindFacts DEF Goes, PlacePart
  <2> QED
    BY <1>2, <1>3, <1>4, <1>6, <2>1
<1>7. CASE Goes(w, "end", "pop") /\ CanDispose(o) /\ InContext(w, v, Functor("dispose", o))
  <2>1. o \notin DiskTasks
    BY <1>7, KindFacts DEF CanDispose
  <2>2. v = w
    BY <1>3, <2>1 DEF get_worker_by_task
  <2> QED
    BY <1>2, <1>3, <1>4, <1>7, <2>1, <2>2
<1>8. CASE Goes(w, "clean", "pop") /\ InContext(w, v, Functor("start", Cleanup(o)))
  <2>1. /\ o \in AsyncTasks /\ o \notin DiskTasks
        /\ Cleanup(o) \in created /\ Cleanup(o) \in Tasks
    BY <1>8, KindFacts DEF Goes, PlacePart
  <2>2. v = w /\ m_worker[Cleanup(o)] = w
    BY <1>3, <2>1 DEF get_worker_by_task, AssignedPart
  <2> QED
    BY <1>4, <1>8, <2>1, <2>2
<1>9. ASSUME NEW t \in AsyncTasks, o \in {Cleanup(t), Removal(t)},
             InContext(w, w, Functor("dispose", t))
      PROVE  \E f \in Functors:
              /\ f.op \in {"start", "stop", "update", "dispose"} /\ f.obj \in created
              /\ Ran(w, f) /\ m_worker[f.obj] = w
  <2>1. o \notin DiskTasks /\ t \in Tasks
    BY <1>9, KindFacts
  <2>2. t \in created
    BY <1>2, <1>9 DEF RefPart
  <2>3. m_worker[t] = w
    BY <1>2, <1>3, <1>9, <2>1 DEF AssignedPart
  <2> QED
    BY <1>4, <1>9, <2>1, <2>2, <2>3
<1> QED
  BY <1>5, <1>6, <1>7, <1>8, <1>9, <1>10 DEF FunctorStep

\* What a step may do to the assigned workers and to the queues.
AssignStep ==
    /\ created \subseteq created' /\ Assigns
    /\ \A o \in Tasks: m_worker'[o] = m_worker[o] \/ o \in created' \ DiskTasks
    /\ \A o \in IoTasks \cap (created' \ created): m_worker'[o] # None
    /\ \A t \in AsyncTasks:
          /\ Cleanup(t) \in created' \ created => m_worker'[Cleanup(t)] = m_worker'[t]
          /\ Removal(t) \in created' \ created => m_worker'[Removal(t)] = m_worker'[t]
    /\ \A o \in Tasks: active'[o] # None => active'[o] = active[o] \/ m_worker'[o] = active'[o]
    /\ \A w \in Workers: \A i \in DOMAIN tfq'[w]:
          \/ \E j \in DOMAIN tfq[w]: tfq'[w][i] = tfq[w][j]
          \/ tfq'[w][i].op = "event" \/ m_worker'[tfq'[w][i].obj] = w
    /\ \A w \in Workers: \A i \in DOMAIN qcpy'[w]:
          \/ \E j \in DOMAIN tfq[w]: qcpy'[w][i] = tfq[w][j]
          \/ \E j \in DOMAIN qcpy[w]: qcpy'[w][i] = qcpy[w][j]
    /\ \A w \in Workers: \A i \in DOMAIN m_events_queue'[w]:
          \/ \E j \in DOMAIN m_events_queue[w]: m_events_queue'[w][i] = m_events_queue[w][j]
          \/ m_events_queue'[w][i].obj \in DiskTasks \/ m_worker'[m_events_queue'[w][i].obj] = w

LEMMA AssignedKept ==
    ASSUME TypeOK, RefPart, AssignedPart, ~SingleLoop => AssignStep
    PROVE  AssignedPart'
<1> SUFFICES ASSUME ~SingleLoop PROVE AssignedPart'
  BY DEF AssignedPart
<1>0. ExecTypes /\ CallTypes /\ OtherTypes /\ AssignStep
  BY TypeParts
<1>1. \A o \in Tasks: active'[o] # None => m_worker'[o] = active'[o]
  BY <1>0 DEF AssignStep, Assigns, AssignedPart
<1>2. \A w \in Workers: \A i \in DOMAIN tfq[w]: tfq[w][i].obj \in Tasks
  <2> SUFFICES ASSUME NEW w \in Workers, NEW i \in DOMAIN tfq[w] PROVE tfq[w][i].obj \in Tasks
    OBVIOUS
  <2>1. tfq[w] \in Seq(Functors)
    BY <1>0 DEF CallTypes
  <2>2. tfq[w][i] \in Functors
    BY <2>1, QueueFacts
  <2> QED
    BY <2>2 DEF Functors
<1>3. \A w \in Workers: \A i \in DOMAIN qcpy[w]: qcpy[w][i].obj \in Tasks
  <2> SUFFICES ASSUME NEW w \in Workers, NEW i \in DOMAIN qcpy[w] PROVE qcpy[w][i].obj \in Tasks
    OBVIOUS
  <2>1. qcpy[w] \in Seq(Functors)
    BY <1>0 DEF OtherTypes
  <2>2. qcpy[w][i] \in Functors
    BY <2>1, QueueFacts
  <2> QED
    BY <2>2 DEF Functors
<1>4. \A w \in Workers: \A i \in DOMAIN m_events_queue[w]: m_events_queue[w][i].obj \in Tasks
  <2> SUFFICES ASSUME NEW w \in Workers, NEW i \in DOMAIN m_events_queue[w]
               PROVE  m_events_queue[w][i].obj \in Tasks
    OBVIOUS
  <2>1. m_events_queue[w] \in Seq(Events)
    BY <1>0 DEF ExecTypes
  <2>2. m_events_queue[w][i] \in Events
    BY <2>1, QueueFacts
  <2> QED
    BY <2>2 DEF Events
<1>5. \A w \in Workers: w # None
  BY LoopFacts
<1>6. \A w \in Workers: \A i \in DOMAIN tfq'[w]:
         tfq'[w][i].op # "event" => m_worker'[tfq'[w][i].obj] = w
  BY <1>0, <1>2, <1>5 DEF AssignStep, Assigns, AssignedPart
<1>7. \A w \in Workers: \A i \in DOMAIN qcpy'[w]:
         qcpy'[w][i].op # "event" => m_worker'[qcpy'[w][i].obj] = w
  <2> SUFFICES ASSUME NEW w \in Workers, NEW i \in DOMAIN qcpy'[w], qcpy'[w][i].op # "event"
               PROVE  m_worker'[qcpy'[w][i].obj] = w
    OBVIOUS
  <2>1. CASE \E j \in DOMAIN tfq[w]: qcpy'[w][i] = tfq[w][j]
    BY <1>0, <1>2, <1>5, <2>1 DEF AssignStep, Assigns, AssignedPart
  <2>2. CASE \E j \in DOMAIN qcpy[w]: qcpy'[w][i] = qcpy[w][j]
    BY <1>0, <1>3, <1>5, <2>2 DEF AssignStep, Assigns, AssignedPart
  <2> QED
    BY <1>0, <2>1, <2>2 DEF AssignStep
<1>8. \A w \in Workers: \A i \in DOMAIN m_events_queue'[w]:
         m_events_queue'[w][i].obj \notin DiskTasks => m_worker'[m_events_queue'[w][i].obj] = w
  BY <1>0, <1>4, <1>5 DEF AssignStep, Assigns, AssignedPart
<1>9. /\ \A o \in DiskTasks: m_worker'[o] = None
      /\ \A o \in Tasks: m_worker'[o] # None => o \in created'
      /\ \A o \in IoTasks \cap created': m_worker'[o] # None
  BY <1>0, KindFacts DEF AssignStep, Assigns, AssignedPart
<1>10. ASSUME NEW t \in AsyncTasks
       PROVE  /\ Cleanup(t) \in created' => m_worker'[Cleanup(t)] = m_worker'[t]
              /\ Removal(t) \in created' => m_worker'[Removal(t)] = m_worker'[t]
  <2>1. t \in IoTasks /\ t \in Tasks /\ Cleanup(t) \in Tasks /\ Removal(t) \in Tasks
    BY KindFacts
  <2>2. CASE t \in created
    <3>1. m_worker[t] # None
      BY <2>1, <2>2 DEF AssignedPart
    <3> QED
      BY <1>0, <2>1, <3>1 DEF AssignStep, Assigns, AssignedPart
  <2>3. CASE t \notin created
    BY <1>0, <2>3 DEF RefPart, AssignStep
  <2> QED
    BY <2>2, <2>3
<1> QED
  BY <1>1, <1>6, <1>7, <1>8, <1>9, <1>10 DEF AssignedPart

\* A functor that runs for a task of the worker's own.
LEMMA RanAssigns ==
    ASSUME TypeOK, ~SingleLoop, NEW w \in Workers, NEW f \in Functors, Ran(w, f),
           f.op = "event" => f.obj \in DiskTasks,
           f.op # "event" => f.obj \notin DiskTasks /\ f.obj \in created' /\ m_worker'[f.obj] = w
    PROVE  /\ \A o \in Tasks: m_worker[o] # None => m_worker'[o] = m_worker[o]
           /\ \A o \in Tasks: m_worker'[o] = m_worker[o] \/ o \in created' \ DiskTasks
           /\ \A o \in Tasks: active'[o] # None => active'[o] = active[o] \/ m_worker'[o] = active'[o]
           /\ \A u \in Workers: \A i \in DOMAIN m_events_queue'[u]:
                 \/ \E j \in DOMAIN m_events_queue[u]: m_events_queue'[u][i] = m_events_queue[u][j]
                 \/ m_events_queue'[u][i].obj \in DiskTasks
                 \/ m_worker'[m_events_queue'[u][i].obj] = u
<1>1. f.obj \in Tasks /\ f.obj \in Objects /\ Tasks \subseteq Objects
  BY KindFacts DEF Functors
<1>2. \A o \in Tasks: m_worker[o] # None => m_worker'[o] = m_worker[o]
  BY <1>1 DEF Ran
<1>3. \A o \in Tasks: m_worker'[o] = m_worker[o] \/ o \in created' \ DiskTasks
  BY <1>1 DEF Ran
<1>4. ASSUME NEW o \in Tasks, active'[o] # None
      PROVE  active'[o] = active[o] \/ m_worker'[o] = active'[o]
  <2>1. CASE o # f.obj
    BY <1>1, <2>1 DEF Ran
  <2>2. CASE o = f.obj /\ f.op \in {"start", "add"}
    <3>1. loop_ptr(w) = w
      BY DEF loop_ptr
    <3> QED
      BY <1>4, <2>2, <3>1 DEF Ran
  <2>3. CASE o = f.obj /\ f.op \notin {"start", "add"}
    BY <1>4, <2>3 DEF Ran, Functors
  <2> QED
    BY <2>1, <2>2, <2>3
<1>5. ASSUME NEW u \in Workers, NEW i \in DOMAIN m_events_queue'[u]
      PROVE  \/ \E j \in DOMAIN m_events_queue[u]: m_events_queue'[u][i] = m_events_queue[u][j]
             \/ m_events_queue'[u][i].obj \in DiskTasks
  BY DEF Ran, Appended
<1> QED
  BY <1>2, <1>3, <1>4, <1>5

LEMMA AssignmentsKept ==
    ASSUME TypeOK, ThreadPart, RefPart, PlacePart, TodoPart, AssignedPart, Quiet \/ PlaceSteps
    PROVE  AssignedPart'
<1> SUFFICES ASSUME ~SingleLoop PROVE AssignStep
  BY AssignedKept
<1>0. ExecTypes /\ CallTypes /\ OtherTypes
  BY TypeParts
<1>1. CASE Quiet
  <2>1. /\ UNCHANGED <<tfq, qcpy, m_events_queue, active, m_worker>> /\ created \subseteq created'
        /\ \A t \in AsyncTasks: Cleanup(t) \notin created' \ created /\ Removal(t) \notin created' \ created
        /\ \A o \in IoTasks: o \notin created' \ created
    BY <1>1, KindFacts DEF Quiet
  <2> QED
    BY <2>1 DEF AssignStep, Assigns
<1>2. ASSUME NEW w \in Workers, \/ \E fired \in SUBSET Objects: EventLoop(w, fired)
                                \/ \E o \in Objects: SignalCallback(w, o)
                                \/ AsyncDone(w) \/ LoopReturns(w) \/ HandledAll(w) \/ PlainStep(w)
      PROVE  AssignStep
  <2>1. UNCHANGED <<tfq, qcpy, m_events_queue, active, m_worker, created>>
    BY <1>2 DEF EventLoop, SignalCallback, AsyncDone, LoopReturns, HandledAll, PlainStep, Goes,
                execVars, callVars, threadVars
  <2> QED
    BY <2>1 DEF AssignStep, Assigns
<1>3. ASSUME NEW w \in Workers, NEW o \in Objects, EventCallback(w, o)
      PROVE  AssignStep
  <2>1. o \in Tasks /\ o \in todo[w] /\ [obj |-> o, revents |-> mask[o]] \in Events
    BY <1>0, <1>3 DEF EventCallback, ExecTypes, Events
  <2>2. active[o] = w /\ w # None
    BY <2>1, LoopFacts DEF TodoPart
  <2>3. m_worker[o] = w
    BY <2>1, <2>2 DEF AssignedPart
  <2>4. Appended(m_events_queue, m_events_queue', w, [obj |-> o, revents |-> mask[o]])
    BY <1>0, <1>3, <2>1, AppendQueue DEF ExecTypes, EventCallback
  <2>5. UNCHANGED <<tfq, qcpy, created, m_worker>>
    BY <1>3 DEF EventCallback, threadVars, callVars
  <2>6. \A u \in Workers: \A i \in DOMAIN m_events_queue'[u]:
          \/ \E j \in DOMAIN m_events_queue[u]: m_events_queue'[u][i] = m_events_queue[u][j]
          \/ m_worker'[m_events_queue'[u][i].obj] = u
    BY <2>3, <2>4, <2>5 DEF Appended
  <2>7. \A x \in Tasks: active'[x] # None => active'[x] = active[x]
    BY <1>0, <1>3, KindFacts DEF EventCallback, ExecTypes
  <2> QED
    BY <2>5, <2>6, <2>7 DEF AssignStep, Assigns
<1>4. ASSUME NEW w \in Workers, NEW v \in Workers, AsyncCallback(w, v)
      PROVE  AssignStep
  <2>1. UNCHANGED <<m_events_queue, active, created, m_worker>>
    BY <1>4 DEF AsyncCallback
  <2>2. v = w
    BY <1>4, LoopFacts DEF AsyncCallback, TodoPart
  <2>3. \A u \in Workers: \A i \in DOMAIN tfq'[u]: i \in DOMAIN tfq[u] /\ tfq'[u][i] = tfq[u][i]
    BY <1>0, <1>4 DEF AsyncCallback, CallTypes
  <2>4. \A u \in Workers: \A i \in DOMAIN qcpy'[u]:
           \/ i \in DOMAIN tfq[u] /\ qcpy'[u][i] = tfq[u][i]
           \/ i \in DOMAIN qcpy[u] /\ qcpy'[u][i] = qcpy[u][i]
    BY <1>0, <1>4, <2>2 DEF AsyncCallback, OtherTypes
  <2> QED
    BY <2>1, <2>3, <2>4 DEF AssignStep, Assigns
<1>5. ASSUME NEW w \in Workers, RunStep(w)
      PROVE  AssignStep
  <2> DEFINE f == qcpy[w][1]
  <2>1. qcpy[w] \in Seq(Functors) /\ Ran(w, f) /\ Shifted(qcpy, qcpy', w) /\ created' = created
    BY <1>0, <1>5 DEF RunStep, OtherTypes
  <2>2. 1 \in DOMAIN qcpy[w] /\ f \in Functors
    BY <1>5, <2>1, QueueFacts DEF RunStep
  <2>3. FunctorOK(f, created) /\ f.obj \in Tasks /\ (f.op # "event" => m_worker[f.obj] = w)
    BY <2>2 DEF RefPart, Functors, AssignedPart
  <2> HIDE DEF f
  <2>4. f.op # "event" => m_worker'[f.obj] = w
    BY <2>1, <2>3, LoopFacts DEF Ran
  <2>5. /\ f.op = "event" => f.obj \in DiskTasks
        /\ f.op # "event" => f.obj \notin DiskTasks /\ f.obj \in created' /\ m_worker'[f.obj] = w
    BY <2>1, <2>3, <2>4 DEF FunctorOK
  <2>6. \A u \in Workers: \A i \in DOMAIN qcpy'[u]: \E j \in DOMAIN qcpy[u]: qcpy'[u][i] = qcpy[u][j]
    BY <2>1 DEF Shifted
  <2>7. tfq' = tfq
    BY <2>1 DEF Ran
  <2> QED
    BY <2>1, <2>2, <2>5, <2>6, <2>7, RanAssigns DEF AssignStep, Assigns
<1>6. ASSUME NEW w \in Workers, PopStep(w)
      PROVE  AssignStep
  <2>1. \A u \in Workers: \A i \in DOMAIN m_events_queue'[u]:
          \E j \in DOMAIN m_events_queue[u]: m_events_queue'[u][i] = m_events_queue[u][j]
    BY <1>6 DEF PopStep, Shifted
  <2> QED
    BY <1>6, <2>1 DEF PopStep, AssignStep, Assigns
<1>7. ASSUME NEW w \in Workers, FunctorStep(w)
      PROVE  AssignStep
  <2>1. PICK f \in Functors: /\ f.op \in {"start", "stop", "update", "dispose"} /\ f.obj \in created
                             /\ Ran(w, f) /\ m_worker[f.obj] = w
    BY <1>7, MultiFunctor
  <2>2. UNCHANGED <<created, qcpy, m_events_queue, tfq, m_worker>>
    BY <1>7, <2>1 DEF FunctorStep, Goes, Ran
  <2>3. f.obj \in Tasks /\ f.obj \notin DiskTasks
    BY <2>1, LoopFacts DEF Functors, AssignedPart
  <2> QED
    BY <2>1, <2>2, <2>3, RanAssigns DEF AssignStep, Assigns
<1>8. ASSUME NEW w \in Workers, AcceptStep(w)
      PROVE  AssignStep
  <2>1. PICK n \in IoTasks \ created: created' = created \cup {n} /\ InContext(w, w, Functor("add", n))
    BY <1>8 DEF AcceptStep
  <2>2. /\ n \in Tasks \ DiskTasks
        /\ \A t \in AsyncTasks: Cleanup(t) # n /\ Removal(t) # n
    BY KindFacts
  <2> DEFINE f == Functor("add", n)
  <2>3. f \in Functors /\ f.op = "add" /\ f.obj = n
    BY <2>2, FunctorFacts
  <2>4. Ran(w, f)
    BY <2>1, MultiRuns
  <2> HIDE DEF f
  <2>5. m_worker[n] = None
    BY <2>2 DEF AssignedPart
  <2>6. m_worker'[n] = w
    BY <2>3, <2>4, <2>5 DEF Ran
  <2>7. UNCHANGED <<qcpy, tfq>>
    BY <1>8, <2>4 DEF AcceptStep, Goes, Ran
  <2> QED
    BY <2>1, <2>2, <2>3, <2>4, <2>6, <2>7, RanAssigns, LoopFacts DEF AssignStep, Assigns
<1>9. ASSUME NEW w \in Workers, LaterStep(w)
      PROVE  AssignStep
  <2> DEFINE o == Current(w)
             c == Cleanup(o)
  <2>1. /\ m_events_queue[w] # <<>> /\ UNCHANGED <<tfq, qcpy, m_events_queue, active>>
        /\ o \in AsyncTasks /\ created' = created \cup {c}
    BY <1>9 DEF LaterStep, Goes
  <2>2. o \in Tasks /\ o \notin DiskTasks /\ c \in Tasks /\ c \notin IoTasks /\ c \notin DiskTasks
        /\ o \in IoTasks
    BY <2>1, KindFacts
  <2>3. m_worker[o] = w /\ w # None /\ get_worker_by_task(w, o) = w
    BY <1>0, <2>1, <2>2, CurrentAssigned, LoopFacts DEF get_worker_by_task
  <2>4. /\ \A x \in Tasks: x # c => m_worker'[x] = m_worker[x]
        /\ m_worker'[c] = IF m_worker[c] # None THEN m_worker[c] ELSE w
    BY <1>0, <1>9, <2>2, <2>3 DEF LaterStep, assign_worker, ExecTypes
  <2>5. c \notin created => m_worker[c] = None
    BY <2>2 DEF AssignedPart
  <2>6. c # o /\ \A t \in AsyncTasks: (Cleanup(t) = c => t = o) /\ Removal(t) # c
    BY <2>2, CleanupFacts
  <2> HIDE DEF c, o
  <2>7. \A t \in AsyncTasks:
          /\ Cleanup(t) \in created' \ created => m_worker'[Cleanup(t)] = m_worker'[t]
          /\ Removal(t) \in created' \ created => m_worker'[Removal(t)] = m_worker'[t]
    BY <2>1, <2>2, <2>3, <2>4, <2>5, <2>6
  <2>8. \A x \in IoTasks: x \notin created' \ created
    BY <2>1, <2>2
  <2> QED
    BY <2>1, <2>2, <2>4, <2>7, <2>8 DEF AssignStep, Assigns
<1>10. ASSUME NEW w \in Workers, NEW f \in Functors, CallStep(w, f)
       PROVE  AssignStep
  <2>1. UNCHANGED <<qcpy, m_events_queue, active>> /\ Appended(tfq, tfq', w, f)
    BY <1>10 DEF CallStep
  <2>2. \A u \in Workers: \A i \in DOMAIN tfq'[u]:
          (u = w /\ tfq'[u][i] = f) \/ \E j \in DOMAIN tfq[u]: tfq'[u][i] = tfq[u][j]
    BY <2>1 DEF Appended
  <2>3. f.obj \in Tasks /\ w # None
    BY LoopFacts DEF Functors
  <2>4. ASSUME created \subseteq created', f.op # "event" => m_worker'[f.obj] = w,
               \A x \in Tasks: x # f.obj => m_worker'[x] = m_worker[x],
               m_worker[f.obj] # None => m_worker'[f.obj] = m_worker[f.obj],
               m_worker'[f.obj] = m_worker[f.obj] \/ f.obj \in created' \ DiskTasks,
               \A x \in IoTasks: x \in created' \ created => x = f.obj /\ f.op # "event",
               \A t \in AsyncTasks: /\ Cleanup(t) \notin created' \ created
                                    /\ Removal(t) \in created' \ created =>
                                          m_worker'[Removal(t)] = m_worker'[t]
        PROVE  AssignStep
    <3>1. Assigns
      BY <2>3, <2>4 DEF Assigns
    <3>2. \A o \in Tasks: m_worker'[o] = m_worker[o] \/ o \in created' \ DiskTasks
      BY <2>4
    <3>3. \A o \in IoTasks \cap (created' \ created): m_worker'[o] # None
      BY <2>3, <2>4
    <3>4. \A u \in Workers: \A i \in DOMAIN tfq'[u]:
            \/ \E j \in DOMAIN tfq[u]: tfq'[u][i] = tfq[u][j]
            \/ tfq'[u][i].op = "event" \/ m_worker'[tfq'[u][i].obj] = u
      BY <2>2, <2>4
    <3> QED
      BY <2>1, <2>4, <3>1, <3>2, <3>3, <3>4 DEF AssignStep
  <2>5. CASE f.obj \in (IoTasks \cup Timers) \ created /\ f.op = "start"
             /\ created' = created \cup {f.obj} /\ assign_worker(f.obj, w)
    <3>1. m_worker[f.obj] = None /\ f.obj \notin DiskTasks
          /\ \A t \in AsyncTasks: Cleanup(t) # f.obj /\ Removal(t) # f.obj
      BY <2>3, <2>5, KindFacts DEF AssignedPart
    <3>2. m_worker'[f.obj] = w /\ \A x \in Tasks: x # f.obj => m_worker'[x] = m_worker[x]
      BY <1>0, <2>3, <2>5, <3>1 DEF assign_worker, ExecTypes
    <3> QED
      BY <2>4, <2>5, <3>1, <3>2
  <2>6. CASE f.obj \in DiskTasks \ created /\ f.op = "event"
             /\ created' = created \cup {f.obj} /\ m_worker' = m_worker
    <3>1. /\ \A t \in AsyncTasks: Cleanup(t) # f.obj /\ Removal(t) # f.obj
          /\ f.obj \notin IoTasks
      BY <2>6, KindFacts
    <3> QED
      BY <2>4, <2>6, <3>1
  <2>7. CASE f.obj \in IoTasks \cap created /\ f.op \in {"respond", "dispose"} /\ AnyWorker(f.obj, w)
             /\ created' = created /\ m_worker' = m_worker
    <3>1. m_worker[f.obj] = w
      BY <2>7 DEF AnyWorker, AssignedPart
    <3> QED
      BY <2>4, <2>7, <3>1
  <2>8. ASSUME NEW t \in AsyncTasks \cap created, f = Functor("start", Removal(t)), AnyWorker(t, w),
               created' = created \cup {Removal(t)}, assign_worker(Removal(t), w)
        PROVE  AssignStep
    <3>1. /\ Removal(t) \in Tasks \ DiskTasks /\ t \in IoTasks /\ t \in Tasks
          /\ Removal(t) \notin IoTasks /\ Removal(t) # t
      BY KindFacts
    <3>2. f.op = "start" /\ f.obj = Removal(t)
      BY <2>8, <3>1, FunctorFacts
    <3>3. m_worker[t] = w
      BY <2>8, <3>1 DEF AnyWorker, AssignedPart
    <3>4. m_worker[f.obj] \in {None, w}
      BY <3>1, <3>2, <3>3 DEF AssignedPart
    <3>5. m_worker'[f.obj] = w /\ \A x \in Tasks: x # f.obj => m_worker'[x] = m_worker[x]
      BY <1>0, <2>8, <3>1, <3>2, <3>4 DEF assign_worker, ExecTypes
    <3>6. \A s \in AsyncTasks: Cleanup(s) # f.obj /\ (Removal(s) = f.obj => s = t)
      BY <3>2, CleanupFacts
    <3> QED
      BY <2>4, <2>8, <3>1, <3>2, <3>3, <3>4, <3>5, <3>6
  <2> QED
    BY <1>10, <2>5, <2>6, <2>7, <2>8, KindFacts DEF CallStep
<1> QED
  BY <1>1, <1>2, <1>3, <1>4, <1>5, <1>6, <1>7, <1>8, <1>9, <1>10 DEF PlaceSteps

\* Whoever has callbacks to call runs the loop that the watchers are in.
LEMMA TodoLeads ==
    ASSUME ThreadPart, TodoPart, NEW w \in Workers, NEW o \in todo[w], o \in Objects
    PROVE  w \in leaders /\ active[o] = loop_ptr(w) /\ active[o] # None
BY LoopFacts DEF ThreadPart, WorkerOK, TodoPart

LEMMA RanTodo ==
    ASSUME TypeOK, ThreadPart, TodoPart, AssignedPart, NEW w \in Workers, NEW f \in Functors, Ran(w, f),
           ~SingleLoop /\ f.op \in {"stop", "dispose"} => m_worker[f.obj] = w
    PROVE  TodoPart'
<1>0. ExecTypes
  BY TypeParts
<1>1. f.obj \in Tasks /\ f.obj \in Objects
  BY KindFacts DEF Functors
<1>2. \A u \in Workers: todo'[u] \subseteq todo[u]
  BY <1>0 DEF Ran, ExecTypes
<1>3. ASSUME NEW u \in Workers, NEW o \in todo'[u], o \in Objects PROVE active'[o] = loop_ptr(u)
  <2>1. o \in todo[u] /\ u \in leaders /\ active[o] = loop_ptr(u) /\ active[o] # None
    BY <1>2, <1>3, TodoLeads
  <2>2. CASE o # f.obj \/ f.op \notin {"stop", "dispose"}
    BY <1>3, <2>1, <2>2 DEF Ran, Functors
  <2>3. CASE o = f.obj /\ f.op \in {"stop", "dispose"}
    <3>1. u # w
      BY <1>0, <1>3, <2>3 DEF Ran, ExecTypes
    <3>2. w \in leaders /\ loop_ptr(u) # loop_ptr(w)
      BY <2>1, <3>1 DEF Ran, ThreadPart
    <3>3. ~SingleLoop /\ loop_ptr(u) = u
      BY <3>2 DEF loop_ptr
    <3> QED
      BY <1>1, <2>1, <2>3, <3>1, <3>3 DEF AssignedPart
  <2> QED
    BY <2>2, <2>3
<1> QED
  BY <1>2, <1>3 DEF TodoPart

LEMMA TodosKept ==
    ASSUME TypeOK, ThreadPart, RefPart, PlacePart, TodoPart, AssignedPart, Quiet \/ PlaceSteps
    PROVE  TodoPart'
<1>0. ExecTypes /\ CallTypes /\ OtherTypes
  BY TypeParts
<1>1. CASE todo' = todo /\ active' = active
  BY <1>1 DEF TodoPart
<1>2. ASSUME NEW w \in Workers, NEW fired \in SUBSET Objects, EventLoop(w, fired)
      PROVE  TodoPart'
  <2>1. /\ active' = active /\ \A u \in Workers: u # w => todo'[u] = todo[u]
        /\ todo'[w] = fired \cup {v \in sent: loop_ptr(v) = loop_ptr(w)}
        /\ \A o \in fired: active[o] = loop_ptr(w)
    BY <1>0, <1>2 DEF EventLoop, ExecTypes
  <2>2. \A o \in Objects: o \notin Workers
    BY KindFacts
  <2>3. sent \subseteq Workers
    BY <1>0 DEF CallTypes
  <2> QED
    BY <2>1, <2>2, <2>3 DEF TodoPart
<1>3. ASSUME NEW w \in Workers, NEW o \in Objects, EventCallback(w, o)
      PROVE  TodoPart'
  <2>1. /\ o \in todo[w] /\ todo'[w] = todo[w] \ {o} /\ \A u \in Workers: u # w => todo'[u] = todo[u]
        /\ \A x \in Objects: x # o => active'[x] = active[x]
    BY <1>0, <1>3 DEF EventCallback, ExecTypes
  <2>2. ASSUME NEW u \in Workers, NEW x \in todo'[u], x \in Objects PROVE active'[x] = loop_ptr(u)
    <3>1. x \in todo[u]
      BY <2>1, <2>2
    <3>2. CASE x # o
      BY <2>1, <2>2, <3>1, <3>2 DEF TodoPart
    <3>3. CASE x = o
      <4>1. u \in leaders /\ active[o] = loop_ptr(u) /\ w \in leaders /\ active[o] = loop_ptr(w)
        BY <2>1, <2>2, <3>1, <3>3, TodoLeads
      <4>2. u = w
        BY <4>1 DEF ThreadPart
      <4> QED
        BY <2>1, <2>2, <3>3, <4>2
    <3> QED
      BY <3>2, <3>3
  <2> QED
    BY <2>1, <2>2 DEF TodoPart
<1>4. ASSUME NEW w \in Workers, \/ \E o \in Objects: SignalCallback(w, o)
                                \/ \E v \in Workers: AsyncCallback(w, v)
      PROVE  TodoPart'
  <2>1. active' = active /\ \A u \in Workers: todo'[u] \subseteq todo[u]
    <3>1. CASE \E o \in Objects: SignalCallback(w, o)
      BY <1>0, <3>1 DEF SignalCallback, ExecTypes
    <3>2. CASE \E v \in Workers: AsyncCallback(w, v)
      BY <1>0, <3>2 DEF AsyncCallback, ExecTypes
    <3> QED
      BY <1>4, <3>1, <3>2
  <2>2. \A u \in Workers: todo'[u] \cap Objects \subseteq todo[u] \cap Objects
                         /\ todo'[u] \cap Workers \subseteq todo[u] \cap Workers
    BY <2>1
  <2> QED
    BY <2>1, <2>2 DEF TodoPart
<1>5. ASSUME NEW w \in Workers, RunStep(w)
      PROVE  TodoPart'
  <2> DEFINE f == qcpy[w][1]
  <2>1. qcpy[w] \in Seq(Functors) /\ Ran(w, f)
    BY <1>0, <1>5 DEF RunStep, OtherTypes
  <2>2. 1 \in DOMAIN qcpy[w] /\ f \in Functors
    BY <1>5, <2>1, QueueFacts DEF RunStep
  <2>3. ~SingleLoop /\ f.op \in {"stop", "dispose"} => m_worker[f.obj] = w
    BY <2>2 DEF AssignedPart
  <2> QED
    BY <2>1, <2>2, <2>3, RanTodo
<1>6. ASSUME NEW w \in Workers, FunctorStep(w)
      PROVE  TodoPart'
  <2>1. CASE ~SingleLoop
    BY <1>6, <2>1, MultiFunctor, RanTodo
  <2>2. CASE SingleLoop
    <3>1. at[w] \notin {"calls", "async"} /\ todo' = todo
      BY <1>6 DEF FunctorStep, Goes
    <3>2. CASE active' = active
      BY <1>1, <3>1, <3>2
    <3>3. CASE w \in leaders
      <4>1. \A u \in Workers: u \in leaders => u = w
        BY <2>2, <3>3 DEF ThreadPart, loop_ptr
      <4>2. \A u \in Workers: todo[u] = {}
        BY <3>1, <4>1 DEF ThreadPart, WorkerOK
      <4> QED
        BY <3>1, <4>2 DEF TodoPart
    <3> QED
      BY <1>6, <3>2, <3>3 DEF FunctorStep, InContext, Ran, Called
  <2> QED
    BY <2>1, <2>2
<1>7. ASSUME NEW w \in Workers, AcceptStep(w)
      PROVE  TodoPart'
  <2>1. PICK n \in IoTasks: InContext(w, w, Functor("add", n))
    BY <1>7 DEF AcceptStep
  <2>2. Functor("add", n) \in Functors /\ Functor("add", n).op = "add"
    BY KindFacts, FunctorFacts
  <2>3. CASE Called(w, Functor("add", n))
    BY <1>1, <2>3 DEF Called
  <2>4. CASE Ran(w, Functor("add", n))
    BY <2>2, <2>4, RanTodo
  <2> QED
    BY <2>1, <2>3, <2>4 DEF InContext
<1>8. ASSUME Quiet \/ \E w \in Workers: \/ PopStep(w) \/ AsyncDone(w) \/ LoopReturns(w) \/ HandledAll(w)
                                        \/ PlainStep(w) \/ LaterStep(w)
                                        \/ \E f \in Functors: CallStep(w, f)
      PROVE  TodoPart'
  <2>1. todo' = todo /\ active' = active
    BY <1>8 DEF Quiet, PopStep, AsyncDone, LoopReturns, HandledAll, PlainStep, LaterStep, CallStep,
                Goes, execVars
  <2> QED
    BY <1>1, <2>1
<1> QED
  BY <1>2, <1>3, <1>4, <1>5, <1>6, <1>7, <1>8 DEF PlaceSteps

LEMMA PlaceInit == Init => PlaceInv
<1> SUFFICES ASSUME Init PROVE PlaceInv
  OBVIOUS
<1> USE DEF Init
<1>0. /\ leaders \subseteq Workers /\ (~SingleLoop => leaders = Workers)
      /\ \A w, v \in leaders: loop_ptr(w) = loop_ptr(v) => w = v
  BY DEF loop_ptr
<1>1. ExecTypes
  <2>1. "READ" \in Masks
    BY DEF Masks
  <2>2. active \in [Objects -> Loops \cup {None}]
    OBVIOUS
  <2> QED
    BY <2>1, <2>2 DEF ExecTypes
<1>2. CallTypes /\ AsyncTypes
  BY DEF CallTypes, AsyncTypes
<1>3. OtherTypes
  <2>1. at \in [Workers -> Places] /\ qcpy \in [Workers -> Seq(Functors)]
    BY DEF Places
  <2>2. created \subseteq Objects /\ disposed \subseteq IoTasks /\ crashed \in BOOLEAN
    BY DEF Objects
  <2> QED
    BY <1>0, <2>1, <2>2 DEF OtherTypes
<1>4. TypeOK
  BY <1>1, <1>2, <1>3, TypeParts
<1>5. ThreadPart
  BY <1>0 DEF ThreadPart, WorkerOK
<1>6. RefPart
  <2>1. \A o \in Tasks: active[o] = None
    BY KindFacts
  <2>2. \A t \in AsyncTasks: Cleanup(t) \notin created /\ Removal(t) \notin created
    BY KindFacts
  <2> QED
    BY <2>1, <2>2 DEF RefPart
<1>7. OpPart /\ TodoPart
  BY DEF OpPart, TodoPart
<1>8. PlacePart
  BY DEF PlacePart
<1>9. AssignedPart
  <2>1. \A o \in Tasks: active[o] = None /\ o \notin created
    BY KindFacts
  <2>2. \A o \in IoTasks: o \in Tasks
    BY KindFacts
  <2>3. \A t \in AsyncTasks: Cleanup(t) \notin created /\ Removal(t) \notin created
    BY KindFacts
  <2>4. \A o \in DiskTasks: m_worker[o] = None
    BY KindFacts
  <2>5. \A w \in Workers: tfq[w] = <<>> /\ qcpy[w] = <<>> /\ m_events_queue[w] = <<>>
    OBVIOUS
  <2>6. \A o \in Tasks: m_worker[o] = None
    BY KindFacts
  <2> HIDE DEF Init
  <2> QED
    BY <2>1, <2>2, <2>3, <2>4, <2>5, <2>6 DEF AssignedPart
<1> QED
  BY <1>4, <1>5, <1>6, <1>7, <1>8, <1>9 DEF PlaceInv

LEMMA PlaceStep == PlaceInv /\ [Next]_vars => PlaceInv' /\ (Quiet \/ PlaceSteps)
<1> SUFFICES ASSUME PlaceInv, [Next]_vars PROVE PlaceInv' /\ (Quiet \/ PlaceSteps)
  OBVIOUS
<1>0. /\ TypeOK /\ ThreadPart /\ RefPart /\ OpPart /\ PlacePart /\ TodoPart /\ AssignedPart
  BY DEF PlaceInv
<1>1. Quiet \/ PlaceSteps
  BY <1>0, StepCases
<1>2. TypeOK'
  BY <1>0, TypeStep
<1>3. ThreadPart'
  BY <1>0, <1>1, ThreadsKept
<1>4. RefPart'
  BY <1>0, <1>1, RefsKept
<1>5. OpPart'
  BY <1>0, OpsKept
<1>6. PlacePart'
  BY <1>0, <1>1, <1>4, PlacesKept
<1>7. TodoPart'
  BY <1>0, <1>1, TodosKept
<1>8. AssignedPart'
  BY <1>0, <1>1, AssignmentsKept
<1> QED
  BY <1>1, <1>2, <1>3, <1>4, <1>5, <1>6, <1>7, <1>8 DEF PlaceInv

\* The invariant behind TypeCorrect and AssignmentStays.
THEOREM PlacesInvariant == Spec => []PlaceInv
<1>1. Init => PlaceInv
  BY PlaceInit
<1>2. PlaceInv /\ [Next]_vars => PlaceInv'
  BY PlaceStep
<1> QED
  BY <1>1, <1>2, PTL DEF Spec

\* The variables of the event tasks have their types.
THEOREM TypeCorrect == Spec => []TypeOK
<1>1. PlaceInv => TypeOK
  BY DEF PlaceInv
<1> QED
  BY <1>1, PlacesInvariant, PTL

\* assign_worker's assertion: in MULTI_LOOP mode a task's watcher is only ever
\* active in the loop of the task's worker, and only that worker handles it.
THEOREM AssignmentStays == Spec => []StaysAssigned
<1>1. PlaceInv => StaysAssigned
  <2> SUFFICES ASSUME PlaceInv, NEW o \in Tasks, ~SingleLoop, m_worker[o] # None
               PROVE  /\ active[o] \in {None, loop_ptr(m_worker[o])}
                      /\ \A w \in Workers: \A i \in Pending(w):
                            m_events_queue[w][i].obj = o => w = m_worker[o]
    BY DEF StaysAssigned
  <2>1. o \notin DiskTasks
    BY DEF PlaceInv, AssignedPart
  <2>2. loop_ptr(m_worker[o]) = m_worker[o]
    BY DEF loop_ptr
  <2> QED
    BY <2>1, <2>2 DEF PlaceInv, AssignedPart, Pending
<1> QED
  BY <1>1, PlacesInvariant, PTL
-----------------------------------------------------------------------------
(* Where tasks are                                                         *)

\* The task is in no new place.
Kept(o) == \A k, w, i: Token(k, w, i, o)' => Token(k, w, i, o)

\* The task goes from one place to another.
Passed(o) ==
    /\ One(o)'
    /\ \E k, w, i: Token(k, w, i, o) /\ ~(k = "event" /\ i = 1 /\ at[w] = "clean")

\* The task was nowhere before.
Begun(o) ==
    /\ One(o)' /\ NoToken(o)
    /\ \/ o \notin created
       \/ \E w \in Workers: /\ at[w] = "clean" /\ at'[w] = "pop" /\ m_events_queue[w] # <<>>
                            /\ o = Cleanup(Current(w))

LEMMA KeptParts ==
    ASSUME NEW o,
           \A w, i: EventTok(w, i, o)' => EventTok(w, i, o),
           \A w, i: MoveTok(tfq', w, i, o) => MoveTok(tfq, w, i, o),
           \A w, i: MoveTok(qcpy', w, i, o) => MoveTok(qcpy, w, i, o),
           \A w, i: WatchTok(w, i, o)' => WatchTok(w, i, o)
    PROVE  Kept(o)
<1>1. \A w, i: MoveTok(tfq, w, i, o)' <=> MoveTok(tfq', w, i, o)
  BY DEF MoveTok
<1>2. \A w, i: MoveTok(qcpy, w, i, o)' <=> MoveTok(qcpy', w, i, o)
  BY DEF MoveTok
<1> QED
  BY <1>1, <1>2 DEF Kept, Token

\* The kinds of a place after a step.
LEMMA TokenKinds ==
    ASSUME NEW k, NEW w, NEW i, NEW o, Token(k, w, i, o)'
    PROVE  \/ k = "event" /\ EventTok(w, i, o)'
           \/ k = "tfq" /\ MoveTok(tfq', w, i, o)
           \/ k = "qcpy" /\ MoveTok(qcpy', w, i, o)
           \/ k = "watch" /\ WatchTok(w, i, o)'
BY DEF Token, MoveTok

LEMMA KeptOne == ASSUME NEW o, One(o), Kept(o) PROVE One(o)'
BY DEF One, Kept

\* All places but one are old ones, which are none.
LEMMA OnlyOne ==
    ASSUME NEW o, NEW K, NEW W, NEW I, \A k, w, i: Token(k, w, i, o)' => k = K /\ w = W /\ i = I
    PROVE  One(o)'
BY DEF One

LEMMA EventsStay ==
    ASSUME NEW o, \A u \in Workers: /\ m_events_queue'[u] = m_events_queue[u]
                                    /\ at'[u] # "pop" => at[u] # "pop"
    PROVE  \A w, i: EventTok(w, i, o)' => EventTok(w, i, o)
BY DEF EventTok, Pending

LEMMA WatchStays ==
    ASSUME NEW o, active'[o] \in {None, active[o]},
           \A l \in Workers: at[l] = "cont" /\ m_events_queue[l] # <<>> /\ Current(l) = o =>
               at'[l] = "cont" /\ m_events_queue'[l] = m_events_queue[l]
    PROVE  \A w, i: WatchTok(w, i, o)' => WatchTok(w, i, o)
BY DEF WatchTok, Rewatched, Current

LEMMA AppendedTok ==
    ASSUME NEW q, NEW r, NEW v, NEW f, Appended(q, r, v, f), NEW w, NEW i, NEW o, MoveTok(r, w, i, o)
    PROVE  \/ MoveTok(q, w, i, o)
           \/ w = v /\ i = Len(q[v]) + 1 /\ f.obj = o /\ f.op \in Moves
BY DEF Appended, MoveTok

LEMMA ShiftedTok ==
    ASSUME NEW q, NEW r, NEW v, Shifted(q, r, v), NEW w, NEW i, NEW o, MoveTok(r, w, i, o)
    PROVE  \/ w # v /\ MoveTok(q, w, i, o)
           \/ w = v /\ MoveTok(q, w, i + 1, o) /\ i \in Nat /\ i > 0
BY DEF Shifted, MoveTok

LEMMA AppendedEvent ==
    ASSUME NEW v \in Workers, NEW e, Appended(m_events_queue, m_events_queue', v, e), at' = at, at[v] # "pop",
           NEW w, NEW i, NEW o, EventTok(w, i, o)'
    PROVE  \/ EventTok(w, i, o)
           \/ w = v /\ i = Len(m_events_queue[v]) + 1 /\ e.obj = o
BY DEF Appended, EventTok, Pending

\* A task that is somewhere was created.
LEMMA TokenCreated ==
    ASSUME RefPart, NEW o \in Tasks, NEW k, NEW w, NEW i, Token(k, w, i, o)
    PROVE  o \in created
<1>1. CASE EventTok(w, i, o)
  BY <1>1 DEF EventTok, Pending, RefPart
<1>2. CASE MoveTok(tfq, w, i, o) \/ MoveTok(qcpy, w, i, o)
  BY <1>2 DEF MoveTok, RefPart, FunctorOK
<1>3. CASE WatchTok(w, i, o)
  BY <1>3 DEF WatchTok, RefPart
<1> QED
  BY <1>1, <1>2, <1>3 DEF Token

\* The task that a worker is handling is in the worker's queue.
LEMMA CurrentToken ==
    ASSUME ExecTypes, NEW w \in Workers, m_events_queue[w] # <<>>, at[w] # "pop", NEW o, Current(w) = o
    PROVE  EventTok(w, 1, o) /\ Token("event", w, 1, o)
<1>1. m_events_queue[w] \in Seq(Events)
  BY DEF ExecTypes
<1>2. 1 \in DOMAIN m_events_queue[w] /\ m_events_queue[w][1] = Head(m_events_queue[w])
  BY <1>1, QueueFacts
<1> QED
  BY <1>2 DEF EventTok, Token, Pending, Current

\* A handler's functor that moves no task, and the other tasks.
LEMMA ContextKeeps ==
    ASSUME NEW w \in Workers, NEW v \in Workers, NEW f \in Functors, InContext(w, v, f),
           qcpy' = qcpy, NEW o \in Tasks, o # f.obj \/ f.op \in {"stop", "update", "dispose"},
           \A u, i: EventTok(u, i, o)' => EventTok(u, i, o),
           \A l \in Workers: at[l] = "cont" /\ m_events_queue[l] # <<>> /\ Current(l) = o =>
               at'[l] = "cont" /\ m_events_queue'[l] = m_events_queue[l]
    PROVE  Kept(o)
<1>1. o \in Objects
  BY KindFacts
<1>2. active'[o] \in {None, active[o]}
  BY <1>1 DEF InContext, Ran, Called
<1>3. \A u, i: WatchTok(u, i, o)' => WatchTok(u, i, o)
  BY <1>2, WatchStays
<1>4. \A u, i: MoveTok(tfq', u, i, o) => MoveTok(tfq, u, i, o)
  <2>1. CASE tfq' = tfq
    BY <2>1
  <2>2. CASE Appended(tfq, tfq', v, f)
    BY <2>2, AppendedTok DEF Moves
  <2> QED
    BY <2>1, <2>2 DEF InContext, Ran, Called
<1> QED
  BY <1>3, <1>4, KeptParts

\* One that starts a watcher.
MovedTo(o, K, W, I) ==
    \A k, u, i: Token(k, u, i, o)' =>
        \/ k = K /\ u = W /\ i = I
        \/ Token(k, u, i, o) /\ (k = "event" => EventTok(u, i, o)')

LEMMA ContextMoves ==
    ASSUME ThreadPart, NEW w \in Workers, NEW v \in Workers, NEW f \in Functors, InContext(w, v, f),
           v # w => SingleLoop, qcpy' = qcpy, NEW o \in Tasks, o = f.obj, f.op \in {"start", "add"},
           \A u, i: EventTok(u, i, o)' => EventTok(u, i, o)
    PROVE  \E K, W, I: MovedTo(o, K, W, I)
<1>1. CASE Ran(w, f)
  <2>1. tfq' = tfq
    BY <1>1 DEF Ran
  <2>2. PICK W: W = active'[o]
    OBVIOUS
  <2>3. ASSUME NEW k, NEW u, NEW i, Token(k, u, i, o)'
        PROVE  \/ k = "watch" /\ u = W /\ i = 0
               \/ Token(k, u, i, o) /\ (k = "event" => EventTok(u, i, o)')
    BY <2>1, <2>2, <2>3, TokenKinds DEF Token, WatchTok
  <2>4. MovedTo(o, "watch", W, 0)
    BY <2>3 DEF MovedTo
  <2> QED
    BY <2>4
<1>2. CASE Called(v, f) /\ SingleLoop
  <2>1. \A u, i: WatchTok(u, i, o)' => WatchTok(u, i, o)
    BY <1>2 DEF Called, WatchTok, Rewatched
  <2>0. PICK n: n = Len(tfq[v]) + 1
    OBVIOUS
  <2>2. ASSUME NEW k, NEW u, NEW i, Token(k, u, i, o)'
        PROVE  \/ k = "tfq" /\ u = v /\ i = n
               \/ Token(k, u, i, o) /\ (k = "event" => EventTok(u, i, o)')
    <3>1. CASE k = "tfq" /\ MoveTok(tfq', u, i, o)
      BY <1>2, <2>0, <3>1, AppendedTok DEF Called, Token
    <3>2. CASE k = "event" /\ EventTok(u, i, o)'
      BY <3>2 DEF Token
    <3>3. CASE k = "qcpy" /\ MoveTok(qcpy', u, i, o)
      BY <3>3 DEF Token
    <3>4. CASE k = "watch" /\ WatchTok(u, i, o)'
      BY <2>1, <3>4 DEF Token
    <3> QED
      BY <2>2, <3>1, <3>2, <3>3, <3>4, TokenKinds
  <2>3. MovedTo(o, "tfq", v, n)
    BY <2>2 DEF MovedTo
  <2> QED
    BY <2>3
<1>3. ~SingleLoop => Ran(w, f)
  BY DEF InContext, ThreadPart
<1> QED
  BY <1>1, <1>2, <1>3 DEF InContext

\* Steps of one thread that leave the queues and the watchers alone.
LEMMA CalmTokens ==
    ASSUME TypeOK, ThreadPart, NEW o \in Tasks,
           \/ Quiet
           \/ \E w \in Workers: \/ \E fired \in SUBSET Objects: EventLoop(w, fired)
                                \/ \E x \in Objects: SignalCallback(w, x)
                                \/ AsyncDone(w) \/ LoopReturns(w) \/ HandledAll(w)
                                \/ PlainStep(w) \/ LaterStep(w)
    PROVE  Kept(o)
<1>0. OtherTypes
  BY TypeParts
<1>1. UNCHANGED <<tfq, qcpy, m_events_queue, active>>
  BY DEF Quiet, EventLoop, SignalCallback, AsyncDone, LoopReturns, HandledAll, PlainStep, LaterStep,
         Goes, threadVars, execVars, callVars
<1>2. \A u \in Workers: (at'[u] # "pop" => at[u] # "pop") /\ (at[u] = "cont" => at'[u] = "cont")
  <2>1. CASE at' = at
    BY <2>1
  <2>2. ASSUME NEW w \in Workers, LoopReturns(w) PROVE <1>2
    BY <1>0, <2>2 DEF LoopReturns, OtherTypes
  <2>3. ASSUME NEW w \in Workers, NEW p, at[w] \notin {"pop", "cont"}, at' = [at EXCEPT ![w] = p]
        PROVE  <1>2
    BY <1>0, <2>3 DEF OtherTypes
  <2>4. ASSUME NEW w \in Workers,
               \/ \E fired \in SUBSET Objects: EventLoop(w, fired)
               \/ AsyncDone(w) \/ HandledAll(w)
        PROVE  <1>2
    BY <2>3, <2>4 DEF EventLoop, AsyncDone, HandledAll, Goto
  <2>5. ASSUME NEW w \in Workers, PlainStep(w) \/ LaterStep(w)
        PROVE  <1>2
    BY <2>3, <2>5 DEF PlainStep, LaterStep, Goes
  <2> QED
    BY <2>1, <2>2, <2>4, <2>5 DEF Quiet, SignalCallback, threadVars
<1>3. \A w, i: EventTok(w, i, o)' => EventTok(w, i, o)
  BY <1>1, <1>2, EventsStay
<1>4. \A w, i: WatchTok(w, i, o)' => WatchTok(w, i, o)
  BY <1>1, <1>2, WatchStays
<1> QED
  BY <1>1, <1>3, <1>4, KeptParts

LEMMA CallbackTokens ==
    ASSUME PlaceInv, NEW o \in Tasks, One(o), NEW w \in Workers, NEW x \in Objects, EventCallback(w, x)
    PROVE  Kept(o) \/ Passed(o)
<1>0. ExecTypes /\ ThreadPart /\ TodoPart
  BY TypeParts DEF PlaceInv
<1>1. /\ at' = at /\ at[w] = "calls" /\ x \in todo[w] /\ x \in Tasks /\ tfq' = tfq /\ qcpy' = qcpy
      /\ active' = [active EXCEPT ![x] = None] /\ [obj |-> x, revents |-> mask[x]] \in Events
  BY <1>0 DEF EventCallback, threadVars, callVars, ExecTypes, Events
<1>2. Appended(m_events_queue, m_events_queue', w, [obj |-> x, revents |-> mask[x]])
  BY <1>0, <1>1, AppendQueue DEF ExecTypes, EventCallback
<1>3. o \in Objects
  BY KindFacts
<1>4. ASSUME NEW u, NEW i, EventTok(u, i, o)'
      PROVE  EventTok(u, i, o) \/ (u = w /\ i = Len(m_events_queue[w]) + 1 /\ x = o)
  BY <1>1, <1>2, <1>4, AppendedEvent
<1>5. CASE o # x
  <2>1. active'[o] = active[o]
    BY <1>0, <1>1, <1>3, <1>5 DEF ExecTypes
  <2>2. \A l \in Workers: at[l] = "cont" => at'[l] = "cont" /\ m_events_queue'[l] = m_events_queue[l]
    BY <1>1, <1>2 DEF Appended
  <2>3. \A u, i: WatchTok(u, i, o)' => WatchTok(u, i, o)
    BY <2>1, <2>2, WatchStays
  <2>4. \A u, i: EventTok(u, i, o)' => EventTok(u, i, o)
    BY <1>4, <1>5
  <2> QED
    BY <1>1, <2>3, <2>4, KeptParts
<1>6. CASE o = x
  <2>1. active[o] = loop_ptr(w) /\ active[o] # None /\ active'[o] = None
    BY <1>0, <1>1, <1>3, <1>6, TodoLeads DEF ExecTypes
  <2>2. ~Rewatched(o, loop_ptr(w))
    BY <1>1 DEF Rewatched, loop_ptr
  <2>3. Token("watch", loop_ptr(w), 0, o)
    BY <2>1, <2>2 DEF Token, WatchTok
  <2>4. PICK n: n = Len(m_events_queue[w]) + 1
    OBVIOUS
  <2>5. ASSUME NEW k, NEW u, NEW i, Token(k, u, i, o)'
        PROVE  k = "event" /\ u = w /\ i = n
    <3>1. ~WatchTok(u, i, o)'
      BY <2>1 DEF WatchTok
    <3>2. \/ k = "event" /\ u = w /\ i = n
          \/ k # "watch" /\ Token(k, u, i, o)
      BY <1>1, <1>4, <2>4, <2>5, <3>1, TokenKinds DEF Token
    <3> QED
      BY <2>3, <3>2 DEF One
  <2>6. One(o)'
    BY <2>5 DEF One
  <2> QED
    BY <2>3, <2>6 DEF Passed
<1> QED
  BY <1>5, <1>6

LEMMA AsyncTokens ==
    ASSUME PlaceInv, NEW o \in Tasks, One(o), NEW w \in Workers, NEW v \in Workers, AsyncCallback(w, v)
    PROVE  Kept(o) \/ Passed(o)
<1>0. CallTypes /\ OtherTypes
  BY TypeParts DEF PlaceInv
<1>1. /\ at[w] = "calls" /\ UNCHANGED <<m_events_queue, active>>
      /\ \A u \in Workers: u # w => at'[u] = at[u]
      /\ at'[w] = "async"
  BY <1>0 DEF AsyncCallback, Goto, OtherTypes
<1>2. /\ \A u \in Workers: u # v => tfq'[u] = tfq[u]
      /\ tfq'[v] = <<>>
      /\ \A u \in Workers: u # w => qcpy'[u] = qcpy[u]
      /\ qcpy'[w] = <<>> \/ qcpy'[w] = tfq[v]
  BY <1>0 DEF AsyncCallback, CallTypes, OtherTypes
<1>3. \A u, i: EventTok(u, i, o)' => EventTok(u, i, o)
  BY <1>1, EventsStay
<1>4. \A u, i: WatchTok(u, i, o)' => WatchTok(u, i, o)
  BY <1>1, WatchStays
<1>5. \A u, i: MoveTok(tfq', u, i, o) => MoveTok(tfq, u, i, o) /\ u # v
  BY <1>2 DEF MoveTok
<1>6. \A u, i: MoveTok(qcpy', u, i, o) =>
         (u # w /\ MoveTok(qcpy, u, i, o)) \/ (u = w /\ MoveTok(tfq, v, i, o))
  BY <1>2 DEF MoveTok
<1>7. CASE \A i: ~MoveTok(qcpy', w, i, o)
  BY <1>3, <1>4, <1>5, <1>6, <1>7, KeptParts
<1>8. ASSUME NEW n, MoveTok(qcpy', w, n, o) PROVE Passed(o)
  <2>1. Token("tfq", v, n, o)
    BY <1>6, <1>8 DEF Token
  <2>2. ASSUME NEW k, NEW u, NEW i, Token(k, u, i, o)'
        PROVE  k = "qcpy" /\ u = w /\ i = n
    <3>1. CASE k = "qcpy" /\ MoveTok(qcpy', u, i, o)
      <4>1. (u # w /\ Token("qcpy", u, i, o)) \/ (u = w /\ Token("tfq", v, i, o))
        BY <1>6, <3>1 DEF Token
      <4> QED
        BY <2>1, <3>1, <4>1 DEF One
    <3>2. CASE k = "tfq" /\ MoveTok(tfq', u, i, o)
      <4>1. Token("tfq", u, i, o) /\ u # v
        BY <1>5, <3>2 DEF Token
      <4> QED
        BY <2>1, <4>1 DEF One
    <3>3. CASE k \in {"event", "watch"} /\ Token(k, u, i, o)
      BY <2>1, <3>3 DEF One
    <3> QED
      BY <1>3, <1>4, <2>2, <3>1, <3>2, <3>3, TokenKinds DEF Token
  <2>3. One(o)'
    BY <2>2 DEF One
  <2> QED
    BY <2>1, <2>3 DEF Passed
<1> QED
  BY <1>7, <1>8

LEMMA PopTokens ==
    ASSUME PlaceInv, NEW o \in Tasks, One(o), NEW w \in Workers, PopStep(w)
    PROVE  Kept(o) \/ Passed(o)
<1>0. OtherTypes /\ ExecTypes
  BY TypeParts DEF PlaceInv
<1>1. /\ at[w] = "pop" /\ at'[w] = "handle" /\ \A u \in Workers: u # w => at'[u] = at[u]
      /\ Shifted(m_events_queue, m_events_queue', w) /\ UNCHANGED <<qcpy, tfq, active>>
  BY <1>0 DEF PopStep, OtherTypes
<1>2. \A u, i: WatchTok(u, i, o)' => WatchTok(u, i, o)
  <2>1. \A l \in Workers: at[l] = "cont" => at'[l] = "cont" /\ m_events_queue'[l] = m_events_queue[l]
    BY <1>1 DEF Shifted
  <2> QED
    BY <1>1, <2>1, WatchStays
<1>3. \A u, i: EventTok(u, i, o)' =>
         (u # w /\ EventTok(u, i, o)) \/ (u = w /\ EventTok(w, i + 1, o) /\ i \in Nat /\ i > 0)
  BY <1>1 DEF EventTok, Pending, Shifted
<1>4. CASE \A i: ~EventTok(w, i, o)'
  BY <1>1, <1>2, <1>3, <1>4, KeptParts
<1>5. ASSUME NEW n, EventTok(w, n, o)' PROVE Passed(o)
  <2>1. Token("event", w, n + 1, o) /\ n \in Nat /\ n > 0
    BY <1>3, <1>5 DEF Token
  <2>2. ASSUME NEW k, NEW u, NEW i, Token(k, u, i, o)'
        PROVE  k = "event" /\ u = w /\ i = n
    <3>1. CASE k = "event" /\ EventTok(u, i, o)'
      <4>1. \/ u # w /\ Token("event", u, i, o)
            \/ u = w /\ Token("event", w, i + 1, o) /\ i \in Nat
        BY <1>3, <3>1 DEF Token
      <4>2. u = w /\ i + 1 = n + 1 /\ i \in Nat
        BY <2>1, <4>1 DEF One
      <4> QED
        BY <2>1, <3>1, <4>2
    <3>2. CASE k # "event" /\ Token(k, u, i, o)
      BY <2>1, <3>2 DEF One
    <3> QED
      BY <1>1, <1>2, <2>2, <3>1, <3>2, TokenKinds DEF Token
  <2>3. One(o)'
    BY <2>2 DEF One
  <2>4. ~(n + 1 = 1)
    BY <2>1
  <2> QED
    BY <2>1, <2>3, <2>4 DEF Passed
<1> QED
  BY <1>4, <1>5

LEMMA RunTokens ==
    ASSUME PlaceInv, NEW o \in Tasks, One(o), NEW w \in Workers, RunStep(w)
    PROVE  Kept(o) \/ Passed(o)
<1>0. OtherTypes /\ ExecTypes /\ RefPart
  BY TypeParts DEF PlaceInv
<1> DEFINE f == qcpy[w][1]
<1>1. /\ qcpy[w] \in Seq(Functors) /\ Ran(w, f) /\ Shifted(qcpy, qcpy', w) /\ at' = at
      /\ at[w] = "async" /\ tfq' = tfq
  BY <1>0 DEF RunStep, OtherTypes, Ran
<1>2. 1 \in DOMAIN qcpy[w] /\ f \in Functors /\ FunctorOK(f, created)
  BY <1>0, <1>1, QueueFacts DEF RunStep, RefPart
<1>3. f.op \in Moves => MoveTok(qcpy, w, 1, f.obj)
  BY <1>2 DEF MoveTok
<1>4. o \in Objects /\ f.obj \in Tasks
  BY <1>2, KindFacts DEF Functors
<1> HIDE DEF f
<1>5. ASSUME NEW u, NEW i, MoveTok(qcpy', u, i, o)
      PROVE  \/ u # w /\ Token("qcpy", u, i, o)
             \/ u = w /\ Token("qcpy", w, i + 1, o) /\ i \in Nat /\ i > 0
  BY <1>1, <1>5, ShiftedTok DEF Token
<1>6. ASSUME NEW u, NEW i, EventTok(u, i, o)'
      PROVE  \/ Token("event", u, i, o)
             \/ f.op = "event" /\ f.obj = o /\ u = w /\ i = Len(m_events_queue[w]) + 1
  <2>1. CASE f.op = "event"
    <3>1. Appended(m_events_queue, m_events_queue', w, [obj |-> f.obj, revents |-> mask[f.obj]])
      BY <1>1, <2>1 DEF Ran
    <3> QED
      BY <1>1, <1>6, <2>1, <3>1, AppendedEvent DEF Token
  <2>2. CASE f.op # "event"
    <3>1. m_events_queue' = m_events_queue
      BY <1>1, <2>2 DEF Ran
    <3> QED
      BY <1>1, <1>6, <3>1, EventsStay DEF Token
  <2> QED
    BY <2>1, <2>2
<1>7. \A l \in Workers: at[l] = "cont" => at'[l] = "cont" /\ m_events_queue'[l] = m_events_queue[l]
  BY <1>1 DEF Ran, Appended
<1>8. CASE o # f.obj \/ f.op \notin Moves
  <2>1. active'[o] \in {None, active[o]}
    BY <1>1, <1>2, <1>4, <1>8 DEF Ran, Functors, Moves
  <2>2. \A u, i: WatchTok(u, i, o)' => WatchTok(u, i, o)
    BY <1>7, <2>1, WatchStays
  <2>3. \A u, i: EventTok(u, i, o)' => Token("event", u, i, o)
    BY <1>6, <1>8 DEF Moves
  <2>4. CASE \A i: ~MoveTok(qcpy', w, i, o)
    BY <1>1, <1>5, <2>2, <2>3, <2>4, KeptParts DEF Token
  <2>5. ASSUME NEW n, MoveTok(qcpy', w, n, o) PROVE Passed(o)
    <3>1. Token("qcpy", w, n + 1, o) /\ n \in Nat
      BY <1>5, <2>5
    <3>2. ASSUME NEW k, NEW u, NEW i, Token(k, u, i, o)'
          PROVE  k = "qcpy" /\ u = w /\ i = n
      <4>1. CASE k = "qcpy" /\ MoveTok(qcpy', u, i, o)
        <5>1. u = w /\ i + 1 = n + 1 /\ i \in Nat
          BY <1>5, <3>1, <4>1 DEF One
        <5> QED
          BY <3>1, <4>1, <5>1
      <4>2. CASE k # "qcpy" /\ Token(k, u, i, o)
        BY <3>1, <4>2 DEF One
      <4> QED
        BY <1>1, <2>2, <2>3, <3>2, <4>1, <4>2, TokenKinds DEF Token
    <3>3. One(o)'
      BY <3>2, OnlyOne
    <3> QED
      BY <3>1, <3>3 DEF Passed
  <2> QED
    BY <2>4, <2>5
<1>9. CASE o = f.obj /\ f.op \in Moves
  <2>1. Token("qcpy", w, 1, o)
    BY <1>3, <1>9 DEF Token
  <2>2. \A u, i: ~MoveTok(qcpy', u, i, o)
    <3> SUFFICES ASSUME NEW u, NEW i, MoveTok(qcpy', u, i, o) PROVE FALSE
      OBVIOUS
    <3>1. u = w /\ i + 1 = 1 /\ i \in Nat /\ i > 0
      BY <1>5, <2>1 DEF One
    <3> QED
      BY <3>1
  <2>3. \A u, i: ~Token("event", u, i, o) /\ ~Token("tfq", u, i, o) /\ ~Token("watch", u, i, o)
    BY <2>1 DEF One
  <2>4. CASE f.op = "event"
    <3>1. PICK n: n = Len(m_events_queue[w]) + 1
      OBVIOUS
    <3>2. active'[o] = None
      BY <1>0, <1>1, <1>2, <1>9, <2>4 DEF Ran, FunctorOK, RefPart
    <3>3. ASSUME NEW k, NEW u, NEW i, Token(k, u, i, o)'
          PROVE  k = "event" /\ u = w /\ i = n
      <4>1. ~WatchTok(u, i, o)'
        BY <3>2 DEF WatchTok
      <4>2. ~MoveTok(tfq', u, i, o)
        BY <1>1, <2>3 DEF Token
      <4>3. k = "event" /\ EventTok(u, i, o)'
        BY <2>2, <3>3, <4>1, <4>2, TokenKinds
      <4> QED
        BY <1>6, <2>3, <3>1, <4>3
    <3>4. One(o)'
      BY <3>3, OnlyOne
    <3> QED
      BY <2>1, <3>4 DEF Passed
  <2>5. CASE f.op # "event"
    <3>1. PICK l: l = active'[o]
      OBVIOUS
    <3>2. ASSUME NEW k, NEW u, NEW i, Token(k, u, i, o)'
          PROVE  k = "watch" /\ u = l /\ i = 0
      <4>1. ~EventTok(u, i, o)'
        BY <1>6, <2>3, <2>5
      <4>2. ~MoveTok(tfq', u, i, o)
        BY <1>1, <2>3 DEF Token
      <4>3. k = "watch" /\ WatchTok(u, i, o)'
        BY <2>2, <3>2, <4>1, <4>2, TokenKinds
      <4> QED
        BY <3>1, <4>3 DEF WatchTok
    <3>3. One(o)'
      BY <3>2, OnlyOne
    <3> QED
      BY <2>1, <3>3 DEF Passed
  <2> QED
    BY <2>4, <2>5
<1> QED
  BY <1>8, <1>9

\* A handler's thread that stops a watcher or is at the end of a task moves no task.
LEMMA EndTokens ==
    ASSUME PlaceInv, NEW o \in Tasks, NEW w \in Workers, FunctorStep(w), at[w] \in {"end", "handle"}
    PROVE  Kept(o)
<1>0. ExecTypes /\ OtherTypes /\ RefPart /\ AssignedPart
  BY TypeParts DEF PlaceInv
<1>1. /\ m_events_queue[w] # <<>> /\ UNCHANGED <<qcpy, m_events_queue>>
      /\ \A u \in Workers: u # w => at'[u] = at[u]
  BY <1>0 DEF FunctorStep, Goes, OtherTypes
<1>2. Current(w) \in Tasks /\ Current(w) \in created
  BY <1>0, <1>1, CurrentFacts
<1>3. PICK v \in Workers, t \in Tasks, name \in {"stop", "dispose"}: InContext(w, v, Functor(name, t))
  <2>1. CASE CanDispose(Current(w))
             /\ InContext(w, get_worker_by_task(w, Current(w)), Functor("dispose", Current(w)))
    <3>1. get_worker_by_task(w, Current(w)) \in Workers
      BY <1>0, <1>2, <2>1, GetWorkerType DEF CanDispose
    <3> QED
      BY <1>2, <2>1, <3>1
  <2>2. CASE \E t \in AsyncTasks: InContext(w, w, Functor("dispose", t))
    BY <2>2, KindFacts
  <2>3. CASE InContext(w, w, Functor("stop", Current(w)))
    BY <1>2, <2>3
  <2> QED
    BY <2>1, <2>2, <2>3 DEF FunctorStep, Goes
<1>4. Functor(name, t) \in Functors /\ Functor(name, t).op = name
  BY <1>3, FunctorFacts
<1>5. \A u, i: EventTok(u, i, o)' => EventTok(u, i, o)
  <2>1. \A u \in Workers: m_events_queue'[u] = m_events_queue[u] /\ (at'[u] # "pop" => at[u] # "pop")
    BY <1>1
  <2> QED
    BY <2>1, EventsStay
<1>6. \A l \in Workers: at[l] = "cont" => at'[l] = "cont" /\ m_events_queue'[l] = m_events_queue[l]
  BY <1>1
<1> QED
  BY <1>1, <1>3, <1>4, <1>5, <1>6, ContextKeeps

LEMMA FunctorTokens ==
    ASSUME TokenInv, SingleLoop => Reconnecting = {}, NEW o \in Tasks, NEW w \in Workers, FunctorStep(w)
    PROVE  Kept(o) \/ Passed(o) \/ Begun(o)
<1>0. /\ ExecTypes /\ OtherTypes /\ ThreadPart /\ RefPart /\ PlacePart /\ AssignedPart
      /\ One(o) /\ CleanupPart
  BY TypeParts DEF TokenInv, PlaceInv, TokenPart
<1> DEFINE c == Current(w)
           v == get_worker_by_task(w, c)
<1>1. m_events_queue[w] # <<>> /\ UNCHANGED <<qcpy, m_events_queue>> /\ at[w] # "pop"
  BY DEF FunctorStep, Goes
<1>2. c \in Tasks /\ c \in created
  BY <1>0, <1>1, CurrentFacts
<1>3. \A u \in Workers: u # w => at'[u] = at[u]
  BY <1>0 DEF FunctorStep, Goes, OtherTypes
<1>4. \A u, i: EventTok(u, i, o)' => EventTok(u, i, o)
  <2>1. \A u \in Workers: m_events_queue'[u] = m_events_queue[u] /\ (at'[u] # "pop" => at[u] # "pop")
    BY <1>1, <1>3
  <2> QED
    BY <2>1, EventsStay
<1>5. \A l \in Workers: at[l] = "cont" /\ m_events_queue[l] # <<>> /\ Current(l) = o =>
         \/ l = w /\ at[w] = "cont" /\ c = o
         \/ at'[l] = "cont" /\ m_events_queue'[l] = m_events_queue[l]
  BY <1>1, <1>3
<1>6. ASSUME NEW x \in Workers, NEW name \in {"start", "stop", "update", "dispose"}, NEW t \in Tasks,
             InContext(w, x, Functor(name, t)), o # t \/ name # "start", at[w] # "cont" \/ c # o
      PROVE  Kept(o)
  <2>1. /\ Functor(name, t) \in Functors /\ Functor(name, t).op = name
        /\ Functor(name, t).obj = t
    BY FunctorFacts
  <2> QED
    BY <1>1, <1>4, <1>5, <1>6, <2>1, ContextKeeps
<1>7. c \notin DiskTasks => get_worker_by_task(w, c) = w \/ SingleLoop
  BY <1>0, <1>1, CurrentAssigned DEF get_worker_by_task
<1>8. CASE Goes(w, "update", "cont") /\ InContext(w, w, Functor("update", c))
  BY <1>2, <1>6, <1>8 DEF Goes
<1>9. CASE Goes(w, "connect", "cont") /\ InContext(w, w, Functor("start", c))
  <2>1. c \in Reconnecting /\ ~SingleLoop /\ c \notin DiskTasks /\ at[w] = "connect"
    BY <1>0, <1>9, KindFacts DEF Goes, PlacePart
  <2>2. CASE o # c
    BY <1>2, <1>6, <1>9, <2>1, <2>2
  <2>3. CASE o = c
    <3> DEFINE f == Functor("start", o)
    <3>1. f \in Functors /\ f.op = "start" /\ f.obj = o
      BY FunctorFacts
    <3>2. Ran(w, f)
      BY <1>0, <1>9, <2>1, <2>3, MultiRuns
    <3> HIDE DEF f
    <3>3. m_worker[o] = w /\ loop_ptr(w) = w
      BY <1>0, <1>1, <2>1, <2>3, CurrentAssigned DEF loop_ptr
    <3>4. active'[o] = w /\ tfq' = tfq
      BY <1>0, <2>1, <3>1, <3>2, <3>3 DEF Ran, AssignedPart
    <3>5. Rewatched(o, w)'
      <4>1. at'[w] = "cont"
        BY <1>0, <1>9 DEF Goes, OtherTypes
      <4>2. m_events_queue'[w] # <<>> /\ Current(w)' = o
        BY <1>1, <2>3 DEF Current
      <4> QED
        BY <2>1, <4>1, <4>2 DEF Rewatched
    <3>6. \A u, i: ~WatchTok(u, i, o)'
      BY <3>4, <3>5 DEF WatchTok
    <3> QED
      BY <1>1, <1>4, <3>4, <3>6, KeptParts
  <2> QED
    BY <2>2, <2>3
<1>10. CASE Goes(w, "cont", "pop") /\ InContext(w, w, Functor("start", c))
  <2>1. at[w] = "cont" /\ at'[w] = "pop"
    BY <1>0, <1>10 DEF Goes, OtherTypes
  <2>2. CASE o # c
    BY <1>2, <1>6, <1>10, <2>2
  <2>3. CASE o = c
    <3>1. /\ Functor("start", o) \in Functors /\ Functor("start", o).op = "start"
          /\ Functor("start", o).obj = o
      BY FunctorFacts
    <3>2. PICK K, W, I: MovedTo(o, K, W, I)
      BY <1>0, <1>1, <1>4, <1>10, <2>3, <3>1, ContextMoves
    <3>3. Token("event", w, 1, o)
      BY <1>0, <1>1, <2>3, CurrentToken
    <3>4. ~EventTok(w, 1, o)'
      BY <2>1 DEF EventTok, Pending
    <3>5. \A k, u, i: Token(k, u, i, o) /\ (k = "event" => EventTok(u, i, o)') => FALSE
      BY <1>0, <3>3, <3>4 DEF One
    <3>6. \A k, u, i: Token(k, u, i, o)' => k = K /\ u = W /\ i = I
      BY <3>2, <3>5 DEF MovedTo
    <3>7. One(o)'
      BY <3>6 DEF One
    <3> QED
      BY <2>1, <3>3, <3>7 DEF Passed
  <2> QED
    BY <2>2, <2>3
<1>11. CASE at[w] \in {"end", "handle"}
  BY <1>11, EndTokens DEF TokenInv
<1>12. CASE Goes(w, "clean", "pop") /\ InContext(w, v, Functor("start", Cleanup(c)))
  <2>1. /\ at[w] = "clean" /\ at'[w] = "pop" /\ c \in AsyncTasks /\ c \in IoTasks /\ c \notin DiskTasks
        /\ Cleanup(c) \in Tasks
    BY <1>0, <1>12, KindFacts DEF Goes, OtherTypes, PlacePart
  <2>2. v \in Workers /\ (v # w => SingleLoop)
    BY <1>0, <1>2, <1>7, <2>1, GetWorkerType
  <2>3. CASE o # Cleanup(c)
    BY <1>6, <1>12, <2>1, <2>2, <2>3
  <2>4. CASE o = Cleanup(c)
    <3>1. /\ Functor("start", o) \in Functors /\ Functor("start", o).op = "start"
          /\ Functor("start", o).obj = o
      BY FunctorFacts
    <3>2. PICK K, W, I: MovedTo(o, K, W, I)
      BY <1>0, <1>1, <1>4, <1>12, <2>2, <2>4, <3>1, ContextMoves
    <3>3. NoToken(o)
      BY <1>0, <2>1, <2>4 DEF CleanupPart
    <3>4. \A k, u, i: Token(k, u, i, o)' => k = K /\ u = W /\ i = I
      BY <3>2, <3>3 DEF NoToken, MovedTo
    <3>5. One(o)'
      BY <3>4 DEF One
    <3> QED
      BY <1>1, <2>1, <2>4, <3>3, <3>5 DEF Begun
  <2> QED
    BY <2>3, <2>4
<1> QED
  BY <1>8, <1>9, <1>10, <1>11, <1>12 DEF FunctorStep, Goes

LEMMA AcceptTokens ==
    ASSUME TokenInv, NEW o \in Tasks, NEW w \in Workers, AcceptStep(w)
    PROVE  Kept(o) \/ Begun(o)
<1>0. OtherTypes /\ ThreadPart /\ RefPart
  BY TypeParts DEF TokenInv, PlaceInv
<1>1. PICK n \in IoTasks \ created: InContext(w, w, Functor("add", n))
  BY DEF AcceptStep
<1> DEFINE f == Functor("add", n)
<1>2. f \in Functors /\ f.op = "add" /\ f.obj = n
  BY KindFacts, FunctorFacts
<1>3. InContext(w, w, f)
  BY <1>1
<1> HIDE DEF f
<1>4. /\ UNCHANGED <<qcpy, m_events_queue>> /\ at[w] = "handle"
      /\ \A u \in Workers: u # w => at'[u] = at[u]
  BY <1>0 DEF AcceptStep, Goes, OtherTypes
<1>5. \A u, i: EventTok(u, i, o)' => EventTok(u, i, o)
  <2>1. \A u \in Workers: m_events_queue'[u] = m_events_queue[u] /\ (at'[u] # "pop" => at[u] # "pop")
    BY <1>4
  <2> QED
    BY <2>1, EventsStay
<1>6. CASE o # n
  <2>1. \A l \in Workers: at[l] = "cont" => at'[l] = "cont" /\ m_events_queue'[l] = m_events_queue[l]
    BY <1>4
  <2> QED
    BY <1>2, <1>3, <1>4, <1>5, <1>6, <2>1, ContextKeeps
<1>7. CASE o = n
  <2>1. PICK K, W, I: MovedTo(o, K, W, I)
    BY <1>0, <1>2, <1>3, <1>4, <1>5, <1>7, ContextMoves
  <2>2. NoToken(o)
    BY <1>0, <1>7, TokenCreated DEF NoToken
  <2>3. \A k, u, i: Token(k, u, i, o)' => k = K /\ u = W /\ i = I
    BY <2>1, <2>2 DEF NoToken, MovedTo
  <2>4. One(o)'
    BY <2>3 DEF One
  <2> QED
    BY <1>7, <2>2, <2>4 DEF Begun
<1> QED
  BY <1>6, <1>7

LEMMA CallTokens ==
    ASSUME TokenInv, NEW o \in Tasks, NEW w \in Workers, NEW f \in Functors, CallStep(w, f)
    PROVE  Kept(o) \/ Begun(o)
<1>0. RefPart /\ CleanupPart
  BY DEF TokenInv, PlaceInv
<1>1. Appended(tfq, tfq', w, f) /\ UNCHANGED <<at, qcpy, m_events_queue, active>>
  BY DEF CallStep
<1>2. \A u, i: EventTok(u, i, o)' => EventTok(u, i, o)
  BY <1>1, EventsStay
<1>3. \A u, i: WatchTok(u, i, o)' => WatchTok(u, i, o)
  BY <1>1, WatchStays
<1>4. CASE o # f.obj \/ f.op \notin Moves
  <2>1. \A u, i: MoveTok(tfq', u, i, o) => MoveTok(tfq, u, i, o)
    BY <1>1, <1>4, AppendedTok
  <2> QED
    BY <1>1, <1>2, <1>3, <2>1, KeptParts
<1>5. CASE o = f.obj /\ f.op \in Moves
  <2>1. o \notin created
    <3>1. CASE \E t \in (AsyncTasks \cap created) \ disposed: f = Functor("start", Removal(t))
      <4>1. PICK t \in AsyncTasks \ disposed: f = Functor("start", Removal(t))
        BY <3>1
      <4>2. f.obj = Removal(t)
        BY <4>1, KindFacts, FunctorFacts
      <4> QED
        BY <1>0, <1>5, <4>1, <4>2 DEF CleanupPart
    <3> QED
      BY <1>5, <3>1 DEF CallStep, Moves
  <2>2. NoToken(o)
    BY <1>0, <2>1, TokenCreated DEF NoToken
  <2>3. PICK n: n = Len(tfq[w]) + 1
    OBVIOUS
  <2>4. ASSUME NEW k, NEW u, NEW i, Token(k, u, i, o)'
        PROVE  k = "tfq" /\ u = w /\ i = n
    <3>1. (k = "tfq" /\ u = w /\ i = n) \/ Token(k, u, i, o)
      <4>1. CASE k = "tfq" /\ MoveTok(tfq', u, i, o)
        BY <1>1, <2>3, <4>1, AppendedTok DEF Token
      <4>2. CASE k = "qcpy" /\ MoveTok(qcpy', u, i, o)
        BY <1>1, <4>2 DEF Token
      <4>3. CASE (k = "event" /\ EventTok(u, i, o)') \/ (k = "watch" /\ WatchTok(u, i, o)')
        BY <1>2, <1>3, <4>3 DEF Token
      <4> QED
        BY <2>4, <4>1, <4>2, <4>3, TokenKinds
    <3> QED
      BY <2>2, <3>1 DEF NoToken
  <2>5. One(o)'
    BY <2>4 DEF One
  <2> QED
    BY <2>1, <2>2, <2>5 DEF Begun
<1> QED
  BY <1>4, <1>5

\* What a step does to a task's place.
LEMMA TokenSteps ==
    ASSUME TokenInv, SingleLoop => Reconnecting = {}, Quiet \/ PlaceSteps, NEW o \in Tasks
    PROVE  Kept(o) \/ Passed(o) \/ Begun(o)
<1>0. PlaceInv /\ TypeOK /\ ThreadPart /\ One(o)
  BY DEF TokenInv, PlaceInv, TokenPart
<1> QED
  BY <1>0, CalmTokens, CallbackTokens, AsyncTokens, PopTokens, RunTokens, FunctorTokens, AcceptTokens,
     CallTokens DEF PlaceSteps

\* Where the threads that wait to start a cleanup task come from.
LEMMA CleanStep ==
    ASSUME TypeOK, Quiet \/ PlaceSteps, NEW w \in Workers, at'[w] = "clean"
    PROVE  \/ at[w] = "clean" /\ m_events_queue'[w] = m_events_queue[w]
           \/ LaterStep(w)
<1>0. OtherTypes
  BY TypeParts
<1>1. CASE Quiet \/ \E u \in Workers, f \in Functors: CallStep(u, f)
  BY <1>1 DEF Quiet, CallStep
<1>2. ASSUME NEW u \in Workers, \/ \E fired \in SUBSET Objects: EventLoop(u, fired)
                                \/ \E x \in Objects: EventCallback(u, x) \/ SignalCallback(u, x)
                                \/ \E v \in Workers: AsyncCallback(u, v)
                                \/ AsyncDone(u) \/ HandledAll(u)
      PROVE  at[w] = "clean" /\ m_events_queue'[w] = m_events_queue[w]
  <2>1. at[u] # "clean" /\ at'[u] # "clean" /\ (w # u => at'[w] = at[w])
    BY <1>0, <1>2 DEF EventLoop, EventCallback, SignalCallback, AsyncCallback, AsyncDone, HandledAll, Goto,
                      OtherTypes, threadVars
  <2>2. w # u => m_events_queue'[w] = m_events_queue[w]
    <3>1. TypeOK
      OBVIOUS
    <3> QED
      BY <1>2, <3>1 DEF EventLoop, EventCallback, SignalCallback, AsyncCallback, AsyncDone, HandledAll,
                      TypeOK, execVars
  <2> QED
    BY <2>1, <2>2
<1>3. ASSUME NEW u \in Workers, LoopReturns(u)
      PROVE  at[w] = "clean" /\ m_events_queue'[w] = m_events_queue[w]
  BY <1>0, <1>3 DEF LoopReturns, OtherTypes, execVars
<1>4. ASSUME NEW u \in Workers, RunStep(u) \/ PopStep(u)
      PROVE  at[w] = "clean" /\ m_events_queue'[w] = m_events_queue[w]
  BY <1>0, <1>4 DEF RunStep, PopStep, Ran, Shifted, Appended, OtherTypes
<1>5. ASSUME NEW u \in Workers, PlainStep(u) \/ FunctorStep(u) \/ AcceptStep(u)
      PROVE  at[w] = "clean" /\ m_events_queue'[w] = m_events_queue[w]
  BY <1>0, <1>5 DEF PlainStep, FunctorStep, AcceptStep, Goes, OtherTypes
<1>6. ASSUME NEW u \in Workers, LaterStep(u)
      PROVE  LaterStep(w) \/ (at[w] = "clean" /\ m_events_queue'[w] = m_events_queue[w])
  BY <1>0, <1>6 DEF LaterStep, Goes, OtherTypes
<1> QED
  BY <1>1, <1>2, <1>3, <1>4, <1>5, <1>6 DEF PlaceSteps

LEMMA CleanLeft ==
    ASSUME TypeOK, Quiet \/ PlaceSteps, NEW w \in Workers, at[w] = "clean"
    PROVE  at'[w] \in {"clean", "pop"}
<1>0. OtherTypes
  BY TypeParts
<1>1. CASE Quiet \/ \E u \in Workers, f \in Functors: CallStep(u, f)
  BY <1>1 DEF Quiet, CallStep
<1>2. ASSUME NEW u \in Workers, \/ \E fired \in SUBSET Objects: EventLoop(u, fired)
                                \/ \E x \in Objects: EventCallback(u, x) \/ SignalCallback(u, x)
                                \/ \E v \in Workers: AsyncCallback(u, v)
                                \/ AsyncDone(u) \/ HandledAll(u)
      PROVE  at'[w] = "clean"
  BY <1>0, <1>2 DEF EventLoop, EventCallback, SignalCallback, AsyncCallback, AsyncDone, HandledAll, Goto,
                    OtherTypes, threadVars
<1>3. ASSUME NEW u \in Workers, LoopReturns(u) \/ RunStep(u) \/ PopStep(u)
      PROVE  at'[w] = "clean"
  BY <1>0, <1>3 DEF LoopReturns, RunStep, PopStep, OtherTypes
<1>4. ASSUME NEW u \in Workers, PlainStep(u) \/ FunctorStep(u) \/ AcceptStep(u) \/ LaterStep(u)
      PROVE  at'[w] \in {"clean", "pop"}
  BY <1>0, <1>4 DEF PlainStep, FunctorStep, AcceptStep, LaterStep, Goes, OtherTypes
<1> QED
  BY <1>1, <1>2, <1>3, <1>4 DEF PlaceSteps

\* Who creates cleanup tasks.
LEMMA CleanupCreated ==
    ASSUME Quiet \/ PlaceSteps, NEW t \in AsyncTasks
    PROVE  /\ disposed \subseteq disposed'
           /\ Removal(t) \in created' => Removal(t) \in created \/ t \in disposed'
           /\ Cleanup(t) \in created' =>
                 Cleanup(t) \in created \/ \E w \in Workers: LaterStep(w) /\ Current(w) = t
<1>0. /\ Cleanup(t) \notin IoTasks \cup Timers \cup DiskTasks
      /\ Removal(t) \notin IoTasks \cup Timers \cup DiskTasks
  BY KindFacts
<1>1. CASE Quiet
  BY <1>0, <1>1 DEF Quiet
<1>2. ASSUME NEW w \in Workers,
             \/ \E fired \in SUBSET Objects: EventLoop(w, fired)
             \/ \E o \in Objects: EventCallback(w, o) \/ SignalCallback(w, o)
             \/ \E v \in Workers: AsyncCallback(w, v)
             \/ RunStep(w) \/ PopStep(w)
             \/ AsyncDone(w) \/ LoopReturns(w) \/ HandledAll(w) \/ PlainStep(w) \/ FunctorStep(w)
      PROVE  UNCHANGED <<created, disposed>>
  BY <1>2 DEF EventLoop, EventCallback, SignalCallback, AsyncCallback, RunStep, PopStep, AsyncDone,
              LoopReturns, HandledAll, PlainStep, FunctorStep
<1>3. CASE \E w \in Workers: AcceptStep(w)
  BY <1>0, <1>3 DEF AcceptStep
<1>4. ASSUME NEW w \in Workers, LaterStep(w)
      PROVE  /\ disposed' = disposed
             /\ Removal(t) \in created' => Removal(t) \in created
             /\ Cleanup(t) \in created' => Cleanup(t) \in created \/ Current(w) = t
  <2>1. Cleanup(Current(w)) # Removal(t) /\ (Cleanup(Current(w)) = Cleanup(t) => Current(w) = t)
    BY CleanupFacts
  <2> QED
    BY <1>4, <2>1 DEF LaterStep
<1>5. ASSUME NEW w \in Workers, NEW f \in Functors, CallStep(w, f)
      PROVE  /\ disposed \subseteq disposed'
             /\ Removal(t) \in created' => Removal(t) \in created \/ t \in disposed'
             /\ Cleanup(t) \in created' => Cleanup(t) \in created
  <2>1. ASSUME NEW s \in AsyncTasks, created' = created \cup {Removal(s)}, disposed' = disposed \cup {s}
        PROVE  /\ disposed \subseteq disposed'
               /\ Removal(t) \in created' => Removal(t) \in created \/ t \in disposed'
               /\ Cleanup(t) \in created' => Cleanup(t) \in created
    <3>1. Cleanup(t) # Removal(s) /\ (Removal(t) = Removal(s) => t = s)
      BY CleanupFacts
    <3> QED
      BY <2>1, <3>1
  <2> QED
    BY <1>0, <1>5, <2>1 DEF CallStep
<1> QED
  BY <1>1, <1>2, <1>3, <1>4, <1>5 DEF PlaceSteps

LEMMA CleanupsKept ==
    ASSUME TokenInv, PlaceInv', SingleLoop => Reconnecting = {}, Quiet \/ PlaceSteps
    PROVE  CleanupPart'
<1>0. /\ ExecTypes /\ TypeOK /\ OtherTypes /\ RefPart /\ PlacePart /\ TokenPart /\ CleanupPart
      /\ ThreadPart /\ ThreadPart' /\ ExecTypes'
  BY TypeParts DEF TokenInv, PlaceInv
<1> SUFFICES ASSUME NEW t \in AsyncTasks
             PROVE  /\ Removal(t) \in created' => t \in disposed'
                    /\ Cleanup(t) \in created' =>
                          \A k, w, i: Token(k, w, i, t)' => k = "event" /\ i = 1 /\ at'[w] = "clean"
                    /\ \A w \in Workers: at'[w] = "clean" /\ Current(w)' = t => NoToken(Cleanup(t))'
  BY DEF CleanupPart
<1>1. t \in Tasks /\ Cleanup(t) \in Tasks /\ \A s \in AsyncTasks: t # Cleanup(s)
  BY KindFacts
<1>2. ASSUME Removal(t) \in created' PROVE t \in disposed'
  BY <1>0, <1>2, CleanupCreated DEF CleanupPart
<1>3. ASSUME NEW w \in Workers, at[w] = "clean"
      PROVE  m_events_queue[w] # <<>> /\ Current(w) \in AsyncTasks /\ Cleanup(Current(w)) \in created
  BY <1>0, <1>3 DEF ThreadPart, WorkerOK, PlacePart
<1>4. ASSUME Cleanup(t) \in created, NEW k, NEW w, NEW i, Token(k, w, i, t)'
      PROVE  k = "event" /\ i = 1 /\ at'[w] = "clean"
  <2>1. \A g, u, j: Token(g, u, j, t) => g = "event" /\ j = 1 /\ at[u] = "clean"
    BY <1>0, <1>4 DEF CleanupPart
  <2>2. Kept(t)
    <3>1. ~Passed(t)
      BY <2>1 DEF Passed
    <3>2. t \in created
      BY <1>0, <1>4 DEF RefPart
    <3>3. ~Begun(t)
      BY <1>1, <1>3, <3>2 DEF Begun
    <3> QED
      BY <1>1, <3>1, <3>3, TokenSteps
  <2>3. k = "event" /\ i = 1 /\ at[w] = "clean"
    BY <1>4, <2>1, <2>2 DEF Kept
  <2>4. EventTok(w, 1, t)'
    BY <1>4, <2>3, TokenKinds
  <2>5. w \in Workers /\ at'[w] # "pop"
    BY <2>4 DEF EventTok, Pending
  <2>6. at'[w] \in {"clean", "pop"}
    BY <1>0, <2>3, <2>5, CleanLeft
  <2> QED
    BY <2>3, <2>5, <2>6
<1>5. ASSUME NEW v \in Workers, LaterStep(v), Current(v) = t
      PROVE  /\ Cleanup(t) \notin created
             /\ Token("event", v, 1, t) /\ at'[v] = "clean" /\ Kept(t) /\ Kept(Cleanup(t))
  <2>1. at[v] = "end" /\ at'[v] = "clean" /\ m_events_queue[v] # <<>>
    BY <1>0, <1>5 DEF LaterStep, Goes, OtherTypes
  <2>2. Token("event", v, 1, t)
    BY <1>0, <1>5, <2>1, CurrentToken
  <2>3. Cleanup(t) \notin created
    BY <1>0, <2>1, <2>2 DEF CleanupPart
  <2>4. Kept(t) /\ Kept(Cleanup(t))
    BY <1>0, <1>1, <1>5, CalmTokens
  <2> QED
    BY <2>1, <2>2, <2>3, <2>4
<1>6. ASSUME Cleanup(t) \in created', NEW k, NEW w, NEW i, Token(k, w, i, t)'
      PROVE  k = "event" /\ i = 1 /\ at'[w] = "clean"
  <2>1. CASE Cleanup(t) \in created
    BY <1>4, <1>6, <2>1
  <2>2. CASE Cleanup(t) \notin created
    <3>1. PICK v \in Workers: LaterStep(v) /\ Current(v) = t
      BY <1>6, <2>2, CleanupCreated
    <3>2. Token("event", v, 1, t) /\ at'[v] = "clean" /\ Token(k, w, i, t)
      BY <1>5, <1>6, <3>1 DEF Kept
    <3>3. k = "event" /\ w = v /\ i = 1
      BY <1>0, <1>1, <3>2 DEF TokenPart, One
    <3> QED
      BY <3>2, <3>3
  <2> QED
    BY <2>1, <2>2
<1>7. ASSUME NEW w \in Workers, at'[w] = "clean", Current(w)' = t
      PROVE  NoToken(Cleanup(t))'
  <2>1. NoToken(Cleanup(t)) /\ Kept(Cleanup(t))
    <3>1. CASE LaterStep(w)
      <4>1. Current(w) = t
        BY <1>7, <3>1 DEF LaterStep, Goes, Current
      <4>2. Cleanup(t) \notin created /\ Kept(Cleanup(t))
        BY <1>5, <3>1, <4>1
      <4> QED
        BY <1>0, <1>1, <4>2, TokenCreated DEF NoToken
    <3>2. CASE at[w] = "clean" /\ m_events_queue'[w] = m_events_queue[w]
      <4>1. Current(w) = t
        BY <1>7, <3>2 DEF Current
      <4>2. NoToken(Cleanup(t)) /\ Cleanup(t) \in created /\ m_events_queue[w] # <<>>
        BY <1>0, <1>3, <3>2, <4>1 DEF CleanupPart
      <4>3. ~Passed(Cleanup(t))
        BY <4>2 DEF Passed, NoToken
      <4>4. ASSUME Begun(Cleanup(t)) PROVE FALSE
        <5>1. PICK v \in Workers: /\ at[v] = "clean" /\ at'[v] = "pop" /\ m_events_queue[v] # <<>>
                                  /\ Cleanup(t) = Cleanup(Current(v))
          BY <4>2, <4>4 DEF Begun
        <5>2. Current(v) = t
          BY <5>1, CleanupFacts
        <5>3. Token("event", v, 1, t) /\ Token("event", w, 1, t)
          BY <1>0, <3>2, <4>1, <4>2, <5>1, <5>2, CurrentToken
        <5>4. v = w
          BY <1>0, <1>1, <5>3 DEF TokenPart, One
        <5> QED
          BY <1>7, <5>1, <5>4
      <4> QED
        BY <1>1, <4>2, <4>3, <4>4, TokenSteps
    <3> QED
      BY <1>0, <1>7, <3>1, <3>2, CleanStep
  <2> QED
    BY <2>1 DEF NoToken, Kept
<1> QED
  BY <1>2, <1>6, <1>7

LEMMA TokenInit == Init => TokenInv
<1> SUFFICES ASSUME Init PROVE TokenInv
  OBVIOUS
<1>1. PlaceInv
  BY PlaceInit
<1>2. ASSUME NEW o \in Tasks PROVE NoToken(o)
  <2>1. o \notin created
    BY KindFacts DEF Init
  <2>2. RefPart
    BY <1>1 DEF PlaceInv
  <2> QED
    BY <2>1, <2>2, TokenCreated DEF NoToken
<1>3. TokenPart
  BY <1>2 DEF TokenPart, One, NoToken
<1>4. CleanupPart
  <2>1. \A t \in AsyncTasks: Cleanup(t) \in Tasks /\ Cleanup(t) \notin created /\ Removal(t) \notin created
    BY KindFacts DEF Init
  <2> QED
    BY <1>2, <2>1 DEF CleanupPart
<1> QED
  BY <1>1, <1>3, <1>4 DEF TokenInv

LEMMA TokenStep ==
    ASSUME SingleLoop => Reconnecting = {}, TokenInv, [Next]_vars
    PROVE  TokenInv'
<1>1. PlaceInv' /\ (Quiet \/ PlaceSteps)
  BY PlaceStep DEF TokenInv
<1>2. TokenPart'
  <2> SUFFICES ASSUME NEW o \in Tasks PROVE One(o)'
    BY DEF TokenPart
  <2>1. Kept(o) \/ Passed(o) \/ Begun(o)
    BY <1>1, TokenSteps
  <2>2. One(o)
    BY DEF TokenInv, TokenPart
  <2> QED
    BY <2>1, <2>2, KeptOne DEF Passed, Begun
<1>3. CleanupPart'
  BY <1>1, CleanupsKept
<1> QED
  BY <1>1, <1>2, <1>3 DEF TokenInv

\* A task is in one place: unless an http_sender connects elsewhere from its
\* response handler while another worker leads the one loop.
THEOREM TasksInOnePlace ==
    ASSUME SingleLoop => Reconnecting = {}
    PROVE  Spec => []TokenInv
<1>1. Init => TokenInv
  BY TokenInit
<1>2. TokenInv /\ [Next]_vars => TokenInv'
  BY TokenStep
<1> QED
  BY <1>1, <1>2, PTL DEF Spec

\* Handlers need no lock: the watcher is stopped in the callback and started
\* again after handle_event, so that no two threads have an event of a task to
\* handle.
THEOREM TaskHandledOnce ==
    ASSUME SingleLoop => Reconnecting = {}
    PROVE  Spec => []OneHandler
<1>1. TokenInv => OneHandler
  <2> SUFFICES ASSUME TokenInv, NEW w \in Workers, NEW v \in Workers, NEW i \in Pending(w),
                      NEW j \in Pending(v), m_events_queue[w][i].obj = m_events_queue[v][j].obj
               PROVE  v = w /\ j = i
    BY DEF OneHandler
  <2>1. ExecTypes
    BY TypeParts DEF TokenInv, PlaceInv
  <2>2. m_events_queue[w] \in Seq(Events) /\ i \in DOMAIN m_events_queue[w]
    BY <2>1 DEF ExecTypes, Pending
  <2>3. m_events_queue[w][i] \in Events
    BY <2>2, QueueFacts
  <2>4. PICK o \in Tasks: o = m_events_queue[w][i].obj
    BY <2>3 DEF Events
  <2>5. Token("event", w, i, o) /\ Token("event", v, j, o)
    BY <2>4 DEF Token, EventTok
  <2> QED
    BY <2>5 DEF TokenInv, TokenPart, One
<1> QED
  BY <1>1, TasksInOnePlace, PTL
-----------------------------------------------------------------------------
(* Nothing is used after it was deleted                                    *)

LEMMA AppendedAt ==
    ASSUME NEW q, NEW r, NEW v, NEW f, Appended(q, r, v, f), NEW w, NEW i, NEW name, NEW o
    PROVE  /\ FunctorAt(q, w, i, name, o) => FunctorAt(r, w, i, name, o)
           /\ FunctorAt(r, w, i, name, o) =>
                 \/ FunctorAt(q, w, i, name, o)
                 \/ w = v /\ i = Len(q[v]) + 1 /\ f.op = name /\ f.obj = o
BY DEF Appended, FunctorAt

LEMMA ShiftedAt ==
    ASSUME NEW q, NEW r, NEW v, Shifted(q, r, v), NEW w, NEW i, NEW name, NEW o
    PROVE  /\ FunctorAt(q, w, i, name, o) /\ w # v => FunctorAt(r, w, i, name, o)
           /\ FunctorAt(q, w, i, name, o) /\ w = v /\ i > 1 => FunctorAt(r, w, i - 1, name, o)
           /\ FunctorAt(r, w, i, name, o) =>
                 \/ w # v /\ FunctorAt(q, w, i, name, o)
                 \/ w = v /\ FunctorAt(q, w, i + 1, name, o) /\ i \in Nat /\ i > 0
BY DEF Shifted, FunctorAt

\* A queued start will have the task watched.
LEMMA StartIsToken ==
    ASSUME NEW w, NEW i, NEW o
    PROVE  /\ FunctorAt(tfq, w, i, "start", o) => Token("tfq", w, i, o)
           /\ FunctorAt(qcpy, w, i, "start", o) => Token("qcpy", w, i, o)
BY DEF FunctorAt, Token, MoveTok, Moves

LEMMA HoldsIsToken ==
    ASSUME ExecTypes, NEW w \in Workers, NEW o, Holds(w, o)
    PROVE  Token("event", w, 1, o)
BY CurrentToken DEF Holds

LEMMA QueuedTypes ==
    ASSUME PlaceInv, NEW w, NEW i, NEW name, NEW o,
           FunctorAt(tfq, w, i, name, o) \/ FunctorAt(qcpy, w, i, name, o)
    PROVE  /\ w \in Workers /\ i \in Nat /\ i > 0 /\ o \in Tasks /\ o \in created
           /\ name \in {"start", "stop", "update", "respond", "dispose", "add", "event"}
           /\ name \in {"stop", "update", "respond", "dispose", "add"} => o \in IoTasks
           /\ ~SingleLoop /\ name # "event" => m_worker[o] = w
<1>0. CallTypes /\ OtherTypes /\ RefPart /\ AssignedPart
  BY TypeParts DEF PlaceInv
<1>1. ASSUME NEW q, q \in [Workers -> Seq(Functors)], FunctorAt(q, w, i, name, o)
      PROVE  /\ w \in Workers /\ i \in Nat /\ i > 0 /\ o \in Tasks
             /\ name \in {"start", "stop", "update", "respond", "dispose", "add", "event"}
  <2>1. w \in Workers /\ i \in DOMAIN q[w] /\ q[w] \in Seq(Functors)
    BY <1>1 DEF FunctorAt
  <2>2. i \in Nat /\ i > 0 /\ q[w][i] \in Functors
    BY <2>1, QueueFacts
  <2> QED
    BY <1>1, <2>1, <2>2 DEF FunctorAt, Functors
<1>2. CASE FunctorAt(tfq, w, i, name, o)
  <2>1. FunctorOK(tfq[w][i], created) /\ (~SingleLoop /\ name # "event" => m_worker[o] = w)
    BY <1>0, <1>2 DEF FunctorAt, RefPart, AssignedPart
  <2> QED
    BY <1>0, <1>1, <1>2, <2>1 DEF CallTypes, FunctorOK, FunctorAt
<1>3. CASE FunctorAt(qcpy, w, i, name, o)
  <2>1. FunctorOK(qcpy[w][i], created) /\ (~SingleLoop /\ name # "event" => m_worker[o] = w)
    BY <1>0, <1>3 DEF FunctorAt, RefPart, AssignedPart
  <2> QED
    BY <1>0, <1>1, <1>3, <2>1 DEF OtherTypes, FunctorOK, FunctorAt
<1> QED
  BY <1>2, <1>3

\* A handler of a cleanup task that is not done is the one that will dispose of t.
LEMMA CleanupHandled ==
    ASSUME SafeInv, NEW w \in Workers, m_events_queue[w] # <<>>, at[w] = "handle", NEW t \in AsyncTasks,
           Current(w) = Cleanup(t)
    PROVE  CleaningUp(t) /\ NoToken(t) /\ Cleanup(t) \in created
<1>0. /\ ExecTypes /\ OtherTypes /\ RefPart /\ One(Cleanup(t)) /\ CleanupPart /\ DeletedPart
      /\ ThreadPart /\ One(t)
  BY TypeParts, KindFacts DEF SafeInv, TokenInv, PlaceInv, TokenPart, SafePart
<1>1. Token("event", w, 1, Cleanup(t)) /\ Cleanup(t) \in created
  BY <1>0, CurrentToken, CurrentFacts
<1>2. Cleanup(t) \notin deleted
  <2>1. Cleanup(t) \in Tasks /\ Cleanup(t) \notin disposed
    BY <1>0, KindFacts DEF OtherTypes
  <2> QED
    BY <1>0, <1>1, <2>1 DEF DeletedPart, NoToken
<1>3. ASSUME NEW v \in Workers, at[v] = "end", Current(v) = Cleanup(t) PROVE FALSE
  <2>1. Token("event", v, 1, Cleanup(t))
    BY <1>0, <1>3, CurrentToken DEF ThreadPart, WorkerOK
  <2>2. v = w
    BY <1>0, <1>1, <2>1 DEF One
  <2> QED
    BY <1>3, <2>2
<1>4. ASSUME NEW k, NEW v, NEW i, Token(k, v, i, t) PROVE FALSE
  <2>1. k = "event" /\ i = 1 /\ at[v] = "clean" /\ EventTok(v, 1, t)
    BY <1>0, <1>1, <1>4 DEF CleanupPart, Token
  <2>2. v \in Workers /\ 1 \in DOMAIN m_events_queue[v] /\ m_events_queue[v][1].obj = t
    BY <2>1 DEF EventTok, Pending
  <2>3. m_events_queue[v] # <<>>
    BY <1>0, <2>1, <2>2 DEF ThreadPart, WorkerOK
  <2>4. m_events_queue[v] \in Seq(Events)
    BY <1>0, <2>2 DEF ExecTypes
  <2>5. Current(v) = t
    BY <2>2, <2>3, <2>4, QueueFacts DEF Current
  <2>6. NoToken(Cleanup(t))
    BY <1>0, <2>1, <2>2, <2>5 DEF CleanupPart
  <2> QED
    BY <1>1, <2>6 DEF NoToken
<1> QED
  BY <1>1, <1>2, <1>3, <1>4 DEF CleaningUp, NoToken

\* The invariant leaves no way to use a deleted task.
LEMMA NotInUse ==
    ASSUME SafeInv
    PROVE  NoUseAfterFree
<1>0. /\ ExecTypes /\ OtherTypes /\ PlaceInv /\ ThreadPart /\ TodoPart /\ TokenPart /\ CleanupPart
      /\ StopPart /\ DeletedPart /\ DisposePart /\ AsyncPart /\ UpdatePart
  BY TypeParts DEF SafeInv, TokenInv, PlaceInv, SafePart
<1> SUFFICES ASSUME NEW o \in deleted \ Signals
             PROVE  /\ ~CallbackUse(o)
                    /\ o \notin disposed =>
                          /\ ~HandlerUse(o) /\ ~AsyncUse(o)
                          /\ \A f \in FunctorUse(o): f.op = "respond"
  BY DEF NoUseAfterFree
<1>1. o \in Tasks /\ o \in Objects /\ active[o] = None
  BY <1>0, KindFacts DEF ExecTypes, OtherTypes, Objects, DeletedPart
<1>2. ~CallbackUse(o)
  <2> SUFFICES ASSUME NEW w \in Workers, at[w] = "calls", o \in todo[w] PROVE FALSE
    BY DEF CallbackUse
  <2> QED
    BY <1>0, <1>1, TodoLeads
<1> SUFFICES ASSUME o \notin disposed
             PROVE  /\ ~HandlerUse(o) /\ ~AsyncUse(o)
                    /\ \A f \in FunctorUse(o): f.op = "respond"
  BY <1>2
<1>3. \A k, w, i: ~Token(k, w, i, o)
  BY <1>0, <1>1 DEF DeletedPart, NoToken
<1>4. ASSUME NEW w \in Workers, qcpy[w] # <<>>, Head(qcpy[w]).obj = o
      PROVE  Head(qcpy[w]).op = "respond"
  <2>1. qcpy[w] \in Seq(Functors)
    BY <1>0 DEF OtherTypes
  <2>2. 1 \in DOMAIN qcpy[w] /\ Head(qcpy[w]) = qcpy[w][1] /\ Head(qcpy[w]) \in Functors
    BY <1>4, <2>1, QueueFacts
  <2> DEFINE f == Head(qcpy[w])
  <2>3. FunctorAt(qcpy, w, 1, f.op, o)
        /\ f.op \in {"start", "stop", "update", "respond", "dispose", "add", "event"}
    BY <1>4, <2>2 DEF FunctorAt, Functors
  <2> HIDE DEF f
  <2>4. f.op \notin Moves
    BY <1>3, <2>3 DEF FunctorAt, Token, MoveTok
  <2>5. f.op # "stop"
    BY <1>0, <2>3 DEF StopPart
  <2>6. f.op # "dispose"
    <3> SUFFICES ASSUME f.op = "dispose" PROVE FALSE
      OBVIOUS
    <3>1. Disposing(o)
      BY <2>3 DEF Disposing, DisposeAt
    <3> QED
      BY <1>0, <1>1, <3>1 DEF DisposePart, DisposeOK
  <2>7. f.op # "update"
    <3> SUFFICES ASSUME f.op = "update" PROVE FALSE
      OBVIOUS
    <3>1. \/ \E v \in Workers: Holds(v, o)
          \/ \E j \in Nat: FunctorAt(qcpy, w, j, "start", o)
          \/ \E v \in Workers, j \in Nat: FunctorAt(tfq, v, j, "start", o)
      BY <1>0, <1>1, <2>3 DEF UpdatePart
    <3>2. \E k, v, j: Token(k, v, j, o)
      BY <1>0, <3>1, StartIsToken, HoldsIsToken
    <3> QED
      BY <1>3, <3>2
  <2>8. f.op = "respond"
    BY <2>3, <2>4, <2>5, <2>6, <2>7 DEF Moves
  <2> QED
    BY <2>8 DEF f
<1>5. ASSUME NEW w \in Workers, m_events_queue[w] # <<>>, at[w] # "pop" PROVE Current(w) # o
  BY <1>0, <1>3, <1>5, CurrentToken
<1>6. ASSUME NEW w \in Workers, m_events_queue[w] # <<>>, o \in AsyncTasks,
             Current(w) \in {Cleanup(o), Removal(o)}, at[w] = "handle"
      PROVE  FALSE
  <2>1. Current(w) \in created
    BY <1>0, <1>6, CurrentFacts DEF PlaceInv
  <2>2. Current(w) = Cleanup(o)
    BY <1>0, <1>6, <2>1 DEF CleanupPart
  <2>3. CleaningUp(o)
    BY <1>6, <2>2, CleanupHandled
  <2> QED
    BY <1>0, <1>6, <2>3 DEF DisposePart, CleanOK
<1>7. ~AsyncUse(o)
  BY <1>0 DEF AsyncPart, AsyncUse
<1>8. \A f \in FunctorUse(o): f.op = "respond"
  BY <1>4 DEF FunctorUse
<1>9. ~HandlerUse(o)
  BY <1>5, <1>6 DEF HandlerUse
<1> QED
  BY <1>7, <1>8, <1>9
-----------------------------------------------------------------------------
(* Who disposes of tasks, and when                                         *)

\* What a step does to the asynchronous handlers.
AsyncCase(t) ==
    \/ op'[t] = op[t] /\ m_can_dispose'[t] = m_can_dispose[t]
    \/ op[t] = "running" /\ op'[t] \in {"send", "enable"} /\ m_can_dispose'[t] = m_can_dispose[t]
    \/ op[t] = "send" /\ op'[t] = "enable" /\ m_can_dispose'[t] = m_can_dispose[t]
    \/ op[t] = "enable" /\ op'[t] = "done" /\ m_can_dispose'[t]
    \/ op'[t] = "done" /\ m_can_dispose'[t] = m_can_dispose[t]
    \/ /\ op'[t] = "running" /\ ~m_can_dispose'[t]
       /\ UNCHANGED <<tfq, qcpy, deleted, disposed>>
       /\ \E w \in Workers: at[w] = "handle" /\ Handles(w, t)

LEMMA AsyncCases ==
    ASSUME AsyncTypes, [Next]_vars, NEW t \in AsyncTasks
    PROVE  AsyncCase(t)
<1> USE DEF threadVars, execVars, callVars, asyncVars
<1>1. ASSUME NEW w \in Workers, ThreadStep(w) PROVE AsyncCase(t)
  <2>1. ASSUME NEW o \in Tasks,
          \/ HandlePlain(w, o) \/ HandleEnd(w, o) \/ HandleUpdate(w, o)
          \/ HandleStop(w, o) \/ HandleConnect(w, o) \/ HandleReadd(w, o)
          \/ Continue(w, o) \/ FinishDelete(w, o)
          \/ FinishDispose(w, o) \/ FinishLater(w, o) \/ StartCleanup(w, o)
        PROVE  op' = op /\ m_can_dispose' = m_can_dispose
    BY <2>1 DEF HandlePlain, HandleEnd, HandleUpdate, HandleStop, HandleConnect, HandleReadd,
                Continue, FinishDelete, FinishDispose, FinishLater, StartCleanup
  <2>2. ASSUME \/ \E o \in Objects: EventCallback(w, o) \/ SignalCallback(w, o)
               \/ \E v \in Workers: AsyncCallback(w, v)
               \/ RunFunctor(w) \/ AsyncDone(w) \/ LoopReturns(w) \/ Pop(w) \/ HandledAll(w)
               \/ \E o, n \in IoTasks: HandleAccept(w, o, n)
               \/ \E s \in AsyncTasks: HandleCleanup(w, s)
        PROVE  op' = op /\ m_can_dispose' = m_can_dispose
    BY <2>2 DEF EventCallback, SignalCallback, AsyncCallback, RunFunctor, AsyncDone, LoopReturns, Pop,
                HandledAll, HandleAccept, HandleCleanup
  <2>3. ASSUME NEW o \in Tasks, HandleSetEvents(w, o) PROVE AsyncCase(t)
    BY <2>3 DEF HandleSetEvents, AsyncTypes, AsyncCase
  <2>4. ASSUME NEW o \in Tasks, HandleAsync(w, o) PROVE AsyncCase(t)
    BY <2>4 DEF HandleAsync, Goto, AsyncTypes, AsyncCase
  <2> QED
    BY <1>1, <2>1, <2>2, <2>3, <2>4 DEF ThreadStep, AsyncCase
<1>2. ASSUME \/ \E w \in Workers: \E fired \in SUBSET Objects: EventLoop(w, fired)
             \/ \E o \in Tasks, w \in Workers: AddTask(o, w) \/ AddDiskTask(o, w)
             \/ \E o \in Timers: AddImmediate(o)
             \/ \E o \in IoTasks, w \in Workers: RemoveTask(o, w)
             \/ Crash \/ UNCHANGED vars
      PROVE  op' = op /\ m_can_dispose' = m_can_dispose
  BY <1>2 DEF EventLoop, AddTask, AddDiskTask, AddImmediate, RemoveTask, Crash, vars
<1>3. ASSUME NEW s \in AsyncTasks, AsyncStep(s) PROVE AsyncCase(t)
  BY <1>3 DEF AsyncStep, FinishAsync, QueueResponse, EnableDispose, AsyncTypes, AsyncCase
<1> QED
  BY <1>1, <1>2, <1>3 DEF Next, AsyncCase

\* A handler has t disposed of: its own task, or the task that its cleanup task
\* was created for.
DisposeBy(t) ==
    \E w \in Workers:
        /\ FunctorStep(w)
        /\ \/ Goes(w, "end", "pop") /\ Current(w) = t /\ CanDispose(t)
           \/ /\ Goes(w, "handle", "end") /\ t \in AsyncTasks /\ t \notin deleted
              /\ Current(w) \in {Cleanup(t), Removal(t)} /\ m_can_dispose[t]

\* Then nothing else refers to t any more, if the application has not removed it.
LEMMA DisposeByFacts ==
    ASSUME SafeInv, PlaceInv', NEW t \in Tasks, t \notin disposed, DisposeBy(t)
    PROVE  /\ NoToken(t)' /\ ~Disposing(t) /\ t \notin deleted
           /\ t \in AsyncTasks => m_can_dispose[t] /\ ~CleaningUp(t)'
<1>0. /\ ExecTypes /\ OtherTypes /\ PlaceInv /\ ThreadPart /\ RefPart /\ TokenPart /\ CleanupPart /\ One(t)
      /\ DeletedPart /\ DisposePart
  BY TypeParts DEF SafeInv, TokenInv, PlaceInv, SafePart, TokenPart
<1>1. PICK w \in Workers:
        /\ FunctorStep(w)
        /\ \/ Goes(w, "end", "pop") /\ Current(w) = t /\ CanDispose(t)
           \/ /\ Goes(w, "handle", "end") /\ t \in AsyncTasks /\ t \notin deleted
              /\ Current(w) = Cleanup(t) /\ m_can_dispose[t]
  <2>1. PICK w \in Workers:
          /\ FunctorStep(w)
          /\ \/ Goes(w, "end", "pop") /\ Current(w) = t /\ CanDispose(t)
             \/ /\ Goes(w, "handle", "end") /\ t \in AsyncTasks /\ t \notin deleted
                /\ Current(w) \in {Cleanup(t), Removal(t)} /\ m_can_dispose[t]
    BY DEF DisposeBy
  <2>2. t \in AsyncTasks => Current(w) # Removal(t)
    <3>1. m_events_queue[w] # <<>>
      BY <2>1 DEF Goes
    <3> QED
      BY <1>0, <3>1, CurrentFacts DEF CleanupPart
  <2> QED
    BY <2>1, <2>2
<1>2. /\ m_events_queue[w] # <<>> /\ m_events_queue' = m_events_queue /\ at[w] \in {"end", "handle"}
      /\ created' = created /\ Current(w)' = Current(w) /\ Current(w) \notin deleted
  BY <1>1 DEF Goes, FunctorStep, Current
<1>3. Kept(t)
  BY <1>0, <1>1, <1>2, EndTokens
<1>4. CASE Goes(w, "end", "pop") /\ Current(w) = t /\ CanDispose(t)
  <2>0. at[w] = "end" /\ at'[w] = "pop"
    BY <1>0, <1>4 DEF Goes, OtherTypes
  <2>1. Token("event", w, 1, t)
    BY <1>0, <1>2, <1>4, <2>0, CurrentToken
  <2>2. NoToken(t)'
    <3> SUFFICES ASSUME NEW k, NEW v, NEW i, Token(k, v, i, t)' PROVE FALSE
      BY DEF NoToken
    <3>1. k = "event" /\ v = w /\ i = 1
      BY <1>0, <1>3, <2>1 DEF Kept, One
    <3>2. EventTok(w, 1, t)'
      BY <3>1 DEF Token
    <3> QED
      BY <2>0, <3>2 DEF EventTok, Pending
  <2>3. ~Disposing(t)
    BY <1>0, <2>1 DEF DisposePart, DisposeOK, NoToken
  <2>4. t \in AsyncTasks => m_can_dispose[t]
    BY <1>4 DEF CanDispose
  <2>5. t \in AsyncTasks => Cleanup(t) \notin created
    <3> SUFFICES ASSUME t \in AsyncTasks, Cleanup(t) \in created PROVE FALSE
      OBVIOUS
    <3>1. at[w] = "clean"
      BY <1>0, <2>1 DEF CleanupPart
    <3> QED
      BY <2>0, <3>1
  <2> QED
    BY <1>2, <1>4, <2>2, <2>3, <2>4, <2>5 DEF CleaningUp
<1>5. CASE /\ Goes(w, "handle", "end") /\ t \in AsyncTasks /\ t \notin deleted
           /\ Current(w) = Cleanup(t) /\ m_can_dispose[t]
  <2>0. at[w] = "handle" /\ at'[w] = "end"
    BY <1>0, <1>5 DEF Goes, OtherTypes
  <2>1. CleaningUp(t) /\ NoToken(t)
    BY <1>2, <1>5, <2>0, CleanupHandled
  <2>2. NoToken(t)'
    BY <1>3, <2>1 DEF Kept, NoToken
  <2>3. ~Disposing(t)
    BY <1>0, <1>5, <2>1 DEF DisposePart, CleanOK
  <2>4. ~CleaningUp(t)'
    BY <1>2, <1>5, <2>0 DEF CleaningUp
  <2> QED
    BY <1>5, <2>2, <2>3, <2>4
<1> QED
  BY <1>1, <1>4, <1>5

\* Functor f was queued with v: by a handler, which has its task disposed of or
\* will start its watcher, or by another thread, which may remove the task.
Grows(v, f) ==
    /\ Appended(tfq, tfq', v, f) /\ UNCHANGED <<qcpy, deleted>> /\ f.op # "stop"
    /\ f.op = "dispose" => DisposeBy(f.obj) \/ f.obj \in disposed'
    /\ f.op = "update" => Holds(v, f.obj)'

LEMMA QueueCases ==
    ASSUME OwnLoop, SafeInv, Quiet \/ PlaceSteps
    PROVE  \/ UNCHANGED <<tfq, qcpy>>
           \/ \E v \in Workers, f \in Functors: Grows(v, f)
           \/ \E w \in Workers: RunStep(w) /\ tfq' = tfq
           \/ \E w, v \in Workers: AsyncCallback(w, v)
<1>0. /\ ExecTypes /\ CallTypes /\ OtherTypes /\ PlaceInv /\ RefPart /\ CleanupPart /\ PlacePart
      /\ AssignedPart /\ AsyncPart /\ ThreadPart
  BY TypeParts DEF SafeInv, TokenInv, PlaceInv, SafePart
<1>1. ASSUME \/ Quiet
             \/ \E w \in Workers:
                  \/ \E fired \in SUBSET Objects: EventLoop(w, fired)
                  \/ \E o \in Objects: EventCallback(w, o) \/ SignalCallback(w, o)
                  \/ PopStep(w) \/ AsyncDone(w) \/ LoopReturns(w) \/ HandledAll(w)
                  \/ PlainStep(w) \/ LaterStep(w)
      PROVE  UNCHANGED <<tfq, qcpy>>
  BY <1>1 DEF Quiet, EventLoop, EventCallback, SignalCallback, PopStep, AsyncDone, LoopReturns, HandledAll,
              PlainStep, LaterStep, Goes, threadVars, callVars
<1>2. ASSUME NEW w \in Workers, RunStep(w) PROVE tfq' = tfq
  BY <1>2 DEF RunStep, Ran
<1>3. ASSUME NEW w \in Workers, NEW f \in Functors, CallStep(w, f) PROVE Grows(w, f)
  <2>1. ASSUME NEW t \in AsyncTasks, f = Functor("start", Removal(t)) PROVE f.op = "start"
    BY <2>1, KindFacts, FunctorFacts
  <2>2. f.op \in {"start", "event", "respond", "dispose"} /\ (f.op = "dispose" => f.obj \in disposed')
    BY <1>3, <2>1 DEF CallStep
  <2> QED
    BY <1>3, <2>2 DEF CallStep, Grows
<1>4. ASSUME NEW w \in Workers, AcceptStep(w)
      PROVE  UNCHANGED <<tfq, qcpy>> \/ \E v \in Workers, f \in Functors: Grows(v, f)
  <2>1. PICK n \in IoTasks: InContext(w, w, Functor("add", n))
    BY <1>4 DEF AcceptStep
  <2>2. Functor("add", n) \in Functors /\ Functor("add", n).op = "add"
    BY KindFacts, FunctorFacts
  <2>3. qcpy' = qcpy
    BY <1>4 DEF AcceptStep, Goes
  <2>4. CASE Ran(w, Functor("add", n))
    BY <2>3, <2>4 DEF Ran
  <2>5. CASE Called(w, Functor("add", n))
    <3>1. Grows(w, Functor("add", n))
      BY <2>2, <2>3, <2>5 DEF Called, Grows
    <3> QED
      BY <2>2, <3>1
  <2> QED
    BY <2>1, <2>4, <2>5 DEF InContext
<1>5. ASSUME NEW w \in Workers, FunctorStep(w)
      PROVE  UNCHANGED <<tfq, qcpy>> \/ \E v \in Workers, f \in Functors: Grows(v, f)
  <2> DEFINE c == Current(w)
             g == get_worker_by_task(w, c)
             Goal == UNCHANGED <<tfq, qcpy>> \/ \E v \in Workers, f \in Functors: Grows(v, f)
  <2>1. /\ m_events_queue[w] # <<>> /\ UNCHANGED <<qcpy, m_events_queue, leaders>>
        /\ Current(w)' = Current(w)
    BY <1>5 DEF FunctorStep, Goes, Current
  <2>2. c \in Tasks /\ c \in created
    BY <1>0, <2>1, CurrentFacts
  <2>3. ASSUME NEW name \in {"start", "update", "dispose"}, NEW o \in Tasks, NEW v \in Workers,
               InContext(w, v, Functor(name, o)), name = "dispose" => DisposeBy(o),
               name = "update" => v = w /\ at'[w] = "cont" /\ o = c
        PROVE  Goal
    <3>1. PICK f \in Functors: f = Functor(name, o) /\ f.op = name /\ f.obj = o
      BY FunctorFacts
    <3>2. CASE Ran(w, f)
      BY <2>1, <3>2 DEF Ran
    <3>3. CASE Called(v, f) /\ ~(v \in leaders /\ w = v)
      <4>1. name = "update" => Holds(v, o)'
        BY <2>1, <2>3, <3>3 DEF Holds
      <4>2. Holds(v, o)' <=> Holds(v, f.obj)'
        BY <3>1 DEF Holds
      <4>3. f.op = "dispose" => DisposeBy(f.obj)
        BY <2>3, <3>1
      <4>4. Grows(v, f)
        BY <2>1, <3>1, <3>3, <4>1, <4>2, <4>3 DEF Called, Grows
      <4> QED
        BY <4>4
    <3> QED
      BY <2>3, <3>1, <3>2, <3>3 DEF InContext
  <2> SUFFICES Goal
    OBVIOUS
  <2> HIDE DEF Goal
  <2>4. CASE Goes(w, "update", "cont") /\ InContext(w, w, Functor("update", c))
    <3>1. at'[w] = "cont"
      BY <1>0, <2>4 DEF Goes, OtherTypes
    <3> QED
      BY <2>2, <2>3, <2>4, <3>1
  <2>5. CASE InContext(w, w, Functor("start", c))
    BY <2>2, <2>3, <2>5
  <2>6. CASE Goes(w, "end", "pop") /\ CanDispose(c) /\ InContext(w, g, Functor("dispose", c))
    <3>1. g \in Workers
      BY <1>0, <2>2, <2>6, GetWorkerType DEF CanDispose
    <3>2. DisposeBy(c)
      BY <1>5, <2>6 DEF DisposeBy
    <3> QED
      BY <2>2, <2>3, <2>6, <3>1, <3>2
  <2>7. CASE Goes(w, "clean", "pop") /\ InContext(w, g, Functor("start", Cleanup(c)))
    <3>1. c \in AsyncTasks /\ Cleanup(c) \in Tasks
      BY <1>0, <2>7, KindFacts DEF PlacePart, Goes
    <3>2. g \in Workers
      BY <1>0, <2>2, <3>1, KindFacts, GetWorkerType
    <3> QED
      BY <2>3, <2>7, <3>1, <3>2
  <2>8. ASSUME Goes(w, "handle", "end"), NEW t \in AsyncTasks, c \in {Cleanup(t), Removal(t)},
               t \notin deleted, m_can_dispose[t], InContext(w, w, Functor("dispose", t))
        PROVE  Goal
    <3>1. DisposeBy(t)
      BY <1>5, <2>8 DEF DisposeBy
    <3> QED
      BY <2>3, <2>8, <3>1, KindFacts
  <2>9. CASE c \in Reconnecting /\ InContext(w, w, Functor("stop", c))
    <3>1. ~SingleLoop
      BY <2>9 DEF OwnLoop
    <3>2. Ran(w, Functor("stop", c))
      BY <1>0, <2>9, <3>1, MultiRuns
    <3> QED
      BY <2>1, <3>2 DEF Ran, Goal
  <2> QED
    BY <1>5, <2>4, <2>5, <2>6, <2>7, <2>8, <2>9 DEF FunctorStep
<1> QED
  BY <1>1, <1>2, <1>3, <1>4, <1>5 DEF PlaceSteps

\* A leader takes the functors of v over.
LEMMA TakenAt ==
    ASSUME PlaceInv, NEW w \in Workers, NEW v \in Workers, AsyncCallback(w, v), NEW u, NEW i, NEW name, NEW o
    PROVE  /\ FunctorAt(tfq', u, i, name, o) => FunctorAt(tfq, u, i, name, o) /\ u # v
           /\ FunctorAt(tfq, u, i, name, o) /\ u # v => FunctorAt(tfq', u, i, name, o)
           /\ FunctorAt(qcpy', u, i, name, o) =>
                 \/ u # w /\ FunctorAt(qcpy, u, i, name, o)
                 \/ u = w /\ FunctorAt(tfq, v, i, name, o) /\ ~NDebug
           /\ ~NDebug /\ FunctorAt(tfq, v, i, name, o) => FunctorAt(qcpy', w, i, name, o)
           /\ FunctorAt(qcpy, u, i, name, o) => u # w /\ FunctorAt(qcpy', u, i, name, o)
<1>0. CallTypes /\ OtherTypes /\ ThreadPart
  BY TypeParts DEF PlaceInv
<1>1. at[w] = "calls" /\ qcpy[w] = <<>>
  BY <1>0 DEF AsyncCallback, Goto, ThreadPart, WorkerOK
<1>2. /\ \A x \in Workers: x # v => tfq'[x] = tfq[x]
      /\ tfq'[v] = <<>>
      /\ \A x \in Workers: x # w => qcpy'[x] = qcpy[x]
      /\ qcpy'[w] = IF NDebug THEN <<>> ELSE tfq[v]
  BY <1>0 DEF AsyncCallback, CallTypes, OtherTypes
<1> QED
  BY <1>1, <1>2 DEF FunctorAt

\* Where a queued disposal was before the step.
LEMMA DisposeKinds ==
    ASSUME NEW k, NEW w, NEW i, NEW t, DisposeAt(k, w, i, t)'
    PROVE  \/ k = "tfq" /\ FunctorAt(tfq', w, i, "dispose", t)
           \/ k = "qcpy" /\ FunctorAt(qcpy', w, i, "dispose", t)
BY DEF DisposeAt, FunctorAt

\* The disposal of a task is queued once, and by who may have it disposed of.
LEMMA DisposalSteps ==
    ASSUME OwnLoop, SafeInv, PlaceInv', Quiet \/ PlaceSteps, NEW t \in Tasks, t \notin disposed, t \notin disposed'
    PROVE  /\ OneDisposal(t)'
           /\ Disposing(t)' => Disposing(t) \/ (DisposeBy(t) /\ deleted' = deleted)
<1>0. PlaceInv /\ OneDisposal(t)
  BY DEF SafeInv, TokenInv, SafePart, DisposePart, DisposeOK
<1>1. CASE UNCHANGED <<tfq, qcpy>>
  <2>1. \A k, w, i: DisposeAt(k, w, i, t)' => DisposeAt(k, w, i, t)
    BY <1>1, DisposeKinds DEF DisposeAt
  <2> QED
    BY <1>0, <2>1 DEF OneDisposal, Disposing
<1>2. ASSUME NEW v \in Workers, NEW f \in Functors, Grows(v, f)
      PROVE  OneDisposal(t)' /\ (Disposing(t)' => Disposing(t) \/ (DisposeBy(t) /\ deleted' = deleted))
  <2>0. PICK n: n = Len(tfq[v]) + 1
    OBVIOUS
  <2>1. \A k, w, i: DisposeAt(k, w, i, t)' =>
           \/ DisposeAt(k, w, i, t)
           \/ k = "tfq" /\ w = v /\ i = n /\ f.op = "dispose" /\ f.obj = t
    BY <1>2, <2>0, DisposeKinds, AppendedAt DEF Grows, DisposeAt
  <2>2. f.op = "dispose" /\ f.obj = t => DisposeBy(t) /\ deleted' = deleted /\ ~Disposing(t)
    BY <1>2, DisposeByFacts DEF Grows
  <2> QED
    BY <1>0, <2>1, <2>2 DEF OneDisposal, Disposing
<1>3. ASSUME NEW u \in Workers, RunStep(u), tfq' = tfq
      PROVE  OneDisposal(t)' /\ (Disposing(t)' => Disposing(t))
  <2>1. \A k, w, i: DisposeAt(k, w, i, t)' =>
           \/ ~(k = "qcpy" /\ w = u) /\ DisposeAt(k, w, i, t)
           \/ k = "qcpy" /\ w = u /\ DisposeAt(k, w, i + 1, t) /\ i \in Nat
    BY <1>3, DisposeKinds, ShiftedAt DEF RunStep, DisposeAt
  <2>2. \A i, j \in Nat: i + 1 = j + 1 => i = j
    OBVIOUS
  <2> QED
    BY <1>0, <2>1, <2>2 DEF OneDisposal, Disposing
<1>4. ASSUME NEW u \in Workers, NEW v \in Workers, AsyncCallback(u, v)
      PROVE  OneDisposal(t)' /\ (Disposing(t)' => Disposing(t))
  <2>1. \A k, w, i: DisposeAt(k, w, i, t)' =>
           \/ ~(k = "qcpy" /\ w = u) /\ ~(k = "tfq" /\ w = v) /\ DisposeAt(k, w, i, t)
           \/ k = "qcpy" /\ w = u /\ DisposeAt("tfq", v, i, t)
    BY <1>0, <1>4, DisposeKinds, TakenAt DEF DisposeAt
  <2> QED
    BY <1>0, <2>1 DEF OneDisposal, Disposing
<1> QED
  BY <1>1, <1>2, <1>3, <1>4, QueueCases

\* Who deletes tasks.
DeletedBy(o) ==
    \/ o \in Timers \ created /\ Quiet
    \/ o \in Signals /\ UNCHANGED active
    \/ DisposeBy(o) /\ active'[o] = None
    \/ \E w \in Workers: RunStep(w) /\ FunctorAt(qcpy, w, 1, "dispose", o)
    \/ \E w \in Workers: PlainStep(w) /\ Goes(w, "end", "pop") /\ Current(w) = o /\ o \notin IoTasks

LEMMA DeletedSteps ==
    ASSUME OwnLoop, SafeInv, Quiet \/ PlaceSteps
    PROVE  deleted \subseteq deleted' /\ \A o \in deleted': o \in deleted \/ DeletedBy(o)
<1>0. /\ ExecTypes /\ OtherTypes /\ PlaceInv /\ RefPart /\ CleanupPart
  BY TypeParts DEF SafeInv, TokenInv, PlaceInv, SafePart
<1> DEFINE Goal == deleted \subseteq deleted' /\ \A o \in deleted': o \in deleted \/ DeletedBy(o)
<1> SUFFICES Goal
  OBVIOUS
<1>1. CASE Quiet
  BY <1>1 DEF Quiet, DeletedBy
<1>2. ASSUME NEW w \in Workers,
             \/ \E fired \in SUBSET Objects: EventLoop(w, fired)
             \/ \E o \in Objects: EventCallback(w, o)
             \/ \E v \in Workers: AsyncCallback(w, v)
             \/ PopStep(w) \/ AsyncDone(w) \/ LoopReturns(w) \/ HandledAll(w) \/ LaterStep(w)
             \/ \E f \in Functors: CallStep(w, f)
      PROVE  deleted' = deleted
  BY <1>2 DEF EventLoop, EventCallback, AsyncCallback, PopStep, AsyncDone, LoopReturns, HandledAll,
              LaterStep, CallStep, execVars
<1>3. ASSUME NEW w \in Workers, NEW o \in Objects, SignalCallback(w, o) PROVE Goal
  BY <1>3 DEF SignalCallback, DeletedBy
<1>4. ASSUME NEW w \in Workers, RunStep(w) PROVE Goal
  <2> DEFINE f == qcpy[w][1]
  <2>1. Ran(w, f) /\ 1 \in DOMAIN qcpy[w]
    BY <1>4 DEF RunStep, Shifted
  <2>2. CASE f.op # "dispose"
    BY <2>1, <2>2 DEF Ran
  <2>3. CASE f.op = "dispose"
    <3>1. deleted' = deleted \cup {f.obj}
      BY <2>1, <2>3 DEF Ran
    <3>2. DeletedBy(f.obj)
      BY <1>4, <2>1, <2>3 DEF DeletedBy, FunctorAt
    <3> QED
      BY <3>1, <3>2
  <2> QED
    BY <2>2, <2>3
<1>5. ASSUME NEW w \in Workers, PlainStep(w) PROVE Goal
  BY <1>5 DEF PlainStep, DeletedBy
<1>6. ASSUME NEW w \in Workers, NEW v \in Workers, NEW f \in Functors, InContext(w, v, f)
      PROVE  /\ deleted \subseteq deleted'
             /\ \A o \in deleted': o \in deleted \/ (f.op = "dispose" /\ o = f.obj /\ active'[o] = None)
  BY <1>6 DEF InContext, Ran, Called
<1>7. ASSUME NEW w \in Workers, AcceptStep(w) PROVE Goal
  <2>1. PICK n \in IoTasks: InContext(w, w, Functor("add", n))
    BY <1>7 DEF AcceptStep
  <2>2. Functor("add", n) \in Functors /\ Functor("add", n).op = "add"
    BY KindFacts, FunctorFacts
  <2> QED
    BY <1>6, <2>1, <2>2
<1>8. ASSUME NEW w \in Workers, FunctorStep(w) PROVE Goal
  <2> DEFINE c == Current(w)
             g == get_worker_by_task(w, c)
  <2>1. m_events_queue[w] # <<>> /\ c \notin deleted
    BY <1>8 DEF FunctorStep, Goes
  <2>2. c \in Tasks /\ c \in created
    BY <1>0, <2>1, CurrentFacts
  <2>3. ASSUME NEW name \in {"start", "stop", "update", "dispose"}, NEW o \in Tasks, NEW v \in Workers,
               InContext(w, v, Functor(name, o)), name = "dispose" => DisposeBy(o)
        PROVE  Goal
    <3>1. PICK f \in Functors: f = Functor(name, o) /\ f.op = name /\ f.obj = o
      BY FunctorFacts
    <3> QED
      BY <1>6, <2>3, <3>1 DEF DeletedBy
  <2>4. CASE \E name \in {"start", "stop", "update"}: InContext(w, w, Functor(name, c))
    BY <2>2, <2>3, <2>4
  <2>5. CASE Goes(w, "end", "pop") /\ CanDispose(c) /\ InContext(w, g, Functor("dispose", c))
    <3>1. g \in Workers
      BY <1>0, <2>2, <2>5, GetWorkerType DEF CanDispose, PlaceInv
    <3>2. DisposeBy(c)
      BY <1>8, <2>5 DEF DisposeBy
    <3> QED
      BY <2>2, <2>3, <2>5, <3>1, <3>2
  <2>6. CASE Goes(w, "clean", "pop") /\ InContext(w, g, Functor("start", Cleanup(c)))
    <3>1. c \in AsyncTasks /\ Cleanup(c) \in Tasks
      BY <1>0, <2>6, KindFacts DEF PlacePart, PlaceInv, Goes
    <3>2. g \in Workers
      BY <1>0, <2>2, <3>1, KindFacts, GetWorkerType DEF PlaceInv
    <3> QED
      BY <2>3, <2>6, <3>1, <3>2
  <2>7. ASSUME Goes(w, "handle", "end"), NEW t \in AsyncTasks, c \in {Cleanup(t), Removal(t)},
               t \notin deleted, m_can_dispose[t], InContext(w, w, Functor("dispose", t))
        PROVE  Goal
    <3>1. DisposeBy(t)
      BY <1>8, <2>7 DEF DisposeBy
    <3> QED
      BY <2>3, <2>7, <3>1, KindFacts
  <2> QED
    BY <1>8, <2>4, <2>5, <2>6, <2>7 DEF FunctorStep
<1> QED
  BY <1>1, <1>2, <1>3, <1>4, <1>5, <1>7, <1>8 DEF PlaceSteps

\* A handler that is at the end of a task.
LEMMA EndLeft ==
    ASSUME TypeOK, Quiet \/ PlaceSteps, NEW w \in Workers, at[w] = "end"
    PROVE  \/ at'[w] = "end" /\ m_events_queue'[w] = m_events_queue[w]
           \/ Goes(w, "end", "pop") /\ (PlainStep(w) \/ FunctorStep(w))
           \/ LaterStep(w)
<1>0. OtherTypes /\ ExecTypes
  BY TypeParts
<1>1. CASE Quiet \/ \E u \in Workers, f \in Functors: CallStep(u, f)
  BY <1>1 DEF Quiet, CallStep
<1>2. ASSUME NEW u \in Workers, \/ \E fired \in SUBSET Objects: EventLoop(u, fired)
                                \/ \E x \in Objects: EventCallback(u, x) \/ SignalCallback(u, x)
                                \/ \E v \in Workers: AsyncCallback(u, v)
                                \/ AsyncDone(u) \/ HandledAll(u)
      PROVE  at'[w] = "end" /\ m_events_queue'[w] = m_events_queue[w]
  <2>1. at[u] # "end" /\ (w # u => at'[w] = at[w])
    BY <1>0, <1>2 DEF EventLoop, EventCallback, SignalCallback, AsyncCallback, AsyncDone, HandledAll, Goto,
                      OtherTypes, threadVars
  <2>2. w # u => m_events_queue'[w] = m_events_queue[w]
    BY <1>0, <1>2 DEF EventLoop, EventCallback, SignalCallback, AsyncCallback, AsyncDone, HandledAll,
                      ExecTypes, execVars
  <2> QED
    BY <2>1, <2>2
<1>3. ASSUME NEW u \in Workers, LoopReturns(u)
      PROVE  at'[w] = "end" /\ m_events_queue'[w] = m_events_queue[w]
  BY <1>0, <1>3 DEF LoopReturns, OtherTypes, execVars
<1>4. ASSUME NEW u \in Workers, RunStep(u) \/ PopStep(u)
      PROVE  at'[w] = "end" /\ m_events_queue'[w] = m_events_queue[w]
  BY <1>0, <1>4 DEF RunStep, PopStep, Ran, Shifted, Appended, OtherTypes
<1>5. ASSUME NEW u \in Workers, u # w, PlainStep(u) \/ FunctorStep(u) \/ AcceptStep(u) \/ LaterStep(u)
      PROVE  at'[w] = "end" /\ m_events_queue'[w] = m_events_queue[w]
  BY <1>0, <1>5 DEF PlainStep, FunctorStep, AcceptStep, LaterStep, Goes, OtherTypes
<1>6. CASE PlainStep(w) \/ FunctorStep(w) \/ AcceptStep(w)
  BY <1>6 DEF PlainStep, FunctorStep, AcceptStep, Goes
<1> QED
  BY <1>1, <1>2, <1>3, <1>4, <1>5, <1>6 DEF PlaceSteps

\* Which cleanup tasks there are.
LEMMA CleaningUpSteps ==
    ASSUME OwnLoop, SafeInv, PlaceInv', Quiet \/ PlaceSteps, NEW t \in AsyncTasks, CleaningUp(t)'
    PROVE  CleaningUp(t) \/ \E w \in Workers: LaterStep(w) /\ Current(w) = t
<1>0. TypeOK /\ ThreadPart /\ ThreadPart'
  BY DEF SafeInv, TokenInv, PlaceInv
<1>1. /\ Cleanup(t) \in created' /\ Cleanup(t) \notin deleted'
      /\ \A w \in Workers: at'[w] = "end" => Current(w)' # Cleanup(t)
  BY DEF CleaningUp
<1>2. SUFFICES ASSUME Cleanup(t) \in created PROVE CleaningUp(t)
  BY <1>1, CleanupCreated
<1>3. Cleanup(t) \notin deleted
  BY <1>1, DeletedSteps
<1>4. ASSUME NEW w \in Workers, at[w] = "end", Current(w) = Cleanup(t) PROVE FALSE
  <2>1. Cleanup(t) \notin IoTasks /\ Cleanup(t) \notin AsyncTasks
    BY KindFacts
  <2>2. CASE at'[w] = "end" /\ m_events_queue'[w] = m_events_queue[w]
    BY <1>1, <1>4, <2>2 DEF Current
  <2>3. CASE Goes(w, "end", "pop") /\ PlainStep(w)
    BY <1>0, <1>1, <1>4, <2>3 DEF PlainStep, Goes
  <2>4. CASE Goes(w, "end", "pop") /\ FunctorStep(w)
    BY <1>4, <2>1, <2>4 DEF FunctorStep, Goes, CanDispose
  <2>5. CASE LaterStep(w)
    BY <1>4, <2>1, <2>5 DEF LaterStep
  <2> QED
    BY <1>0, <1>4, <2>2, <2>3, <2>4, <2>5, EndLeft
<1> QED
  BY <1>2, <1>3, <1>4 DEF CleaningUp
-----------------------------------------------------------------------------
(* The invariant for disposal                                              *)

\* A task that is nowhere stays nowhere, unless it begins.
LEMMA NowhereStays ==
    ASSUME TokenInv, SingleLoop => Reconnecting = {}, Quiet \/ PlaceSteps, NEW o \in Tasks, NoToken(o),
           o \in created, \A w \in Workers: at[w] = "clean" /\ m_events_queue[w] # <<>> => o # Cleanup(Current(w))
    PROVE  NoToken(o)'
<1>1. Kept(o) \/ Passed(o) \/ Begun(o)
  BY TokenSteps
<1>2. ~Passed(o) /\ ~Begun(o)
  BY DEF Passed, Begun, NoToken
<1> QED
  BY <1>1, <1>2 DEF Kept, NoToken

LEMMA RemovedStays ==
    ASSUME Quiet \/ PlaceSteps
    PROVE  disposed \subseteq disposed'
<1>1. ASSUME NEW w \in Workers,
             \/ \E fired \in SUBSET Objects: EventLoop(w, fired)
             \/ \E o \in Objects: EventCallback(w, o) \/ SignalCallback(w, o)
             \/ \E v \in Workers: AsyncCallback(w, v)
             \/ RunStep(w) \/ PopStep(w)
             \/ AsyncDone(w) \/ LoopReturns(w) \/ HandledAll(w) \/ PlainStep(w) \/ FunctorStep(w)
             \/ AcceptStep(w) \/ LaterStep(w)
      PROVE  disposed' = disposed
  BY <1>1 DEF EventLoop, EventCallback, SignalCallback, AsyncCallback, RunStep, PopStep, AsyncDone,
              LoopReturns, HandledAll, PlainStep, FunctorStep, AcceptStep, LaterStep
<1>2. ASSUME NEW w \in Workers, NEW f \in Functors, CallStep(w, f) PROVE disposed \subseteq disposed'
  BY <1>2 DEF CallStep
<1> QED
  BY <1>1, <1>2 DEF PlaceSteps, Quiet

\* Nobody starts the watcher of a deleted task.
LEMMA UnwatchedStays ==
    ASSUME SafeInv, Quiet \/ PlaceSteps, NEW o \in Tasks, o \in deleted
    PROVE  active'[o] = None
<1>0. ExecTypes /\ OtherTypes /\ RefPart /\ PlacePart /\ DeletedPart
  BY TypeParts DEF SafeInv, TokenInv, PlaceInv, SafePart
<1>1. o \in Objects /\ active[o] = None /\ o \in created
  BY <1>0, KindFacts DEF DeletedPart, ExecTypes
<1>2. ASSUME NEW w, NEW f \in Functors, Ran(w, f), f.op \in {"start", "add"} => f.obj # o
      PROVE  active'[o] = None
  BY <1>1, <1>2 DEF Ran, Functors
<1>3. ASSUME \/ Quiet
             \/ \E w \in Workers:
                  \/ \E fired \in SUBSET Objects: EventLoop(w, fired)
                  \/ \E x \in Objects: SignalCallback(w, x)
                  \/ \E v \in Workers: AsyncCallback(w, v)
                  \/ PopStep(w) \/ AsyncDone(w) \/ LoopReturns(w) \/ HandledAll(w)
                  \/ PlainStep(w) \/ LaterStep(w) \/ \E f \in Functors: CallStep(w, f)
      PROVE  active' = active
  BY <1>3 DEF Quiet, EventLoop, SignalCallback, AsyncCallback, PopStep, AsyncDone, LoopReturns, HandledAll,
              PlainStep, LaterStep, CallStep, execVars
<1>4. ASSUME NEW w \in Workers, NEW x \in Objects, EventCallback(w, x) PROVE active'[o] = None
  BY <1>0, <1>1, <1>4 DEF EventCallback, ExecTypes
<1>5. ASSUME NEW w \in Workers, RunStep(w) PROVE active'[o] = None
  <2>1. PICK f: f = qcpy[w][1] /\ Ran(w, f) /\ f.obj # o /\ 1 \in DOMAIN qcpy[w]
    BY <1>5 DEF RunStep, Shifted
  <2>2. qcpy[w] \in Seq(Functors)
    BY <1>0 DEF OtherTypes
  <2>3. f \in Functors
    BY <2>1, <2>2, QueueFacts
  <2> QED
    BY <1>2, <2>1, <2>3
<1>6. ASSUME NEW w \in Workers, NEW v, NEW f \in Functors, InContext(w, v, f),
             f.op \in {"start", "add"} => f.obj # o
      PROVE  active'[o] = None
  BY <1>1, <1>2, <1>6 DEF InContext, Called
<1>7. ASSUME NEW w \in Workers, AcceptStep(w) PROVE active'[o] = None
  <2>1. PICK n \in IoTasks \ created: InContext(w, w, Functor("add", n))
    BY <1>7 DEF AcceptStep
  <2>2. Functor("add", n) \in Functors /\ Functor("add", n).obj = n
    BY KindFacts, FunctorFacts
  <2> QED
    BY <1>1, <1>6, <2>1, <2>2
<1>8. ASSUME NEW w \in Workers, FunctorStep(w) PROVE active'[o] = None
  <2> DEFINE c == Current(w)
  <2>1. m_events_queue[w] # <<>> /\ c # o
    BY <1>8 DEF FunctorStep, Goes
  <2>2. c \in Tasks
    BY <1>0, <2>1, CurrentFacts
  <2>3. ASSUME NEW name \in {"start", "stop", "update", "dispose"}, NEW x \in Tasks, NEW v,
               InContext(w, v, Functor(name, x)), name = "start" => x # o
        PROVE  active'[o] = None
    <3>1. PICK f \in Functors: f = Functor(name, x) /\ f.op = name /\ f.obj = x
      BY FunctorFacts
    <3> QED
      BY <1>6, <2>3, <3>1
  <2>4. CASE \E name \in {"start", "stop", "update", "dispose"}: \E v: InContext(w, v, Functor(name, c))
    BY <2>1, <2>2, <2>3, <2>4
  <2>5. CASE \E t \in AsyncTasks: InContext(w, w, Functor("dispose", t))
    BY <2>3, <2>5, KindFacts
  <2>6. ASSUME NEW v, at[w] = "clean", InContext(w, v, Functor("start", Cleanup(c))) PROVE active'[o] = None
    <3>1. Cleanup(c) \in Tasks /\ Cleanup(c) # o
      BY <1>0, <2>6, KindFacts DEF PlacePart, DeletedPart
    <3> QED
      BY <2>3, <2>6, <3>1
  <2> QED
    BY <1>8, <2>4, <2>5, <2>6 DEF FunctorStep, Goes
<1> QED
  BY <1>1, <1>3, <1>4, <1>5, <1>7, <1>8 DEF PlaceSteps

LEMMA DeletedKept ==
    ASSUME OwnLoop, SafeInv, PlaceInv', Quiet \/ PlaceSteps
    PROVE  DeletedPart'
<1>0. /\ ExecTypes /\ OtherTypes /\ OtherTypes' /\ ExecTypes' /\ TypeOK /\ PlaceInv /\ ThreadPart /\ ThreadPart'
      /\ RefPart /\ PlacePart /\ TokenInv /\ TokenPart /\ CleanupPart
      /\ DeletedPart /\ DisposePart /\ (SingleLoop => Reconnecting = {}) /\ disposed \subseteq disposed'
  BY TypeParts, RemovedStays DEF SafeInv, TokenInv, PlaceInv, SafePart, OwnLoop
<1>1. ASSUME NEW w \in Workers, at[w] = "clean"
      PROVE  /\ m_events_queue[w] # <<>> /\ Current(w) \in AsyncTasks /\ Cleanup(Current(w)) \notin IoTasks
             /\ Cleanup(Current(w)) \notin Timers /\ Cleanup(Current(w)) \in created
             /\ NoToken(Cleanup(Current(w)))
  <2>1. m_events_queue[w] # <<>> /\ Current(w) \in AsyncTasks /\ Cleanup(Current(w)) \in created
    BY <1>0, <1>1 DEF ThreadPart, WorkerOK, PlacePart
  <2> QED
    BY <1>0, <1>1, <2>1, KindFacts DEF CleanupPart
<1>2. ASSUME NEW o \in Tasks, o \in deleted', o \notin disposed' PROVE NoToken(o)'
  <2>1. o \in Tasks /\ o \notin disposed /\ o \notin Signals
    BY <1>0, <1>2, KindFacts
  <2>2. CASE o \in deleted
    <3>1. NoToken(o) /\ o \in created
      BY <1>0, <2>1, <2>2 DEF DeletedPart, ExecTypes
    <3>2. \A w \in Workers: at[w] = "clean" => o # Cleanup(Current(w))
      BY <1>0, <2>2 DEF DeletedPart
    <3> QED
      BY <1>0, <2>1, <3>1, <3>2, NowhereStays
  <2>3. CASE o \in Timers \ created /\ Quiet
    <3>1. Kept(o)
      BY <1>0, <2>1, <2>3, CalmTokens
    <3>2. NoToken(o)
      BY <1>0, <2>1, <2>3, TokenCreated DEF NoToken
    <3> QED
      BY <3>1, <3>2 DEF Kept, NoToken
  <2>4. CASE DisposeBy(o)
    BY <2>1, <2>4, DisposeByFacts
  <2>5. ASSUME NEW w \in Workers, RunStep(w), FunctorAt(qcpy, w, 1, "dispose", o) PROVE NoToken(o)'
    <3>1. NoToken(o)
      BY <1>0, <2>1, <2>5 DEF DisposePart, DisposeOK, Disposing, DisposeAt
    <3>2. o \in created /\ o \in IoTasks
      BY <1>0, <2>5, QueuedTypes
    <3> QED
      BY <1>0, <1>1, <2>1, <3>1, <3>2, NowhereStays
  <2>6. ASSUME NEW w \in Workers, PlainStep(w), Goes(w, "end", "pop"), Current(w) = o PROVE NoToken(o)'
    <3>1. Kept(o)
      BY <1>0, <2>1, <2>6, CalmTokens
    <3>2. at[w] = "end" /\ at'[w] = "pop" /\ m_events_queue[w] # <<>>
      BY <1>0, <2>6 DEF Goes, OtherTypes
    <3>3. Token("event", w, 1, o) /\ One(o)
      BY <1>0, <2>1, <2>6, <3>2, CurrentToken DEF TokenPart
    <3> SUFFICES ASSUME NEW k, NEW v, NEW i, Token(k, v, i, o)' PROVE FALSE
      BY DEF NoToken
    <3>4. k = "event" /\ v = w /\ i = 1
      BY <3>1, <3>3 DEF Kept, One
    <3>5. EventTok(w, 1, o)'
      BY <3>4 DEF Token
    <3> QED
      BY <3>2, <3>5 DEF EventTok, Pending
  <2> QED
    BY <1>2, <2>1, <2>2, <2>3, <2>4, <2>5, <2>6, DeletedSteps DEF DeletedBy
<1>3. ASSUME NEW w \in Workers, at'[w] = "clean" PROVE Cleanup(Current(w)') \notin deleted'
  <2>1. CASE at[w] = "clean" /\ m_events_queue'[w] = m_events_queue[w]
    <3>1. PICK o: o = Cleanup(Current(w)) /\ o = Cleanup(Current(w)')
      BY <2>1 DEF Current
    <3>2. /\ o \notin deleted /\ o \notin IoTasks /\ o \notin Timers /\ o \in created /\ NoToken(o)
          /\ o \notin Signals
      BY <1>0, <1>1, <2>1, <3>1, KindFacts DEF DeletedPart
    <3>3. ~DisposeBy(o)
      BY <3>2, KindFacts DEF DisposeBy, CanDispose
    <3>4. ASSUME NEW u \in Workers, FunctorAt(qcpy, u, 1, "dispose", o) PROVE FALSE
      BY <1>0, <3>2, <3>4, QueuedTypes
    <3>5. ASSUME NEW u \in Workers, Goes(u, "end", "pop"), Current(u) = o PROVE FALSE
      <4>1. Token("event", u, 1, o)
        BY <1>0, <3>5, CurrentToken DEF Goes
      <4> QED
        BY <3>2, <4>1 DEF NoToken
    <3> QED
      BY <3>1, <3>2, <3>3, <3>4, <3>5, DeletedSteps DEF DeletedBy
  <2>2. CASE LaterStep(w)
    <3>1. /\ deleted' = deleted /\ Current(w)' = Current(w) /\ at[w] = "end" /\ m_events_queue[w] # <<>>
          /\ Current(w) \in AsyncTasks
      BY <2>2 DEF LaterStep, Goes, Current
    <3>2. Token("event", w, 1, Current(w))
      BY <1>0, <3>1, CurrentToken
    <3>3. Cleanup(Current(w)) \notin created
      BY <1>0, <3>1, <3>2 DEF CleanupPart
    <3> QED
      BY <1>0, <3>1, <3>3 DEF ExecTypes
  <2> QED
    BY <1>0, <1>3, <2>1, <2>2, CleanStep
<1>4. ASSUME NEW o \in Tasks, o \in deleted' PROVE active'[o] = None
  <2>1. o \notin Signals /\ o \in Objects
    BY KindFacts
  <2>2. CASE o \in deleted
    BY <2>2, UnwatchedStays
  <2>3. CASE o \in Timers \ created /\ Quiet
    BY <1>0, <2>3 DEF Quiet, RefPart
  <2>4. ASSUME NEW w \in Workers, RunStep(w), FunctorAt(qcpy, w, 1, "dispose", o) PROVE active'[o] = None
    BY <2>4 DEF RunStep, Ran, FunctorAt
  <2>5. ASSUME NEW w \in Workers, PlainStep(w), Goes(w, "end", "pop"), Current(w) = o
        PROVE  active'[o] = None
    <3>1. at[w] = "end" /\ m_events_queue[w] # <<>> /\ active' = active
      BY <2>5 DEF Goes, PlainStep
    <3>2. Token("event", w, 1, o) /\ One(o)
      BY <1>0, <2>5, <3>1, CurrentToken DEF TokenPart
    <3>3. PICK l: l = active[o]
      OBVIOUS
    <3>4. ASSUME Rewatched(o, l) PROVE FALSE
      <4>1. l \in Workers /\ Token("event", l, 1, o) /\ at[l] = "cont"
        BY <1>0, <3>4, CurrentToken DEF Rewatched
      <4> QED
        BY <3>1, <3>2, <4>1 DEF One
    <3>5. ASSUME l # None PROVE FALSE
      <4>1. Token("watch", l, 0, o)
        BY <3>3, <3>4, <3>5 DEF Token, WatchTok
      <4> QED
        BY <3>2, <4>1 DEF One
    <3> QED
      BY <3>1, <3>3, <3>5
  <2> QED
    BY <1>4, <2>1, <2>2, <2>3, <2>4, <2>5, DeletedSteps DEF DeletedBy
<1> QED
  BY <1>2, <1>3, <1>4 DEF DeletedPart

LEMMA DisposalsKept ==
    ASSUME OwnLoop, SafeInv, PlaceInv', Quiet \/ PlaceSteps
    PROVE  DisposePart'
<1>0. /\ ExecTypes /\ OtherTypes /\ TypeOK /\ PlaceInv /\ ThreadPart /\ RefPart /\ PlacePart
      /\ TokenInv /\ TokenPart /\ CleanupPart
      /\ DeletedPart /\ DisposePart /\ (SingleLoop => Reconnecting = {}) /\ disposed \subseteq disposed'
  BY TypeParts, RemovedStays DEF SafeInv, TokenInv, PlaceInv, SafePart, OwnLoop
<1>1. ASSUME NEW t \in Tasks, t \notin disposed, Disposing(t)
      PROVE  t \in IoTasks /\ t \in created /\ NoToken(t) /\ t \notin deleted /\ ~DisposeBy(t)
  <2>1. t \in IoTasks /\ t \in created
    BY <1>0, <1>1, QueuedTypes DEF Disposing, DisposeAt
  <2> QED
    BY <1>0, <1>1, <2>1, DisposeByFacts DEF DisposePart, DisposeOK
<1>2. ASSUME NEW t \in Tasks, t \notin disposed' PROVE OneDisposal(t)' /\ t \notin disposed
  BY <1>0, <1>2, DisposalSteps
<1>3. ASSUME NEW t \in Tasks, t \notin disposed', Disposing(t)' PROVE NoToken(t)' /\ t \notin deleted'
  <2>0. t \notin disposed /\ t \notin Signals
    BY <1>2, <1>3, KindFacts
  <2>1. CASE Disposing(t)
    <3>1. \A w \in Workers: at[w] = "clean" => t # Cleanup(Current(w))
      BY <1>0, <1>1, <2>0, <2>1, KindFacts DEF PlacePart
    <3>2. NoToken(t)'
      BY <1>0, <1>1, <2>0, <2>1, <3>1, NowhereStays
    <3>3. ASSUME NEW w \in Workers, RunStep(w), FunctorAt(qcpy, w, 1, "dispose", t) PROVE FALSE
      <4>1. DisposeAt("qcpy", w, 1, t) /\ OneDisposal(t)
        BY <1>0, <2>0, <3>3 DEF DisposeAt, DisposePart, DisposeOK
      <4>2. PICK k, u, i: DisposeAt(k, u, i, t)'
        BY <1>3 DEF Disposing
      <4>3. CASE k = "tfq" /\ FunctorAt(tfq', u, i, "dispose", t)
        <5>1. DisposeAt("tfq", u, i, t)
          BY <3>3, <4>3 DEF RunStep, Ran, DisposeAt
        <5> QED
          BY <4>1, <5>1 DEF OneDisposal
      <4>4. CASE k = "qcpy" /\ FunctorAt(qcpy', u, i, "dispose", t)
        <5>1. \/ u # w /\ DisposeAt("qcpy", u, i, t)
              \/ u = w /\ DisposeAt("qcpy", u, i + 1, t) /\ i \in Nat /\ i > 0
          BY <3>3, <4>4, ShiftedAt DEF RunStep, DisposeAt
        <5>2. i \in Nat /\ i > 0 => i + 1 # 1
          OBVIOUS
        <5> QED
          BY <4>1, <5>1, <5>2 DEF OneDisposal
      <4> QED
        BY <4>2, <4>3, <4>4, DisposeKinds
    <3>4. t \notin deleted'
      BY <1>1, <2>0, <2>1, <3>3, KindFacts, DeletedSteps DEF DeletedBy
    <3> QED
      BY <3>2, <3>4
  <2>2. CASE DisposeBy(t) /\ deleted' = deleted
    BY <2>0, <2>2, DisposeByFacts
  <2> QED
    BY <1>3, <2>0, <2>1, <2>2, DisposalSteps
<1>4. ASSUME NEW t \in AsyncTasks, t \notin disposed', CleaningUp(t)'
      PROVE  ~Disposing(t)' /\ t \notin deleted'
  <2>0. t \in Tasks /\ t \in IoTasks /\ t \notin Timers /\ t \notin disposed /\ t \notin Signals
    BY <1>0, <1>4, KindFacts
  <2>1. CASE CleaningUp(t)
    <3>1. ~Disposing(t) /\ t \notin deleted
      BY <1>0, <2>0, <2>1 DEF DisposePart, CleanOK
    <3>2. ~DisposeBy(t)
      BY <1>4, <2>0, DisposeByFacts
    <3>3. ~Disposing(t)'
      BY <1>4, <2>0, <3>1, <3>2, DisposalSteps
    <3>4. ASSUME NEW w \in Workers, FunctorAt(qcpy, w, 1, "dispose", t) PROVE FALSE
      BY <3>1, <3>4 DEF Disposing, DisposeAt
    <3> QED
      BY <2>0, <3>1, <3>2, <3>3, <3>4, DeletedSteps DEF DeletedBy
  <2>2. ASSUME NEW w \in Workers, LaterStep(w), Current(w) = t
        PROVE  ~Disposing(t)' /\ t \notin deleted'
    <3>1. /\ UNCHANGED <<tfq, qcpy, deleted>> /\ at[w] = "end" /\ m_events_queue[w] # <<>>
      BY <2>2 DEF LaterStep, Goes
    <3>2. Token("event", w, 1, t)
      BY <1>0, <2>2, <3>1, CurrentToken
    <3>3. ~Disposing(t) /\ t \notin deleted
      BY <1>0, <2>0, <3>2 DEF DisposePart, DisposeOK, DeletedPart, NoToken
    <3>4. Disposing(t)' => Disposing(t)
      BY <3>1 DEF Disposing, DisposeAt, FunctorAt
    <3> QED
      BY <3>1, <3>3, <3>4
  <2> QED
    BY <1>4, <2>1, <2>2, CleaningUpSteps
<1> QED
  BY <1>2, <1>3, <1>4 DEF DisposePart, DisposeOK, CleanOK

LEMMA AsyncsKept ==
    ASSUME OwnLoop, SafeInv, PlaceInv', [Next]_vars, Quiet \/ PlaceSteps
    PROVE  AsyncPart'
<1>0. /\ ExecTypes /\ AsyncTypes /\ AsyncTypes' /\ TokenInv /\ DeletedPart /\ DisposePart /\ AsyncPart
      /\ disposed \subseteq disposed'
  BY TypeParts, RemovedStays DEF SafeInv, TokenInv, PlaceInv, SafePart
<1> SUFFICES ASSUME NEW t \in AsyncTasks
             PROVE  /\ op'[t] \in Working => ~m_can_dispose'[t]
                    /\ t \notin disposed' /\ (t \in deleted' \/ Disposing(t)') => m_can_dispose'[t]
  BY DEF AsyncPart
<1>1. AsyncCase(t)
  BY <1>0, AsyncCases
<1>2. op[t] \in Working => ~m_can_dispose[t]
  BY <1>0 DEF AsyncPart
<1>3. op'[t] \in Working => ~m_can_dispose'[t]
  BY <1>1, <1>2 DEF AsyncCase, Working
<1> SUFFICES ASSUME t \notin disposed', t \in deleted' \/ Disposing(t)' PROVE m_can_dispose'[t]
  BY <1>3
<1>4. t \in Tasks /\ t \in IoTasks /\ t \notin Timers /\ t \notin Signals /\ t \notin disposed
  BY <1>0, KindFacts
<1>5. m_can_dispose[t]
  <2>1. DisposeBy(t) => m_can_dispose[t]
    BY <1>4, DisposeByFacts
  <2>2. ASSUME NEW w \in Workers, FunctorAt(qcpy, w, 1, "dispose", t) PROVE Disposing(t)
    BY <2>2 DEF Disposing, DisposeAt
  <2>3. t \in deleted \/ Disposing(t) => m_can_dispose[t]
    BY <1>0, <1>4 DEF AsyncPart
  <2> QED
    BY <1>4, <2>1, <2>2, <2>3, DisposalSteps, DeletedSteps DEF DeletedBy
<1>6. ASSUME UNCHANGED <<tfq, qcpy, deleted>>, NEW w \in Workers, at[w] = "handle", Handles(w, t)
      PROVE  t \notin deleted' /\ ~Disposing(t)'
  <2>1. Token("event", w, 1, t)
    BY <1>0, <1>6, CurrentToken DEF Handles
  <2>2. t \notin deleted /\ ~Disposing(t)
    BY <1>0, <1>4, <2>1 DEF DeletedPart, DisposePart, DisposeOK, NoToken
  <2>3. Disposing(t)' => Disposing(t)
    BY <1>6 DEF Disposing, DisposeAt, FunctorAt
  <2> QED
    BY <1>6, <2>2, <2>3
<1> QED
  BY <1>1, <1>5, <1>6 DEF AsyncCase

\* A handler that has queued an update queues the start, too.
LEMMA HoldsStep ==
    ASSUME PlaceInv, Quiet \/ PlaceSteps, NEW w \in Workers, NEW o \in Tasks, Holds(w, o)
    PROVE  \/ Holds(w, o)'
           \/ /\ Appended(tfq, tfq', w, Functor("start", o)) /\ qcpy' = qcpy
<1>0. OtherTypes /\ ExecTypes
  BY TypeParts DEF PlaceInv
<1>1. at[w] = "cont" /\ w \notin leaders /\ m_events_queue[w] # <<>> /\ Current(w) = o
  BY DEF Holds
<1>2. ASSUME at'[w] = "cont", leaders' = leaders, m_events_queue'[w] = m_events_queue[w]
      PROVE  Holds(w, o)'
  BY <1>1, <1>2 DEF Holds, Current
<1>3. CASE Quiet \/ \E u \in Workers, f \in Functors: CallStep(u, f)
  BY <1>1, <1>2, <1>3 DEF Quiet, CallStep
<1>4. ASSUME NEW u \in Workers, \/ \E fired \in SUBSET Objects: EventLoop(u, fired)
                                \/ \E x \in Objects: EventCallback(u, x) \/ SignalCallback(u, x)
                                \/ \E v \in Workers: AsyncCallback(u, v)
                                \/ AsyncDone(u) \/ HandledAll(u)
      PROVE  Holds(w, o)'
  <2>1. u # w /\ at'[w] = at[w] /\ leaders' = leaders
    BY <1>0, <1>1, <1>4 DEF EventLoop, EventCallback, SignalCallback, AsyncCallback, AsyncDone, HandledAll,
                      Goto, OtherTypes, threadVars
  <2>2. m_events_queue'[w] = m_events_queue[w]
    BY <1>0, <1>4, <2>1 DEF EventLoop, EventCallback, SignalCallback, AsyncCallback, AsyncDone, HandledAll,
                      ExecTypes, execVars
  <2> QED
    BY <1>1, <1>2, <2>1, <2>2
<1>5. ASSUME NEW u \in Workers, LoopReturns(u) PROVE Holds(w, o)'
  <2>1. at'[w] = "cont" /\ w \notin leaders' /\ m_events_queue'[w] = m_events_queue[w]
    BY <1>0, <1>1, <1>5 DEF LoopReturns, OtherTypes, execVars
  <2> QED
    BY <1>1, <2>1 DEF Holds, Current
<1>6. ASSUME NEW u \in Workers, RunStep(u) \/ PopStep(u) PROVE Holds(w, o)'
  <2>1. at'[w] = "cont" /\ leaders' = leaders /\ m_events_queue'[w] = m_events_queue[w]
    BY <1>0, <1>1, <1>6 DEF RunStep, PopStep, Ran, Shifted, Appended, OtherTypes
  <2> QED
    BY <1>2, <2>1
<1>7. ASSUME NEW u \in Workers, u # w, PlainStep(u) \/ FunctorStep(u) \/ AcceptStep(u) \/ LaterStep(u)
      PROVE  Holds(w, o)'
  <2>1. at'[w] = "cont" /\ leaders' = leaders /\ m_events_queue'[w] = m_events_queue[w]
    BY <1>0, <1>1, <1>7 DEF PlainStep, FunctorStep, AcceptStep, LaterStep, Goes, OtherTypes
  <2> QED
    BY <1>2, <2>1
<1>8. CASE PlainStep(w) \/ FunctorStep(w) \/ AcceptStep(w) \/ LaterStep(w)
  <2>1. Goes(w, "cont", "pop") /\ InContext(w, w, Functor("start", o))
    BY <1>1, <1>8 DEF PlainStep, FunctorStep, AcceptStep, LaterStep, Goes
  <2> QED
    BY <1>1, <2>1 DEF Goes, InContext, Ran, Called
<1> QED
  BY <1>3, <1>4, <1>5, <1>6, <1>7, <1>8 DEF PlaceSteps

LEMMA UpdatesKept ==
    ASSUME OwnLoop, SafeInv, Quiet \/ PlaceSteps
    PROVE  UpdatePart'
<1>0. /\ ExecTypes /\ CallTypes /\ OtherTypes /\ PlaceInv /\ ThreadPart /\ TodoPart /\ UpdatePart
  BY TypeParts DEF SafeInv, TokenInv, PlaceInv, SafePart
<1> DEFINE Updates(q, w, i, o) == FunctorAt(q, w, i, "update", o)
           Starts(q, w, i, o) == FunctorAt(q, w, i, "start", o)
<1>1. SUFFICES ASSUME NEW o \in Tasks, NEW w \in Workers, NEW i \in Nat
               PROVE  /\ Updates(tfq', w, i, o) =>
                            Holds(w, o)' \/ \E j \in Nat: j > i /\ Starts(tfq', w, j, o)
                      /\ Updates(qcpy', w, i, o) =>
                            \/ \E v \in Workers: Holds(v, o)'
                            \/ \E j \in Nat: j > i /\ Starts(qcpy', w, j, o)
                            \/ \E v \in Workers, j \in Nat: Starts(tfq', v, j, o)
  <2>1. \A q, v, j, name, x: FunctorAt(q, v, j, name, x) <=>
           v \in Workers /\ j \in DOMAIN q[v] /\ q[v][j].op = name /\ q[v][j].obj = x
    BY DEF FunctorAt
  <2> QED
    BY DEF UpdatePart, FunctorAt
<1>2. /\ Updates(tfq, w, i, o) => Holds(w, o) \/ \E j \in Nat: j > i /\ Starts(tfq, w, j, o)
      /\ Updates(qcpy, w, i, o) =>
            \/ \E v \in Workers: Holds(v, o)
            \/ \E j \in Nat: j > i /\ Starts(qcpy, w, j, o)
            \/ \E v \in Workers, j \in Nat: Starts(tfq, v, j, o)
  BY <1>0 DEF UpdatePart
\* The handler that holds o goes on to hold it, or has queued the start.
<1>3. ASSUME NEW v \in Workers, Holds(v, o)
      PROVE  Holds(v, o)' \/ \E j \in Nat: /\ Starts(tfq', v, j, o)
                                           /\ \A k \in DOMAIN tfq[v]: j > k
  <2>1. CASE Appended(tfq, tfq', v, Functor("start", o))
    <3>1. Functor("start", o).op = "start" /\ Functor("start", o).obj = o
      BY FunctorFacts
    <3>2. PICK n: n = Len(tfq[v]) + 1
      OBVIOUS
    <3>3. tfq[v] \in Seq(Functors)
      BY <1>0 DEF CallTypes
    <3>4. n \in Nat /\ \A k \in DOMAIN tfq[v]: n > k
      BY <3>2, <3>3
    <3>5. Starts(tfq', v, n, o)
      BY <2>1, <3>1, <3>2 DEF Appended, FunctorAt
    <3> QED
      BY <3>4, <3>5
  <2> QED
    BY <1>0, <1>3, <2>1, HoldsStep
<1>4. CASE UNCHANGED <<tfq, qcpy>> \/ \E v \in Workers, f \in Functors: Grows(v, f)
  <2>1. qcpy' = qcpy
    BY <1>4 DEF Grows
  <2>2. \A v, j: Starts(tfq, v, j, o) => Starts(tfq', v, j, o)
    BY <1>4, AppendedAt DEF Grows
  <2>3. Updates(tfq', w, i, o) => Updates(tfq, w, i, o) \/ Holds(w, o)'
    <3>1. CASE UNCHANGED <<tfq, qcpy>>
      BY <3>1
    <3>2. ASSUME NEW v \in Workers, NEW f \in Functors, Grows(v, f)
          PROVE  Updates(tfq', w, i, o) => Updates(tfq, w, i, o) \/ Holds(w, o)'
      <4>1. f.op = "update" /\ f.obj = o => Holds(v, o)'
        BY <3>2 DEF Grows, Holds
      <4> QED
        BY <3>2, <4>1, AppendedAt DEF Grows
    <3> QED
      BY <1>4, <3>1, <3>2
  <2>4. Updates(tfq, w, i, o) => i \in DOMAIN tfq[w]
    BY DEF FunctorAt
  <2>5. Updates(tfq', w, i, o) => Holds(w, o)' \/ \E j \in Nat: j > i /\ Starts(tfq', w, j, o)
    BY <1>2, <1>3, <2>2, <2>3, <2>4
  <2> QED
    BY <1>2, <1>3, <2>1, <2>2, <2>5
<1>5. ASSUME NEW u \in Workers, RunStep(u), tfq' = tfq
      PROVE  /\ Updates(tfq', w, i, o) =>
                  Holds(w, o)' \/ \E j \in Nat: j > i /\ Starts(tfq', w, j, o)
             /\ Updates(qcpy', w, i, o) =>
                  \/ \E v \in Workers: Holds(v, o)'
                  \/ \E j \in Nat: j > i /\ Starts(qcpy', w, j, o)
                  \/ \E v \in Workers, j \in Nat: Starts(tfq', v, j, o)
  <2>1. Shifted(qcpy, qcpy', u)
    BY <1>5 DEF RunStep
  <2>2. Updates(tfq, w, i, o) => i \in DOMAIN tfq[w]
    BY DEF FunctorAt
  <2>3. Updates(tfq', w, i, o) => Holds(w, o)' \/ \E j \in Nat: j > i /\ Starts(tfq', w, j, o)
    BY <1>2, <1>3, <1>5, <2>2
  <2>4. CASE w # u
    <3>1. \A j: Starts(qcpy, w, j, o) => Starts(qcpy', w, j, o)
      BY <2>1, <2>4, ShiftedAt
    <3>2. Updates(qcpy', w, i, o) => Updates(qcpy, w, i, o)
      BY <2>1, <2>4, ShiftedAt
    <3> QED
      BY <1>2, <1>3, <1>5, <2>3, <3>1, <3>2
  <2>5. CASE w = u
    <3> SUFFICES ASSUME Updates(qcpy', w, i, o)
                 PROVE  \/ \E v \in Workers: Holds(v, o)'
                        \/ \E j \in Nat: j > i /\ Starts(qcpy', w, j, o)
                        \/ \E v \in Workers, j \in Nat: Starts(tfq', v, j, o)
      BY <2>3
    <3>1. Updates(qcpy, w, i + 1, o) /\ i > 0 /\ i + 1 \in Nat
      BY <2>1, <2>5, ShiftedAt
    <3>2. \/ \E v \in Workers: Holds(v, o)
          \/ \E j \in Nat: j > i + 1 /\ Starts(qcpy, w, j, o)
          \/ \E v \in Workers, j \in Nat: Starts(tfq, v, j, o)
      BY <1>0, <3>1 DEF UpdatePart
    <3>3. ASSUME NEW j \in Nat, j > i + 1, Starts(qcpy, w, j, o)
          PROVE  \E k \in Nat: k > i /\ Starts(qcpy', w, k, o)
      <4>1. j - 1 \in Nat /\ j - 1 > i /\ j > 1
        BY <3>1, <3>3
      <4>2. Starts(qcpy', w, j - 1, o)
        BY <2>1, <2>5, <3>3, <4>1, ShiftedAt
      <4> QED
        BY <4>1, <4>2
    <3> QED
      BY <1>3, <1>5, <3>2, <3>3
  <2> QED
    BY <2>4, <2>5
<1>6. ASSUME NEW u \in Workers, NEW x \in Workers, AsyncCallback(u, x)
      PROVE  /\ Updates(tfq', w, i, o) =>
                  Holds(w, o)' \/ \E j \in Nat: j > i /\ Starts(tfq', w, j, o)
             /\ Updates(qcpy', w, i, o) =>
                  \/ \E v \in Workers: Holds(v, o)'
                  \/ \E j \in Nat: j > i /\ Starts(qcpy', w, j, o)
                  \/ \E v \in Workers, j \in Nat: Starts(tfq', v, j, o)
  <2>1. Updates(tfq, w, i, o) => i \in DOMAIN tfq[w]
    BY DEF FunctorAt
  <2>2. ASSUME Updates(tfq', w, i, o)
        PROVE  Holds(w, o)' \/ \E j \in Nat: j > i /\ Starts(tfq', w, j, o)
    <3>1. Updates(tfq, w, i, o) /\ w # x
      BY <1>0, <1>6, <2>2, TakenAt
    <3>2. \A j: Starts(tfq, w, j, o) => Starts(tfq', w, j, o)
      BY <1>0, <1>6, <3>1, TakenAt
    <3> QED
      BY <1>2, <1>3, <2>1, <3>1, <3>2
  <2>3. ASSUME Updates(qcpy', w, i, o), w = u
        PROVE  \/ \E v \in Workers: Holds(v, o)'
               \/ \E j \in Nat: j > i /\ Starts(qcpy', w, j, o)
               \/ \E v \in Workers, j \in Nat: Starts(tfq', v, j, o)
    <3>1. Updates(tfq, x, i, o) /\ ~NDebug
      BY <1>0, <1>6, <2>3, TakenAt
    <3>2. Holds(x, o) \/ \E j \in Nat: j > i /\ Starts(tfq, x, j, o)
      BY <1>0, <3>1 DEF UpdatePart
    <3>3. \A j: Starts(tfq, x, j, o) => Starts(qcpy', w, j, o)
      BY <1>0, <1>6, <2>3, <3>1, TakenAt
    <3> QED
      BY <1>3, <3>2, <3>3
  <2>4. ASSUME Updates(qcpy', w, i, o), w # u
        PROVE  \/ \E v \in Workers: Holds(v, o)'
               \/ \E j \in Nat: j > i /\ Starts(qcpy', w, j, o)
               \/ \E v \in Workers, j \in Nat: Starts(tfq', v, j, o)
    <3>1. Updates(qcpy, w, i, o)
      BY <1>0, <1>6, <2>4, TakenAt
    <3>2. qcpy[w] \in Seq(Functors) /\ qcpy[w] # <<>>
      <4>1. qcpy[w] \in Seq(Functors) /\ i \in DOMAIN qcpy[w]
        BY <1>0, <3>1 DEF OtherTypes, FunctorAt
      <4> QED
        BY <4>1, QueueFacts
    <3>3. w \in leaders /\ u \in leaders /\ loop_ptr(x) = loop_ptr(u)
      BY <1>0, <1>6, <3>2 DEF ThreadPart, WorkerOK, TodoPart, AsyncCallback, Goto
    <3>4. ~SingleLoop
      BY <1>0, <2>4, <3>3 DEF ThreadPart, loop_ptr
    <3>5. x = u /\ m_worker[o] = w
      BY <1>0, <3>1, <3>3, <3>4, LoopFacts, QueuedTypes
    <3>6. \A v, j: Starts(tfq, v, j, o) => v = w
      BY <1>0, <3>4, <3>5, QueuedTypes
    <3>7. \A j: Starts(tfq, w, j, o) => Starts(tfq', w, j, o)
      BY <1>0, <1>6, <2>4, <3>5, TakenAt
    <3>8. \A j: Starts(qcpy, w, j, o) => Starts(qcpy', w, j, o)
      BY <1>0, <1>6, TakenAt
    <3> QED
      BY <1>2, <1>3, <3>1, <3>6, <3>7, <3>8
  <2> QED
    BY <2>2, <2>3, <2>4
<1> QED
  BY <1>4, <1>5, <1>6, QueueCases

LEMMA StopsKept ==
    ASSUME OwnLoop, SafeInv, Quiet \/ PlaceSteps
    PROVE  StopPart'
<1>0. PlaceInv /\ StopPart
  BY DEF SafeInv, TokenInv, SafePart
<1>1. ASSUME NEW w, NEW i, NEW o
      PROVE  ~FunctorAt(tfq', w, i, "stop", o) /\ ~FunctorAt(qcpy', w, i, "stop", o)
  <2>0. \A u, j: ~FunctorAt(tfq, u, j, "stop", o) /\ ~FunctorAt(qcpy, u, j, "stop", o)
    BY <1>0 DEF StopPart
  <2>1. CASE UNCHANGED <<tfq, qcpy>>
    BY <2>0, <2>1
  <2>2. CASE \E v \in Workers, f \in Functors: Grows(v, f)
    BY <2>0, <2>2, AppendedAt DEF Grows
  <2>3. CASE \E u \in Workers: RunStep(u) /\ tfq' = tfq
    BY <2>0, <2>3, ShiftedAt DEF RunStep
  <2>4. CASE \E u, v \in Workers: AsyncCallback(u, v)
    BY <1>0, <2>0, <2>4, TakenAt
  <2> QED
    BY <2>1, <2>2, <2>3, <2>4, QueueCases
<1> QED
  BY <1>1 DEF StopPart, FunctorAt

LEMMA SafeInit == Init => SafeInv
<1> SUFFICES ASSUME Init PROVE SafeInv
  OBVIOUS
<1>1. TokenInv
  BY TokenInit
<1>2. /\ tfq = [w \in Workers |-> <<>>] /\ qcpy = [w \in Workers |-> <<>>] /\ created = Signals /\ deleted = {}
      /\ m_can_dispose = [t \in AsyncTasks |-> TRUE] /\ op = [t \in AsyncTasks |-> "none"]
      /\ disposed = {} /\ crashed = FALSE
      /\ \A w \in Workers: at[w] \in {"loop", "free"}
  BY DEF Init
<1>3. \A w, i, name, o: ~FunctorAt(tfq, w, i, name, o) /\ ~FunctorAt(qcpy, w, i, name, o)
  BY <1>2 DEF FunctorAt
<1>4. \A t: OneDisposal(t) /\ ~Disposing(t)
  BY <1>3 DEF OneDisposal, Disposing, DisposeAt
<1>5. \A t \in AsyncTasks: ~CleaningUp(t)
  BY <1>2, KindFacts DEF CleaningUp
<1>6. StopPart /\ UpdatePart
  BY <1>3 DEF StopPart, UpdatePart
<1>7. DeletedPart /\ DisposePart
  BY <1>2, <1>4, <1>5 DEF DeletedPart, DisposePart, DisposeOK, CleanOK
<1>8. AsyncPart
  BY <1>2, <1>4 DEF AsyncPart, Working
<1> QED
  BY <1>1, <1>2, <1>6, <1>7, <1>8 DEF SafeInv, SafePart

LEMMA SafeStep ==
    ASSUME OwnLoop, SafeInv, [Next]_vars
    PROVE  SafeInv'
<1>1. PlaceInv' /\ (Quiet \/ PlaceSteps) /\ TokenInv'
  BY PlaceStep, TokenStep DEF SafeInv, TokenInv, OwnLoop
<1> QED
  BY <1>1, DeletedKept, DisposalsKept, AsyncsKept, UpdatesKept, StopsKept DEF SafeInv, SafePart

\* delete this in dispose and the delete in remove_event_task and cleanup_task
\* are the last accesses to a task, with asynchronous handlers that answer, are
\* replaced by the next request's or find an error, with signals and with threads
\* that remove tasks: libev calls no callback of a deleted task; and one that the
\* application did not remove is used by no handler, no retried disposal, no
\* asynchronous handler and no functor but send_response.  The one hypothesis: in
\* SINGLE_LOOP mode no http_sender connects elsewhere from its response handler.
THEOREM NothingUsedAfterFree ==
    ASSUME OwnLoop
    PROVE  Spec => []NoUseAfterFree
<1>1. Init => SafeInv
  BY SafeInit
<1>2. SafeInv /\ [Next]_vars => SafeInv'
  BY SafeStep
<1>3. SafeInv => NoUseAfterFree
  BY NotInUse
<1> QED
  BY <1>1, <1>2, <1>3, PTL DEF Spec
-----------------------------------------------------------------------------
(* A response does not wait behind a watcher for input                     *)

\* Functor name for t is queued or about to run.
Asked(name, t) == \E w, i: FunctorAt(tfq, w, i, name, t) \/ FunctorAt(qcpy, w, i, name, t)

\* A handler has set the events of t and not yet asked for the update.
Updating(t) == \E w \in Workers: at[w] = "update" /\ m_events_queue[w] # <<>> /\ Current(w) = t

\* What waits to be sent waits for send_response, or the watcher is, or is about
\* to be, set to what m_events says.
ResponseOK(t) ==
    reply[t] = "waiting" =>
        \/ Asked("respond", t)
        \/ m_events[t] = "WRITE" /\ (mask[t] = "WRITE" \/ Asked("update", t) \/ Updating(t))

ResponsePart == \A t \in AsyncTasks: ResponseOK(t)
ResponseInv == TokenInv /\ ResponsePart

\* In a build in which functors are called.
RespondersServed == ~NDebug /\ OwnLoop

\* What most steps do to a task: no response begins to wait, its watcher stays or
\* is set to what m_events says, nothing that was queued is lost.
OpOn(t) == reply'[t] = "waiting" => reply[t] = "waiting"

WatcherOn(t) == m_events'[t] = m_events[t] /\ mask'[t] \in {mask[t], m_events[t]}

QueuesOn(t) ==
    /\ Asked("respond", t)' <=> Asked("respond", t)
    /\ Asked("update", t) => Asked("update", t)'

UpdatesOn(t) == Updating(t) => Updating(t)'

LEMMA PartOn ==
    ASSUME NEW t \in AsyncTasks, ResponseOK(t), OpOn(t), WatcherOn(t), QueuesOn(t), UpdatesOn(t)
    PROVE  ResponseOK(t)'
BY DEF ResponseOK, OpOn, WatcherOn, QueuesOn, UpdatesOn

\* update_watcher has run.
LEMMA PartSet ==
    ASSUME NEW t \in AsyncTasks, ResponseOK(t), OpOn(t), m_events'[t] = m_events[t], mask'[t] = m_events[t],
           Asked("respond", t)' <=> Asked("respond", t)
    PROVE  ResponseOK(t)'
BY DEF ResponseOK, OpOn

LEMMA AppendedAsked ==
    ASSUME NEW v \in Workers, NEW f, Appended(tfq, tfq', v, f), qcpy' = qcpy, NEW t,
           f.op # "respond" \/ f.obj # t
    PROVE  QueuesOn(t)
BY AppendedAt DEF QueuesOn, Asked

LEMMA AppendedIsAsked ==
    ASSUME NEW v \in Workers, NEW f, Appended(tfq, tfq', v, f), NEW t, f.obj = t
    PROVE  Asked(f.op, t)'
BY DEF Asked, FunctorAt, Appended

LEMMA SameQueues == ASSUME UNCHANGED <<tfq, qcpy>>, NEW t PROVE QueuesOn(t)
BY DEF QueuesOn, Asked

LEMMA SameUpdates ==
    ASSUME NEW t, \A w \in Workers: at[w] = "update" /\ m_events_queue[w] # <<>> /\ Current(w) = t =>
                      at'[w] = "update" /\ m_events_queue'[w] = m_events_queue[w]
    PROVE  UpdatesOn(t)
BY DEF UpdatesOn, Updating, Current

\* The first functor of w's queue has run: the other ones are still there.
LEMMA ShiftedAsked ==
    ASSUME NEW w \in Workers, OtherTypes, Shifted(qcpy, qcpy', w), tfq' = tfq, NEW t, NEW name
    PROVE  /\ Asked(name, t)' => Asked(name, t)
           /\ Asked(name, t) => \/ Asked(name, t)'
                                \/ qcpy[w][1].op = name /\ qcpy[w][1].obj = t
<1>1. Asked(name, t)' => Asked(name, t)
  BY ShiftedAt DEF Asked
<1>2. ASSUME NEW u, NEW i, FunctorAt(qcpy, u, i, name, t), ~(qcpy[w][1].op = name /\ qcpy[w][1].obj = t)
      PROVE  \E v, j: FunctorAt(qcpy', v, j, name, t)
  <2>1. CASE u # w
    <3>1. FunctorAt(qcpy', u, i, name, t)
      BY <1>2, <2>1, ShiftedAt
    <3> QED
      BY <3>1
  <2>2. CASE u = w
    <3>1. i \in DOMAIN qcpy[w] /\ qcpy[w] \in Seq(Functors) /\ i # 1
      BY <1>2, <2>2 DEF FunctorAt, OtherTypes
    <3>2. i > 1
      BY <3>1, QueueFacts
    <3> QED
      BY <1>2, <2>2, <3>2, ShiftedAt
  <2> QED
    BY <2>1, <2>2
<1> QED
  BY <1>1, <1>2 DEF Asked

\* What a functor does to the watcher of t.
LEMMA ExecWatcher ==
    ASSUME ExecTypes, NEW w \in Workers, NEW f \in Functors, Exec(w, f), NEW t \in Tasks
    PROVE  /\ f.op # "respond" \/ f.obj # t => WatcherOn(t)
           /\ f.op = "update" /\ f.obj = t => m_events'[t] = m_events[t] /\ mask'[t] = m_events[t]
           /\ f.op = "respond" /\ f.obj = t => m_events'[t] = "WRITE" /\ mask'[t] = "WRITE"
<1>1. f.obj \in Tasks
  BY DEF Functors
<1>2. CASE f.op = "start" /\ Start(w, f.obj)
  BY <1>2 DEF Start, WatcherOn
<1>3. CASE f.op = "update" /\ Update(w, f.obj, m_events[f.obj])
  BY <1>1, <1>3 DEF Update, WatcherOn, ExecTypes
<1>4. CASE f.op = "respond" /\ Update(w, f.obj, "WRITE")
  BY <1>1, <1>4 DEF Update, WatcherOn, ExecTypes
<1>5. CASE f.op = "dispose" /\ Dispose(w, f.obj)
  BY <1>5 DEF Dispose, WatcherOn
<1>6. CASE f.op = "add" /\ Add(w, f.obj)
  BY <1>1, <1>6 DEF Add, WatcherOn, ExecTypes
<1>7. CASE f.op = "event" /\ AddEvent(w, f.obj)
  BY <1>7 DEF AddEvent, WatcherOn
<1>8. CASE f.op = "stop" /\ Stop(w, f.obj)
  BY <1>8 DEF Stop, WatcherOn
<1> QED
  BY <1>2, <1>3, <1>4, <1>5, <1>6, <1>7, <1>8 DEF Exec

\* What a handler has run or queued, but for the update of t.
LEMMA ContextOn ==
    ASSUME ExecTypes, CallTypes, ThreadPart, NEW w \in Workers, NEW v \in Workers, NEW o \in Tasks,
           NEW name \in {"start", "stop", "update", "dispose", "add"}, at[w] \notin {"calls", "async"},
           exec_in_worker_ctx(w, v, Functor(name, o)), qcpy' = qcpy, NEW t \in Tasks
    PROVE  /\ WatcherOn(t) /\ QueuesOn(t) /\ m_events_queue' = m_events_queue
           /\ name = "update" /\ o = t =>
                 \/ m_events'[t] = m_events[t] /\ mask'[t] = m_events[t]
                 \/ Asked("update", t)'
<1>1. PICK f \in Functors: f = Functor(name, o) /\ f.op = name /\ f.obj = o
  BY FunctorFacts
<1>2. m_events_queue' = m_events_queue
  BY HandlerContext
<1>3. CASE v \in leaders /\ w = v
  <2>1. Exec(v, f) /\ tfq' = tfq
    BY <1>1, <1>3 DEF exec_in_worker_ctx, callVars
  <2> QED
    BY <1>1, <1>2, <2>1, ExecWatcher, SameQueues
<1>4. CASE ~(v \in leaders /\ w = v)
  <2>1. async_call(v, f) /\ UNCHANGED execVars
    BY <1>1, <1>4 DEF exec_in_worker_ctx
  <2>2. Appended(tfq, tfq', v, f)
    BY <2>1, CallCalled
  <2>3. WatcherOn(t)
    BY <2>1 DEF execVars, WatcherOn
  <2>4. name = "update" /\ o = t => Asked("update", t)'
    BY <1>1, <2>2, AppendedIsAsked
  <2> QED
    BY <1>1, <1>2, <2>2, <2>3, <2>4, AppendedAsked
<1> QED
  BY <1>3, <1>4

LEMMA ResponseStep ==
    ASSUME RespondersServed, PlaceInv, NEW t \in AsyncTasks, ResponseOK(t), [Next]_vars
    PROVE  ResponseOK(t)'
<1> USE DEF threadVars, execVars, callVars, asyncVars
<1>0. /\ ExecTypes /\ CallTypes /\ OtherTypes /\ AsyncTypes /\ ThreadPart /\ RefPart /\ PlacePart
      /\ AssignedPart /\ t \in Tasks /\ t \in IoTasks /\ t \in AsyncTasks
  BY TypeParts, KindFacts DEF PlaceInv
<1>a. \A w \in Workers: \A p: at' = [at EXCEPT ![w] = p] => \A v \in Workers: v # w => at'[v] = at[v]
  BY <1>0 DEF OtherTypes
\* The thread of w goes to another place; w is not about to update t.
<1>b. ASSUME NEW w \in Workers, NEW p, at' = [at EXCEPT ![w] = p], m_events_queue' = m_events_queue,
             at[w] # "update" \/ Current(w) # t
      PROVE  UpdatesOn(t)
  BY <1>a, <1>b, SameUpdates
<1>1. ASSUME NEW w \in Workers, NEW fired \in SUBSET Objects, EventLoop(w, fired) PROVE ResponseOK(t)'
  <2>1. OpOn(t) /\ WatcherOn(t) /\ QueuesOn(t)
    BY <1>1, SameQueues DEF EventLoop, OpOn, WatcherOn
  <2>2. UpdatesOn(t)
    BY <1>1, <1>b DEF EventLoop, Goto
  <2> QED
    BY <2>1, <2>2, PartOn
<1>2. ASSUME NEW w \in Workers, NEW o \in Objects, EventCallback(w, o) \/ SignalCallback(w, o) PROVE ResponseOK(t)'
  <2>1. OpOn(t) /\ WatcherOn(t) /\ QueuesOn(t)
    BY <1>2, SameQueues DEF EventCallback, SignalCallback, OpOn, WatcherOn
  <2>2. at' = at /\ at[w] = "calls" /\ \A v \in Workers: v # w => m_events_queue'[v] = m_events_queue[v]
    BY <1>0, <1>2 DEF EventCallback, SignalCallback, ExecTypes
  <2>3. UpdatesOn(t)
    BY <2>2, SameUpdates
  <2> QED
    BY <2>1, <2>3, PartOn
<1>3. ASSUME NEW w \in Workers, NEW v \in Workers, AsyncCallback(w, v) PROVE ResponseOK(t)'
  <2>1. OpOn(t) /\ WatcherOn(t)
    BY <1>3 DEF AsyncCallback, OpOn, WatcherOn
  <2>2. ASSUME NEW name PROVE Asked(name, t)' <=> Asked(name, t)
    <3>1. ASSUME NEW u, NEW i, FunctorAt(tfq, u, i, name, t) PROVE Asked(name, t)'
      BY <1>3, <3>1, TakenAt DEF Asked, RespondersServed
    <3>2. ASSUME NEW u, NEW i, FunctorAt(qcpy, u, i, name, t) PROVE Asked(name, t)'
      BY <1>3, <3>2, TakenAt DEF Asked
    <3>3. ASSUME NEW u, NEW i, FunctorAt(tfq', u, i, name, t) \/ FunctorAt(qcpy', u, i, name, t)
          PROVE  Asked(name, t)
      BY <1>3, <3>3, TakenAt DEF Asked
    <3> QED
      BY <3>1, <3>2, <3>3 DEF Asked
  <2>3. QueuesOn(t)
    BY <2>2 DEF QueuesOn
  <2>4. UpdatesOn(t)
    BY <1>3, <1>b DEF AsyncCallback, Goto
  <2> QED
    BY <2>1, <2>3, <2>4, PartOn
<1>4. ASSUME NEW w \in Workers, RunFunctor(w) PROVE ResponseOK(t)'
  <2>1. qcpy[w] \in Seq(Functors) /\ qcpy[w] # <<>> /\ at[w] = "async" /\ at' = at /\ w \in leaders
    BY <1>0, <1>4 DEF RunFunctor, OtherTypes, ThreadPart, WorkerOK
  <2>2. PICK f \in Functors: f = Head(qcpy[w]) /\ f = qcpy[w][1]
    BY <2>1, QueueFacts
  <2>3. Exec(w, f) /\ tfq' = tfq
    BY <1>4, <2>1, <2>2 DEF RunFunctor, exec_in_worker_ctx
  <2>4. Shifted(qcpy, qcpy', w)
    BY <1>0, <1>4, <2>1, ShiftQueue DEF RunFunctor, OtherTypes
  <2>5. OpOn(t)
    BY <1>4 DEF RunFunctor, OpOn
  <2>6. \A v \in Workers: v # w => m_events_queue'[v] = m_events_queue[v]
    <3>1. Ran(w, f)
      BY <1>0, <2>1, <2>3, ExecRan
    <3> QED
      BY <3>1 DEF Ran, Appended
  <2>7. UpdatesOn(t)
    BY <2>1, <2>6, SameUpdates
  <2>8. \A name: /\ Asked(name, t)' => Asked(name, t)
                 /\ Asked(name, t) => Asked(name, t)' \/ (f.op = name /\ f.obj = t)
    BY <1>0, <2>2, <2>3, <2>4, ShiftedAsked
  <2>9. CASE f.obj = t /\ f.op = "respond"
    <3>1. m_events'[t] = "WRITE" /\ mask'[t] = "WRITE"
      BY <1>0, <2>3, <2>9, ExecWatcher
    <3> QED
      BY <3>1 DEF ResponseOK
  <2>10. CASE f.obj = t /\ f.op = "update"
    <3>1. Asked("respond", t)' <=> Asked("respond", t)
      BY <2>8, <2>10
    <3>2. m_events'[t] = m_events[t] /\ mask'[t] = m_events[t]
      BY <1>0, <2>3, <2>10, ExecWatcher
    <3> QED
      BY <2>5, <3>1, <3>2, PartSet
  <2>11. CASE f.obj # t \/ f.op \notin {"respond", "update"}
    <3>1. QueuesOn(t)
      BY <2>8, <2>11 DEF QueuesOn
    <3>2. WatcherOn(t)
      BY <1>0, <2>3, <2>11, ExecWatcher
    <3> QED
      BY <2>5, <2>7, <3>1, <3>2, PartOn
  <2> QED
    BY <2>9, <2>10, <2>11
<1>5. ASSUME NEW w \in Workers, AsyncDone(w) \/ HandledAll(w) \/ LoopReturns(w) PROVE ResponseOK(t)'
  <2>1. OpOn(t) /\ WatcherOn(t) /\ QueuesOn(t)
    BY <1>5, SameQueues DEF AsyncDone, HandledAll, LoopReturns, OpOn, WatcherOn
  <2>2. CASE AsyncDone(w) \/ HandledAll(w)
    <3>1. UpdatesOn(t)
      BY <1>b, <2>2 DEF AsyncDone, HandledAll, Goto
    <3> QED
      BY <2>1, <3>1, PartOn
  <2>3. CASE LoopReturns(w)
    <3>1. /\ m_events_queue' = m_events_queue
          /\ \A v \in Workers: at[v] = "update" => at'[v] = "update"
      BY <1>0, <2>3 DEF LoopReturns, OtherTypes
    <3>2. UpdatesOn(t)
      BY <3>1, SameUpdates
    <3> QED
      BY <2>1, <3>2, PartOn
  <2> QED
    BY <1>5, <2>2, <2>3
<1>6. ASSUME NEW w \in Workers, Pop(w) PROVE ResponseOK(t)'
  <2>1. OpOn(t) /\ WatcherOn(t) /\ QueuesOn(t)
    BY <1>6, SameQueues DEF Pop, OpOn, WatcherOn
  <2>2. at[w] = "pop" /\ \A v \in Workers: v # w => at'[v] = at[v] /\ m_events_queue'[v] = m_events_queue[v]
    BY <1>0, <1>6, <1>a DEF Pop, Goto, ExecTypes
  <2>3. UpdatesOn(t)
    BY <2>2, SameUpdates
  <2> QED
    BY <2>1, <2>3, PartOn
<1>7. ASSUME NEW w \in Workers, NEW o \in Tasks,
             HandlePlain(w, o) \/ HandleEnd(w, o) \/ HandleAsync(w, o) \/ HandleConnect(w, o)
      PROVE  ResponseOK(t)'
  <2>1. UpdatesOn(t)
    BY <1>7, <1>b DEF HandlePlain, HandleEnd, HandleAsync, HandleConnect, Goto
  <2>2. QueuesOn(t)
    BY <1>7, SameQueues DEF HandlePlain, HandleEnd, HandleAsync, HandleConnect
  <2>3. OpOn(t)
    <3>1. CASE HandleEnd(w, o)
      BY <1>0, <3>1 DEF HandleEnd, OpOn, AsyncTypes
    <3> QED
      BY <1>7, <3>1 DEF HandlePlain, HandleConnect, HandleAsync, OpOn
  <2>4. CASE HandleConnect(w, o) /\ o = t
    <3>1. m_events'[t] = "WRITE" /\ mask'[t] = "WRITE"
      BY <1>0, <2>4 DEF HandleConnect, ExecTypes
    <3> QED
      BY <3>1 DEF ResponseOK
  <2>5. CASE ~(HandleConnect(w, o) /\ o = t)
    <3>1. WatcherOn(t)
      <4>1. CASE HandleConnect(w, o) /\ o # t
        BY <1>0, <4>1 DEF HandleConnect, WatcherOn, ExecTypes
      <4> QED
        BY <1>7, <2>5, <4>1 DEF HandlePlain, HandleEnd, HandleAsync, WatcherOn
    <3> QED
      BY <2>1, <2>2, <2>3, <3>1, PartOn
  <2> QED
    BY <2>4, <2>5
<1>8. ASSUME NEW w \in Workers, NEW o \in Tasks, HandleSetEvents(w, o) PROVE ResponseOK(t)'
  <2>1. QueuesOn(t)
    BY <1>8, SameQueues DEF HandleSetEvents
  <2>2. CASE o # t
    <3>1. OpOn(t) /\ WatcherOn(t)
      BY <1>0, <1>8, <2>2 DEF HandleSetEvents, OpOn, WatcherOn, ExecTypes, AsyncTypes
    <3>2. UpdatesOn(t)
      BY <1>8, <1>b DEF HandleSetEvents, Goto
    <3> QED
      BY <2>1, <3>1, <3>2, PartOn
  <2>3. CASE o = t
    <3>1. m_events'[t] = "WRITE"
      BY <1>0, <1>8, <2>3 DEF HandleSetEvents, ExecTypes
    <3>2. Updating(t)'
      <4>1. at'[w] = "update" /\ m_events_queue[w] # <<>> /\ m_events_queue' = m_events_queue /\ Current(w) = t
        BY <1>0, <1>8, <2>3 DEF HandleSetEvents, Goto, Handles, OtherTypes
      <4> QED
        BY <4>1 DEF Updating, Current
    <3> QED
      BY <3>1, <3>2 DEF ResponseOK
  <2> QED
    BY <2>2, <2>3
<1>9. ASSUME NEW w \in Workers, NEW o \in Tasks, HandleUpdate(w, o) PROVE ResponseOK(t)'
  <2>1. /\ at[w] = "update" /\ at' = [at EXCEPT ![w] = "cont"] /\ Current(w) = o
        /\ exec_in_worker_ctx(w, w, Functor("update", o)) /\ qcpy' = qcpy
    BY <1>9 DEF HandleUpdate, Handles, Goto
  <2>2. OpOn(t)
    BY <1>9 DEF HandleUpdate, OpOn
  <2>3. /\ WatcherOn(t) /\ QueuesOn(t) /\ m_events_queue' = m_events_queue
        /\ o = t => \/ m_events'[t] = m_events[t] /\ mask'[t] = m_events[t]
                    \/ Asked("update", t)'
    BY <1>0, <2>1, ContextOn
  <2>4. CASE o # t
    <3>1. UpdatesOn(t)
      BY <1>b, <2>1, <2>3, <2>4
    <3> QED
      BY <2>2, <2>3, <3>1, PartOn
  <2>5. CASE o = t /\ m_events'[t] = m_events[t] /\ mask'[t] = m_events[t]
    BY <2>2, <2>3, <2>5, PartSet DEF QueuesOn
  <2>6. CASE Asked("update", t)'
    BY <2>2, <2>3, <2>6 DEF ResponseOK, OpOn, WatcherOn, QueuesOn
  <2> QED
    BY <2>3, <2>4, <2>5, <2>6
\* Handlers that have other functors run.
<1>10. ASSUME NEW w \in Workers, NEW v \in Workers, NEW o \in Tasks, NEW name \in {"start", "stop", "dispose", "add"},
              exec_in_worker_ctx(w, v, Functor(name, o)), at[w] \notin {"calls", "async", "update"}, NEW p,
              at' = [at EXCEPT ![w] = p], UNCHANGED <<qcpy, reply>>
       PROVE  ResponseOK(t)'
  <2>1. WatcherOn(t) /\ QueuesOn(t) /\ m_events_queue' = m_events_queue
    BY <1>0, <1>10, ContextOn
  <2>2. UpdatesOn(t)
    BY <1>10, <1>b, <2>1
  <2>3. OpOn(t)
    BY <1>10 DEF OpOn
  <2> QED
    BY <2>1, <2>2, <2>3, PartOn
<1>11. ASSUME NEW w \in Workers, NEW o \in Tasks, HandleStop(w, o) \/ HandleReadd(w, o) \/ Continue(w, o)
       PROVE  ResponseOK(t)'
  <2>1. /\ \E name \in {"start", "stop"}: exec_in_worker_ctx(w, w, Functor(name, o))
        /\ UNCHANGED <<qcpy, reply>>
        /\ at[w] \in {"handle", "connect", "cont"} /\ \E p: at' = [at EXCEPT ![w] = p]
    BY <1>11 DEF HandleStop, HandleReadd, Continue, Goto
  <2> QED
    BY <1>10, <2>1
<1>12. ASSUME NEW w \in Workers, NEW o \in IoTasks, NEW n \in IoTasks, HandleAccept(w, o, n) PROVE ResponseOK(t)'
  <2>1. /\ exec_in_worker_ctx(w, w, Functor("add", n)) /\ UNCHANGED <<qcpy, reply>>
        /\ at[w] = "handle" /\ \E p: at' = [at EXCEPT ![w] = p]
    BY <1>12 DEF HandleAccept, Goto
  <2> QED
    BY <1>10, <2>1, KindFacts
<1>13. ASSUME NEW w \in Workers, NEW s \in AsyncTasks, HandleCleanup(w, s) PROVE ResponseOK(t)'
  <2>1. CASE m_can_dispose[s]
    <3>1. /\ exec_in_worker_ctx(w, w, Functor("dispose", s)) /\ UNCHANGED <<qcpy, reply>>
          /\ at[w] = "handle" /\ \E p: at' = [at EXCEPT ![w] = p]
      BY <1>13, <2>1 DEF HandleCleanup, Goto
    <3> QED
      BY <1>10, <3>1, KindFacts
  <2>2. CASE ~m_can_dispose[s]
    <3>1. UpdatesOn(t)
      BY <1>13, <1>b, <2>2 DEF HandleCleanup, Goto
    <3>2. OpOn(t) /\ WatcherOn(t) /\ QueuesOn(t)
      BY <1>13, <2>2, SameQueues DEF HandleCleanup, OpOn, WatcherOn
    <3> QED
      BY <3>1, <3>2, PartOn
  <2> QED
    BY <2>1, <2>2
<1>14. ASSUME NEW w \in Workers, NEW o \in Tasks, FinishDelete(w, o) \/ FinishLater(w, o) PROVE ResponseOK(t)'
  <2>1. UpdatesOn(t)
    BY <1>14, <1>b DEF FinishDelete, FinishLater, Goto
  <2>2. OpOn(t) /\ WatcherOn(t) /\ QueuesOn(t)
    BY <1>14, SameQueues DEF FinishDelete, FinishLater, OpOn, WatcherOn
  <2> QED
    BY <2>1, <2>2, PartOn
<1>15. ASSUME NEW w \in Workers, NEW o \in Tasks, FinishDispose(w, o) \/ StartCleanup(w, o) PROVE ResponseOK(t)'
  <2>1. m_events_queue[w] # <<>> /\ Current(w) = o /\ UNCHANGED <<qcpy, reply>>
    BY <1>15 DEF FinishDispose, StartCleanup, Handles
  <2>2. at[w] \in {"end", "clean"} /\ \E p: at' = [at EXCEPT ![w] = p]
    BY <1>15 DEF FinishDispose, StartCleanup, Goto
  <2>3. o \in created
    BY <1>0, <2>1, CurrentFacts
  <2>4. CASE FinishDispose(w, o)
    <3>1. o \in IoTasks /\ exec_in_worker_ctx(w, get_worker_by_task(w, o), Functor("dispose", o))
      BY <2>4 DEF FinishDispose, CanDispose
    <3>2. get_worker_by_task(w, o) \in Workers
      BY <1>0, <2>3, <3>1, GetWorkerType
    <3> QED
      BY <1>10, <2>1, <2>2, <3>1, <3>2
  <2>5. CASE StartCleanup(w, o)
    <3>1. /\ o \in AsyncTasks
          /\ exec_in_worker_ctx(w, get_worker_by_task(w, o), Functor("start", Cleanup(o)))
      BY <1>0, <2>1, <2>5 DEF StartCleanup, Goto, PlacePart
    <3>2. get_worker_by_task(w, o) \in Workers /\ Cleanup(o) \in Tasks
      BY <1>0, <2>3, <3>1, GetWorkerType, KindFacts
    <3> QED
      BY <1>10, <2>1, <2>2, <3>1, <3>2
  <2> QED
    BY <1>15, <2>4, <2>5
\* Threads that are no workers.
<1>16. ASSUME NEW w \in Workers, NEW f \in Functors, async_call(w, f), f.op # "respond" \/ f.obj # t, OpOn(t),
              WatcherOn(t), UNCHANGED <<at, m_events_queue, qcpy>>
       PROVE  ResponseOK(t)'
  <2>1. QueuesOn(t)
    BY <1>0, <1>16, CallCalled, AppendedAsked
  <2>2. UpdatesOn(t)
    BY <1>16, SameUpdates
  <2> QED
    BY <1>16, <2>1, <2>2, PartOn
<1>17. ASSUME NEW w \in Workers, NEW o \in Tasks, AddTask(o, w) \/ AddDiskTask(o, w) PROVE ResponseOK(t)'
  <2>1. OpOn(t) /\ UNCHANGED <<at, m_events_queue, qcpy>>
    BY <1>17 DEF AddTask, AddDiskTask, OpOn
  <2>2. WatcherOn(t)
    BY <1>0, <1>17 DEF AddTask, AddDiskTask, WatcherOn, ExecTypes
  <2>3. PICK name \in {"start", "event"}: async_call(w, Functor(name, o))
    BY <1>17 DEF AddTask, AddDiskTask
  <2>4. Functor(name, o) \in Functors /\ Functor(name, o).op # "respond"
    BY FunctorFacts
  <2> QED
    BY <1>16, <2>1, <2>2, <2>3, <2>4
<1>18. ASSUME NEW s \in IoTasks, NEW w \in Workers, RemoveTask(s, w) PROVE ResponseOK(t)'
  <2>1. OpOn(t) /\ WatcherOn(t) /\ UNCHANGED <<at, m_events_queue, qcpy>>
    BY <1>18 DEF RemoveTask, OpOn, WatcherOn
  <2>2. PICK f \in Functors: async_call(w, f) /\ f.op # "respond"
    <3>1. CASE CanDispose(s)
      <4>1. async_call(w, Functor("dispose", s))
        BY <1>18, <3>1 DEF RemoveTask
      <4>2. Functor("dispose", s) \in Functors /\ Functor("dispose", s).op # "respond"
        BY KindFacts, FunctorFacts
      <4> QED
        BY <4>1, <4>2
    <3>2. CASE ~CanDispose(s)
      <4>1. async_call(w, Functor("start", Removal(s))) /\ s \in AsyncTasks
        BY <1>18, <3>2 DEF RemoveTask, CanDispose
      <4>2. Functor("start", Removal(s)) \in Functors /\ Functor("start", Removal(s)).op # "respond"
        BY <4>1, KindFacts, FunctorFacts
      <4> QED
        BY <4>1, <4>2
    <3> QED
      BY <3>1, <3>2
  <2> QED
    BY <1>16, <2>1, <2>2
<1>19. ASSUME NEW s \in AsyncTasks, NEW w \in Workers, QueueResponse(s, w) PROVE ResponseOK(t)'
  <2>1. PICK f \in Functors: f = Functor("respond", s) /\ f.op = "respond" /\ f.obj = s
    BY KindFacts, FunctorFacts
  <2>2. async_call(w, f) /\ UNCHANGED <<at, m_events_queue, qcpy>>
    BY <1>19, <2>1 DEF QueueResponse
  <2>3. CASE s # t
    <3>1. OpOn(t) /\ WatcherOn(t)
      BY <1>0, <1>19, <2>3 DEF QueueResponse, OpOn, WatcherOn, AsyncTypes
    <3> QED
      BY <1>16, <2>1, <2>2, <2>3, <3>1
  <2>4. CASE s = t
    <3>1. Asked("respond", t)'
      BY <1>0, <2>1, <2>2, <2>4, CallCalled, AppendedIsAsked
    <3> QED
      BY <3>1 DEF ResponseOK
  <2> QED
    BY <2>3, <2>4
<1>20. ASSUME \/ UNCHANGED vars \/ Crash \/ \E o \in Timers: AddImmediate(o)
              \/ \E s \in AsyncTasks: FinishAsync(s) \/ EnableDispose(s)
       PROVE  ResponseOK(t)'
  <2>1. UNCHANGED <<at, m_events_queue, tfq, qcpy, m_events, mask, reply>>
    BY <1>20 DEF vars, Crash, AddImmediate, FinishAsync, EnableDispose
  <2>2. WatcherOn(t) /\ QueuesOn(t) /\ UpdatesOn(t)
    BY <2>1, SameQueues, SameUpdates DEF WatcherOn
  <2>3. OpOn(t)
    BY <2>1 DEF OpOn
  <2> QED
    BY <2>2, <2>3, PartOn
<1> QED
  BY <1>1, <1>2, <1>3, <1>4, <1>5, <1>6, <1>7, <1>8, <1>9, <1>11, <1>12, <1>13, <1>14, <1>15, <1>17, <1>18,
     <1>19, <1>20 DEF Next, ThreadStep, AsyncStep

\* send_response is queued with whatever worker get_worker_by_task finds, and an
\* update with the handler's own: whatever the order in which the loop runs
\* them, and whoever removes tasks, a task that has a response to send and is
\* watched again is not left waiting for something to read.
THEOREM ResponsesWatched ==
    ASSUME RespondersServed
    PROVE  Spec => []ResponseWatched
<1>1. Init => ResponseInv
  <2> SUFFICES ASSUME Init PROVE ResponsePart
    BY TokenInit DEF ResponseInv
  <2>1. ASSUME NEW t \in AsyncTasks PROVE ResponseOK(t)
    <3>1. reply[t] = "none"
      BY DEF Init
    <3> QED
      BY <3>1 DEF ResponseOK
  <2> QED
    BY <2>1 DEF ResponsePart
<1>2. ResponseInv /\ [Next]_vars => ResponseInv'
  <2> SUFFICES ASSUME ResponseInv, [Next]_vars PROVE ResponseInv'
    OBVIOUS
  <2>1. TokenInv'
    BY TokenStep DEF ResponseInv, RespondersServed, OwnLoop
  <2>2. ASSUME NEW t \in AsyncTasks PROVE ResponseOK(t)'
    BY ResponseStep DEF ResponseInv, ResponsePart, TokenInv
  <2>3. ResponsePart'
    BY <2>2 DEF ResponsePart
  <2> QED
    BY <2>1, <2>3 DEF ResponseInv
<1>3. ResponseInv => ResponseWatched
  <2> SUFFICES ASSUME ResponseInv, NEW t \in AsyncTasks, reply[t] = "waiting", active[t] # None, ~Queued(t)
               PROVE  mask[t] = "WRITE"
    BY DEF ResponseWatched
  <2>1. ExecTypes /\ CallTypes /\ OtherTypes /\ t \in Tasks
    BY TypeParts, KindFacts, EventTasksAssumption DEF ResponseInv, TokenInv, PlaceInv
  <2>2. \A name: ~Asked(name, t)
    BY DEF Asked, Queued, FunctorAt
  <2>3. ~Updating(t)
    <3> SUFFICES ASSUME NEW w \in Workers, at[w] = "update", m_events_queue[w] # <<>>, Current(w) = t
                 PROVE  FALSE
      BY DEF Updating
    <3>1. Token("event", w, 1, t)
      BY <2>1, CurrentToken
    <3>2. ~Rewatched(t, active[t])
      <4> SUFFICES ASSUME Rewatched(t, active[t]) PROVE FALSE
        OBVIOUS
      <4>1. PICK l \in Workers: l = active[t] /\ at[l] = "cont" /\ m_events_queue[l] # <<>> /\ Current(l) = t
        BY DEF Rewatched
      <4>2. Token("event", l, 1, t)
        BY <2>1, <4>1, CurrentToken
      <4>3. l = w
        BY <2>1, <3>1, <4>2 DEF ResponseInv, TokenInv, TokenPart, One
      <4> QED
        BY <4>1, <4>3
    <3>3. Token("watch", active[t], 0, t)
      BY <3>2 DEF Token, WatchTok
    <3> QED
      BY <2>1, <3>1, <3>3 DEF ResponseInv, TokenInv, TokenPart, One
  <2> QED
    BY <2>2, <2>3 DEF ResponseInv, ResponsePart, ResponseOK
<1> QED
  BY <1>1, <1>2, <1>3, PTL DEF Spec
=============================================================================
