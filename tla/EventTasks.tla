----------------------------- MODULE EventTasks -----------------------------
(***************************************************************************)
(* The life of event tasks: added to a loop, fired, handled by a worker,   *)
(* watched again, finished, disposed of and deleted.                       *)
(*                                                                         *)
(* Everything that touches a watcher is a functor that exec_in_worker_ctx  *)
(* runs at once on the leader's own thread, or queues with a worker, to be *)
(* run by whoever leads when the loop serves that worker's async watcher.  *)
(* The workers are the ones of module Dispatcher after start(), with a     *)
(* promotion as one step, which is what its refinement of LeaderFollowers  *)
(* allows.                                                                 *)
(*                                                                         *)
(* The model stops (crashed) at the first access to a deleted object.      *)
(***************************************************************************)
EXTENDS Sequences, Naturals

CONSTANTS
    Workers, RunMode,
    IoTasks,            \* net_io_tasks
    AsyncTasks,         \* the async processors: another thread does the work and answers
    Reconnecting,       \* http_senders that connect elsewhere from their handler
    Timers, DiskTasks,
    Signals,            \* the signal handlers added before start
    OutsideRemoval,     \* TRUE: threads that are no workers call remove_task
    NDebug,             \* TRUE: the build drops assert
    None

ASSUME EventTasksAssumption ==
    /\ RunMode \in {"SINGLE_LOOP", "MULTI_LOOP"}
    /\ AsyncTasks \subseteq IoTasks
    /\ Reconnecting \subseteq IoTasks
    /\ OutsideRemoval \in BOOLEAN /\ NDebug \in BOOLEAN
    /\ IoTasks \cap Timers = {} /\ (IoTasks \cup Timers) \cap DiskTasks = {}
    /\ None \notin Workers \cup {"default"}

SingleLoop == RunMode = "SINGLE_LOOP"

\* The cleanup_tasks that retry the disposal of t: one that its worker creates,
\* and one that the application's remove_task creates.
Cleanup(t) == <<"finish", t>>
Removal(t) == <<"remove", t>>
Cleanups == {Cleanup(t): t \in AsyncTasks} \cup {Removal(t): t \in AsyncTasks}
Tasks == IoTasks \cup Timers \cup DiskTasks \cup Cleanups
Objects == Tasks \cup Signals

\* An object is of one kind.
ASSUME KindsAssumption ==
    /\ Cleanups \cap (IoTasks \cup Timers \cup DiskTasks) = {}
    /\ Tasks \cap Signals = {} /\ Workers \cap Objects = {}

\* A mutated form of loop_ptr: the default loop in every run mode.
loop_ptr_default(w) == "default"

\* The loop that worker w's async watcher belongs to.
Loops == IF SingleLoop THEN {"default"} ELSE Workers
loop_ptr(w) == IF SingleLoop THEN "default" ELSE w

Masks == {"READ", "WRITE"}
Functors == [op: {"start", "stop", "update", "respond", "dispose", "add", "event"}, obj: Tasks]
Events == [obj: Tasks, revents: Masks]

VARIABLES
    leaders,        \* the workers that run a loop
    at,             \* per worker: where its thread is
    todo,           \* per worker: the watchers whose callbacks this iteration still calls
    qcpy,           \* per worker: the functors it is running
    m_events_queue, \* per worker
    tfq,            \* per worker: the functors queued with its async watcher
    sent,           \* the workers whose async watcher was sent and not served
    created, deleted,   \* the objects that were created, and deleted again
    m_worker,       \* per task: the assigned worker, in MULTI_LOOP mode
    active,         \* per object: the loop its watcher is active in
    m_events, mask, \* per task: the events it wants, the events its watcher has
    m_can_dispose, error, op, reply,    \* per async task
    replaced,       \* the async tasks whose handler was deleted while it was at work
    disposed,       \* the tasks that outside threads have removed
    crashed

threadVars == <<leaders, at, qcpy>>
execVars == <<todo, m_events_queue, deleted, m_worker, active, m_events, mask>>
callVars == <<tfq, sent>>
asyncVars == <<m_can_dispose, error, op, reply, replaced>>
vars == <<threadVars, execVars, callVars, asyncVars, created, disposed, crashed>>

Places == {"free", "loop", "calls", "async", "handle", "update", "close", "connect", "cont",
           "end", "clean", "pop"}

\* An async handler is at work: until its callback has returned it uses the task.
Working == {"running", "send", "enable"}

TypeOK ==
    /\ leaders \subseteq Workers
    /\ at \in [Workers -> Places]
    /\ todo \in [Workers -> SUBSET (Objects \cup Workers)]
    /\ qcpy \in [Workers -> Seq(Functors)]
    /\ m_events_queue \in [Workers -> Seq(Events)]
    /\ tfq \in [Workers -> Seq(Functors)]
    /\ sent \subseteq Workers
    /\ created \subseteq Objects
    /\ deleted \subseteq created
    /\ m_worker \in [Tasks -> Workers \cup {None}]
    /\ active \in [Objects -> Loops \cup {None}]
    /\ m_events \in [Tasks -> Masks]
    /\ mask \in [Tasks -> Masks]
    /\ m_can_dispose \in [AsyncTasks -> BOOLEAN]
    /\ error \in [AsyncTasks -> BOOLEAN]
    /\ op \in [AsyncTasks -> Working \cup {"none", "done"}]
    /\ reply \in [AsyncTasks -> {"none", "waiting", "written"}]
    /\ replaced \subseteq AsyncTasks
    /\ disposed \subseteq IoTasks
    /\ crashed \in BOOLEAN

\* After start: one worker leads, or every worker does.
Init ==
    /\ leaders \in IF SingleLoop THEN {{w}: w \in Workers} ELSE {Workers}
    /\ at = [w \in Workers |-> IF w \in leaders THEN "loop" ELSE "free"]
    /\ todo = [w \in Workers |-> {}]
    /\ qcpy = [w \in Workers |-> <<>>]
    /\ m_events_queue = [w \in Workers |-> <<>>]
    /\ tfq = [w \in Workers |-> <<>>]
    /\ sent = {}
    /\ created = Signals
    /\ deleted = {}
    /\ m_worker = [o \in Tasks |-> None]
    /\ \E l \in Loops: active = [o \in Objects |-> IF o \in Signals THEN l ELSE None]
    /\ m_events = [o \in Tasks |-> "READ"]
    /\ mask = [o \in Tasks |-> "READ"]
    /\ m_can_dispose = [t \in AsyncTasks |-> TRUE]
    /\ error = [t \in AsyncTasks |-> FALSE]
    /\ op = [t \in AsyncTasks |-> "none"]
    /\ reply = [t \in AsyncTasks |-> "none"]
    /\ replaced = {}
    /\ disposed = {}
    /\ crashed = FALSE
-----------------------------------------------------------------------------
(* Functors                                                                *)

\* start_watcher
Start(w, o) ==
    /\ active' = [active EXCEPT ![o] = IF @ = None THEN loop_ptr(w) ELSE @]
    /\ UNCHANGED <<todo, m_events_queue, deleted, m_worker, m_events, mask>>

\* stop_watcher: ev_io_stop also drops a pending callback.
Stop(w, o) ==
    /\ active' = [active EXCEPT ![o] = None]
    /\ todo' = [todo EXCEPT ![w] = @ \ {o}]
    /\ UNCHANGED <<m_events_queue, deleted, m_worker, m_events, mask>>

\* A mutated form of Update: ev_io_set is missing.
Update_unset(w, o, events) ==
    /\ m_events' = [m_events EXCEPT ![o] = events]
    /\ UNCHANGED <<todo, mask, m_events_queue, deleted, m_worker, active>>

\* update_watcher: ev_io_stop and ev_io_start around ev_io_set.  It is skipped when
\* no change is pending; then it would set what is set, or queued to be set.
Update(w, o, events) ==
    /\ m_events' = [m_events EXCEPT ![o] = events]
    /\ mask' = [mask EXCEPT ![o] = events]
    /\ todo' = [todo EXCEPT ![w] = @ \ {o}]
    /\ UNCHANGED <<m_events_queue, deleted, m_worker, active>>

\* dispose: stop the watcher and delete this.
Dispose(w, o) ==
    /\ active' = [active EXCEPT ![o] = None]
    /\ todo' = [todo EXCEPT ![w] = @ \ {o}]
    /\ deleted' = deleted \cup {o}
    /\ UNCHANGED <<m_events_queue, m_worker, m_events, mask>>

\* event_task::assign_worker
assign_worker(o, w) ==
    m_worker' = [m_worker EXCEPT ![o] = IF SingleLoop \/ @ # None THEN @ ELSE w]

\* net_io_task::add_task: init_watcher, assign_worker and ev_io_start.
Add(w, o) ==
    /\ assign_worker(o, w)
    /\ mask' = [mask EXCEPT ![o] = m_events[o]]
    /\ active' = [active EXCEPT ![o] = IF @ = None THEN loop_ptr(w) ELSE @]
    /\ UNCHANGED <<todo, m_events_queue, deleted, m_events>>

\* add_async_event
AddEvent(w, o) ==
    /\ m_events_queue' = [m_events_queue EXCEPT ![w] = Append(@, [obj |-> o, revents |-> mask[o]])]
    /\ UNCHANGED <<todo, deleted, m_worker, active, m_events, mask>>

\* Functor f runs on the thread of worker w, which leads.
Exec(w, f) ==
    \/ f.op = "start" /\ Start(w, f.obj)
    \/ f.op = "stop" /\ Stop(w, f.obj)
    \/ f.op = "update" /\ Update(w, f.obj, m_events[f.obj])
    \/ f.op = "respond" /\ Update(w, f.obj, "WRITE")
    \/ f.op = "dispose" /\ Dispose(w, f.obj)
    \/ f.op = "add" /\ Add(w, f.obj)
    \/ f.op = "event" /\ AddEvent(w, f.obj)

Functor(name, o) == [op |-> name, obj |-> o]

\* async_call: the functor is queued with worker w, whose async watcher is sent.
async_call(w, f) ==
    /\ ~crashed
    /\ tfq' = [tfq EXCEPT ![w] = Append(@, f)]
    /\ sent' = sent \cup {w}

\* exec_in_worker_ctx of worker w, called by the thread of worker self.
exec_in_worker_ctx(self, w, f) ==
    IF w \in leaders /\ self = w
      THEN Exec(w, f) /\ UNCHANGED callVars
      ELSE async_call(w, f) /\ UNCHANGED execVars
-----------------------------------------------------------------------------
(* The leader's thread: ev_loop and the callbacks                          *)

Goto(w, place, next) == ~crashed /\ at[w] = place /\ at' = [at EXCEPT ![w] = next]

\* The iteration starts: some of the active watchers fired, and every async
\* watcher that was sent is served.
EventLoop(w, fired) ==
    LET calls == {v \in sent: loop_ptr(v) = loop_ptr(w)} IN
    /\ Goto(w, "loop", "calls")
    /\ fired \subseteq {o \in Objects: active[o] = loop_ptr(w)}
    /\ fired \cup calls # {}
    /\ todo' = [todo EXCEPT ![w] = fired \cup calls]
    /\ sent' = sent \ calls
    /\ UNCHANGED <<leaders, qcpy, m_events_queue, deleted, m_worker, active, m_events, mask,
                   tfq, asyncVars, created, disposed, crashed>>

\* A mutated form of EventCallback: the watcher is not stopped.
EventCallback_running(w, o) ==
    /\ ~crashed
    /\ at[w] = "calls" /\ o \in todo[w] \cap (Tasks \ deleted)
    /\ todo' = [todo EXCEPT ![w] = @ \ {o}]
    /\ m_events_queue' =
          [m_events_queue EXCEPT ![w] = Append(@, [obj |-> o, revents |-> mask[o]])]
    /\ UNCHANGED <<threadVars, active, deleted, m_worker, m_events, mask, callVars, asyncVars,
                   created, disposed, crashed>>

\* tasks_event_callback: stop the watcher, queue the event.
EventCallback(w, o) ==
    /\ ~crashed
    /\ at[w] = "calls" /\ o \in todo[w] \cap (Tasks \ deleted)
    /\ active' = [active EXCEPT ![o] = None]
    /\ todo' = [todo EXCEPT ![w] = @ \ {o}]
    /\ m_events_queue' =
          [m_events_queue EXCEPT ![w] = Append(@, [obj |-> o, revents |-> mask[o]])]
    /\ UNCHANGED <<threadVars, deleted, m_worker, m_events, mask, callVars, asyncVars,
                   created, disposed, crashed>>

\* handle_signal: the functor is called and deleted, the watcher stays active.
SignalCallback(w, o) ==
    /\ ~crashed
    /\ at[w] = "calls" /\ o \in todo[w] \cap (Signals \ deleted)
    /\ deleted' = deleted \cup {o}
    /\ todo' = [todo EXCEPT ![w] = @ \ {o}]
    /\ UNCHANGED <<threadVars, m_events_queue, m_worker, active, m_events, mask, callVars,
                   asyncVars, created, disposed, crashed>>

\* tasks_async_callback takes the queue over.  The functors are called inside
\* of assert.
AsyncCallback(w, v) ==
    /\ v \in todo[w] \cap Workers
    /\ Goto(w, "calls", "async")
    /\ todo' = [todo EXCEPT ![w] = @ \ {v}]
    /\ qcpy' = [qcpy EXCEPT ![w] = IF NDebug THEN <<>> ELSE tfq[v]]
    /\ tfq' = [tfq EXCEPT ![v] = <<>>]
    /\ UNCHANGED <<leaders, m_events_queue, deleted, m_worker, active, m_events, mask, sent,
                   asyncVars, created, disposed, crashed>>

RunFunctor(w) ==
    /\ ~crashed
    /\ at[w] = "async" /\ qcpy[w] # <<>>
    /\ Head(qcpy[w]).obj \notin deleted
    /\ exec_in_worker_ctx(w, w, Head(qcpy[w]))
    /\ qcpy' = [qcpy EXCEPT ![w] = Tail(@)]
    /\ UNCHANGED <<leaders, at, asyncVars, created, disposed, crashed>>

AsyncDone(w) ==
    /\ qcpy[w] = <<>>
    /\ Goto(w, "async", "calls")
    /\ UNCHANGED <<leaders, qcpy, execVars, callVars, asyncVars, created, disposed, crashed>>

\* ev_loop returns.  If there are events and a free worker, it is promoted.
LoopReturns(w) ==
    /\ ~crashed
    /\ at[w] = "calls" /\ todo[w] = {}
    /\ LET free == {v \in Workers: at[v] = "free"} IN
       IF m_events_queue[w] # <<>> /\ free # {}
         THEN \E v \in free: /\ leaders' = {v}
                             /\ at' = [at EXCEPT ![w] = "handle", ![v] = "loop"]
         ELSE /\ at' = [at EXCEPT ![w] = IF m_events_queue[w] = <<>> THEN "loop" ELSE "handle"]
              /\ UNCHANGED leaders
    /\ UNCHANGED <<qcpy, execVars, callVars, asyncVars, created, disposed, crashed>>
-----------------------------------------------------------------------------
(* A worker's thread, leader or not: the event handlers                    *)

\* The task whose event worker w handles.
Current(w) == Head(m_events_queue[w]).obj
Handles(w, o) == /\ m_events_queue[w] # <<>>
                 /\ Current(w) = o
                 /\ o \notin deleted

\* handle_event wants to go on: more to read or to write, the timer repeats.
HandlePlain(w, o) ==
    /\ o \in IoTasks \cup Timers
    /\ Handles(w, o)
    /\ Goto(w, "handle", "cont")
    /\ UNCHANGED <<leaders, qcpy, execVars, callVars, asyncVars, created, disposed, crashed>>

\* handle_event is done, or it failed.
HandleEnd(w, o) ==
    /\ o \in Tasks \ Cleanups
    /\ Handles(w, o)
    /\ Goto(w, "handle", "end")
    /\ \/ o \notin AsyncTasks /\ UNCHANGED <<error, reply>>
       \/ o \in AsyncTasks /\ error' = [error EXCEPT ![o] = TRUE] /\ UNCHANGED reply
       \/ /\ o \in AsyncTasks /\ Head(m_events_queue[w]).revents = "WRITE"
          /\ reply' = [reply EXCEPT ![o] = "written"]
          /\ UNCHANGED error
    /\ UNCHANGED <<leaders, qcpy, execVars, callVars, m_can_dispose, op, replaced, created,
                   disposed, crashed>>

\* A request was read: m_handler.reset deletes the handler of the last one, which
\* may be at work.
ResetHandler(o) == replaced' = IF op[o] \in Working THEN replaced \cup {o} ELSE replaced

\* set_events: from reading to writing, or back.  An async task answers a request
\* at once.
HandleSetEvents(w, o) ==
    /\ o \in IoTasks
    /\ Handles(w, o)
    /\ Goto(w, "handle", "update")
    /\ IF o \in AsyncTasks
         THEN /\ Head(m_events_queue[w]).revents = "READ"
              /\ m_events' = [m_events EXCEPT ![o] = "WRITE"]
              /\ ResetHandler(o)
              /\ op' = [op EXCEPT ![o] = "done"]
              /\ reply' = [reply EXCEPT ![o] = "waiting"]
         ELSE /\ m_events' = [m_events EXCEPT ![o] = IF @ = "READ" THEN "WRITE" ELSE "READ"]
              /\ UNCHANGED <<op, reply, replaced>>
    /\ UNCHANGED <<leaders, qcpy, todo, m_events_queue, deleted, m_worker, active, mask,
                   callVars, m_can_dispose, error, created, disposed, crashed>>

\* update_watcher
HandleUpdate(w, o) ==
    /\ Handles(w, o)
    /\ Goto(w, "update", "cont")
    /\ exec_in_worker_ctx(w, w, Functor("update", o))
    /\ UNCHANGED <<leaders, qcpy, asyncVars, created, disposed, crashed>>

\* An acceptor adds a task for the new client.
HandleAccept(w, o, n) ==
    /\ o \in IoTasks \ AsyncTasks /\ n \in IoTasks \ created
    /\ Handles(w, o)
    /\ Goto(w, "handle", "cont")
    /\ created' = created \cup {n}
    /\ exec_in_worker_ctx(w, w, Functor("add", n))
    /\ UNCHANGED <<leaders, qcpy, asyncVars, disposed, crashed>>

\* http_sender::send from the response handler, to another host: stop_watcher ...
HandleStop(w, o) ==
    /\ o \in Reconnecting
    /\ Handles(w, o)
    /\ Goto(w, "handle", "close")
    /\ exec_in_worker_ctx(w, w, Functor("stop", o))
    /\ UNCHANGED <<leaders, qcpy, asyncVars, created, disposed, crashed>>

\* ... close, set_events, connect and, in add_event_task, init_watcher ...
HandleConnect(w, o) ==
    /\ Handles(w, o)
    /\ Goto(w, "close", "connect")
    /\ m_events' = [m_events EXCEPT ![o] = "WRITE"]
    /\ mask' = [mask EXCEPT ![o] = "WRITE"]
    /\ UNCHANGED <<leaders, qcpy, todo, m_events_queue, deleted, m_worker, active, callVars,
                   asyncVars, created, disposed, crashed>>

\* ... then start_watcher.
HandleReadd(w, o) ==
    /\ Handles(w, o)
    /\ Goto(w, "connect", "cont")
    /\ exec_in_worker_ctx(w, w, Functor("start", o))
    /\ UNCHANGED <<leaders, qcpy, asyncVars, created, disposed, crashed>>

\* A request is passed to a new handler, which finishes on another thread.
HandleAsync(w, o) ==
    /\ o \in AsyncTasks
    /\ Handles(w, o)
    /\ Head(m_events_queue[w]).revents = "READ"
    /\ Goto(w, "handle", "cont")
    /\ ResetHandler(o)
    /\ m_can_dispose' = [m_can_dispose EXCEPT ![o] = FALSE]
    /\ op' = [op EXCEPT ![o] = "running"]
    /\ UNCHANGED <<leaders, qcpy, execVars, callVars, error, reply, created, disposed, crashed>>

\* A mutated form of HandleCleanup: it does not retry.
HandleCleanup_once(w, t) ==
    /\ Handles(w, Cleanup(t)) \/ Handles(w, Removal(t))
    /\ t \notin deleted
    /\ Goto(w, "handle", "end")
    /\ IF m_can_dispose[t]
         THEN exec_in_worker_ctx(w, w, Functor("dispose", t))
         ELSE UNCHANGED <<execVars, callVars>>
    /\ UNCHANGED <<leaders, qcpy, asyncVars, created, disposed, crashed>>

\* cleanup_task::handle_event: dispose of t, or retry.
HandleCleanup(w, t) ==
    /\ Handles(w, Cleanup(t)) \/ Handles(w, Removal(t))
    /\ t \notin deleted
    /\ IF m_can_dispose[t]
         THEN /\ Goto(w, "handle", "end")
              /\ exec_in_worker_ctx(w, w, Functor("dispose", t))
         ELSE Goto(w, "handle", "cont") /\ UNCHANGED <<execVars, callVars>>
    /\ UNCHANGED <<leaders, qcpy, asyncVars, created, disposed, crashed>>

\* The worker that get_worker_by_task finds on w's thread.
get_worker_by_task(w, o) == IF SingleLoop THEN w ELSE m_worker[o]

\* A mutated form of Continue: the watcher stays inactive.
Continue_dropped(w, o) ==
    /\ Handles(w, o)
    /\ Goto(w, "cont", "pop")
    /\ UNCHANGED <<leaders, qcpy, execVars, callVars, asyncVars, created, disposed, crashed>>

\* exec_event_handler after handle_event: start the watcher again ...
Continue(w, o) ==
    /\ Handles(w, o)
    /\ Goto(w, "cont", "pop")
    /\ exec_in_worker_ctx(w, w, Functor("start", o))
    /\ UNCHANGED <<leaders, qcpy, asyncVars, created, disposed, crashed>>

\* A mutated form of CanDispose: m_can_dispose is not looked at.
CanDispose_always(o) == o \in IoTasks

CanDispose(o) == o \in IoTasks /\ (o \in AsyncTasks => m_can_dispose[o])

\* ... or finish, and remove_event_task: a task that is no disposable is
\* deleted, a disposable one disposes of itself, if it can ...
FinishDelete(w, o) ==
    /\ o \notin IoTasks
    /\ Handles(w, o)
    /\ Goto(w, "end", "pop")
    /\ deleted' = deleted \cup {o}
    /\ UNCHANGED <<leaders, qcpy, todo, m_events_queue, m_worker, active, m_events, mask,
                   callVars, asyncVars, created, disposed, crashed>>

FinishDispose(w, o) ==
    /\ CanDispose(o)
    /\ Handles(w, o)
    /\ Goto(w, "end", "pop")
    /\ exec_in_worker_ctx(w, get_worker_by_task(w, o), Functor("dispose", o))
    /\ UNCHANGED <<leaders, qcpy, asyncVars, created, disposed, crashed>>

\* ... and is left to a cleanup task otherwise.
FinishLater(w, o) ==
    /\ o \in AsyncTasks /\ ~CanDispose(o)
    /\ Handles(w, o)
    /\ Goto(w, "end", "clean")
    /\ created' = created \cup {Cleanup(o)}
    /\ assign_worker(Cleanup(o), get_worker_by_task(w, o))
    /\ UNCHANGED <<leaders, qcpy, todo, m_events_queue, deleted, active, m_events, mask,
                   callVars, asyncVars, disposed, crashed>>

StartCleanup(w, o) ==
    /\ Handles(w, o)
    /\ Goto(w, "clean", "pop")
    /\ exec_in_worker_ctx(w, get_worker_by_task(w, o), Functor("start", Cleanup(o)))
    /\ UNCHANGED <<leaders, qcpy, asyncVars, created, disposed, crashed>>

\* m_events_queue.pop
Pop(w) ==
    /\ Goto(w, "pop", "handle")
    /\ m_events_queue' = [m_events_queue EXCEPT ![w] = Tail(@)]
    /\ UNCHANGED <<leaders, qcpy, todo, deleted, m_worker, active, m_events, mask, callVars,
                   asyncVars, created, disposed, crashed>>

\* The leader polls again, another worker becomes free.
HandledAll(w) ==
    /\ m_events_queue[w] = <<>>
    /\ Goto(w, "handle", IF w \in leaders THEN "loop" ELSE "free")
    /\ UNCHANGED <<leaders, qcpy, execVars, callVars, asyncVars, created, disposed, crashed>>

ThreadStep(w) ==
    \/ \E o \in Objects: EventCallback(w, o) \/ SignalCallback(w, o)
    \/ \E v \in Workers: AsyncCallback(w, v)
    \/ RunFunctor(w) \/ AsyncDone(w) \/ LoopReturns(w) \/ Pop(w) \/ HandledAll(w)
    \/ \E o \in Tasks:
          \/ HandlePlain(w, o) \/ HandleEnd(w, o) \/ HandleSetEvents(w, o)
          \/ HandleUpdate(w, o) \/ HandleStop(w, o) \/ HandleConnect(w, o)
          \/ HandleReadd(w, o) \/ HandleAsync(w, o) \/ Continue(w, o) \/ FinishDelete(w, o)
          \/ FinishDispose(w, o) \/ FinishLater(w, o) \/ StartCleanup(w, o)
    \/ \E o, n \in IoTasks: HandleAccept(w, o, n)
    \/ \E t \in AsyncTasks: HandleCleanup(w, t)
-----------------------------------------------------------------------------
(* Threads that are no workers                                             *)

\* get_worker_by_task on such a thread: m_last_worker_id may have been read
\* long ago, or the round robin counter has any value.
AnyWorker(o, w) == SingleLoop \/ m_worker[o] \in {None, w}

\* add_event_task
AddTask(o, w) ==
    /\ o \in (IoTasks \cup Timers) \ created
    /\ created' = created \cup {o}
    /\ mask' = [mask EXCEPT ![o] = m_events[o]]
    /\ assign_worker(o, w)
    /\ async_call(w, Functor("start", o))
    /\ UNCHANGED <<threadVars, todo, m_events_queue, deleted, active, m_events, asyncVars,
                   disposed, crashed>>

\* timer_task::start_watcher with m_immediate: the handler runs on the calling
\* thread.  When it wants to go on, this is AddTask; here it is done.
AddImmediate(o) ==
    /\ ~crashed
    /\ o \in Timers \ created
    /\ created' = created \cup {o}
    /\ deleted' = deleted \cup {o}
    /\ UNCHANGED <<threadVars, todo, m_events_queue, m_worker, active, m_events, mask, callVars,
                   asyncVars, disposed, crashed>>

\* disk_io_task::op: the file operation is over when add_async_event is called.
AddDiskTask(o, w) ==
    /\ o \in DiskTasks \ created
    /\ created' = created \cup {o}
    /\ async_call(w, Functor("event", o))
    /\ UNCHANGED <<threadVars, execVars, asyncVars, disposed, crashed>>

\* The async handler is finished: its callback looks at the task's error ...
FinishAsync(t) ==
    /\ ~crashed
    /\ op[t] = "running" /\ t \notin deleted
    /\ op' = [op EXCEPT ![t] = IF ~error[t] THEN "send" ELSE "enable"]
    /\ UNCHANGED <<threadVars, execVars, callVars, m_can_dispose, error, reply, replaced, created,
                   disposed, crashed>>

\* ... has send_response called in the context of a worker ...
QueueResponse(t, w) ==
    /\ op[t] = "send" /\ t \notin deleted
    /\ AnyWorker(t, w)
    /\ op' = [op EXCEPT ![t] = "enable"]
    /\ reply' = [reply EXCEPT ![t] = "waiting"]
    /\ async_call(w, Functor("respond", t))
    /\ UNCHANGED <<threadVars, execVars, m_can_dispose, error, replaced, created, disposed, crashed>>

\* ... and allows the cleanup.
EnableDispose(t) ==
    /\ ~crashed
    /\ op[t] = "enable" /\ t \notin deleted
    /\ op' = [op EXCEPT ![t] = "done"]
    /\ m_can_dispose' = [m_can_dispose EXCEPT ![t] = TRUE]
    /\ UNCHANGED <<threadVars, execVars, callVars, error, reply, replaced, created, disposed, crashed>>

AsyncStep(t) == FinishAsync(t) \/ (\E w \in Workers: QueueResponse(t, w)) \/ EnableDispose(t)

\* remove_event_task, called by the application's threads.
RemoveTask(t, w) ==
    /\ OutsideRemoval
    /\ t \in (IoTasks \cap created) \ (disposed \cup deleted)
    /\ AnyWorker(t, w)
    /\ disposed' = disposed \cup {t}
    /\ IF CanDispose(t)
         THEN async_call(w, Functor("dispose", t)) /\ UNCHANGED <<created, m_worker>>
         ELSE /\ created' = created \cup {Removal(t)}
              /\ assign_worker(Removal(t), w)
              /\ async_call(w, Functor("start", Removal(t)))
    /\ UNCHANGED <<threadVars, todo, m_events_queue, deleted, active, m_events, mask, asyncVars,
                   crashed>>
-----------------------------------------------------------------------------

\* The next thing that some thread does is an access to object o: libev calls its
\* callback, a functor is run, an event is handled or an async handler goes on.
CallbackUse(o) == \E w \in Workers: at[w] = "calls" /\ o \in todo[w]

FunctorUse(o) ==
    {Head(qcpy[w]): w \in {v \in Workers: /\ at[v] = "async" /\ qcpy[v] # <<>>
                                         /\ Head(qcpy[v]).obj = o}}

HandlerUse(o) ==
    \E w \in Workers:
        /\ at[w] \in {"handle", "update", "close", "connect", "cont", "end"}
        /\ m_events_queue[w] # <<>>
        /\ \/ Current(w) = o
           \/ o \in AsyncTasks /\ Current(w) \in {Cleanup(o), Removal(o)} /\ at[w] = "handle"

AsyncUse(o) == o \in AsyncTasks /\ op[o] \in Working

\* It is an access to an object that was deleted: a handler that was replaced goes
\* on, or a deleted task is used.
DeletedInUse ==
    \/ replaced # {}
    \/ \E o \in deleted:
          CallbackUse(o) \/ FunctorUse(o) # {} \/ HandlerUse(o) \/ AsyncUse(o)

Crash ==
    /\ ~crashed
    /\ DeletedInUse
    /\ crashed' = TRUE
    /\ UNCHANGED <<threadVars, execVars, callVars, asyncVars, created, disposed>>

Next ==
    \/ \E w \in Workers: ThreadStep(w) \/ \E fired \in SUBSET Objects: EventLoop(w, fired)
    \/ \E t \in AsyncTasks: AsyncStep(t)
    \/ \E o \in Tasks, w \in Workers: AddTask(o, w) \/ AddDiskTask(o, w)
    \/ \E o \in Timers: AddImmediate(o)
    \/ \E t \in IoTasks, w \in Workers: RemoveTask(t, w)
    \/ Crash

\* Threads are scheduled and handlers return, also the asynchronous ones; a
\* loop with an async watcher that was sent returns; and a loop that is run
\* again and again fires the timers that have expired.
Fairness ==
    /\ \A w \in Workers:
          /\ WF_vars(ThreadStep(w))
          /\ WF_vars((\E v \in sent: loop_ptr(v) = loop_ptr(w))
                     /\ \E fired \in SUBSET Objects: EventLoop(w, fired))
    /\ \A c \in Cleanups:
          SF_vars(\E w \in Workers, fired \in SUBSET Objects: c \in fired /\ EventLoop(w, fired))
    /\ \A t \in AsyncTasks: WF_vars(AsyncStep(t))
    /\ WF_vars(Crash)

Spec == Init /\ [][Next]_vars /\ Fairness
-----------------------------------------------------------------------------
(* Safety                                                                  *)

\* A deleted task is not used.  libev does not call its callback, whoever deleted
\* it.  If the application has not removed it ("dispose allows to be called from
\* outside"), no worker handles an event of it or retries its disposal, its async
\* handler has finished ("Make sure the object is kept until the m_handler
\* finishes"), and no functor is run for it but the send_response that the async
\* handler has left behind.
NoUseAfterFree ==
    \A o \in deleted \ Signals:
        /\ ~CallbackUse(o)
        /\ o \notin disposed =>
              /\ ~HandlerUse(o) /\ ~AsyncUse(o)
              /\ \A f \in FunctorUse(o): f.op = "respond"

\* The events that worker w still has to handle, or is handling.
Pending(w) == {i \in DOMAIN m_events_queue[w]: i > 1 \/ at[w] # "pop"}

\* Handlers take no lock.  A watcher is only active again when the handler is
\* done ("If the handler wants to continue to run the task we activate the
\* watcher again"), so that a task is never handled by two threads.
OneHandler ==
    \A w, v \in Workers: \A i \in Pending(w), j \in Pending(v):
        m_events_queue[w][i].obj = m_events_queue[v][j].obj => v = w /\ j = i

\* assert(worker == m_worker) in assign_worker: in MULTI_LOOP mode a task stays
\* with the worker it was assigned to.
StaysAssigned ==
    \A o \in Tasks: ~SingleLoop /\ m_worker[o] # None =>
        /\ active[o] \in {None, loop_ptr(m_worker[o])}
        /\ \A w \in Workers: \A i \in Pending(w):
              m_events_queue[w][i].obj = o => w = m_worker[o]

Queued(o) ==
    \E w \in Workers: \E f \in {tfq[w][i]: i \in DOMAIN tfq[w]} \cup {qcpy[w][i]: i \in DOMAIN qcpy[w]}:
        f.obj = o

\* Whatever the order in which the functors of several workers run: a task
\* that has a response to send does not end up waiting for something to read.
ResponseWatched ==
    \A t \in AsyncTasks:
        reply[t] = "waiting" /\ active[t] # None /\ ~Queued(t) => mask[t] = "WRITE"
-----------------------------------------------------------------------------
(* Liveness                                                                *)

\* A task is never forgotten: its watcher is active again and again, or the
\* task is deleted.
NeverForgotten ==
    \A o \in IoTasks: o \in created ~> active[o] # None \/ o \in deleted \/ crashed

\* A task whose handler is done is deleted, also if an asynchronous handler has
\* to finish before.
EndedDeleted ==
    \A o \in Tasks:
        (\E w \in Workers: at[w] = "end" /\ Current(w) = o) ~> o \in deleted \/ crashed
-----------------------------------------------------------------------------
(* What comments and documentation say                                     *)

\* dispatcher.cpp: assert(nullptr != pfunc): the functor of a signal is there
\* when the signal arrives.
SignalFunctorThere == \A w \in Workers: at[w] = "calls" => todo[w] \cap Signals \cap deleted = {}
=============================================================================
