----------------------------- MODULE Executors -----------------------------
(***************************************************************************)
(* The executor threads that run exec_tasks: include/tasks/executor.h,     *)
(* tasks/executor.cpp, and free_executor and add_exec_task of              *)
(* tasks/dispatcher.cpp.                                                   *)
(*                                                                         *)
(* Any thread may call exec, an executor's own thread included, when the   *)
(* task it runs or one of its finish functors does.  A caller looks for an *)
(* idle executor under m_executor_mutex, leaves the mutex, and then hands  *)
(* its task over under the executor's m_mutex; meanwhile that executor may *)
(* run into its idle timeout.                                              *)
(***************************************************************************)
EXTENDS Naturals, SequencesExt

CONSTANTS
    Clients,        \* threads that call exec and are no executors
    Executors,      \* bound: executor objects that exist at a time
    Tasks,          \* bound: the exec_tasks that are created
    IdleRuns,       \* idle_runs = 10 * m_timeout
    None            \* no task, no executor, nobody

ASSUME IdleRunsAssumption == IdleRuns \in Nat
ASSUME NamesAssumption ==
    /\ None \notin Clients \cup Executors \cup Tasks
    /\ Clients \cap Executors = {}

Callers == Clients \cup Executors

VARIABLES
    m_executors,        \* dispatcher: the list of executors
    m_executor_mutex,   \* dispatcher: the caller that holds it
    m_busy, m_term, m_task, m_mutex,    \* per executor; m_mutex: is it locked
    thread, run,        \* per executor: where its thread is; its local run
    call, pos, ref, arg,\* per caller: where its call of exec is, the list position it
                        \* looks at, the shared_ptr it holds, its task
    submitted, executed,\* the tasks that were passed to exec, that were executed
    main                \* the thread that destroys the dispatcher

execVars == <<m_busy, m_term, m_task, m_mutex, thread, run>>
callVars == <<call, pos, ref, arg>>
vars == <<m_executors, m_executor_mutex, execVars, callVars, submitted, executed, main>>

ThreadPcs == {"absent", "top", "lock", "sleep", "woken", "nested", "free", "unlock", "done"}
CallPcs == {"idle", "want", "scan", "erase", "add", "drop", "dtor"}

TypeOK ==
    /\ m_executors \in Seq(Executors)
    /\ m_executor_mutex \in Callers \cup {None}
    /\ m_busy \in [Executors -> BOOLEAN]
    /\ m_term \in [Executors -> BOOLEAN]
    /\ m_task \in [Executors -> Tasks \cup {None}]
    /\ m_mutex \in [Executors -> BOOLEAN]
    /\ thread \in [Executors -> ThreadPcs]
    /\ run \in [Executors -> {n \in Nat: n = 0 \/ n < IdleRuns}]
    /\ call \in [Callers -> CallPcs]
    /\ pos \in [Callers -> Nat]
    /\ ref \in [Callers -> Executors \cup {None}]
    /\ arg \in [Callers -> Tasks \cup {None}]
    /\ submitted \subseteq Tasks
    /\ executed \in [Tasks -> Nat]
    /\ main \in {"open", "closing", "joining", "closed"}

Init ==
    /\ m_executors = <<>>
    /\ m_executor_mutex = None
    /\ m_busy = [e \in Executors |-> FALSE]
    /\ m_term = [e \in Executors |-> FALSE]
    /\ m_task = [e \in Executors |-> None]
    /\ m_mutex = [e \in Executors |-> FALSE]
    /\ thread = [e \in Executors |-> "absent"]
    /\ run = [e \in Executors |-> 0]
    /\ call = [c \in Callers |-> "idle"]
    /\ pos = [c \in Callers |-> 0]
    /\ ref = [c \in Callers |-> None]
    /\ arg = [c \in Callers |-> None]
    /\ submitted = {}
    /\ executed = [t \in Tasks |-> 0]
    /\ main = "open"
-----------------------------------------------------------------------------
(* An executor's thread: executor::run                                     *)

ThreadGoto(e, label, next) ==
    /\ thread[e] = label
    /\ thread' = [thread EXCEPT ![e] = next]

ThreadStepOnly == UNCHANGED <<m_executors, m_executor_mutex, callVars, submitted, main>>

\* A mutated form of CheckTerm: the thread does not look at m_term.
CheckTerm_forever(e) ==
    /\ ThreadGoto(e, "top", "lock")
    /\ ThreadStepOnly
    /\ UNCHANGED <<m_busy, m_term, m_task, m_mutex, run, executed>>

\* while (!m_term)
CheckTerm(e) ==
    /\ ThreadGoto(e, "top", IF m_term[e] THEN "done" ELSE "lock")
    /\ ThreadStepOnly
    /\ UNCHANGED <<m_busy, m_term, m_task, m_mutex, run, executed>>

Pending(e) == m_task[e] # None \/ m_term[e]

\* The mutex is taken, and wait_for releases it again to sleep unless there is
\* something to do.
Lock(e) ==
    /\ ~m_mutex[e]
    /\ ThreadGoto(e, "lock", IF Pending(e) THEN "woken" ELSE "sleep")
    /\ m_mutex' = [m_mutex EXCEPT ![e] = Pending(e)]
    /\ run' = [run EXCEPT ![e] = 0]
    /\ ThreadStepOnly
    /\ UNCHANGED <<m_busy, m_term, m_task, executed>>

\* wait_for ends with something to do.
Wake(e) ==
    /\ ~m_mutex[e]
    /\ Pending(e)
    /\ ThreadGoto(e, "sleep", "woken")
    /\ m_mutex' = [m_mutex EXCEPT ![e] = TRUE]
    /\ ThreadStepOnly
    /\ UNCHANGED <<m_busy, m_term, m_task, run, executed>>

\* A mutated form of Timeout: the idle runs are not counted.
Timeout_uncounted(e) ==
    /\ ~m_mutex[e]
    /\ ~Pending(e)
    /\ ThreadGoto(e, "sleep", "sleep")
    /\ ThreadStepOnly
    /\ UNCHANGED <<m_mutex, m_term, run, m_busy, m_task, executed>>

\* A mutated form of Timeout: a task that came in at the last moment is missed.
Timeout_blind(e) ==
    /\ ~m_mutex[e]
    /\ ~m_term[e]
    /\ LET idle == run[e] + 1 >= IdleRuns IN
          /\ ThreadGoto(e, "sleep", IF idle THEN "woken" ELSE "sleep")
          /\ m_mutex' = [m_mutex EXCEPT ![e] = idle]
          /\ m_term' = [m_term EXCEPT ![e] = idle]
          /\ run' = [run EXCEPT ![e] = IF idle THEN 0 ELSE @ + 1]
    /\ ThreadStepOnly
    /\ UNCHANGED <<m_busy, m_task, executed>>

\* wait_for ends after 100ms with nothing to do: another idle run, and with
\* the last one m_term, which ends the waiting without leaving the mutex.
Timeout(e) ==
    /\ ~m_mutex[e]
    /\ ~Pending(e)
    /\ LET idle == run[e] + 1 >= IdleRuns IN
          /\ ThreadGoto(e, "sleep", IF idle THEN "woken" ELSE "sleep")
          /\ m_mutex' = [m_mutex EXCEPT ![e] = idle]
          /\ m_term' = [m_term EXCEPT ![e] = idle]
          /\ run' = [run EXCEPT ![e] = IF idle THEN 0 ELSE @ + 1]
    /\ ThreadStepOnly
    /\ UNCHANGED <<m_busy, m_task, executed>>

\* if (!m_term) execute the task.  The task, or one of its finish functors,
\* may call exec for another task t, inside this call.
Execute(e) ==
    /\ thread[e] = "woken" /\ ~m_term[e]
    /\ executed' = [executed EXCEPT ![m_task[e]] = @ + 1]
    /\ \/ /\ ThreadGoto(e, "woken", "free")
          /\ UNCHANGED <<submitted, call, arg>>
       \/ \E t \in Tasks \ submitted:
             /\ main = "open"
             /\ ThreadGoto(e, "woken", "nested")
             /\ submitted' = submitted \cup {t}
             /\ call' = [call EXCEPT ![e] = "want"]
             /\ arg' = [arg EXCEPT ![e] = t]
    /\ UNCHANGED <<m_executors, m_executor_mutex, m_busy, m_term, m_task, m_mutex, run,
                   pos, ref, main>>

NestedReturns(e) ==
    /\ call[e] = "idle"
    /\ ThreadGoto(e, "nested", "free")
    /\ ThreadStepOnly
    /\ UNCHANGED <<m_busy, m_term, m_task, m_mutex, run, executed>>

\* A mutated form of SetFree: m_task is not cleared.
SetFree_kept(e) ==
    /\ ThreadGoto(e, "free", "unlock")
    /\ m_busy' = [m_busy EXCEPT ![e] = FALSE]
    /\ ThreadStepOnly
    /\ UNCHANGED <<m_task, m_term, m_mutex, run, executed>>

\* m_task = nullptr, which nobody sees before the mutex is free, m_busy = false.
SetFree(e) ==
    /\ ThreadGoto(e, "free", "unlock")
    /\ m_task' = [m_task EXCEPT ![e] = None]
    /\ m_busy' = [m_busy EXCEPT ![e] = FALSE]
    /\ ThreadStepOnly
    /\ UNCHANGED <<m_term, m_mutex, run, executed>>

\* The lock goes out of scope, after a task or because of m_term.
Unlock(e) ==
    /\ \/ ThreadGoto(e, "unlock", "top")
       \/ m_term[e] /\ ThreadGoto(e, "woken", "top")
    /\ m_mutex' = [m_mutex EXCEPT ![e] = FALSE]
    /\ ThreadStepOnly
    /\ UNCHANGED <<m_busy, m_term, m_task, run, executed>>

ThreadStep(e) ==
    \/ CheckTerm(e) \/ Lock(e) \/ Wake(e) \/ Timeout(e) \/ Execute(e)
    \/ NestedReturns(e) \/ SetFree(e) \/ Unlock(e)
-----------------------------------------------------------------------------
(* A call of exec: add_exec_task, with free_executor inlined               *)

CallGoto(c, label, next) ==
    /\ call[c] = label
    /\ call' = [call EXCEPT ![c] = next]

\* A thread calls exec with a new task.
Submit(c, t) ==
    /\ main = "open"
    /\ t \notin submitted
    /\ CallGoto(c, "idle", "want")
    /\ arg' = [arg EXCEPT ![c] = t]
    /\ submitted' = submitted \cup {t}
    /\ UNCHANGED <<m_executors, m_executor_mutex, execVars, pos, ref, executed, main>>

LockList(c) ==
    /\ CallGoto(c, "want", "scan")
    /\ m_executor_mutex = None
    /\ m_executor_mutex' = c
    /\ pos' = [pos EXCEPT ![c] = 1]
    /\ UNCHANGED <<m_executors, execVars, ref, arg, submitted, executed, main>>

\* The scan is at executor e.
At(c, e) ==
    /\ call[c] = "scan"
    /\ pos[c] <= Len(m_executors)
    /\ m_executors[pos[c]] = e

Referenced(e) == e \in ToSet(m_executors) \/ \E c \in Callers: ref[c] = e

\* A mutated form of EraseTerminated: the list owns its executors, other
\* references do not count.
EraseTerminated_owned(c, e) ==
    /\ At(c, e)
    /\ m_term[e]
    /\ m_executors' = RemoveAt(m_executors, pos[c])
    /\ CallGoto(c, "scan", "erase") /\ ref' = [ref EXCEPT ![c] = e]
    /\ UNCHANGED <<m_executor_mutex, execVars, pos, arg, submitted, executed, main>>

\* A terminated executor is erased.  Unless another caller still has a
\* reference, this destroys it, under m_executor_mutex.
EraseTerminated(c, e) ==
    /\ At(c, e)
    /\ m_term[e]
    /\ m_executors' = RemoveAt(m_executors, pos[c])
    /\ IF \E d \in Callers: ref[d] = e
         THEN UNCHANGED <<call, ref>>
         ELSE CallGoto(c, "scan", "erase") /\ ref' = [ref EXCEPT ![c] = e]
    /\ UNCHANGED <<m_executor_mutex, execVars, pos, arg, submitted, executed, main>>

\* A mutated form of Claim: set_busy is missing.
Claim_unmarked(c, e) ==
    /\ At(c, e)
    /\ ~m_term[e] /\ ~m_busy[e]
    /\ CallGoto(c, "scan", "add")
    /\ ref' = [ref EXCEPT ![c] = e]
    /\ pos' = [pos EXCEPT ![c] = 0]
    /\ m_executor_mutex' = None
    /\ UNCHANGED <<m_executors, execVars, arg, submitted, executed, main>>

\* An idle executor is claimed and returned.
Claim(c, e) ==
    /\ At(c, e)
    /\ ~m_term[e] /\ ~m_busy[e]
    /\ m_busy' = [m_busy EXCEPT ![e] = TRUE]
    /\ CallGoto(c, "scan", "add")
    /\ ref' = [ref EXCEPT ![c] = e]
    /\ pos' = [pos EXCEPT ![c] = 0]
    /\ m_executor_mutex' = None
    /\ UNCHANGED <<m_executors, m_term, m_task, m_mutex, thread, run, arg, submitted,
                   executed, main>>

SkipBusy(c, e) ==
    /\ At(c, e)
    /\ ~m_term[e] /\ m_busy[e]
    /\ pos' = [pos EXCEPT ![c] = @ + 1]
    /\ UNCHANGED <<m_executors, m_executor_mutex, execVars, call, ref, arg, submitted,
                   executed, main>>

\* None is free: a new executor, busy from the start, and its thread.
Create(c, e) ==
    /\ pos[c] > Len(m_executors)
    /\ CallGoto(c, "scan", "add")
    /\ thread[e] = "absent"
    /\ thread' = [thread EXCEPT ![e] = "top"]
    /\ m_busy' = [m_busy EXCEPT ![e] = TRUE]
    /\ m_term' = [m_term EXCEPT ![e] = FALSE]
    /\ m_task' = [m_task EXCEPT ![e] = None]
    /\ m_executors' = Append(m_executors, e)
    /\ ref' = [ref EXCEPT ![c] = e]
    /\ pos' = [pos EXCEPT ![c] = 0]
    /\ m_executor_mutex' = None
    /\ UNCHANGED <<m_mutex, run, arg, submitted, executed, main>>

\* executor::add_task.  The notification only saves time: the thread polls.
AddTask(c) ==
    /\ CallGoto(c, "add", "drop")
    /\ ~m_mutex[ref[c]]
    /\ m_task' = [m_task EXCEPT ![ref[c]] = arg[c]]
    /\ arg' = [arg EXCEPT ![c] = None]
    /\ UNCHANGED <<m_executors, m_executor_mutex, m_busy, m_term, m_mutex, thread, run, pos,
                   ref, submitted, executed, main>>

\* A mutated form of DropRef: the list's reference does not count.
DropRef_unlisted(c) ==
    /\ LET last == \A d \in Callers \ {c}: ref[d] # ref[c] IN
          /\ CallGoto(c, "drop", IF last THEN "dtor" ELSE "idle")
          /\ m_term' = [m_term EXCEPT ![ref[c]] = @ \/ last]
          /\ ref' = [ref EXCEPT ![c] = IF last THEN @ ELSE None]
    /\ UNCHANGED <<m_executors, m_executor_mutex, m_busy, m_task, m_mutex, thread, run, pos,
                   arg, submitted, executed, main>>

\* The shared_ptr goes out of scope; the last one destroys the executor.
DropRef(c) ==
    /\ LET last == /\ ref[c] \notin ToSet(m_executors)
                   /\ \A d \in Callers \ {c}: ref[d] # ref[c] IN
          /\ CallGoto(c, "drop", IF last THEN "dtor" ELSE "idle")
          /\ m_term' = [m_term EXCEPT ![ref[c]] = @ \/ last]
          /\ ref' = [ref EXCEPT ![c] = IF last THEN @ ELSE None]
    /\ UNCHANGED <<m_executors, m_executor_mutex, m_busy, m_task, m_mutex, thread, run, pos,
                   arg, submitted, executed, main>>

\* ~executor, after terminate: the thread is joined and the object is gone.
Destruct(e) ==
    /\ thread[e] = "done"
    /\ thread' = [thread EXCEPT ![e] = "absent"]
    /\ m_busy' = [m_busy EXCEPT ![e] = FALSE]
    /\ m_term' = [m_term EXCEPT ![e] = FALSE]
    /\ m_task' = [m_task EXCEPT ![e] = None]
    /\ UNCHANGED <<m_mutex, run>>

JoinErased(c) ==
    /\ CallGoto(c, "erase", "scan")
    /\ Destruct(ref[c])
    /\ ref' = [ref EXCEPT ![c] = None]
    /\ UNCHANGED <<m_executors, m_executor_mutex, pos, arg, submitted, executed, main>>

JoinDropped(c) ==
    /\ CallGoto(c, "dtor", "idle")
    /\ Destruct(ref[c])
    /\ ref' = [ref EXCEPT ![c] = None]
    /\ UNCHANGED <<m_executors, m_executor_mutex, pos, arg, submitted, executed, main>>

CallStep(c) ==
    \/ LockList(c) \/ AddTask(c) \/ DropRef(c) \/ JoinErased(c) \/ JoinDropped(c)
    \/ \E e \in Executors:
          EraseTerminated(c, e) \/ Claim(c, e) \/ SkipBusy(c, e) \/ Create(c, e)
-----------------------------------------------------------------------------
(* ~dispatcher: the executors are destroyed one after the other.  The      *)
(* application does not destroy the dispatcher inside a call of exec.      *)

Destroy ==
    /\ main = "open"
    /\ \A c \in Callers: call[c] = "idle"
    /\ main' = "closing"
    /\ UNCHANGED <<m_executors, m_executor_mutex, execVars, callVars, submitted, executed>>

CloseNext ==
    /\ main = "closing"
    /\ IF m_executors = <<>>
         THEN main' = "closed" /\ UNCHANGED m_term
         ELSE main' = "joining" /\ m_term' = [m_term EXCEPT ![Head(m_executors)] = TRUE]
    /\ UNCHANGED <<m_executors, m_executor_mutex, m_busy, m_task, m_mutex, thread, run,
                   callVars, submitted, executed>>

JoinNext ==
    /\ main = "joining"
    /\ Destruct(Head(m_executors))
    /\ m_executors' = Tail(m_executors)
    /\ main' = "closing"
    /\ UNCHANGED <<m_executor_mutex, callVars, submitted, executed>>

Closed == main = "closed" /\ UNCHANGED vars

Next ==
    \/ \E e \in Executors: ThreadStep(e)
    \/ \E c \in Callers: CallStep(c)
    \/ \E c \in Clients, t \in Tasks: Submit(c, t)
    \/ Destroy \/ CloseNext \/ JoinNext \/ Closed

\* Threads are scheduled and tasks end.
Fairness ==
    /\ \A e \in Executors: WF_vars(ThreadStep(e))
    /\ \A c \in Callers: WF_vars(CallStep(c))
    /\ WF_vars(CloseNext) /\ WF_vars(JoinNext)

Spec == Init /\ [][Next]_vars /\ Fairness
-----------------------------------------------------------------------------
(* Safety                                                                  *)

\* add_task assigns m_task without looking: a caller that is about to do so
\* is the only one, and there is no task in the executor that it would erase.
ExclusiveClaim ==
    \A c \in Callers: call[c] = "add" =>
        /\ m_task[ref[c]] = None
        /\ \A d \in Callers \ {c}: call[d] = "add" => ref[d] # ref[c]

\* The deleted task is never executed again: at most one execution per task,
\* and there is a task whenever the thread gets past the wait for one.
ExecutedOnce ==
    /\ \A t \in Tasks: executed[t] <= 1
    /\ \A e \in Executors: thread[e] = "woken" /\ ~m_term[e] => m_task[e] # None

\* A reference never outlives its executor: what the list or a caller refers
\* to exists.
NoDanglingRef == \A e \in Executors: Referenced(e) => thread[e] # "absent"

\* Whoever drops the last reference to an executor terminates it.  None that is
\* executing a task loses its last one while the dispatcher is open: the list
\* refers to it until it is terminated.
RunningTaskSafe ==
    \A e \in Executors: thread[e] \in {"nested", "free"} /\ main = "open" => ~m_term[e]
-----------------------------------------------------------------------------
(* Liveness                                                                *)

\* A task that reached an executor before its idle timeout is executed.
StoredTaskRuns ==
    \A e \in Executors, t \in Tasks:
        m_task[e] = t /\ ~m_term[e] ~> executed[t] > 0 \/ main # "open"

\* exec returns: nobody waits for ever for a mutex, or in join for the thread
\* of an executor that was erased.
CallsReturn == \A c \in Callers: call[c] # "idle" ~> call[c] = "idle"

\* An executor that nobody uses ends after its idle timeout.
IdleExecutorsEnd ==
    \A e \in Executors:
        ~m_busy[e] /\ thread[e] # "absent" ~> m_busy[e] \/ thread[e] \in {"done", "absent"}

\* ~dispatcher ends.
DestroyCompletes == main = "closing" ~> main = "closed"
-----------------------------------------------------------------------------
(* What documentation and tests say                                        *)

\* exec.h: "Execute code in a separate executor thread": a task passed to exec
\* is executed, unless the dispatcher is destroyed first.
EveryTaskRuns ==
    \A t \in Tasks: t \in submitted ~> executed[t] > 0 \/ main # "open"
=============================================================================
