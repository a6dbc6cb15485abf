-------------------------- MODULE ExecutorsProofs --------------------------
(***************************************************************************)
(* Theorems about Executors, for any number of callers, executors and      *)
(* tasks.  The invariant says which thread or caller owns what: the list,  *)
(* the mutexes, the references, the executors that end, and the tasks.     *)
(***************************************************************************)
EXTENDS Executors, ListLemmas

Listed == ToSet(m_executors)

\* The list has no executor twice, and none that does not exist.  One that
\* exists and is not in the list has been terminated.
ListPart ==
    /\ IsInjective(m_executors)
    /\ \A e \in Executors:
          /\ e \in Listed => thread[e] # "absent"
          /\ thread[e] # "absent" /\ e \notin Listed => m_term[e]

\* Who holds m_executor_mutex is in free_executor, at a position of the list or
\* behind it.
ListMutexPart ==
    \A c \in Callers:
        /\ m_executor_mutex = c <=> call[c] \in {"scan", "erase"}
        /\ m_executor_mutex = c => pos[c] > 0

\* The threads that hold their executor's m_mutex, and why they do.
ThreadPart ==
    \A e \in Executors:
        /\ m_mutex[e] <=> thread[e] \in {"woken", "nested", "free", "unlock"}
        /\ thread[e] = "woken" => Pending(e)
        /\ thread[e] \in {"nested", "free"} => m_task[e] # None
        /\ call[e] # "idle" => thread[e] = "nested"

\* A caller has a reference from free_executor to the end of exec; who destroys
\* an executor has the last one.
RefPart ==
    /\ \A c \in Callers:
          /\ ref[c] # None <=> call[c] \in {"erase", "add", "drop", "dtor"}
          /\ ref[c] # None => thread[ref[c]] # "absent"
          /\ call[c] \in {"erase", "dtor"} => ref[c] \notin Listed
    /\ \A c, d \in Callers: call[c] \in {"erase", "dtor"} /\ ref[c] = ref[d] => c = d

\* A claimed executor is busy and empty, and claimed once; an executor that is
\* not busy is empty.
ClaimPart ==
    /\ \A e \in Executors: ~m_busy[e] => m_task[e] = None
    /\ \A c \in Callers: call[c] = "add" => m_busy[ref[c]] /\ m_task[ref[c]] = None
    /\ \A c, d \in Callers: call[c] = "add" /\ call[d] = "add" /\ ref[c] = ref[d] => c = d

\* A task is with one caller or in one executor, and there it has been executed
\* only while the thread is behind the call.
TaskPart ==
    /\ \A c \in Callers: arg[c] # None <=> call[c] \in {"want", "scan", "erase", "add"}
    /\ \A c, d \in Callers: arg[c] = arg[d] /\ arg[c] # None => c = d
    /\ \A e, f \in Executors: m_task[e] = m_task[f] /\ m_task[e] # None => e = f
    /\ \A c \in Callers, e \in Executors: arg[c] = m_task[e] => arg[c] = None
    /\ \A t \in Tasks: t \notin submitted =>
          /\ executed[t] = 0
          /\ \A c \in Callers: arg[c] # t
          /\ \A e \in Executors: m_task[e] # t
    /\ \A c \in Callers: arg[c] # None => executed[arg[c]] = 0
    /\ \A e \in Executors: m_task[e] # None /\ thread[e] \notin {"nested", "free"} =>
          executed[m_task[e]] = 0
    /\ \A t \in Tasks: executed[t] <= 1

\* The dispatcher is destroyed outside all calls, and joins executors it lists.
MainPart ==
    /\ main # "open" => \A c \in Callers: call[c] = "idle"
    /\ main = "joining" => m_executors # <<>>

IInv ==
    /\ TypeOK /\ ListPart /\ ListMutexPart /\ ThreadPart /\ RefPart /\ ClaimPart
    /\ TaskPart /\ RunningTaskSafe /\ MainPart
-----------------------------------------------------------------------------
\* A destroyed executor loses its task, and no other one and no caller gets one.
TasksKept ==
    /\ UNCHANGED <<arg, submitted, executed>>
    /\ \A c \in Callers: call'[c] \in {"want", "scan", "erase", "add"} <=>
                             call[c] \in {"want", "scan", "erase", "add"}
    /\ \A e \in Executors: \/ m_task'[e] = None
                           \/ m_task'[e] = m_task[e] /\ thread'[e] = thread[e]

LEMMA KeptTasks ==
    ASSUME None \notin Tasks, TaskPart, TasksKept PROVE TaskPart'
<1>1. \A c \in Callers: arg'[c] # None <=> call'[c] \in {"want", "scan", "erase", "add"}
  BY DEF TaskPart, TasksKept
<1>2. /\ \A c, d \in Callers: arg'[c] = arg'[d] /\ arg'[c] # None => c = d
      /\ \A e, f \in Executors: m_task'[e] = m_task'[f] /\ m_task'[e] # None => e = f
      /\ \A c \in Callers, e \in Executors: arg'[c] = m_task'[e] => arg'[c] = None
  BY DEF TaskPart, TasksKept
<1>3. \A t \in Tasks: t \notin submitted' =>
          /\ executed'[t] = 0
          /\ \A c \in Callers: arg'[c] # t
          /\ \A e \in Executors: m_task'[e] # t
  BY DEF TaskPart, TasksKept
<1>4. /\ \A c \in Callers: arg'[c] # None => executed'[arg'[c]] = 0
      /\ \A e \in Executors: m_task'[e] # None /\ thread'[e] \notin {"nested", "free"} =>
             executed'[m_task'[e]] = 0
      /\ \A t \in Tasks: executed'[t] <= 1
  BY DEF TaskPart, TasksKept
<1> QED
  BY <1>1, <1>2, <1>3, <1>4 DEF TaskPart

\* Every step of a thread, of a call and of the destructor keeps the invariant.
LEMMA Step == IInv /\ [Next]_vars => IInv'
<1> SUFFICES ASSUME TypeOK, ListPart, ListMutexPart, ThreadPart, RefPart, ClaimPart,
                    TaskPart, RunningTaskSafe, MainPart, [Next]_vars
             PROVE  IInv'
  BY DEF IInv
<1> USE NamesAssumption, IdleRunsAssumption DEF Callers, execVars, callVars
<1>1. ASSUME NEW e \in Executors, CheckTerm(e) PROVE IInv'
  <2>1. TypeOK'
    BY <1>1 DEF TypeOK, ThreadPcs, CallPcs, CheckTerm, ThreadGoto, ThreadStepOnly
  <2>2. ListPart'
    BY <1>1 DEF TypeOK, ListPart, Listed, CheckTerm, ThreadGoto, ThreadStepOnly
  <2>3. ThreadPart'
    BY <1>1 DEF TypeOK, ThreadPart, Pending, CheckTerm, ThreadGoto, ThreadStepOnly
  <2>4. RefPart'
    BY <1>1 DEF TypeOK, RefPart, Listed, CheckTerm, ThreadGoto, ThreadStepOnly
  <2>5. TaskPart'
    BY <1>1 DEF TypeOK, TaskPart, CheckTerm, ThreadGoto, ThreadStepOnly
  <2>6. RunningTaskSafe'
    BY <1>1 DEF TypeOK, RunningTaskSafe, CheckTerm, ThreadGoto, ThreadStepOnly
  <2>7. ListMutexPart' /\ ClaimPart' /\ MainPart'
    BY <1>1 DEF ListMutexPart, ClaimPart, MainPart, CheckTerm, ThreadGoto,
       ThreadStepOnly
  <2> QED
    BY <2>1, <2>2, <2>3, <2>4, <2>5, <2>6, <2>7 DEF IInv
<1>2. ASSUME NEW e \in Executors, Lock(e) PROVE IInv'
  <2>1. TypeOK'
    BY <1>2 DEF TypeOK, ThreadPcs, Pending, Lock, ThreadGoto, ThreadStepOnly
  <2>2. ListPart'
    BY <1>2 DEF TypeOK, ListPart, Listed, Lock, ThreadGoto, ThreadStepOnly
  <2>3. ThreadPart'
    BY <1>2 DEF TypeOK, ThreadPart, Pending, Lock, ThreadGoto, ThreadStepOnly
  <2>4. RefPart'
    BY <1>2 DEF TypeOK, RefPart, Listed, Lock, ThreadGoto, ThreadStepOnly
  <2>5. TaskPart'
    BY <1>2 DEF TypeOK, TaskPart, Lock, ThreadGoto, ThreadStepOnly
  <2>6. RunningTaskSafe'
    BY <1>2 DEF TypeOK, RunningTaskSafe, Lock, ThreadGoto, ThreadStepOnly
  <2>7. ListMutexPart' /\ ClaimPart' /\ MainPart'
    BY <1>2 DEF ListMutexPart, ClaimPart, MainPart, Lock, ThreadGoto,
       ThreadStepOnly
  <2> QED
    BY <2>1, <2>2, <2>3, <2>4, <2>5, <2>6, <2>7 DEF IInv
<1>3. ASSUME NEW e \in Executors, Wake(e) PROVE IInv'
  <2>1. TypeOK'
    BY <1>3 DEF TypeOK, ThreadPcs, CallPcs, Wake, ThreadGoto, ThreadStepOnly
  <2>2. ListPart'
    BY <1>3 DEF TypeOK, ListPart, Listed, Wake, ThreadGoto, ThreadStepOnly
  <2>3. ThreadPart'
    BY <1>3 DEF TypeOK, ThreadPart, Pending, Wake, ThreadGoto, ThreadStepOnly
  <2>4. RefPart'
    BY <1>3 DEF TypeOK, RefPart, Listed, Wake, ThreadGoto, ThreadStepOnly
  <2>5. TaskPart'
    BY <1>3 DEF TypeOK, TaskPart, Wake, ThreadGoto, ThreadStepOnly
  <2>6. RunningTaskSafe'
    BY <1>3 DEF TypeOK, RunningTaskSafe, Wake, ThreadGoto, ThreadStepOnly
  <2>7. ListMutexPart' /\ ClaimPart' /\ MainPart'
    BY <1>3 DEF ListMutexPart, ClaimPart, MainPart, Wake, ThreadGoto,
       ThreadStepOnly
  <2> QED
    BY <2>1, <2>2, <2>3, <2>4, <2>5, <2>6, <2>7 DEF IInv
<1>4. ASSUME NEW e \in Executors, Timeout(e) PROVE IInv'
  <2>1. TypeOK'
    BY <1>4 DEF TypeOK, ThreadPcs, CallPcs, Timeout, ThreadGoto, ThreadStepOnly
  <2>2. ListPart'
    <3>1. CASE run[e] + 1 >= IdleRuns
      BY <1>4, <3>1 DEF TypeOK, ListPart, Listed, Timeout, ThreadGoto, ThreadStepOnly
    <3>2. CASE ~(run[e] + 1 >= IdleRuns)
      BY <1>4, <3>2 DEF TypeOK, ListPart, Listed, Timeout, Pending, ThreadGoto,
         ThreadStepOnly
    <3> QED
      BY <3>1, <3>2
  <2>3. ThreadPart'
    BY <1>4 DEF TypeOK, ThreadPart, Pending, Timeout, ThreadGoto, ThreadStepOnly
  <2>4. RefPart'
    BY <1>4 DEF TypeOK, RefPart, Listed, Timeout, ThreadGoto, ThreadStepOnly
  <2>5. TaskPart'
    BY <1>4 DEF TypeOK, TaskPart, Timeout, ThreadGoto, ThreadStepOnly
  <2>6. RunningTaskSafe'
    BY <1>4 DEF TypeOK, RunningTaskSafe, Timeout, ThreadGoto, ThreadStepOnly
  <2>7. ListMutexPart' /\ ClaimPart' /\ MainPart'
    BY <1>4 DEF ListMutexPart, ClaimPart, MainPart, Timeout, ThreadGoto,
       ThreadStepOnly
  <2> QED
    BY <2>1, <2>2, <2>3, <2>4, <2>5, <2>6, <2>7 DEF IInv
<1>5. ASSUME NEW e \in Executors, Execute(e) PROVE IInv'
  <2>1. m_task[e] \in Tasks /\ call[e] = "idle" /\ ref[e] = None /\ arg[e] = None
    <3>1. m_task[e] \in Tasks
      BY <1>5 DEF TypeOK, ThreadPart, Pending, Execute
    <3>2. call[e] = "idle"
      BY <1>5 DEF TypeOK, ThreadPart, Execute
    <3>3. ref[e] = None /\ arg[e] = None
      BY <3>2 DEF TypeOK, RefPart, TaskPart
    <3> QED
      BY <3>1, <3>2, <3>3
  <2>2. \/ thread' = [thread EXCEPT ![e] = "free"] /\ UNCHANGED <<submitted, call, arg>>
        \/ \E t \in Tasks \ submitted:
             /\ thread' = [thread EXCEPT ![e] = "nested"]
             /\ submitted' = submitted \cup {t}
             /\ call' = [call EXCEPT ![e] = "want"]
             /\ arg' = [arg EXCEPT ![e] = t]
    BY <1>5 DEF Execute, ThreadGoto
  <2>3. TypeOK'
    <3>1. executed' \in [Tasks -> Nat]
      BY <1>5, <2>1 DEF TypeOK, Execute
    <3>2. /\ thread' \in [Executors -> ThreadPcs] /\ call' \in [Callers -> CallPcs]
          /\ arg' \in [Callers -> Tasks \cup {None}] /\ submitted' \subseteq Tasks
      <4>1. CASE UNCHANGED <<submitted, call, arg>>
        BY <2>2, <4>1 DEF TypeOK, ThreadPcs
      <4>2. ASSUME NEW t \in Tasks,
                   thread' = [thread EXCEPT ![e] = "nested"], submitted' = submitted \cup {t},
                   call' = [call EXCEPT ![e] = "want"], arg' = [arg EXCEPT ![e] = t]
            PROVE  <3>2
        BY <4>2 DEF TypeOK, ThreadPcs, CallPcs
      <4> QED
        BY <2>2, <4>1, <4>2
    <3> QED
      BY <1>5, <3>1, <3>2 DEF TypeOK, Execute
  <2>4. ListPart'
    BY <1>5 DEF TypeOK, ListPart, Listed, Execute, ThreadGoto
  <2>5. ListMutexPart'
    BY <1>5, <2>1 DEF TypeOK, ListMutexPart, ThreadPart, Pending, Execute,
       ThreadGoto
  <2>6. ThreadPart'
    BY <1>5 DEF TypeOK, ThreadPart, Pending, Execute, ThreadGoto
  <2>7. RefPart'
    BY <1>5, <2>1, <2>2 DEF TypeOK, RefPart, Listed, ThreadPart, Pending, Execute,
       ThreadGoto
  <2>8. ClaimPart'
    BY <1>5 DEF TypeOK, ClaimPart, Execute, ThreadGoto
  <2>9. TaskPart'
    <3>1. executed' = [executed EXCEPT ![m_task[e]] = @ + 1] /\ m_task' = m_task
      BY <1>5 DEF Execute
    <3>2. executed[m_task[e]] = 0
      BY <1>5, <2>1 DEF TaskPart, Execute
    <3>3. CASE thread' = [thread EXCEPT ![e] = "free"] /\ UNCHANGED <<submitted, call, arg>>
      BY <2>1, <3>1, <3>2, <3>3 DEF TypeOK, TaskPart
    <3>4. ASSUME NEW t \in Tasks \ submitted,
                 thread' = [thread EXCEPT ![e] = "nested"], submitted' = submitted \cup {t},
                 call' = [call EXCEPT ![e] = "want"], arg' = [arg EXCEPT ![e] = t]
          PROVE  TaskPart'
      BY <2>1, <3>1, <3>2, <3>4 DEF TypeOK, TaskPart
    <3> QED
      BY <2>2, <3>3, <3>4
  <2>10. RunningTaskSafe'
    BY <1>5 DEF TypeOK, RunningTaskSafe, Execute, ThreadGoto
  <2>11. MainPart'
    BY <1>5 DEF TypeOK, MainPart, ThreadPart, Pending, Execute, ThreadGoto
  <2> QED
    BY <2>3, <2>4, <2>5, <2>6, <2>7, <2>8, <2>9, <2>10, <2>11 DEF IInv
<1>6. ASSUME NEW e \in Executors, NestedReturns(e) PROVE IInv'
  <2>1. TypeOK'
    BY <1>6 DEF TypeOK, ThreadPcs, CallPcs, NestedReturns, ThreadGoto,
       ThreadStepOnly
  <2>2. ListPart'
    BY <1>6 DEF TypeOK, ListPart, Listed, NestedReturns, ThreadGoto,
       ThreadStepOnly
  <2>3. ThreadPart'
    BY <1>6 DEF TypeOK, ThreadPart, Pending, NestedReturns, ThreadGoto,
       ThreadStepOnly
  <2>4. RefPart'
    BY <1>6 DEF TypeOK, RefPart, Listed, NestedReturns, ThreadGoto, ThreadStepOnly
  <2>5. TaskPart'
    BY <1>6 DEF TypeOK, TaskPart, NestedReturns, ThreadGoto, ThreadStepOnly
  <2>6. RunningTaskSafe'
    BY <1>6 DEF TypeOK, RunningTaskSafe, NestedReturns, ThreadGoto, ThreadStepOnly
  <2>7. ListMutexPart' /\ ClaimPart' /\ MainPart'
    BY <1>6 DEF ListMutexPart, ClaimPart, MainPart, NestedReturns, ThreadGoto,
       ThreadStepOnly
  <2> QED
    BY <2>1, <2>2, <2>3, <2>4, <2>5, <2>6, <2>7 DEF IInv
<1>7. ASSUME NEW e \in Executors, SetFree(e) PROVE IInv'
  <2>1. TypeOK'
    BY <1>7 DEF TypeOK, ThreadPcs, CallPcs, SetFree, ThreadGoto, ThreadStepOnly
  <2>2. ListPart'
    BY <1>7 DEF TypeOK, ListPart, Listed, SetFree, ThreadGoto, ThreadStepOnly
  <2>3. ThreadPart'
    BY <1>7 DEF TypeOK, ThreadPart, Pending, SetFree, ThreadGoto, ThreadStepOnly
  <2>4. RefPart'
    BY <1>7 DEF TypeOK, RefPart, Listed, SetFree, ThreadGoto, ThreadStepOnly
  <2>5. ClaimPart'
    BY <1>7 DEF TypeOK, ClaimPart, ThreadPart, Pending, SetFree, ThreadGoto,
       ThreadStepOnly
  <2>6. TaskPart'
    BY <1>7 DEF TypeOK, TaskPart, SetFree, ThreadGoto, ThreadStepOnly
  <2>7. RunningTaskSafe'
    BY <1>7 DEF TypeOK, RunningTaskSafe, SetFree, ThreadGoto, ThreadStepOnly
  <2>8. ListMutexPart' /\ MainPart'
    BY <1>7 DEF ListMutexPart, MainPart, SetFree, ThreadGoto, ThreadStepOnly
  <2> QED
    BY <2>1, <2>2, <2>3, <2>4, <2>5, <2>6, <2>7, <2>8 DEF IInv
<1>8. ASSUME NEW e \in Executors, Unlock(e) PROVE IInv'
  <2>1. TypeOK'
    BY <1>8 DEF TypeOK, ThreadPcs, CallPcs, Unlock, ThreadGoto, ThreadStepOnly
  <2>2. ListPart'
    BY <1>8 DEF TypeOK, ListPart, Listed, Unlock, ThreadGoto, ThreadStepOnly
  <2>3. ThreadPart'
    BY <1>8 DEF TypeOK, ThreadPart, Pending, Unlock, ThreadGoto, ThreadStepOnly
  <2>4. RefPart'
    BY <1>8 DEF TypeOK, RefPart, Listed, Unlock, ThreadGoto, ThreadStepOnly
  <2>5. TaskPart'
    BY <1>8 DEF TypeOK, TaskPart, ThreadPart, Pending, Unlock, ThreadGoto,
       ThreadStepOnly
  <2>6. RunningTaskSafe'
    BY <1>8 DEF TypeOK, RunningTaskSafe, Unlock, ThreadGoto, ThreadStepOnly
  <2>7. ListMutexPart' /\ ClaimPart' /\ MainPart'
    BY <1>8 DEF ListMutexPart, ClaimPart, MainPart, Unlock, ThreadGoto,
       ThreadStepOnly
  <2> QED
    BY <2>1, <2>2, <2>3, <2>4, <2>5, <2>6, <2>7 DEF IInv
<1>9. ASSUME NEW c \in Callers, LockList(c) PROVE IInv'
  <2>1. TypeOK'
    BY <1>9 DEF TypeOK, ThreadPcs, CallPcs, LockList, CallGoto
  <2>2. ListMutexPart'
    BY <1>9 DEF TypeOK, ListMutexPart, LockList, CallGoto
  <2>3. ThreadPart'
    BY <1>9 DEF TypeOK, ThreadPart, Pending, LockList, CallGoto
  <2>4. RefPart'
    BY <1>9 DEF TypeOK, RefPart, Listed, LockList, CallGoto
  <2>5. ClaimPart'
    BY <1>9 DEF TypeOK, ClaimPart, LockList, CallGoto
  <2>6. TaskPart'
    BY <1>9 DEF TypeOK, TaskPart, LockList, CallGoto
  <2>7. MainPart'
    BY <1>9 DEF TypeOK, MainPart, LockList, CallGoto
  <2>8. ListPart' /\ RunningTaskSafe'
    BY <1>9 DEF ListPart, Listed, RunningTaskSafe, LockList, CallGoto
  <2> QED
    BY <2>1, <2>2, <2>3, <2>4, <2>5, <2>6, <2>7, <2>8 DEF IInv
<1>10. ASSUME NEW c \in Callers, NEW e \in Executors, EraseTerminated(c, e) PROVE IInv'
  <2>1. /\ m_executors' \in Seq(Executors) /\ IsInjective(m_executors')
        /\ Listed' = Listed \ {e} /\ e \in Listed
    <3>1. pos[c] \in 1..Len(m_executors)
      BY <1>10 DEF TypeOK, ListMutexPart, EraseTerminated, At
    <3> QED
      <4>1. m_executors' = RemoveAt(m_executors, pos[c]) /\ m_executors[pos[c]] = e
        BY <1>10 DEF EraseTerminated, At
      <4>2. e \in Listed
        BY <3>1, <4>1 DEF TypeOK, Listed, ToSet
      <4>3. m_executors \in Seq(Executors) /\ IsInjective(m_executors)
        BY DEF TypeOK, ListPart
      <4> QED
        BY <3>1, <4>1, <4>2, <4>3, RemoveAtSet DEF Listed
  <2>2. TypeOK'
    <3>1. call' \in [Callers -> CallPcs] /\ ref' \in [Callers -> Executors \cup {None}]
      <4>1. CASE UNCHANGED <<call, ref>>
        BY <4>1 DEF TypeOK
      <4>2. CASE CallGoto(c, "scan", "erase") /\ ref' = [ref EXCEPT ![c] = e]
        BY <4>2 DEF TypeOK, CallPcs, CallGoto
      <4> QED
        BY <1>10, <4>1, <4>2 DEF EraseTerminated
    <3> QED
      BY <1>10, <2>1, <3>1 DEF TypeOK, EraseTerminated
  <2>3. ListPart'
    <3>1. thread' = thread /\ m_term[e] /\ m_term' = m_term
      BY <1>10 DEF EraseTerminated, CallGoto
    <3> QED
      BY <2>1, <3>1 DEF ListPart
  <2>4. ListMutexPart'
    BY <1>10 DEF TypeOK, ListMutexPart, EraseTerminated, CallGoto, At
  <2>5. ThreadPart'
    BY <1>10 DEF TypeOK, ThreadPart, Pending, EraseTerminated, CallGoto, At
  <2>6. RefPart'
    <3>1. CASE \E d \in Callers: ref[d] = e
      BY <1>10, <2>1, <3>1 DEF TypeOK, RefPart, EraseTerminated
    <3>2. CASE \A d \in Callers: ref[d] # e
      <4>1. ref' = [ref EXCEPT ![c] = e] /\ call' = [call EXCEPT ![c] = "erase"]
        BY <1>10, <3>2 DEF EraseTerminated, CallGoto
      <4> QED
        BY <1>10, <2>1, <3>2, <4>1 DEF TypeOK, ListPart, RefPart, EraseTerminated
    <3> QED
      BY <3>1, <3>2
  <2>7. ClaimPart'
    <3>1. CASE \E d \in Callers: ref[d] = e
      BY <1>10, <3>1 DEF TypeOK, ClaimPart, EraseTerminated
    <3>2. CASE \A d \in Callers: ref[d] # e
      <4>1. ref' = [ref EXCEPT ![c] = e] /\ call' = [call EXCEPT ![c] = "erase"]
        BY <1>10, <3>2 DEF EraseTerminated, CallGoto
      <4> QED
        BY <1>10, <4>1 DEF TypeOK, ClaimPart, EraseTerminated
    <3> QED
      BY <3>1, <3>2
  <2>8. TaskPart'
    BY <1>10 DEF TypeOK, TaskPart, EraseTerminated, CallGoto, At
  <2>9. MainPart'
    BY <1>10 DEF TypeOK, MainPart, EraseTerminated, CallGoto, At
  <2>10. RunningTaskSafe'
    BY <1>10 DEF RunningTaskSafe, EraseTerminated, CallGoto, At
  <2> QED
    BY <2>2, <2>3, <2>4, <2>5, <2>6, <2>7, <2>8, <2>9, <2>10 DEF IInv
<1>11. ASSUME NEW c \in Callers, NEW e \in Executors, Claim(c, e) PROVE IInv'
  <2>1. e \in Listed
    BY <1>11 DEF TypeOK, ListMutexPart, Claim, At, Listed, ToSet
  <2>2. TypeOK'
    BY <1>11 DEF TypeOK, ThreadPcs, CallPcs, Claim, CallGoto, At
  <2>3. ListMutexPart'
    BY <1>11 DEF TypeOK, ListMutexPart, Claim, CallGoto, At
  <2>4. ThreadPart'
    BY <1>11 DEF TypeOK, ThreadPart, Pending, Claim, CallGoto, At
  <2>5. RefPart'
    BY <1>11, <2>1 DEF TypeOK, RefPart, Listed, ListPart, Claim, CallGoto, At
  <2>6. ClaimPart'
    BY <1>11 DEF TypeOK, ClaimPart, RefPart, Listed, Claim, CallGoto, At
  <2>7. TaskPart'
    BY <1>11 DEF TypeOK, TaskPart, Claim, CallGoto, At
  <2>8. MainPart'
    BY <1>11 DEF TypeOK, MainPart, Claim, CallGoto, At
  <2>9. ListPart' /\ RunningTaskSafe'
    BY <1>11 DEF ListPart, Listed, RunningTaskSafe, Claim, CallGoto, At
  <2> QED
    BY <2>2, <2>3, <2>4, <2>5, <2>6, <2>7, <2>8, <2>9 DEF IInv
<1>12. ASSUME NEW c \in Callers, NEW e \in Executors, SkipBusy(c, e) PROVE IInv'
  <2>1. TypeOK'
    <3>1. pos' \in [Callers -> Nat]
      BY <1>12 DEF TypeOK, SkipBusy
    <3> QED
      BY <1>12, <3>1 DEF TypeOK, SkipBusy, execVars
  <2>2. ListMutexPart'
    BY <1>12 DEF TypeOK, ListMutexPart, SkipBusy, At
  <2>3. /\ ListPart' /\ ThreadPart' /\ RefPart' /\ ClaimPart'
        /\ TaskPart' /\ RunningTaskSafe' /\ MainPart'
    BY <1>12 DEF ListPart, Listed, ThreadPart, Pending, RefPart, ClaimPart,
       TaskPart, RunningTaskSafe, MainPart, SkipBusy, At
  <2> QED
    BY <2>1, <2>2, <2>3 DEF IInv
<1>13. ASSUME NEW c \in Callers, NEW e \in Executors, Create(c, e) PROVE IInv'
  <2>1. e \notin Listed /\ \A d \in Callers: ref[d] # e
    BY <1>13 DEF TypeOK, ListPart, RefPart, Create
  <2>2. /\ m_executors' \in Seq(Executors) /\ IsInjective(m_executors')
        /\ Listed' = Listed \cup {e}
    BY <1>13, <2>1, AppendSet DEF TypeOK, ListPart, Listed, Create
  <2>3. TypeOK'
    BY <1>13, <2>2 DEF TypeOK, ThreadPcs, CallPcs, Create, CallGoto
  <2>4. ListPart'
    BY <1>13, <2>1, <2>2 DEF TypeOK, ListPart, Listed, Create, CallGoto
  <2>5. ListMutexPart'
    BY <1>13 DEF TypeOK, ListMutexPart, Create, CallGoto
  <2>6. ThreadPart'
    BY <1>13 DEF TypeOK, ThreadPart, Pending, Create, CallGoto
  <2>7. RefPart'
    BY <1>13, <2>1, <2>2 DEF TypeOK, RefPart, Listed, Create, CallGoto
  <2>8. ClaimPart'
    BY <1>13 DEF TypeOK, ClaimPart, RefPart, Listed, Create, CallGoto
  <2>9. TaskPart'
    BY <1>13 DEF TypeOK, TaskPart, Create, CallGoto
  <2>10. RunningTaskSafe'
    BY <1>13 DEF TypeOK, RunningTaskSafe, Create, CallGoto
  <2>11. MainPart'
    BY <1>13 DEF TypeOK, MainPart, Create, CallGoto
  <2> QED
    BY <2>3, <2>4, <2>5, <2>6, <2>7, <2>8, <2>9, <2>10, <2>11 DEF IInv
<1>14. ASSUME NEW c \in Callers, AddTask(c) PROVE IInv'
  <2>1. TypeOK'
    BY <1>14 DEF TypeOK, ThreadPcs, CallPcs, AddTask, CallGoto
  <2>2. ListMutexPart'
    BY <1>14 DEF TypeOK, ListMutexPart, AddTask, CallGoto
  <2>3. ThreadPart'
    BY <1>14 DEF TypeOK, ThreadPart, Pending, RefPart, Listed, AddTask, CallGoto
  <2>4. RefPart'
    BY <1>14 DEF TypeOK, RefPart, Listed, AddTask, CallGoto
  <2>5. ClaimPart'
    BY <1>14 DEF TypeOK, ClaimPart, RefPart, Listed, AddTask, CallGoto
  <2>6. TaskPart'
    BY <1>14 DEF TypeOK, TaskPart, ThreadPart, Pending, ClaimPart, RefPart,
       Listed, AddTask, CallGoto
  <2>7. MainPart'
    BY <1>14 DEF TypeOK, MainPart, AddTask, CallGoto
  <2>8. ListPart' /\ RunningTaskSafe'
    BY <1>14 DEF ListPart, Listed, RunningTaskSafe, AddTask, CallGoto
  <2> QED
    BY <2>1, <2>2, <2>3, <2>4, <2>5, <2>6, <2>7, <2>8 DEF IInv
<1>15. ASSUME NEW c \in Callers, DropRef(c) PROVE IInv'
  <2>1. TypeOK'
    BY <1>15 DEF TypeOK, ThreadPcs, CallPcs, DropRef, CallGoto
  <2>2. ListPart'
    BY <1>15 DEF TypeOK, ListPart, Listed, RefPart, DropRef, CallGoto
  <2>3. ListMutexPart'
    BY <1>15 DEF TypeOK, ListMutexPart, DropRef, CallGoto
  <2>4. ThreadPart'
    BY <1>15 DEF TypeOK, ThreadPart, Pending, DropRef, CallGoto
  <2>5. RefPart'
    BY <1>15 DEF TypeOK, RefPart, Listed, ListPart, DropRef, CallGoto
  <2>6. ClaimPart'
    BY <1>15 DEF TypeOK, ClaimPart, DropRef, CallGoto
  <2>7. TaskPart'
    BY <1>15 DEF TypeOK, TaskPart, DropRef, CallGoto
  <2>8. RunningTaskSafe'
    BY <1>15 DEF TypeOK, RunningTaskSafe, ListPart, Listed, RefPart, DropRef,
       CallGoto
  <2>9. MainPart'
    BY <1>15 DEF TypeOK, MainPart, DropRef, CallGoto
  <2> QED
    BY <2>1, <2>2, <2>3, <2>4, <2>5, <2>6, <2>7, <2>8, <2>9 DEF IInv
<1>16. ASSUME NEW c \in Callers, JoinErased(c) PROVE IInv'
  <2>1. TypeOK'
    BY <1>16 DEF TypeOK, ThreadPcs, CallPcs, JoinErased, CallGoto, Destruct
  <2>2. ListPart'
    BY <1>16 DEF TypeOK, ListPart, Listed, RefPart, JoinErased, CallGoto, Destruct
  <2>3. ListMutexPart'
    BY <1>16 DEF TypeOK, ListMutexPart, JoinErased, CallGoto, Destruct
  <2>4. ThreadPart'
    BY <1>16 DEF TypeOK, ThreadPart, Pending, RefPart, Listed, JoinErased,
       CallGoto, Destruct
  <2>5. RefPart'
    BY <1>16 DEF TypeOK, RefPart, Listed, JoinErased, CallGoto, Destruct
  <2>6. ClaimPart'
    BY <1>16 DEF TypeOK, ClaimPart, RefPart, Listed, JoinErased, CallGoto,
       Destruct
  <2>7. TaskPart'
    <3>1. TasksKept
      BY <1>16 DEF TypeOK, TasksKept, JoinErased, CallGoto, Destruct
    <3> QED
      BY <3>1, KeptTasks
  <2>8. RunningTaskSafe'
    BY <1>16 DEF TypeOK, RunningTaskSafe, JoinErased, CallGoto, Destruct
  <2>9. MainPart'
    BY <1>16 DEF TypeOK, MainPart, JoinErased, CallGoto, Destruct
  <2> QED
    BY <2>1, <2>2, <2>3, <2>4, <2>5, <2>6, <2>7, <2>8, <2>9 DEF IInv
<1>17. ASSUME NEW c \in Callers, JoinDropped(c) PROVE IInv'
  <2>1. TypeOK'
    BY <1>17 DEF TypeOK, ThreadPcs, CallPcs, JoinDropped, CallGoto, Destruct
  <2>2. ListPart'
    BY <1>17 DEF TypeOK, ListPart, Listed, RefPart, JoinDropped, CallGoto,
       Destruct
  <2>3. ListMutexPart'
    BY <1>17 DEF TypeOK, ListMutexPart, JoinDropped, CallGoto, Destruct
  <2>4. ThreadPart'
    BY <1>17 DEF TypeOK, ThreadPart, Pending, RefPart, Listed, JoinDropped,
       CallGoto, Destruct
  <2>5. RefPart'
    BY <1>17 DEF TypeOK, RefPart, Listed, JoinDropped, CallGoto, Destruct
  <2>6. ClaimPart'
    BY <1>17 DEF TypeOK, ClaimPart, RefPart, Listed, JoinDropped, CallGoto,
       Destruct
  <2>7. TaskPart'
    <3>1. TasksKept
      BY <1>17 DEF TypeOK, TasksKept, JoinDropped, CallGoto, Destruct
    <3> QED
      BY <3>1, KeptTasks
  <2>8. RunningTaskSafe'
    BY <1>17 DEF TypeOK, RunningTaskSafe, JoinDropped, CallGoto, Destruct
  <2>9. MainPart'
    BY <1>17 DEF TypeOK, MainPart, JoinDropped, CallGoto, Destruct
  <2> QED
    BY <2>1, <2>2, <2>3, <2>4, <2>5, <2>6, <2>7, <2>8, <2>9 DEF IInv
<1>18. ASSUME NEW c \in Clients, NEW t \in Tasks, Submit(c, t) PROVE IInv'
  <2>1. TypeOK'
    BY <1>18 DEF TypeOK, ThreadPcs, CallPcs, Submit, CallGoto
  <2>2. ListMutexPart'
    BY <1>18 DEF TypeOK, ListMutexPart, Submit, CallGoto
  <2>3. ThreadPart'
    BY <1>18 DEF TypeOK, ThreadPart, Pending, Submit, CallGoto
  <2>4. RefPart'
    BY <1>18 DEF TypeOK, RefPart, Listed, Submit, CallGoto
  <2>5. ClaimPart'
    BY <1>18 DEF TypeOK, ClaimPart, Submit, CallGoto
  <2>6. TaskPart'
    BY <1>18 DEF TypeOK, TaskPart, Submit, CallGoto
  <2>7. MainPart'
    BY <1>18 DEF TypeOK, MainPart, Submit, CallGoto
  <2>8. ListPart' /\ RunningTaskSafe'
    BY <1>18 DEF ListPart, Listed, RunningTaskSafe, Submit, CallGoto
  <2> QED
    BY <2>1, <2>2, <2>3, <2>4, <2>5, <2>6, <2>7, <2>8 DEF IInv
<1>19. ASSUME Destroy PROVE IInv'
  <2>1. TypeOK'
    BY <1>19 DEF TypeOK, ThreadPcs, CallPcs, Destroy
  <2>2. RunningTaskSafe'
    BY <1>19 DEF TypeOK, RunningTaskSafe, Destroy
  <2>3. MainPart'
    BY <1>19 DEF TypeOK, MainPart, Destroy
  <2>4. /\ ListPart' /\ ListMutexPart' /\ ThreadPart' /\ RefPart'
        /\ ClaimPart' /\ TaskPart'
    BY <1>19 DEF ListPart, Listed, ListMutexPart, ThreadPart, Pending, RefPart,
       ClaimPart, TaskPart, Destroy
  <2> QED
    BY <2>1, <2>2, <2>3, <2>4 DEF IInv
<1>20. ASSUME CloseNext PROVE IInv'
  <2>1. TypeOK'
    BY <1>20 DEF TypeOK, ThreadPcs, CallPcs, CloseNext
  <2>2. ListPart'
    BY <1>20 DEF TypeOK, ListPart, Listed, CloseNext
  <2>3. ThreadPart'
    BY <1>20 DEF TypeOK, ThreadPart, Pending, CloseNext
  <2>4. RunningTaskSafe'
    BY <1>20 DEF TypeOK, RunningTaskSafe, CloseNext
  <2>5. MainPart'
    BY <1>20 DEF TypeOK, MainPart, CloseNext
  <2>6. ListMutexPart' /\ RefPart' /\ ClaimPart' /\ TaskPart'
    BY <1>20 DEF ListMutexPart, RefPart, Listed, ClaimPart, TaskPart, CloseNext
  <2> QED
    BY <2>1, <2>2, <2>3, <2>4, <2>5, <2>6 DEF IInv
<1>21. ASSUME JoinNext PROVE IInv'
  <2>1. /\ m_executors # <<>> /\ Head(m_executors) \in Executors
        /\ m_executors' \in Seq(Executors) /\ IsInjective(m_executors')
        /\ Listed' = Listed \ {Head(m_executors)}
    BY <1>21, TailSet DEF TypeOK, ListPart, MainPart, Listed, JoinNext
  <2>2. \A c \in Callers: call[c] = "idle" /\ ref[c] = None
    BY <1>21 DEF MainPart, RefPart, JoinNext
  <2>3. TypeOK'
    BY <1>21, <2>1 DEF TypeOK, ThreadPcs, CallPcs, JoinNext, Destruct
  <2>4. ListPart'
    BY <1>21, <2>1 DEF TypeOK, ListPart, Listed, JoinNext, Destruct
  <2>5. ThreadPart'
    BY <1>21 DEF TypeOK, ThreadPart, Pending, JoinNext, Destruct
  <2>6. RefPart'
    BY <1>21, <2>1, <2>2 DEF TypeOK, RefPart, Listed, JoinNext, Destruct
  <2>7. ClaimPart'
    BY <1>21, <2>2 DEF TypeOK, ClaimPart, JoinNext, Destruct
  <2>8. TaskPart'
    BY <1>21 DEF TypeOK, TaskPart, JoinNext, Destruct
  <2>9. RunningTaskSafe'
    BY <1>21 DEF TypeOK, RunningTaskSafe, JoinNext, Destruct
  <2>10. MainPart'
    BY <1>21 DEF TypeOK, MainPart, JoinNext, Destruct
  <2>11. ListMutexPart'
    BY <1>21 DEF ListMutexPart, JoinNext, Destruct
  <2> QED
    BY <2>3, <2>4, <2>5, <2>6, <2>7, <2>8, <2>9, <2>10, <2>11 DEF IInv
<1>22. ASSUME UNCHANGED vars PROVE IInv'
  BY <1>22 DEF IInv, TypeOK, ThreadPcs, CallPcs, ListPart, Listed, ListMutexPart,
     ThreadPart, Pending, RefPart, ClaimPart, TaskPart, RunningTaskSafe, MainPart,
     vars
<1> QED
  BY <1>1, <1>2, <1>3, <1>4, <1>5, <1>6, <1>7, <1>8, <1>9, <1>10, <1>11, <1>12,
     <1>13, <1>14, <1>15, <1>16, <1>17, <1>18, <1>19, <1>20, <1>21, <1>22 DEF Next,
     ThreadStep, CallStep, Closed

\* The constructor of the dispatcher establishes the invariant.
LEMMA InitInvariant == Init => IInv
<1> SUFFICES ASSUME Init PROVE IInv
  OBVIOUS
<1>1. TypeOK
  BY IdleRunsAssumption DEF Init, TypeOK, ThreadPcs, CallPcs
<1>2. ListPart
  BY DEF Init, ListPart, Listed, ToSet, IsInjective
<1>3. ListMutexPart /\ ThreadPart /\ RefPart /\ ClaimPart
  BY NamesAssumption DEF Init, ListMutexPart, ThreadPart, RefPart, ClaimPart, Callers
<1>4. TaskPart /\ RunningTaskSafe /\ MainPart
  BY NamesAssumption DEF Init, TaskPart, RunningTaskSafe, MainPart
<1> QED
  BY <1>1, <1>2, <1>3, <1>4 DEF IInv

\* The invariant holds in every state of every run of free_executor,
\* add_exec_task, executor::run and ~dispatcher.
THEOREM Invariant == Spec => []IInv
BY InitInvariant, Step, PTL DEF Spec

\* Every variable keeps its type.
THEOREM TypeCorrect == Spec => []TypeOK
<1>1. IInv => TypeOK
  BY DEF IInv
<1> QED
  BY <1>1, Invariant, PTL

\* set_busy under m_executor_mutex is enough for add_task to assign m_task
\* without looking: no other caller is about to, and no task is erased.
THEOREM ClaimsExclude == Spec => []ExclusiveClaim
<1>1. IInv => ExclusiveClaim
  BY DEF IInv, ClaimPart, ExclusiveClaim
<1> QED
  BY <1>1, Invariant, PTL

\* executor::run executes a task at most once, and there is a task whenever it
\* gets past its wait without m_term.
THEOREM TasksRunOnce == Spec => []ExecutedOnce
<1>1. IInv => ExecutedOnce
  BY DEF IInv, TaskPart, ThreadPart, Pending, ExecutedOnce
<1> QED
  BY <1>1, Invariant, PTL

\* What m_executors or a caller of exec refers to has not been destroyed.
THEOREM RefsStayValid == Spec => []NoDanglingRef
<1>1. IInv => NoDanglingRef
  BY NamesAssumption DEF IInv, ListPart, RefPart, Listed, Referenced, NoDanglingRef
<1> QED
  BY <1>1, Invariant, PTL

\* While the dispatcher is open, m_term never hits an executor whose thread is
\* in the call of its task.
THEOREM RunningTasksSafe == Spec => []RunningTaskSafe
<1>1. IInv => RunningTaskSafe
  BY DEF IInv
<1> QED
  BY <1>1, Invariant, PTL
=============================================================================
