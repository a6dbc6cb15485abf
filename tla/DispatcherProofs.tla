-------------------------- MODULE DispatcherProofs --------------------------
(***************************************************************************)
(* Theorems about Dispatcher, for every number of workers and both run     *)
(* modes, with the safety part of its refinement of LeaderFollowers.  The  *)
(* invariant is IInv of DispatcherInv.                                     *)
(***************************************************************************)
EXTENDS DispatcherInv, TLAPS

\* The ids of the workers: worker 0 exists, and the id after a worker's is a
\* worker's unless it is m_num_workers.
LEMMA WorkersType ==
    /\ 0 \in Workers
    /\ Workers \subseteq Nat
    /\ NoWorker \notin Workers
    /\ \A x \in Workers: x + 1 # NumWorkers => x + 1 \in Workers
    /\ \A x \in Workers: x + 1 < NumWorkers => x + 1 \in Workers
BY NumWorkersAssumption DEF Workers, NoWorker

\* The order in which start and join go through the workers.
LEMMA WorkersOrder ==
    ASSUME NEW x \in Workers, NEW y \in Workers
    PROVE  /\ ~(x < 0) /\ x >= 0 /\ x >= x
           /\ x < y + 1 <=> x < y \/ x = y
           /\ x >= y + 1 <=> x >= y /\ x # y
           /\ ~(y + 1 < NumWorkers) => (x < y \/ x = y) /\ (x >= y <=> x = y)
BY NumWorkersAssumption DEF Workers

\* The loops are named after the workers that create them.
LEMMA LoopsType ==
    /\ Loops \subseteq Workers
    /\ NoLoop \notin Loops
    /\ 0 \in Loops
    /\ SingleLoop => Loops = {0}
    /\ ~SingleLoop => Loops = Workers
BY NumWorkersAssumption DEF Workers, Loops, NoLoop

\* Queueing events for whatever ev_userdata names keeps the queues' type.
LEMMA QueueType ==
    ASSUME NEW f \in [Workers -> Nat], NEW a, NEW k \in Nat
    PROVE  [f EXCEPT ![a] = f[a] + k] \in [Workers -> Nat]
<1> DEFINE g == [f EXCEPT ![a] = f[a] + k]
<1>1. ASSUME NEW y \in Workers PROVE g[y] \in Nat
  <2>1. CASE y = a
    BY <2>1
  <2>2. CASE y # a
    BY <2>2
  <2> QED
    BY <2>1, <2>2
<1> QED
  BY <1>1

\* The constructors leave every variable with its type.
LEMMA InitType == Init => TypeOK
<1> SUFFICES ASSUME Init PROVE TypeOK
  OBVIOUS
<1>1. /\ m_last_worker_id \in Workers
      /\ mi \in Workers
      /\ chk_idx \in [Workers -> Workers]
      /\ chk_cnt \in [Workers -> Workers]
  BY WorkersType DEF Init
<1> QED
  BY <1>1 DEF Init, TypeOK, WorkerPcs, MainPcs

\* Every step keeps the types.
LEMMA TypeStep == TypeOK /\ [Next]_vars => TypeOK'
<1> SUFFICES ASSUME TypeOK, [Next]_vars PROVE TypeOK'
  OBVIOUS
<1> USE DEF TypeOK
<1> USE DEF dispVars, ownVars, scanVars, loopVars, mainVars, WorkerPcs, MainPcs,
            Goto, Jump, MainGoto, MainJump
<1>1. ASSUME NEW w \in Workers, MarkFree(w) PROVE TypeOK'
  BY <1>1 DEF MarkFree
<1>2. ASSUME NEW w \in Workers, CheckTerm(w) PROVE TypeOK'
  BY <1>2 DEF CheckTerm
<1>3. ASSUME NEW w \in Workers, Wait(w) PROVE TypeOK'
  BY <1>3 DEF Wait
<1>4. ASSUME NEW w \in Workers, CheckLeader(w) PROVE TypeOK'
  BY <1>4 DEF CheckLeader
<1>5. ASSUME NEW w \in Workers, EventLoop(w) PROVE TypeOK'
  <2>1. PICK k \in 0..MaxBatch:
          m_events_queue' = [m_events_queue EXCEPT ![userdata[m_loop[w]]] =
                               m_events_queue[userdata[m_loop[w]]] + k]
    BY <1>5 DEF EventLoop
  <2>2. k \in Nat
    BY MaxBatchAssumption
  <2>3. m_events_queue' \in [Workers -> Nat]
    BY <2>1, <2>2, QueueType
  <2> QED
    BY <1>5, <2>3 DEF EventLoop
<1>6. ASSUME NEW w \in Workers, Fired(w) PROVE TypeOK'
  BY <1>6, WorkersType DEF Fired
<1>7. ASSUME NEW w \in Workers, FindFree(w) PROVE TypeOK'
  <2>1. /\ chk_idx[w] \in Workers
        /\ chk_idx[w] + 1 # NumWorkers => chk_idx[w] + 1 \in Workers
        /\ chk_cnt[w] + 1 < NumWorkers => chk_cnt[w] + 1 \in Workers
    BY WorkersType
  <2>2. chk_idx' \in [Workers -> Workers]
    BY <1>7, <2>1, WorkersType DEF FindFree
  <2>3. chk_cnt' \in [Workers -> Workers]
    BY <1>7, <2>1, WorkersType DEF FindFree
  <2> QED
    BY <1>7, <2>2, <2>3 DEF FindFree
<1>8. ASSUME NEW w \in Workers, Claim(w) PROVE TypeOK'
  BY <1>8 DEF Claim
<1>9. ASSUME NEW w \in Workers, Demote(w) PROVE TypeOK'
  BY <1>9 DEF Demote
<1>10. ASSUME NEW w \in Workers, MoveLoop(w) PROVE TypeOK'
  BY <1>10 DEF MoveLoop
<1>11. ASSUME NEW w \in Workers, SetUserdata(w) PROVE TypeOK'
  BY <1>11 DEF SetUserdata
<1>12. ASSUME NEW w \in Workers, Raise(w) PROVE TypeOK'
  BY <1>12, WorkersType DEF Raise
<1>13. ASSUME NEW w \in Workers, HandleEvent(w) PROVE TypeOK'
  <2>1. m_events_queue' \in [Workers -> Nat]
    BY <1>13 DEF HandleEvent
  <2>2. async_sent' \in [Loops -> BOOLEAN]
    BY <1>13 DEF HandleEvent, exec_in_worker_ctx
  <2> QED
    BY <1>13, <2>1, <2>2 DEF HandleEvent
<1>14. ASSUME NEW w \in Workers, HandledAll(w) PROVE TypeOK'
  BY <1>14 DEF HandledAll
<1>15. ASSUME NEW w \in Workers, Ended(w) PROVE TypeOK'
  BY <1>15 DEF Ended
<1>16. ASSUME NEW w \in Workers, Shut(w) PROVE TypeOK'
  BY <1>16 DEF Shut
<1>17. ASSUME NEW w \in Workers, AsyncCall(w) PROVE TypeOK'
  BY <1>17 DEF AsyncCall
<1>18. CASE CreateWorker
  <2>1. mi' \in Workers /\ main' \in MainPcs
    BY <1>18, WorkersType DEF CreateWorker, NewWorker
  <2>2. m_leader' \in [Workers -> BOOLEAN]
    BY <1>18 DEF CreateWorker, NewWorker
  <2>3. m_loop' \in [Workers -> Loops \cup {NoLoop}]
    BY <1>18, LoopsType DEF CreateWorker, NewWorker
  <2>4. userdata' \in [Loops -> Workers \cup {NoWorker}]
    BY <1>18, LoopsType DEF CreateWorker, NewWorker
  <2> QED
    BY <1>18, <2>1, <2>2, <2>3, <2>4 DEF CreateWorker, NewWorker
<1>19. CASE AwaitWorker
  BY <1>19, WorkersType DEF AwaitWorker
<1>20. CASE ElectFirst
  BY <1>20 DEF ElectFirst
<1>21. CASE MoveFirst
  BY <1>21, LoopsType DEF MoveFirst
<1>22. CASE UserdataFirst
  BY <1>22, WorkersType DEF UserdataFirst
<1>23. CASE RaiseFirst
  BY <1>23 DEF RaiseFirst
<1>24. CASE WakeUp
  BY <1>24 DEF WakeUp
<1>25. CASE TerminateWorker
  BY <1>25 DEF TerminateWorker
<1>26. CASE ReadLeader
  BY <1>26 DEF ReadLeader
<1>27. CASE Interrupt
  BY <1>27 DEF Interrupt
<1>28. CASE JoinThread
  BY <1>28, WorkersType DEF JoinThread
<1>29. CASE SpuriousWakeup
  BY <1>29 DEF SpuriousWakeup
<1>30. CASE Terminate
  BY <1>30 DEF Terminate
<1>31. CASE CallJoin
  BY <1>31 DEF CallJoin
<1>32. CASE CallDestroy
  BY <1>32 DEF CallDestroy
<1>33. CASE ResetInstance
  BY <1>33 DEF ResetInstance
<1>34. CASE ResetUnjoined
  BY <1>34 DEF ResetUnjoined, Abort
<1>35. CASE RejoinThread
  BY <1>35 DEF RejoinThread, Abort
<1>36. CASE UNCHANGED vars
  BY <1>36 DEF vars
<1> QED
  BY <1>1, <1>2, <1>3, <1>4, <1>5, <1>6, <1>7, <1>8, <1>9, <1>10, <1>11, <1>12, <1>13, <1>14, <1>15, <1>16, <1>17, <1>18, <1>19, <1>20, <1>21, <1>22, <1>23, <1>24, <1>25, <1>26, <1>27, <1>28, <1>29, <1>30, <1>31, <1>32, <1>33, <1>34, <1>35, <1>36
     DEF Next, Run, MainStep, Finished

\* Every variable keeps its type: in particular m_last_worker_id and the
\* indexes of bitset::next stay below m_num_workers, which the code asserts in
\* bitset and relies on in m_workers[id].
THEOREM TypeCorrect == Spec => []TypeOK
<1>1. QED
  BY InitType, TypeStep, PTL DEF Spec

\* The constructors establish the invariant.
LEMMA InvInit == Init => IInv
<1> SUFFICES ASSUME Init PROVE IInv
  OBVIOUS
<1>type. TypeOK
  BY InitType
<1> USE DEF Init
<1>1. Ownership /\ Places /\ FreeWorkers /\ Destroyed /\ EventsNotStranded
  BY DEF Ownership, Places, FreeWorkers, Destroyed, EventsNotStranded
<1>2. Promotions /\ OnePromotion /\ LastWorkerLeads /\ JoinOrder
  BY DEF Promotions, OnePromotion, Handing, Promoting, LastWorkerLeads, JoinOrder
<1>3. Creation
  BY WorkersOrder, WorkersType DEF Creation
<1>4. StartUp
  BY WorkersType DEF StartUp, Starting, Promoting
<1> QED
  BY <1>type, <1>1, <1>2, <1>3, <1>4 DEF IInv

\* Every step keeps the invariant: one step of the proof per action.  Its
\* first leaves are the conjuncts that need nothing but themselves, then come
\* those that the action disturbs, with the conjuncts that save them.
LEMMA InvStep == IInv /\ [Next]_vars => IInv'
<1> SUFFICES ASSUME IInv, [Next]_vars PROVE IInv'
  OBVIOUS
<1>type. TypeOK'
  BY TypeStep DEF IInv
<1> USE <1>type DEF IInv, TypeOK, dispVars, ownVars, scanVars, loopVars, mainVars,
                    Goto, Jump, MainGoto, MainJump
<1>1. ASSUME NEW w \in Workers, MarkFree(w) PROVE IInv'
  <2> USE <1>1 DEF MarkFree
  <2>1. Ownership' /\ Places'
    BY DEF Ownership, Places
  <2>2. Promotions'
    BY DEF Promotions, Handing, Passive
  <2>3. OnePromotion'
    BY DEF OnePromotion, Promoting
  <2>4. Creation' /\ StartUp'
    BY DEF Creation, StartUp, Starting, Passive, Promoting
  <2>5. Destroyed'
    BY DEF Destroyed
  <2>6. EventsNotStranded'
    BY DEF EventsNotStranded
  <2>7. LastWorkerLeads' /\ JoinOrder'
    BY DEF LastWorkerLeads, JoinOrder, Promoting
  <2>8. FreeWorkers'
    BY DEF FreeWorkers, Places, EventsNotStranded, Passive
  <2> QED
    BY <2>1, <2>2, <2>3, <2>4, <2>5, <2>6, <2>7, <2>8
<1>2. ASSUME NEW w \in Workers, CheckTerm(w) PROVE IInv'
  <2> USE <1>2 DEF CheckTerm
  <2>1. Ownership' /\ Places'
    BY DEF Ownership, Places
  <2>2. FreeWorkers'
    BY DEF FreeWorkers, Passive
  <2>3. Promotions'
    BY DEF Promotions, Handing, Passive
  <2>4. OnePromotion'
    BY DEF OnePromotion, Promoting
  <2>5. Creation' /\ StartUp'
    BY DEF Creation, StartUp, Starting, Passive, Promoting
  <2>6. Destroyed'
    BY DEF Destroyed
  <2>7. EventsNotStranded'
    BY DEF EventsNotStranded
  <2>8. LastWorkerLeads' /\ JoinOrder'
    BY DEF LastWorkerLeads, JoinOrder, Promoting
  <2> QED
    BY <2>1, <2>2, <2>3, <2>4, <2>5, <2>6, <2>7, <2>8
<1>3. ASSUME NEW w \in Workers, Wait(w) PROVE IInv'
  <2> USE <1>3 DEF Wait
  <2>1. Ownership' /\ Places'
    BY DEF Ownership, Places
  <2>2. FreeWorkers'
    BY DEF FreeWorkers, Passive
  <2>3. Promotions'
    BY DEF Promotions, Handing, Passive
  <2>4. OnePromotion'
    BY DEF OnePromotion, Promoting
  <2>5. Creation' /\ StartUp'
    BY DEF Creation, StartUp, Starting, Passive, Promoting
  <2>6. Destroyed'
    BY DEF Destroyed
  <2>7. EventsNotStranded'
    BY DEF EventsNotStranded
  <2>8. LastWorkerLeads' /\ JoinOrder'
    BY DEF LastWorkerLeads, JoinOrder, Promoting
  <2> QED
    BY <2>1, <2>2, <2>3, <2>4, <2>5, <2>6, <2>7, <2>8
<1>4. ASSUME NEW w \in Workers, CheckLeader(w) PROVE IInv'
  <2> USE <1>4 DEF CheckLeader
  <2>1. Ownership' /\ Places'
    BY DEF Ownership, Places
  <2>2. FreeWorkers'
    BY DEF FreeWorkers, Passive
  <2>3. Promotions'
    BY DEF Promotions, Handing, Passive
  <2>4. OnePromotion'
    BY DEF OnePromotion, Promoting
  <2>5. Creation' /\ StartUp'
    BY DEF Creation, StartUp, Starting, Passive, Promoting
  <2>6. Destroyed'
    BY DEF Destroyed
  <2>7. EventsNotStranded'
    BY DEF EventsNotStranded
  <2>8. LastWorkerLeads' /\ JoinOrder'
    BY DEF LastWorkerLeads, JoinOrder, Promoting
  <2> QED
    BY <2>1, <2>2, <2>3, <2>4, <2>5, <2>6, <2>7, <2>8
<1>5. ASSUME NEW w \in Workers, EventLoop(w) PROVE IInv'
  <2> USE <1>5 DEF EventLoop
  <2>1. Ownership' /\ Places'
    BY DEF Ownership, Places
  <2>2. Promotions'
    BY DEF Promotions, Handing, Passive
  <2>3. OnePromotion'
    BY DEF OnePromotion, Promoting
  <2>4. Creation' /\ StartUp'
    BY DEF Creation, StartUp, Starting, Passive, Promoting
  <2>5. Destroyed'
    BY DEF Destroyed
  <2>6. LastWorkerLeads' /\ JoinOrder'
    BY DEF LastWorkerLeads, JoinOrder, Promoting
  <2>7. FreeWorkers'
    BY DEF FreeWorkers, Ownership, Places, Passive
  <2>8. EventsNotStranded'
    BY DEF EventsNotStranded, Ownership, Places
  <2> QED
    BY <2>1, <2>2, <2>3, <2>4, <2>5, <2>6, <2>7, <2>8
<1>6. ASSUME NEW w \in Workers, Fired(w) PROVE IInv'
  <2> USE <1>6 DEF Fired
  <2>1. Ownership' /\ Places'
    BY DEF Ownership, Places
  <2>2. FreeWorkers'
    BY DEF FreeWorkers, Passive
  <2>3. Promotions'
    BY DEF Promotions, Handing, Passive
  <2>4. OnePromotion'
    BY DEF OnePromotion, Promoting
  <2>5. Creation' /\ StartUp'
    BY DEF Creation, StartUp, Starting, Passive, Promoting
  <2>6. Destroyed'
    BY DEF Destroyed
  <2>7. EventsNotStranded'
    BY DEF EventsNotStranded
  <2>8. LastWorkerLeads' /\ JoinOrder'
    BY DEF LastWorkerLeads, JoinOrder, Promoting
  <2> QED
    BY <2>1, <2>2, <2>3, <2>4, <2>5, <2>6, <2>7, <2>8
<1>7. ASSUME NEW w \in Workers, FindFree(w) PROVE IInv'
  <2> USE <1>7 DEF FindFree
  <2>1. Ownership' /\ Places'
    BY DEF Ownership, Places
  <2>2. FreeWorkers'
    BY DEF FreeWorkers, Passive
  <2>3. Promotions'
    BY DEF Promotions, Handing, Passive
  <2>4. Creation'
    BY DEF Creation
  <2>5. Destroyed'
    BY DEF Destroyed
  <2>6. EventsNotStranded'
    BY DEF EventsNotStranded
  <2>7. LastWorkerLeads' /\ JoinOrder'
    BY DEF LastWorkerLeads, JoinOrder, Promoting
  <2>8. OnePromotion'
    <3>1. ASSUME NEW v \in Workers, Promoting(v) PROVE v = w
      <4>1. m_loop[w] = 0 /\ m_leader[w] /\ SingleLoop
        BY LoopsType DEF Places, Ownership
      <4>2. CASE pc[v] \in {"claim", "demote", "move"}
        BY <4>1, <4>2, LoopsType DEF Places, Ownership
      <4>3. CASE pc[v] \in {"userdata", "raise"}
        BY <4>1, <4>3, LoopsType DEF Ownership, Promotions, Handing
      <4> QED
        BY <3>1, <4>2, <4>3 DEF Promoting
    <3> QED
      BY <3>1 DEF OnePromotion, Promoting
  <2>9. StartUp'
    BY DEF StartUp, Places, Starting, Passive, Promoting
  <2> QED
    BY <2>1, <2>2, <2>3, <2>4, <2>5, <2>6, <2>7, <2>8, <2>9
<1>8. ASSUME NEW w \in Workers, Claim(w) PROVE IInv'
  <2> USE <1>8 DEF Claim
  <2>1. Ownership' /\ Places'
    BY DEF Ownership, Places
  <2>2. FreeWorkers'
    BY DEF FreeWorkers, Passive
  <2>3. OnePromotion'
    BY DEF OnePromotion, Promoting
  <2>4. Creation' /\ StartUp'
    BY DEF Creation, StartUp, Starting, Passive, Promoting
  <2>5. Destroyed'
    BY DEF Destroyed
  <2>6. EventsNotStranded'
    BY DEF EventsNotStranded
  <2>7. LastWorkerLeads' /\ JoinOrder'
    BY DEF LastWorkerLeads, JoinOrder, Promoting
  <2>8. Promotions'
    BY DEF Promotions, OnePromotion, FreeWorkers, Handing, Passive, Promoting
  <2> QED
    BY <2>1, <2>2, <2>3, <2>4, <2>5, <2>6, <2>7, <2>8
<1>9. ASSUME NEW w \in Workers, Demote(w) PROVE IInv'
  <2> USE <1>9 DEF Demote
  <2>1. Ownership'
    BY DEF Ownership
  <2>2. FreeWorkers'
    BY DEF FreeWorkers, Passive
  <2>3. Promotions'
    BY DEF Promotions, Handing, Passive
  <2>4. OnePromotion'
    BY DEF OnePromotion, Promoting
  <2>5. Creation' /\ StartUp'
    BY DEF Creation, StartUp, Starting, Passive, Promoting
  <2>6. Destroyed'
    BY DEF Destroyed
  <2>7. EventsNotStranded'
    BY DEF EventsNotStranded
  <2>8. LastWorkerLeads' /\ JoinOrder'
    BY DEF LastWorkerLeads, JoinOrder, Promoting
  <2>9. Places'
    BY DEF Places, Ownership
  <2> QED
    BY <2>1, <2>2, <2>3, <2>4, <2>5, <2>6, <2>7, <2>8, <2>9
<1>10. ASSUME NEW w \in Workers, MoveLoop(w) PROVE IInv'
  <2> USE <1>10 DEF MoveLoop
  <2>1. OnePromotion'
    BY DEF OnePromotion, Promoting
  <2>2. Creation' /\ StartUp'
    BY DEF Creation, StartUp, Starting, Passive, Promoting
  <2>3. EventsNotStranded'
    BY DEF EventsNotStranded
  <2>4. LastWorkerLeads' /\ JoinOrder'
    BY DEF LastWorkerLeads, JoinOrder, Promoting
  <2>5. Ownership'
    BY LoopsType DEF Ownership, Places, Promotions, Handing, Passive
  <2>6. Places'
    <3>1. chk_idx[w] # w /\ Passive(chk_idx[w]) /\ SingleLoop
      BY DEF Promotions, Handing, Places
    <3> QED
      BY <3>1 DEF Places, Passive
  <2>7. FreeWorkers'
    BY DEF FreeWorkers, Promotions, Passive, Handing
  <2>8. Promotions'
    BY DEF Promotions, OnePromotion, Places, Handing, Passive, Promoting
  <2>9. Destroyed'
    BY DEF Destroyed, Promotions, Handing, Passive
  <2> QED
    BY <2>1, <2>2, <2>3, <2>4, <2>5, <2>6, <2>7, <2>8, <2>9
<1>11. ASSUME NEW w \in Workers, SetUserdata(w) PROVE IInv'
  <2> USE <1>11 DEF SetUserdata
  <2>1. Ownership' /\ Places'
    BY DEF Ownership, Places
  <2>2. FreeWorkers'
    BY DEF FreeWorkers, Passive
  <2>3. Promotions'
    BY DEF Promotions, Handing, Passive
  <2>4. OnePromotion'
    BY DEF OnePromotion, Promoting
  <2>5. Creation' /\ StartUp'
    BY DEF Creation, StartUp, Starting, Passive, Promoting
  <2>6. EventsNotStranded'
    BY DEF EventsNotStranded
  <2>7. LastWorkerLeads' /\ JoinOrder'
    BY DEF LastWorkerLeads, JoinOrder, Promoting
  <2>8. Destroyed'
    BY DEF Destroyed, Ownership
  <2> QED
    BY <2>1, <2>2, <2>3, <2>4, <2>5, <2>6, <2>7, <2>8
<1>12. ASSUME NEW w \in Workers, Raise(w) PROVE IInv'
  <2> USE <1>12 DEF Raise
  <2>1. OnePromotion'
    BY DEF OnePromotion, Promoting
  <2>2. Creation' /\ StartUp'
    BY DEF Creation, StartUp, Starting, Passive, Promoting
  <2>3. Destroyed'
    BY DEF Destroyed
  <2>4. EventsNotStranded'
    BY DEF EventsNotStranded
  <2>5. JoinOrder'
    BY DEF JoinOrder
  <2>6. Ownership'
    BY DEF Ownership, Promotions, Handing, Passive
  <2>7. Places'
    BY DEF Places, Promotions, Handing, Passive
  <2>8. FreeWorkers'
    BY DEF FreeWorkers, Promotions, Passive, Handing
  <2>9. Promotions'
    BY DEF Promotions, OnePromotion, Handing, Passive, Promoting
  <2>10. LastWorkerLeads'
    BY DEF LastWorkerLeads, Promotions, Promoting, Handing, Passive
  <2> QED
    BY <2>1, <2>2, <2>3, <2>4, <2>5, <2>6, <2>7, <2>8, <2>9, <2>10
<1>13. ASSUME NEW w \in Workers, HandleEvent(w) PROVE IInv'
  <2> USE <1>13 DEF HandleEvent, exec_in_worker_ctx, loop_ptr
  <2>1. Ownership' /\ Places'
    BY DEF Ownership, Places
  <2>2. FreeWorkers'
    BY DEF FreeWorkers, Passive
  <2>3. Promotions'
    BY DEF Promotions, Handing, Passive
  <2>4. OnePromotion'
    BY DEF OnePromotion, Promoting
  <2>5. Creation' /\ StartUp'
    BY DEF Creation, StartUp, Starting, Passive, Promoting
  <2>6. Destroyed'
    BY DEF Destroyed
  <2>7. EventsNotStranded'
    BY DEF EventsNotStranded
  <2>8. LastWorkerLeads' /\ JoinOrder'
    BY DEF LastWorkerLeads, JoinOrder, Promoting
  <2> QED
    BY <2>1, <2>2, <2>3, <2>4, <2>5, <2>6, <2>7, <2>8
<1>14. ASSUME NEW w \in Workers, HandledAll(w) PROVE IInv'
  <2> USE <1>14 DEF HandledAll
  <2>1. Ownership' /\ Places'
    BY DEF Ownership, Places
  <2>2. FreeWorkers'
    BY DEF FreeWorkers, Passive
  <2>3. Promotions'
    BY DEF Promotions, Handing, Passive
  <2>4. OnePromotion'
    BY DEF OnePromotion, Promoting
  <2>5. Creation' /\ StartUp'
    BY DEF Creation, StartUp, Starting, Passive, Promoting
  <2>6. Destroyed'
    BY DEF Destroyed
  <2>7. EventsNotStranded'
    BY DEF EventsNotStranded
  <2>8. LastWorkerLeads' /\ JoinOrder'
    BY DEF LastWorkerLeads, JoinOrder, Promoting
  <2> QED
    BY <2>1, <2>2, <2>3, <2>4, <2>5, <2>6, <2>7, <2>8
<1>15. ASSUME NEW w \in Workers, Ended(w) PROVE IInv'
  <2> USE <1>15 DEF Ended
  <2>1. Ownership' /\ Places'
    BY DEF Ownership, Places
  <2>2. FreeWorkers'
    BY DEF FreeWorkers, Passive
  <2>3. Promotions'
    BY DEF Promotions, Handing, Passive
  <2>4. OnePromotion'
    BY DEF OnePromotion, Promoting
  <2>5. Creation' /\ StartUp'
    BY DEF Creation, StartUp, Starting, Passive, Promoting
  <2>6. Destroyed'
    BY DEF Destroyed
  <2>7. EventsNotStranded'
    BY DEF EventsNotStranded
  <2>8. LastWorkerLeads' /\ JoinOrder'
    BY DEF LastWorkerLeads, JoinOrder, Promoting
  <2> QED
    BY <2>1, <2>2, <2>3, <2>4, <2>5, <2>6, <2>7, <2>8
<1>16. ASSUME NEW w \in Workers, Shut(w) PROVE IInv'
  <2> USE <1>16 DEF Shut
  <2>1. Ownership' /\ Places'
    BY DEF Ownership, Places
  <2>2. FreeWorkers'
    BY DEF FreeWorkers, Passive
  <2>3. OnePromotion'
    BY DEF OnePromotion, Promoting
  <2>4. Creation' /\ StartUp'
    BY DEF Creation, StartUp, Starting, Passive, Promoting
  <2>5. EventsNotStranded'
    BY DEF EventsNotStranded
  <2>6. LastWorkerLeads' /\ JoinOrder'
    BY DEF LastWorkerLeads, JoinOrder, Promoting
  <2>7. Promotions'
    BY DEF Promotions, Places, Handing, Passive
  <2>8. Destroyed'
    BY DEF Destroyed, Ownership, Places
  <2> QED
    BY <2>1, <2>2, <2>3, <2>4, <2>5, <2>6, <2>7, <2>8
<1>17. ASSUME NEW w \in Workers, AsyncCall(w) PROVE IInv'
  <2> USE <1>17 DEF AsyncCall, loop_ptr
  <2>1. Ownership' /\ Places'
    BY DEF Ownership, Places
  <2>2. FreeWorkers'
    BY DEF FreeWorkers, Passive
  <2>3. Promotions'
    BY DEF Promotions, Handing, Passive
  <2>4. OnePromotion'
    BY DEF OnePromotion, Promoting
  <2>5. Creation' /\ StartUp'
    BY DEF Creation, StartUp, Starting, Passive, Promoting
  <2>6. Destroyed'
    BY DEF Destroyed
  <2>7. EventsNotStranded'
    BY DEF EventsNotStranded
  <2>8. LastWorkerLeads' /\ JoinOrder'
    BY DEF LastWorkerLeads, JoinOrder, Promoting
  <2> QED
    BY <2>1, <2>2, <2>3, <2>4, <2>5, <2>6, <2>7, <2>8
<1>18. CASE CreateWorker
  <2> USE <1>18 DEF CreateWorker, NewWorker
  <2>1. FreeWorkers'
    BY DEF FreeWorkers, Passive
  <2>2. OnePromotion'
    BY DEF OnePromotion, Promoting
  <2>3. StartUp'
    BY DEF StartUp, Starting, Passive, Promoting
  <2>4. LastWorkerLeads' /\ JoinOrder'
    BY DEF LastWorkerLeads, JoinOrder, Promoting
  <2>5. Ownership'
    BY LoopsType, WorkersType DEF Ownership, Places, Creation
  <2>none. pc[mi] = "none"
    BY WorkersOrder DEF Creation
  <2>6. Places'
    BY <2>none, LoopsType DEF Places
  <2>7. Promotions'
    BY DEF Promotions, StartUp, Handing, Passive, Starting, Promoting
  <2>8. Creation'
    BY WorkersOrder DEF Creation
  <2>9. Destroyed'
    <3>1. ASSUME NEW l \in Loops, destroyed[l] PROVE userdata[l] # mi /\ (~SingleLoop => l # mi)
      BY <3>1, <2>none DEF Destroyed, Places
    <3> QED
      BY <3>1, LoopsType DEF Destroyed
  <2>10. EventsNotStranded'
    BY WorkersType DEF EventsNotStranded, Creation
  <2> QED
    BY <2>1, <2>2, <2>3, <2>4, <2>5, <2>6, <2>7, <2>8, <2>9, <2>10
<1>19. CASE AwaitWorker
  <2> USE <1>19 DEF AwaitWorker
  <2>1. Ownership' /\ Places' /\ FreeWorkers' /\ Promotions' /\ OnePromotion' /\
         Creation' /\ Destroyed' /\ EventsNotStranded' /\ LastWorkerLeads' /\ JoinOrder'
    BY DEF Ownership, Places, FreeWorkers, Promotions, OnePromotion, Creation,
           Destroyed, EventsNotStranded, LastWorkerLeads, JoinOrder, Passive, Handing,
           Promoting
  <2>2. StartUp'
    BY WorkersType DEF StartUp, Starting, Passive, Promoting
  <2> QED
    BY <2>1, <2>2
<1>20. CASE ElectFirst
  <2> USE <1>20 DEF ElectFirst
  <2>1. Ownership' /\ Places'
    BY DEF Ownership, Places
  <2>2. FreeWorkers'
    BY DEF FreeWorkers, Passive
  <2>3. OnePromotion'
    BY DEF OnePromotion, Promoting
  <2>4. Creation'
    BY DEF Creation
  <2>5. Destroyed'
    BY DEF Destroyed
  <2>6. EventsNotStranded'
    BY DEF EventsNotStranded
  <2>7. LastWorkerLeads' /\ JoinOrder'
    BY DEF LastWorkerLeads, JoinOrder, Promoting
  <2>8. Promotions'
    BY DEF Promotions, StartUp, Handing, Passive, Starting, Promoting
  <2>9. StartUp'
    BY DEF StartUp, FreeWorkers, Starting, Passive, Promoting
  <2> QED
    BY <2>1, <2>2, <2>3, <2>4, <2>5, <2>6, <2>7, <2>8, <2>9
<1>21. CASE MoveFirst
  <2> USE <1>21 DEF MoveFirst
  <2>1. OnePromotion'
    BY DEF OnePromotion, Promoting
  <2>2. Creation' /\ StartUp'
    BY DEF Creation, StartUp, Starting, Passive, Promoting
  <2>3. EventsNotStranded'
    BY DEF EventsNotStranded
  <2>4. LastWorkerLeads' /\ JoinOrder'
    BY DEF LastWorkerLeads, JoinOrder, Promoting
  <2>5. Ownership'
    BY DEF Ownership, StartUp, Starting, Passive, Promoting
  <2>6. Places'
    BY DEF Places, StartUp, Starting, Passive, Promoting
  <2>7. FreeWorkers'
    BY DEF FreeWorkers, StartUp, Passive, Starting, Promoting
  <2>8. Promotions'
    BY DEF Promotions, Places, StartUp, Handing, Passive, Starting, Promoting
  <2>9. Destroyed'
    BY DEF Destroyed, StartUp, Starting, Passive, Promoting
  <2> QED
    BY <2>1, <2>2, <2>3, <2>4, <2>5, <2>6, <2>7, <2>8, <2>9
<1>22. CASE UserdataFirst
  <2> USE <1>22 DEF UserdataFirst
  <2>1. Places' /\ FreeWorkers' /\ OnePromotion' /\ Creation' /\ StartUp' /\
         EventsNotStranded' /\ LastWorkerLeads' /\ JoinOrder'
    BY DEF Places, FreeWorkers, OnePromotion, Creation, StartUp, EventsNotStranded,
           LastWorkerLeads, JoinOrder, Passive, Promoting, Starting
  <2>2. Ownership'
    BY DEF Ownership, StartUp, Starting, Passive, Promoting
  <2>3. Promotions'
    BY DEF Promotions, StartUp, Handing, Passive, Starting, Promoting
  <2>4. Destroyed'
    BY DEF Destroyed, StartUp, Starting, Passive, Promoting
  <2> QED
    BY <2>1, <2>2, <2>3, <2>4
<1>23. CASE RaiseFirst
  <2> USE <1>23 DEF RaiseFirst
  <2>1. OnePromotion' /\ Creation' /\ StartUp' /\ Destroyed' /\ EventsNotStranded' /\
         JoinOrder'
    BY DEF OnePromotion, Creation, StartUp, Destroyed, EventsNotStranded, JoinOrder,
           Promoting, Starting, Passive
  <2>2. Ownership'
    BY LoopsType DEF Ownership, StartUp, Starting, Passive, Promoting
  <2>3. Places'
    BY DEF Places, StartUp, Starting, Passive, Promoting
  <2>4. FreeWorkers'
    BY DEF FreeWorkers, StartUp, Passive, Starting, Promoting
  <2>5. Promotions'
    BY DEF Promotions, StartUp, Handing, Passive, Starting, Promoting
  <2>6. LastWorkerLeads'
    BY DEF LastWorkerLeads, StartUp, Promoting, Starting, Passive
  <2> QED
    BY <2>1, <2>2, <2>3, <2>4, <2>5, <2>6
<1>24. CASE WakeUp
  <2> USE <1>24 DEF WakeUp
  <2>1. Ownership' /\ Places' /\ FreeWorkers' /\ Promotions' /\ OnePromotion' /\
         Creation' /\ StartUp' /\ Destroyed' /\ EventsNotStranded' /\ LastWorkerLeads'
    BY DEF Ownership, Places, FreeWorkers, Promotions, OnePromotion, Creation, StartUp,
           Destroyed, EventsNotStranded, LastWorkerLeads, Passive, Handing, Promoting,
           Starting
  <2>2. JoinOrder'
    BY WorkersType DEF JoinOrder
  <2> QED
    BY <2>1, <2>2
<1>25. CASE TerminateWorker
  <2> USE <1>25 DEF TerminateWorker
  <2>1. Ownership' /\ Places'
    BY DEF Ownership, Places
  <2>2. FreeWorkers'
    BY DEF FreeWorkers, Passive
  <2>3. Promotions'
    BY DEF Promotions, Handing, Passive
  <2>4. OnePromotion'
    BY DEF OnePromotion, Promoting
  <2>5. Creation' /\ StartUp'
    BY DEF Creation, StartUp, Starting, Passive, Promoting
  <2>6. Destroyed'
    BY DEF Destroyed
  <2>7. EventsNotStranded'
    BY DEF EventsNotStranded
  <2>8. LastWorkerLeads' /\ JoinOrder'
    BY DEF LastWorkerLeads, JoinOrder, Promoting
  <2> QED
    BY <2>1, <2>2, <2>3, <2>4, <2>5, <2>6, <2>7, <2>8
<1>26. CASE ReadLeader
  <2> USE <1>26 DEF ReadLeader
  <2>1. Ownership' /\ Places' /\ FreeWorkers' /\ Promotions' /\ OnePromotion' /\
         Creation' /\ StartUp' /\ Destroyed' /\ EventsNotStranded' /\
         LastWorkerLeads' /\ JoinOrder'
    BY DEF Ownership, Places, FreeWorkers, Promotions, OnePromotion, Creation, StartUp,
           Destroyed, EventsNotStranded, LastWorkerLeads, JoinOrder, Passive, Handing,
           Promoting, Starting
  <2> QED
    BY <2>1
<1>27. CASE Interrupt
  <2> USE <1>27 DEF Interrupt, loop_ptr
  <2>1. Ownership' /\ Places' /\ FreeWorkers' /\ Promotions' /\ OnePromotion' /\
         Creation' /\ StartUp' /\ Destroyed' /\ EventsNotStranded' /\
         LastWorkerLeads' /\ JoinOrder'
    BY DEF Ownership, Places, FreeWorkers, Promotions, OnePromotion, Creation, StartUp,
           Destroyed, EventsNotStranded, LastWorkerLeads, JoinOrder, Passive, Handing,
           Promoting, Starting
  <2> QED
    BY <2>1
<1>28. CASE JoinThread
  <2> USE <1>28 DEF JoinThread
  <2>1. Ownership' /\ Places'
    BY DEF Ownership, Places
  <2>2. FreeWorkers'
    BY DEF FreeWorkers, Passive
  <2>3. Promotions'
    BY DEF Promotions, Handing, Passive
  <2>4. OnePromotion'
    BY DEF OnePromotion, Promoting
  <2>5. Creation' /\ StartUp'
    BY DEF Creation, StartUp, Starting, Passive, Promoting
  <2>6. Destroyed'
    BY DEF Destroyed
  <2>7. EventsNotStranded'
    BY DEF EventsNotStranded
  <2>8. LastWorkerLeads'
    BY DEF LastWorkerLeads, Promoting
  <2>9. JoinOrder'
    BY WorkersOrder DEF JoinOrder
  <2> QED
    BY <2>1, <2>2, <2>3, <2>4, <2>5, <2>6, <2>7, <2>8, <2>9
<1>29. CASE SpuriousWakeup
  <2> USE <1>29 DEF SpuriousWakeup
  <2>1. Ownership' /\ Places' /\ FreeWorkers' /\ Promotions' /\ OnePromotion' /\
         Creation' /\ StartUp' /\ Destroyed' /\ EventsNotStranded' /\ LastWorkerLeads'
    BY DEF Ownership, Places, FreeWorkers, Promotions, OnePromotion, Creation, StartUp,
           Destroyed, EventsNotStranded, LastWorkerLeads, Passive, Handing, Promoting,
           Starting
  <2>2. JoinOrder'
    BY WorkersType DEF JoinOrder
  <2> QED
    BY <2>1, <2>2
<1>30. CASE Terminate
  <2> USE <1>30 DEF Terminate
  <2>1. Ownership' /\ Places' /\ FreeWorkers' /\ Promotions' /\ OnePromotion' /\
         Creation' /\ StartUp' /\ Destroyed' /\ EventsNotStranded' /\
         LastWorkerLeads' /\ JoinOrder'
    BY DEF Ownership, Places, FreeWorkers, Promotions, OnePromotion, Creation, StartUp,
           Destroyed, EventsNotStranded, LastWorkerLeads, JoinOrder, Passive, Handing,
           Promoting, Starting
  <2> QED
    BY <2>1
<1>31. CASE CallJoin
  <2> USE <1>31 DEF CallJoin
  <2>1. Ownership' /\ Places' /\ FreeWorkers' /\ Promotions' /\ OnePromotion' /\
         Creation' /\ StartUp' /\ Destroyed' /\ EventsNotStranded' /\
         LastWorkerLeads' /\ JoinOrder'
    BY DEF Ownership, Places, FreeWorkers, Promotions, OnePromotion, Creation, StartUp,
           Destroyed, EventsNotStranded, LastWorkerLeads, JoinOrder, Passive, Handing,
           Promoting, Starting
  <2> QED
    BY <2>1
<1>32. CASE CallDestroy
  <2> USE <1>32 DEF CallDestroy
  <2>1. Ownership' /\ Places' /\ FreeWorkers' /\ Promotions' /\ OnePromotion' /\
         Creation' /\ StartUp' /\ Destroyed' /\ EventsNotStranded' /\
         LastWorkerLeads' /\ JoinOrder'
    BY DEF Ownership, Places, FreeWorkers, Promotions, OnePromotion, Creation, StartUp,
           Destroyed, EventsNotStranded, LastWorkerLeads, JoinOrder, Passive, Handing,
           Promoting, Starting
  <2> QED
    BY <2>1
<1>33. CASE ResetInstance
  <2> USE <1>33 DEF ResetInstance
  <2>1. Ownership' /\ Places' /\ FreeWorkers' /\ Promotions' /\ OnePromotion' /\
         Creation' /\ StartUp' /\ Destroyed' /\ EventsNotStranded' /\
         LastWorkerLeads' /\ JoinOrder'
    BY DEF Ownership, Places, FreeWorkers, Promotions, OnePromotion, Creation, StartUp,
           Destroyed, EventsNotStranded, LastWorkerLeads, JoinOrder, Passive, Handing,
           Promoting, Starting
  <2> QED
    BY <2>1
<1>34. CASE ResetUnjoined
  <2> USE <1>34 DEF ResetUnjoined, Abort
  <2>1. Ownership'
    BY DEF Ownership
  <2>2. FreeWorkers'
    BY DEF FreeWorkers, Passive
  <2>3. Promotions'
    BY DEF Promotions, Handing, Passive
  <2>4. OnePromotion'
    BY DEF OnePromotion, Promoting
  <2>5. Creation' /\ StartUp'
    BY DEF Creation, StartUp, Starting, Passive, Promoting
  <2>6. Destroyed'
    BY DEF Destroyed
  <2>7. EventsNotStranded'
    BY DEF EventsNotStranded
  <2>8. LastWorkerLeads' /\ JoinOrder'
    BY DEF LastWorkerLeads, JoinOrder, Promoting
  <2>9. Places'
    BY DEF Places, Creation
  <2> QED
    BY <2>1, <2>2, <2>3, <2>4, <2>5, <2>6, <2>7, <2>8, <2>9
<1>35. CASE RejoinThread
  <2> USE <1>35 DEF RejoinThread, Abort
  <2>1. Ownership'
    BY DEF Ownership
  <2>2. FreeWorkers'
    BY DEF FreeWorkers, Passive
  <2>3. Promotions'
    BY DEF Promotions, Handing, Passive
  <2>4. OnePromotion'
    BY DEF OnePromotion, Promoting
  <2>5. Creation' /\ StartUp'
    BY DEF Creation, StartUp, Starting, Passive, Promoting
  <2>6. Destroyed'
    BY DEF Destroyed
  <2>7. EventsNotStranded'
    BY DEF EventsNotStranded
  <2>8. LastWorkerLeads' /\ JoinOrder'
    BY DEF LastWorkerLeads, JoinOrder, Promoting
  <2>9. Places'
    BY DEF Places, JoinOrder
  <2> QED
    BY <2>1, <2>2, <2>3, <2>4, <2>5, <2>6, <2>7, <2>8, <2>9
<1>36. CASE UNCHANGED vars
  BY <1>36 DEF vars, Ownership, Places, FreeWorkers, Promotions, OnePromotion, Creation, StartUp, Destroyed, EventsNotStranded, LastWorkerLeads, JoinOrder,
            Starting, Handing, Passive, Promoting
<1> HIDE <1>type DEF IInv
<1> QED
  BY <1>1, <1>2, <1>3, <1>4, <1>5, <1>6, <1>7, <1>8, <1>9, <1>10,
     <1>11, <1>12, <1>13, <1>14, <1>15, <1>16, <1>17, <1>18, <1>19, <1>20,
     <1>21, <1>22, <1>23, <1>24, <1>25, <1>26, <1>27, <1>28, <1>29, <1>30,
     <1>31, <1>32, <1>33, <1>34, <1>35, <1>36
     DEF Next, Run, MainStep, Finished

\* The inductive invariant holds in every reachable state.
THEOREM InvHolds == Spec => []IInv
<1> QED
  BY InvInit, InvStep, PTL DEF Spec

\* worker::run and both libev callbacks: whoever is inside ev_loop leads, owns
\* a live loop that knows it, and is alone in it, with any number of workers.
THEOREM LoopSafety == Spec => []LoopSafe
<1>1. IInv => LoopSafe
  <2> SUFFICES ASSUME IInv, NEW w \in Workers, pc[w] = "evloop"
               PROVE  /\ m_leader[w]
                      /\ m_loop[w] # NoLoop
                      /\ ~destroyed[m_loop[w]]
                      /\ userdata[m_loop[w]] = w
                      /\ \A v \in Workers \ {w}: pc[v] = "evloop" => m_loop[v] # m_loop[w]
    BY DEF LoopSafe
  <2>1. m_leader[w] /\ m_loop[w] # NoLoop /\ userdata[m_loop[w]] = w
    BY DEF IInv, Places, Ownership
  <2>2. m_loop[w] \in Loops
    BY <2>1 DEF IInv, TypeOK
  <2>3. ~destroyed[m_loop[w]]
    BY <2>1, <2>2 DEF IInv, Destroyed
  <2>4. \A v \in Workers \ {w}: m_loop[v] # m_loop[w]
    BY <2>1 DEF IInv, Ownership
  <2> QED
    BY <2>1, <2>3, <2>4
<1> QED
  BY <1>1, InvHolds, PTL

\* worker::run: no event stays behind in the queue of a worker that does not
\* handle its events.
THEOREM NoStrandedEvents == Spec => []EventsNotStranded
<1>1. IInv => EventsNotStranded
  BY DEF IInv
<1> QED
  BY <1>1, InvHolds, PTL

\* get_worker_by_task: between promotions, m_last_worker_id is the leader.
THEOREM LastWorkerIsLeader == Spec => []LastWorkerLeads
<1>1. IInv => LastWorkerLeads
  BY DEF IInv
<1> QED
  BY <1>1, InvHolds, PTL

\* free_worker: a worker it may return is idle.
THEOREM FreeMeansIdle == Spec => []FreeWorkersIdle
<1>1. IInv => FreeWorkersIdle
  BY DEF IInv, FreeWorkers, FreeWorkersIdle, Passive
<1> QED
  BY <1>1, InvHolds, PTL

\* dispatcher::join: when it returns, every thread ended, its events handled.
THEOREM JoinStopsWorkers == Spec => []JoinedMeansStopped
<1>1. IInv => JoinedMeansStopped
  BY DEF IInv, TypeOK, JoinOrder, EventsNotStranded, JoinedMeansStopped
<1> QED
  BY <1>1, InvHolds, PTL
-----------------------------------------------------------------------------
(* In SINGLE_LOOP mode every step of Dispatcher is a step of               *)
(* LeaderFollowers or leaves the roles alone, for any number of workers.   *)

\* What a role depends on.
RolesKept ==
    \A x \in Workers:
        /\ Stopped(x)' <=> Stopped(x)
        /\ ~Stopped(x) => (Leading(x)' <=> Leading(x))
        /\ ~Stopped(x) /\ ~Leading(x) =>
              ((m_workers_busy'[x] \/ Claimed(x)') <=> (m_workers_busy[x] \/ Claimed(x)))

LEMMA SameRoles == ASSUME RolesKept PROVE UNCHANGED role
BY DEF RolesKept, role

\* The roles other than those of workers w and v are kept.
OthersKept(w, v) ==
    \A x \in Workers \ {w, v}:
        /\ Stopped(x)' <=> Stopped(x)
        /\ ~Stopped(x) => (Leading(x)' <=> Leading(x))
        /\ ~Stopped(x) /\ ~Leading(x) =>
              ((m_workers_busy'[x] \/ Claimed(x)') <=> (m_workers_busy[x] \/ Claimed(x)))

LEMMA OtherRoles ==
    ASSUME NEW w, NEW v, OthersKept(w, v)
    PROVE  \A x \in Workers \ {w, v}: role'[x] = role[x]
BY DEF OthersKept, role

\* add_free_worker makes a worker that handled its events a follower.
LEMMA MarkFreeEnlists ==
    ASSUME IInv, SingleLoop, NEW w \in Workers, MarkFree(w)
    PROVE  LF!Enlist(w)
<1>1. /\ pc[w] = "mark" /\ pc' = [pc EXCEPT ![w] = "while"]
      /\ m_workers_busy' = [m_workers_busy EXCEPT ![w] = TRUE]
      /\ m_leader' = m_leader /\ chk_idx' = chk_idx /\ main' = main
  BY DEF MarkFree, Goto, ownVars, scanVars, mainVars
<1>2. ~m_leader[w] /\ ~m_workers_busy[w] /\ ~Claimed(w)
  BY <1>1 DEF IInv, Places, FreeWorkers, Promotions, StartUp, Handing, Passive, Claimed
<1>3. role[w] = "working"
  BY <1>1, <1>2 DEF role, Stopped, Leading
<1>4. pc'[w] = "while" /\ m_workers_busy'[w]
  BY <1>1 DEF IInv, TypeOK
<1>5. role'[w] = "following"
  BY <1>1, <1>2, <1>4 DEF role, Stopped, Leading
<1>6. OthersKept(w, w)
  <2>1. \A x \in Workers \ {w}: pc'[x] = pc[x] /\ m_workers_busy'[x] = m_workers_busy[x]
    BY <1>1 DEF IInv, TypeOK
  <2>2. \A x \in Workers \ {w}: Claimed(x)' <=> Claimed(x)
    BY <1>1, <1>4, <2>1 DEF Claimed
  <2> QED
    BY <1>1, <2>1, <2>2 DEF OthersKept, Stopped, Leading
<1>7. \A x \in Workers \ {w}: role'[x] = role[x]
  BY <1>6, OtherRoles
<1> QED
  BY <1>3, <1>5, <1>7 DEF LF!Enlist, role

\* set_event_loop on the claimed worker: it leads from here on, unless it has
\* ended meanwhile.
LEMMA RaisePromotes ==
    ASSUME IInv, SingleLoop, NEW w \in Workers, Raise(w)
    PROVE  LF!Abandon(w) \/ \E v \in Workers: LF!Promote(w, v)
<1> DEFINE v == chk_idx[w]
<1>1. /\ pc[w] = "raise" /\ pc' = [pc EXCEPT ![w] = "handle"]
      /\ m_leader' = [m_leader EXCEPT ![v] = TRUE]
      /\ chk_idx' = [chk_idx EXCEPT ![w] = 0]
      /\ m_workers_busy' = m_workers_busy /\ main' = main
  BY DEF Raise, Goto, dispVars, mainVars
<1>2. v \in Workers /\ v # w
  BY <1>1 DEF IInv, TypeOK, Promotions, Handing
<1>3. ~m_leader[w] /\ ~m_workers_busy[w] /\ ~Claimed(w)
  BY <1>1 DEF IInv, Places, FreeWorkers, Promotions, StartUp, Handing, Passive, Claimed
<1>4. role[w] = "leading"
  BY <1>1 DEF role, Stopped, Leading
<1>5. /\ pc'[w] = "handle" /\ chk_idx'[w] = 0 /\ m_leader'[v] /\ ~m_leader'[w]
      /\ \A x \in Workers \ {w}: pc'[x] = pc[x] /\ chk_idx'[x] = chk_idx[x]
      /\ \A x \in Workers \ {v}: m_leader'[x] = m_leader[x]
  BY <1>1, <1>2, <1>3 DEF IInv, TypeOK
<1>6. role'[w] = "working"
  <2>1. ~Claimed(w)'
    BY <1>1, <1>3, <1>5 DEF Claimed
  <2> QED
    BY <1>1, <1>3, <1>5, <2>1 DEF role, Stopped, Leading
<1>7. \A x \in Workers \ {w, v}: role'[x] = role[x]
  <2>1. \A x \in Workers \ {w, v}: Claimed(x)' <=> Claimed(x)
    BY <1>1, <1>5 DEF Claimed
  <2>2. OthersKept(w, v)
    BY <1>1, <1>5, <2>1 DEF OthersKept, Stopped, Leading
  <2> QED
    BY <2>2, OtherRoles
<1>8. CASE Stopped(v)
  <2>1. role[v] = "stopped" /\ role'[v] = "stopped"
    BY <1>2, <1>5, <1>8 DEF role, Stopped
  <2> QED
    BY <1>2, <1>4, <1>6, <1>7, <2>1 DEF LF!Abandon, role
<1>9. CASE ~Stopped(v)
  <2>1. Passive(v) /\ ~m_leader[v] /\ Claimed(v)
    BY <1>1, <1>2 DEF IInv, Promotions, Handing, Claimed
  <2>2. role[v] = "following"
    BY <1>2, <1>9, <2>1 DEF role, Leading, Passive
  <2>3. role'[v] = "leading"
    BY <1>2, <1>5, <1>9 DEF role, Stopped, Leading
  <2> QED
    BY <1>2, <1>4, <1>6, <1>7, <2>2, <2>3 DEF LF!Promote, role
<1> QED
  BY <1>8, <1>9

\* start: there is no leader before worker 0.
LEMMA RaiseFirstElects ==
    ASSUME IInv, SingleLoop, RaiseFirst
    PROVE  LF!Elect(0) \/ UNCHANGED role
<1>1. /\ main = "raise0" /\ main' = "up" /\ pc' = pc /\ chk_idx' = chk_idx
      /\ m_leader' = [m_leader EXCEPT ![0] = TRUE] /\ m_workers_busy' = m_workers_busy
  BY DEF RaiseFirst, MainGoto, dispVars, scanVars
<1>2. \A x \in Workers: ~m_leader[x] /\ ~Promoting(x)
  BY <1>1 DEF IInv, StartUp, Starting
<1>3. \A x \in Workers: role[x] # "leading"
  BY <1>2 DEF role, Leading, Promoting
<1>4. 0 \in Workers
  BY WorkersType
<1>5. m_leader'[0] /\ \A x \in Workers \ {0}: m_leader'[x] = m_leader[x]
  BY <1>1, <1>4 DEF IInv, TypeOK
<1>6. \A x \in Workers \ {0}: Claimed(x)' <=> Claimed(x)
  BY <1>1 DEF Claimed
<1>7. \A x \in Workers \ {0}: role'[x] = role[x]
  <2>1. OthersKept(0, 0)
    BY <1>1, <1>5, <1>6 DEF OthersKept, Stopped, Leading
  <2> QED
    BY <2>1, OtherRoles
<1>8. CASE Stopped(0)
  <2>1. role'[0] = role[0]
    BY <1>1, <1>4, <1>8 DEF role, Stopped
  <2> QED
    BY <1>4, <1>7, <2>1 DEF role
<1>9. CASE ~Stopped(0)
  <2>1. Claimed(0) /\ ~Leading(0)
    BY <1>1, <1>2, <1>4 DEF Claimed, Leading, Promoting
  <2>2. role[0] = "following"
    BY <1>4, <1>9, <2>1 DEF role
  <2>3. role'[0] = "leading"
    BY <1>1, <1>4, <1>5, <1>9 DEF role, Stopped, Leading
  <2> QED
    BY <1>3, <1>4, <1>7, <2>2, <2>3 DEF LF!Elect, LF!NoLeader, role
<1> QED
  BY <1>8, <1>9

\* A worker that finds m_term set leaves.
LEMMA CheckTermStops ==
    ASSUME IInv, NEW w \in Workers, CheckTerm(w)
    PROVE  LF!Stop(w) \/ UNCHANGED role
<1>1. /\ pc[w] = "while" /\ m_workers_busy' = m_workers_busy /\ m_leader' = m_leader
      /\ chk_idx' = chk_idx /\ main' = main
      /\ pc' = [pc EXCEPT ![w] = IF m_term[w] THEN "done" ELSE "wait"]
  BY DEF CheckTerm, Jump, Goto, dispVars, ownVars, scanVars, mainVars
<1>2. /\ pc'[w] = IF m_term[w] THEN "done" ELSE "wait"
      /\ \A x \in Workers \ {w}: pc'[x] = pc[x]
  BY <1>1 DEF IInv, TypeOK
<1>3. \A x \in Workers: Claimed(x)' <=> Claimed(x)
  BY <1>1, <1>2 DEF Claimed
<1>4. CASE m_term[w]
  <2>1. role[w] # "stopped" /\ role'[w] = "stopped"
    BY <1>1, <1>2, <1>4 DEF role, Stopped
  <2>2. OthersKept(w, w)
    BY <1>1, <1>2, <1>3 DEF OthersKept, Stopped, Leading
  <2>3. \A x \in Workers \ {w}: role'[x] = role[x]
    BY <2>2, OtherRoles
  <2> QED
    BY <2>1, <2>3 DEF LF!Stop, role
<1>5. CASE ~m_term[w]
  <2>1. RolesKept
    BY <1>1, <1>2, <1>3, <1>5 DEF RolesKept, Stopped, Leading
  <2> QED
    BY <2>1, SameRoles
<1> QED
  BY <1>4, <1>5

\* std::terminate stops all threads.
LEMMA AbortStops ==
    ASSUME NEW label, Abort(label)
    PROVE  LF!StopAll
<1>1. \A x \in Workers: pc'[x] \in {"done", "killed"}
  BY DEF Abort
<1> QED
  BY <1>1 DEF LF!StopAll, role, Stopped

\* The steps of a worker between which its role is the same.
Working(w) ==
    \/ Wait(w) \/ CheckLeader(w) \/ EventLoop(w) \/ Fired(w) \/ FindFree(w) \/ HandleEvent(w)
    \/ HandledAll(w) \/ Ended(w) \/ Shut(w) \/ AsyncCall(w)

LEMMA WorkingHidden ==
    ASSUME IInv, SingleLoop, NEW w \in Workers, Working(w)
    PROVE  UNCHANGED role
<1>1. m_workers_busy' = m_workers_busy /\ m_leader' = m_leader /\ main' = main
  BY DEF Working, Wait, CheckLeader, EventLoop, Fired, FindFree, HandleEvent, HandledAll,
         Ended, Shut, AsyncCall, Jump, dispVars, ownVars, mainVars
<1>2. \A x \in Workers \ {w}: pc'[x] = pc[x] /\ chk_idx'[x] = chk_idx[x]
  BY DEF IInv, TypeOK, Working, Wait, CheckLeader, EventLoop, Fired, FindFree, HandleEvent,
         HandledAll, Ended, Shut, AsyncCall, Jump, Goto, scanVars
<1>3. \/ pc'[w] = pc[w] /\ (pc[w] = "find" \/ chk_idx' = chk_idx)
      \/ ~Handing(w) /\ ~Stopped(w) /\ ~Handing(w)' /\ ~Stopped(w)'
  BY DEF IInv, TypeOK, Working, Wait, CheckLeader, EventLoop, Fired, FindFree, HandleEvent,
         HandledAll, Ended, Shut, AsyncCall, Jump, Goto, scanVars, Handing, Stopped
<1>4. \A x \in Workers: Claimed(x)' <=> Claimed(x)
  BY <1>1, <1>2, <1>3 DEF Claimed, Handing
<1>5. RolesKept
  BY <1>1, <1>2, <1>3, <1>4 DEF RolesKept, Stopped, Leading, Handing
<1> QED
  BY <1>5, SameRoles

\* A claim and the first parts of a hand-over: the worker that was free is
\* claimed, and the leader leads until the other one does.
LEMMA HandOverHidden ==
    ASSUME IInv, SingleLoop, NEW w \in Workers,
           Claim(w) \/ Demote(w) \/ MoveLoop(w) \/ SetUserdata(w)
    PROVE  UNCHANGED role
<1>1. chk_idx' = chk_idx /\ main' = main
  BY DEF Claim, Demote, MoveLoop, SetUserdata, scanVars, mainVars
<1>2. \A x \in Workers \ {w}: pc'[x] = pc[x] /\ m_leader'[x] = m_leader[x]
  BY DEF IInv, TypeOK, Claim, Demote, MoveLoop, SetUserdata, Goto, ownVars
<1>3. ~Stopped(w) /\ ~Stopped(w)' /\ Leading(w) /\ Leading(w)'
  BY DEF IInv, TypeOK, Places, Claim, Demote, MoveLoop, SetUserdata, Goto, ownVars,
         Stopped, Leading
<1>4. \A x \in Workers: (m_workers_busy'[x] \/ Claimed(x)') <=> (m_workers_busy[x] \/ Claimed(x))
  <2>1. CASE Claim(w)
    <3>1. /\ pc[w] = "claim" /\ pc'[w] = "demote" /\ m_workers_busy[chk_idx[w]]
          /\ chk_idx[w] \in Workers
          /\ m_workers_busy' = [m_workers_busy EXCEPT ![chk_idx[w]] = FALSE]
      BY <2>1 DEF IInv, TypeOK, Promotions, Claim, Goto
    <3>2. \A x \in Workers: Claimed(x)' <=> Claimed(x) \/ x = chk_idx[w]
      BY <1>1, <1>2, <3>1 DEF Claimed
    <3>3. \A x \in Workers \ {chk_idx[w]}: m_workers_busy'[x] = m_workers_busy[x]
      BY <3>1 DEF IInv, TypeOK
    <3> QED
      BY <3>1, <3>2, <3>3
  <2>2. CASE Demote(w) \/ MoveLoop(w) \/ SetUserdata(w)
    <3>1. Handing(w) /\ Handing(w)' /\ m_workers_busy' = m_workers_busy
      BY <2>2 DEF IInv, TypeOK, Demote, MoveLoop, SetUserdata, Goto, dispVars, Handing
    <3> QED
      BY <1>1, <1>2, <3>1 DEF Claimed, Handing
  <2> QED
    BY <2>1, <2>2
<1>5. RolesKept
  BY <1>2, <1>3, <1>4 DEF RolesKept, Stopped, Leading
<1> QED
  BY <1>5, SameRoles

\* start creates workers that have work to do: to mark themselves free.
LEMMA CreateHidden ==
    ASSUME IInv, SingleLoop, CreateWorker
    PROVE  UNCHANGED role
<1>1. /\ main = "create" /\ main' \in {"create", "await"} /\ m_leader' = m_leader
      /\ chk_idx' = chk_idx /\ pc' = [pc EXCEPT ![mi] = "mark"]
      /\ m_workers_busy' = [m_workers_busy EXCEPT ![mi] = FALSE]
  BY DEF CreateWorker, NewWorker, MainGoto, Goto, ownVars, scanVars
<1>2. mi \in Workers /\ mi \in Int
  BY WorkersType DEF IInv, TypeOK
<1>3. pc[mi] = "none"
  BY <1>1, <1>2 DEF IInv, Creation
<1>4. ~m_workers_busy[mi]
  BY <1>2, <1>3 DEF IInv, FreeWorkers, Passive
<1>5. /\ pc'[mi] = "mark" /\ \A x \in Workers \ {mi}: pc'[x] = pc[x]
      /\ \A x \in Workers: m_workers_busy'[x] = m_workers_busy[x]
  BY <1>1, <1>2, <1>4 DEF IInv, TypeOK
<1>6. \A x \in Workers: Claimed(x)' <=> Claimed(x)
  BY <1>1, <1>3, <1>5 DEF Claimed
<1>7. RolesKept
  BY <1>1, <1>3, <1>5, <1>6 DEF RolesKept, Stopped, Leading
<1> QED
  BY <1>7, SameRoles

\* start takes worker 0 out of the bitset and gives it the loop.
LEMMA StartHidden ==
    ASSUME IInv, SingleLoop, AwaitWorker \/ ElectFirst \/ MoveFirst \/ UserdataFirst
    PROVE  UNCHANGED role
<1>1. m_leader' = m_leader /\ chk_idx' = chk_idx /\ pc' = pc
  BY DEF AwaitWorker, ElectFirst, MoveFirst, UserdataFirst, ownVars, scanVars
<1>2. 0 \in Workers
  BY WorkersType
<1>3. \A x \in Workers: (m_workers_busy'[x] \/ Claimed(x)') <=> (m_workers_busy[x] \/ Claimed(x))
  <2>1. CASE ElectFirst
    <3>1. /\ main = "elect" /\ main' = "move0" /\ m_workers_busy[0]
          /\ m_workers_busy' = [m_workers_busy EXCEPT ![0] = FALSE]
      BY <2>1 DEF IInv, StartUp, ElectFirst, MainGoto
    <3>2. \A x \in Workers: Claimed(x)' <=> Claimed(x) \/ x = 0
      BY <1>1, <3>1 DEF Claimed
    <3>3. \A x \in Workers \ {0}: m_workers_busy'[x] = m_workers_busy[x]
      BY <3>1, <1>2 DEF IInv, TypeOK
    <3> QED
      BY <3>1, <3>2, <3>3
  <2>2. CASE AwaitWorker \/ MoveFirst \/ UserdataFirst
    <3>1. m_workers_busy' = m_workers_busy
      BY <2>2 DEF AwaitWorker, MoveFirst, UserdataFirst, dispVars
    <3>2. main \in {"move0", "userdata0", "raise0"} <=> main' \in {"move0", "userdata0", "raise0"}
      BY <2>2 DEF AwaitWorker, MoveFirst, UserdataFirst, MainGoto
    <3> QED
      BY <1>1, <3>1, <3>2 DEF Claimed
  <2> QED
    BY <2>1, <2>2
<1>4. RolesKept
  BY <1>1, <1>3 DEF RolesKept, Stopped, Leading
<1> QED
  BY <1>4, SameRoles

\* join, destroy and terminate change no role before a thread has ended.
Stopping ==
    \/ CallJoin \/ CallDestroy \/ ResetInstance \/ SpuriousWakeup \/ WakeUp
    \/ TerminateWorker \/ ReadLeader \/ Interrupt \/ JoinThread \/ Terminate

LEMMA StoppingHidden ==
    ASSUME Stopping
    PROVE  UNCHANGED role
<1>1. /\ m_leader' = m_leader /\ chk_idx' = chk_idx /\ pc' = pc
      /\ m_workers_busy' = m_workers_busy
  BY DEF Stopping, CallJoin, CallDestroy, ResetInstance, SpuriousWakeup, WakeUp,
         TerminateWorker, ReadLeader, Interrupt, JoinThread, Terminate, MainJump, dispVars,
         ownVars, scanVars
<1>2. /\ main \notin {"move0", "userdata0", "raise0"}
      /\ main' \notin {"move0", "userdata0", "raise0"}
  BY DEF Stopping, CallJoin, CallDestroy, ResetInstance, SpuriousWakeup, WakeUp,
         TerminateWorker, ReadLeader, Interrupt, JoinThread, Terminate, MainJump, MainGoto,
         mainVars
<1>3. RolesKept
  BY <1>1, <1>2 DEF RolesKept, Stopped, Leading, Claimed
<1> QED
  BY <1>3, SameRoles
-----------------------------------------------------------------------------
\* Every step of a thread is a step of the pattern, or changes no role.
LEMMA StepImplements ==
    ASSUME SingleLoop PROVE IInv /\ [Next]_vars => [LF!Next]_role
<1> SUFFICES ASSUME IInv, [Next]_vars PROVE LF!Next \/ UNCHANGED role
  OBVIOUS
<1>1. ASSUME NEW w \in Workers, MarkFree(w) PROVE LF!Next
  BY <1>1, MarkFreeEnlists DEF LF!Next
<1>2. ASSUME NEW w \in Workers, CheckTerm(w) PROVE LF!Next \/ UNCHANGED role
  BY <1>2, CheckTermStops DEF LF!Next
<1>3. ASSUME NEW w \in Workers, Working(w) PROVE UNCHANGED role
  BY <1>3, WorkingHidden
<1>4. ASSUME NEW w \in Workers, Claim(w) \/ Demote(w) \/ MoveLoop(w) \/ SetUserdata(w)
      PROVE  UNCHANGED role
  BY <1>4, HandOverHidden
<1>5. ASSUME NEW w \in Workers, Raise(w) PROVE LF!Next
  BY <1>5, RaisePromotes DEF LF!Next
<1>6. ASSUME CreateWorker PROVE UNCHANGED role
  BY <1>6, CreateHidden
<1>7. ASSUME AwaitWorker \/ ElectFirst \/ MoveFirst \/ UserdataFirst PROVE UNCHANGED role
  BY <1>7, StartHidden
<1>8. ASSUME RaiseFirst PROVE LF!Next \/ UNCHANGED role
  BY <1>8, RaiseFirstElects, WorkersType DEF LF!Next
<1>9. ASSUME Stopping PROVE UNCHANGED role
  BY <1>9, StoppingHidden
<1>10. ASSUME ResetUnjoined \/ RejoinThread PROVE LF!Next
  BY <1>10, AbortStops DEF LF!Next, ResetUnjoined, RejoinThread
<1>11. ASSUME UNCHANGED vars PROVE UNCHANGED role
  BY <1>11 DEF vars, dispVars, ownVars, scanVars, mainVars, role, Stopped, Leading, Claimed
<1> QED
  BY <1>1, <1>2, <1>3, <1>4, <1>5, <1>6, <1>7, <1>8, <1>9, <1>10, <1>11
     DEF Next, Run, MainStep, Working, Stopping, Finished

\* The leader and followers pattern, without its fairness: what add_free_worker,
\* free_worker, promote_leader, start and join do is what the pattern allows,
\* one leader at a time, with any number of workers.
LeaderFollowersSafety == LF!Init /\ [][LF!Next]_role

\* SINGLE_LOOP mode implements it.
THEOREM ImplementsPattern == ASSUME SingleLoop PROVE Spec => LeaderFollowersSafety
<1>1. ASSUME Init PROVE LF!Init
  BY <1>1 DEF Init, LF!Init, role, Stopped, Leading, Claimed
<1>2. IInv /\ [Next]_vars => [LF!Next]_role
  BY StepImplements
<1> QED
  BY <1>1, <1>2, InvHolds, PTL DEF Spec, LeaderFollowersSafety
=============================================================================
