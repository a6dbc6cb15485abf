----------------------------- MODULE Dispatcher -----------------------------
(***************************************************************************)
(* The dispatcher and its worker threads: tasks/dispatcher.cpp,            *)
(* tasks/worker.cpp and the inline halves of both headers.                 *)
(*                                                                         *)
(* In SINGLE_LOOP mode the workers follow the leader/followers pattern:    *)
(* one worker polls the only event loop, and when events fired it hands    *)
(* the loop to a free worker before it runs the event handlers itself.  In *)
(* MULTI_LOOP mode every worker leads an event loop of its own for ever.   *)
(*                                                                         *)
(* A step is one access to state that two threads share.  The main thread  *)
(* is the application's thread: it calls start(), then join() or           *)
(* destroy(); terminate() may be called by any thread.  Handlers, functors *)
(* and watchers are abstracted to events (a number per queue) and to the   *)
(* wake up of a loop (async_sent).                                         *)
(***************************************************************************)
EXTENDS Integers

CONSTANTS
    NumWorkers,     \* m_num_workers, a uint8_t
    RunMode,        \* m_run_mode
    MaxBatch        \* bound: events that one call of ev_loop delivers

ASSUME NumWorkersAssumption == NumWorkers \in 1..255
ASSUME RunModeAssumption == RunMode \in {"SINGLE_LOOP", "MULTI_LOOP"}
ASSUME MaxBatchAssumption == MaxBatch \in Nat \ {0}

Workers == 0..(NumWorkers - 1)
SingleLoop == RunMode = "SINGLE_LOOP"
Loops == IF SingleLoop THEN {0} ELSE Workers   \* 0 is ev_default_loop(0)
NoLoop == -1
NoWorker == -1

VARIABLES
    m_workers_busy,     \* dispatcher: the bitset; a bit that is SET is a FREE worker
    m_last_worker_id,   \* dispatcher: the worker promoted last
    disp_term,          \* dispatcher::m_term
    m_leader,           \* per worker
    m_loop,             \* per worker: the loop it owns, a unique_ptr
    m_term,             \* per worker
    m_events_queue,     \* per worker: number of queued events
    pc,                 \* per worker: where its thread is
    chk_idx, chk_cnt,   \* per worker: locals of bitset::next, then the promoted id
    userdata,           \* per loop: ev_userdata
    destroyed,          \* per loop: ev_loop_destroy was called
    async_sent,         \* per loop: a pending ev_async_send
    main, mi            \* the main thread: where it is, and its loop counter

dispVars == <<m_workers_busy, m_last_worker_id>>
ownVars == <<m_leader, m_loop>>
scanVars == <<chk_idx, chk_cnt>>
loopVars == <<userdata, destroyed, async_sent>>
mainVars == <<main, mi>>
vars == <<dispVars, disp_term, ownVars, m_term, m_events_queue, pc, scanVars,
          loopVars, mainVars>>

WorkerPcs == {"none", "mark", "while", "wait", "lead", "evloop", "fired", "find",
              "claim", "demote", "move", "userdata", "raise", "handle", "ended",
              "shut", "done", "killed"}
MainPcs == {"create", "await", "elect", "move0", "userdata0", "raise0", "up",
            "join", "term", "intr", "send", "thjoin", "joined", "gone", "aborted"}

TypeOK ==
    /\ m_workers_busy \in [Workers -> BOOLEAN]
    /\ m_last_worker_id \in Workers
    /\ disp_term \in BOOLEAN
    /\ m_leader \in [Workers -> BOOLEAN]
    /\ m_loop \in [Workers -> Loops \cup {NoLoop}]
    /\ m_term \in [Workers -> BOOLEAN]
    /\ m_events_queue \in [Workers -> Nat]
    /\ pc \in [Workers -> WorkerPcs]
    /\ chk_idx \in [Workers -> Workers]
    /\ chk_cnt \in [Workers -> Workers]
    /\ userdata \in [Loops -> Workers \cup {NoWorker}]
    /\ destroyed \in [Loops -> BOOLEAN]
    /\ async_sent \in [Loops -> BOOLEAN]
    /\ main \in MainPcs
    /\ mi \in Workers

\* A dispatcher as its constructor leaves it, the main thread entering start().
Init ==
    /\ m_workers_busy = [w \in Workers |-> FALSE]
    /\ m_last_worker_id = 0
    /\ disp_term = FALSE
    /\ m_leader = [w \in Workers |-> FALSE]
    /\ m_loop = [w \in Workers |-> NoLoop]
    /\ m_term = [w \in Workers |-> FALSE]
    /\ m_events_queue = [w \in Workers |-> 0]
    /\ pc = [w \in Workers |-> "none"]
    /\ chk_idx = [w \in Workers |-> 0]
    /\ chk_cnt = [w \in Workers |-> 0]
    /\ userdata = [l \in Loops |-> NoWorker]
    /\ destroyed = [l \in Loops |-> FALSE]
    /\ async_sent = [l \in Loops |-> FALSE]
    /\ main = "create"
    /\ mi = 0

-----------------------------------------------------------------------------
(* A worker's thread: worker::run                                          *)

Goto(w, label) == pc' = [pc EXCEPT ![w] = label]

\* The thread is at label, and this step only moves it to next.
Jump(w, label, next) ==
    /\ pc[w] = label
    /\ Goto(w, next)
    /\ UNCHANGED <<dispVars, disp_term, ownVars, m_term, m_events_queue, scanVars,
                   loopVars, mainVars>>

\* mark_free: a free worker offers itself for promotion.
MarkFree(w) ==
    /\ pc[w] = "mark"
    /\ m_workers_busy' = IF SingleLoop THEN [m_workers_busy EXCEPT ![w] = TRUE]
                                       ELSE m_workers_busy
    /\ Goto(w, "while")
    /\ UNCHANGED <<m_last_worker_id, disp_term, ownVars, m_term, m_events_queue,
                   scanVars, loopVars, mainVars>>

\* while (!m_term)
CheckTerm(w) == Jump(w, "while", IF m_term[w] THEN "done" ELSE "wait")

\* A follower polls m_leader and m_term; a leader passes.
Wait(w) == (m_leader[w] \/ m_term[w]) /\ Jump(w, "wait", "lead")

\* while (m_leader && !m_term)
CheckLeader(w) ==
    Jump(w, "lead", IF m_leader[w] /\ ~m_term[w] THEN "evloop" ELSE "ended")

\* A mutated form of EventLoop: the async watcher is not served.
EventLoop_uncollected(w) ==
    /\ pc[w] = "evloop"
    /\ \E k \in 0..MaxBatch:
          m_events_queue' = [m_events_queue EXCEPT ![userdata[m_loop[w]]] = @ + k]
    /\ Goto(w, "fired")
    /\ UNCHANGED <<dispVars, disp_term, ownVars, m_term, scanVars, loopVars, mainVars>>

\* ev_loop returns: the callbacks queued the events with the worker that is
\* the loop's user data, and pending async calls have been collected.
EventLoop(w) ==
    /\ pc[w] = "evloop"
    /\ \E k \in 0..MaxBatch:
          m_events_queue' = [m_events_queue EXCEPT ![userdata[m_loop[w]]] = @ + k]
    /\ async_sent' = [async_sent EXCEPT ![m_loop[w]] = FALSE]
    /\ Goto(w, "fired")
    /\ UNCHANGED <<dispVars, disp_term, ownVars, m_term, scanVars, userdata,
                   destroyed, mainVars>>

\* Events fired: promote_leader calls free_worker, where the scan of the
\* bitset starts at the worker promoted last.
Fired(w) ==
    /\ pc[w] = "fired"
    /\ IF m_events_queue[w] > 0 /\ SingleLoop /\ NumWorkers > 1
         THEN /\ chk_idx' = [chk_idx EXCEPT ![w] = m_last_worker_id]
              /\ Goto(w, "find")
         ELSE /\ UNCHANGED chk_idx
              /\ Goto(w, IF m_events_queue[w] > 0 THEN "handle" ELSE "lead")
    /\ UNCHANGED <<dispVars, disp_term, ownVars, m_term, m_events_queue, chk_cnt,
                   loopVars, mainVars>>

\* A mutated form of FindFree: a leader that finds nobody polls again, and
\* leaves its own events for later.
FindFree_skipping(w) ==
    /\ pc[w] = "find"
    /\ \/ m_workers_busy[chk_idx[w]] /\ UNCHANGED chk_idx /\ Goto(w, "claim")
       \/ /\ \A v \in Workers: ~m_workers_busy[v]
          /\ chk_idx' = [chk_idx EXCEPT ![w] = 0]
          /\ Goto(w, "lead")
    /\ UNCHANGED <<dispVars, disp_term, ownVars, m_term, m_events_queue, chk_cnt, loopVars,
                   mainVars>>

\* bitset::next tests one bit; other workers set theirs meanwhile.  When
\* every bit was clear the worker stays leader and handles its events.
FindFree(w) ==
    /\ pc[w] = "find"
    /\ \/ /\ m_workers_busy[chk_idx[w]]
          /\ chk_cnt' = [chk_cnt EXCEPT ![w] = 0]
          /\ UNCHANGED chk_idx
          /\ Goto(w, "claim")
       \/ /\ ~m_workers_busy[chk_idx[w]]
          /\ chk_cnt[w] + 1 < NumWorkers
          /\ chk_idx' = [chk_idx EXCEPT ![w] = IF @ + 1 = NumWorkers THEN 0 ELSE @ + 1]
          /\ chk_cnt' = [chk_cnt EXCEPT ![w] = @ + 1]
          /\ UNCHANGED pc
       \/ /\ ~m_workers_busy[chk_idx[w]]
          /\ chk_cnt[w] + 1 >= NumWorkers
          /\ chk_idx' = [chk_idx EXCEPT ![w] = 0]
          /\ chk_cnt' = [chk_cnt EXCEPT ![w] = 0]
          /\ Goto(w, "handle")
    /\ UNCHANGED <<dispVars, disp_term, ownVars, m_term, m_events_queue, loopVars,
                   mainVars>>

\* free_worker takes the worker it found out of the bitset.
Claim(w) ==
    /\ pc[w] = "claim"
    /\ m_last_worker_id' = chk_idx[w]
    /\ m_workers_busy' = [m_workers_busy EXCEPT ![chk_idx[w]] = FALSE]
    /\ Goto(w, "demote")
    /\ UNCHANGED <<disp_term, ownVars, m_term, m_events_queue, scanVars, loopVars,
                   mainVars>>

\* A mutated form of Demote: the old leader keeps m_leader.
Demote_dropped(w) == Jump(w, "demote", "move")

\* promote_leader: m_leader = false, before the loop is given away.
Demote(w) ==
    /\ pc[w] = "demote"
    /\ m_leader' = [m_leader EXCEPT ![w] = FALSE]
    /\ Goto(w, "move")
    /\ UNCHANGED <<dispVars, disp_term, m_loop, m_term, m_events_queue, scanVars,
                   loopVars, mainVars>>

\* set_event_loop on the promoted worker: the unique_ptr is moved ...
MoveLoop(w) ==
    /\ pc[w] = "move"
    /\ m_loop' = [m_loop EXCEPT ![w] = NoLoop, ![chk_idx[w]] = m_loop[w]]
    /\ Goto(w, "userdata")
    /\ UNCHANGED <<dispVars, disp_term, m_leader, m_term, m_events_queue, scanVars,
                   loopVars, mainVars>>

\* ... the loop's callbacks find the promoted worker from now on ...
SetUserdata(w) ==
    /\ pc[w] = "userdata"
    /\ userdata' = [userdata EXCEPT ![m_loop[chk_idx[w]]] = chk_idx[w]]
    /\ Goto(w, "raise")
    /\ UNCHANGED <<dispVars, disp_term, ownVars, m_term, m_events_queue, scanVars,
                   destroyed, async_sent, mainVars>>

\* A mutated form of Raise: the promoted worker is never made the leader.
Raise_dropped(w) ==
    /\ pc[w] = "raise"
    /\ chk_idx' = [chk_idx EXCEPT ![w] = 0]
    /\ Goto(w, "handle")
    /\ UNCHANGED <<dispVars, disp_term, ownVars, m_term, m_events_queue, chk_cnt,
                   loopVars, mainVars>>

\* ... and only now its thread may run the loop.
Raise(w) ==
    /\ pc[w] = "raise"
    /\ m_leader' = [m_leader EXCEPT ![chk_idx[w]] = TRUE]
    /\ chk_idx' = [chk_idx EXCEPT ![w] = 0]
    /\ Goto(w, "handle")
    /\ UNCHANGED <<dispVars, disp_term, m_loop, m_term, m_events_queue, chk_cnt,
                   loopVars, mainVars>>

\* The loop that worker w's async watcher belongs to.
loop_ptr(w) == IF SingleLoop THEN 0 ELSE m_loop[w]

\* Work for the loop that w's own thread asks for: done at once by a leader,
\* else queued, and the loop woken up.
exec_in_worker_ctx(w) ==
    async_sent' = IF m_leader[w] THEN async_sent
                                 ELSE [async_sent EXCEPT ![loop_ptr(w)] = TRUE]

\* exec_event_handler on the queue's head.  The handler either wants to go on,
\* which starts the watcher again, or it ends.
HandleEvent(w) ==
    /\ pc[w] = "handle"
    /\ m_events_queue[w] > 0
    /\ m_events_queue' = [m_events_queue EXCEPT ![w] = @ - 1]
    /\ exec_in_worker_ctx(w) \/ UNCHANGED async_sent
    /\ UNCHANGED <<dispVars, disp_term, ownVars, m_term, pc, scanVars, userdata,
                   destroyed, mainVars>>

\* A mutated form of HandledAll: a worker that lost the leadership leaves its events.
HandledAll_demoted(w) ==
    (m_events_queue[w] = 0 \/ ~m_leader[w]) /\ Jump(w, "handle", "lead")

\* The queue is empty.
HandledAll(w) == m_events_queue[w] = 0 /\ Jump(w, "handle", "lead")

\* A mutated form of Ended: the worker does not return to the free ones.
Ended_unmarked(w) == Jump(w, "ended", IF m_term[w] THEN "shut" ELSE "while")

\* No longer the leader, or told to terminate.
Ended(w) == Jump(w, "ended", IF m_term[w] THEN "shut" ELSE "mark")

\* Shutdown: the leader destroys the loop.  It stays leader.
Shut(w) ==
    /\ pc[w] = "shut"
    /\ destroyed' = IF m_leader[w] THEN [destroyed EXCEPT ![m_loop[w]] = TRUE]
                                   ELSE destroyed
    /\ Goto(w, "while")
    /\ UNCHANGED <<dispVars, disp_term, ownVars, m_term, m_events_queue, scanVars,
                   userdata, async_sent, mainVars>>

\* Every step of w's thread but the return of ev_loop.
Run(w) ==
    \/ MarkFree(w) \/ CheckTerm(w) \/ Wait(w) \/ CheckLeader(w) \/ Fired(w)
    \/ FindFree(w) \/ Claim(w) \/ Demote(w) \/ MoveLoop(w) \/ SetUserdata(w)
    \/ Raise(w) \/ HandleEvent(w) \/ HandledAll(w) \/ Ended(w) \/ Shut(w)
-----------------------------------------------------------------------------
(* The main thread: dispatcher::start, join and destroy                    *)

MainGoto(label, next) == main = label /\ main' = next

\* The worker's constructor: its thread starts, in MULTI_LOOP mode as the leader
\* of a loop of its own.
NewWorker(w) ==
    /\ Goto(w, "mark")
    /\ IF SingleLoop
         THEN UNCHANGED <<ownVars, userdata>>
         ELSE /\ m_loop' = [m_loop EXCEPT ![w] = w]
              /\ m_leader' = [m_leader EXCEPT ![w] = TRUE]
              /\ userdata' = [userdata EXCEPT ![w] = w]

\* start: worker mi is created.
CreateWorker ==
    /\ m_workers_busy' = [m_workers_busy EXCEPT ![mi] = FALSE]
    /\ NewWorker(mi)
    /\ IF mi + 1 < NumWorkers
         THEN MainGoto("create", "create") /\ mi' = mi + 1
         ELSE MainGoto("create", IF SingleLoop THEN "await" ELSE "up") /\ mi' = 0
    /\ UNCHANGED <<m_last_worker_id, disp_term, m_term, m_events_queue, scanVars,
                   destroyed, async_sent>>

\* start: sleep until bit mi is set.
AwaitWorker ==
    /\ m_workers_busy[mi]
    /\ IF mi + 1 < NumWorkers
         THEN MainGoto("await", "await") /\ mi' = mi + 1
         ELSE MainGoto("await", "elect") /\ mi' = 0
    /\ UNCHANGED <<dispVars, disp_term, ownVars, m_term, m_events_queue, pc, scanVars,
                   loopVars>>

\* start: worker 0 is taken out of the bitset ...
ElectFirst ==
    /\ MainGoto("elect", "move0")
    /\ m_workers_busy' = [m_workers_busy EXCEPT ![0] = FALSE]
    /\ UNCHANGED <<m_last_worker_id, disp_term, ownVars, m_term, m_events_queue, pc,
                   scanVars, loopVars, mi>>

\* ... and set_event_loop promotes it.
MoveFirst ==
    /\ MainGoto("move0", "userdata0")
    /\ m_loop' = [m_loop EXCEPT ![0] = 0]
    /\ UNCHANGED <<dispVars, disp_term, m_leader, m_term, m_events_queue, pc, scanVars,
                   loopVars, mi>>

UserdataFirst ==
    /\ MainGoto("userdata0", "raise0")
    /\ userdata' = [userdata EXCEPT ![0] = 0]
    /\ UNCHANGED <<dispVars, disp_term, ownVars, m_term, m_events_queue, pc, scanVars,
                   destroyed, async_sent, mi>>

RaiseFirst ==
    /\ MainGoto("raise0", "up")
    /\ m_leader' = [m_leader EXCEPT ![0] = TRUE]
    /\ UNCHANGED <<dispVars, disp_term, m_loop, m_term, m_events_queue, pc, scanVars,
                   loopVars, mi>>

\* The steps of the main thread that change nothing but where it is.
MainJump(label, next) ==
    /\ MainGoto(label, next)
    /\ UNCHANGED <<dispVars, disp_term, ownVars, m_term, m_events_queue, pc, scanVars,
                   loopVars, mi>>

\* The application waits for the end.
CallJoin == MainJump("up", "join")

\* The application calls destroy: terminate and join, then the reset.
CallDestroy ==
    /\ MainGoto("up", "join")
    /\ ~disp_term
    /\ disp_term' = TRUE
    /\ UNCHANGED <<dispVars, ownVars, m_term, m_events_queue, pc, scanVars, loopVars, mi>>

ResetInstance == disp_term /\ MainJump("joined", "gone")

\* The process ends: std::terminate stops the threads where they are.
Abort(label) ==
    /\ MainGoto(label, "aborted")
    /\ pc' = [w \in Workers |-> IF pc[w] = "done" THEN "done" ELSE "killed"]
    /\ UNCHANGED <<dispVars, ownVars, m_term, m_events_queue, scanVars, loopVars, mi>>

\* destroy with m_term set takes no join: the reset destroys joinable threads.
ResetUnjoined == disp_term /\ UNCHANGED disp_term /\ Abort("up")

\* destroy after a join that returned although nobody called terminate: the
\* second join throws on a thread that was joined already.
RejoinThread == ~disp_term /\ disp_term' = TRUE /\ Abort("joined")

\* join: the condition variable reports a wake up, with m_term or without.
SpuriousWakeup == ~disp_term /\ MainJump("join", "term")

WakeUp == disp_term /\ MainJump("join", "term")

\* worker::terminate on worker mi: m_term = true ...
TerminateWorker ==
    /\ MainGoto("term", "intr")
    /\ m_term' = [m_term EXCEPT ![mi] = TRUE]
    /\ UNCHANGED <<dispVars, disp_term, ownVars, m_events_queue, pc, scanVars,
                   loopVars, mi>>

\* ... a leader has to be interrupted ...
ReadLeader == MainJump("intr", IF m_leader[mi] THEN "send" ELSE "thjoin")

\* A mutated form of Interrupt: the event loop is not interrupted.
Interrupt_dropped == MainJump("send", "thjoin")

Interrupt ==
    /\ MainGoto("send", "thjoin")
    /\ async_sent' = [async_sent EXCEPT ![loop_ptr(mi)] = TRUE]
    /\ UNCHANGED <<dispVars, disp_term, ownVars, m_term, m_events_queue, pc, scanVars,
                   userdata, destroyed, mi>>

\* A mutated form of JoinThread: the thread is not waited for.
JoinThread_nowait ==
    /\ IF mi + 1 < NumWorkers
         THEN MainGoto("thjoin", "term") /\ mi' = mi + 1
         ELSE MainGoto("thjoin", "joined") /\ mi' = 0
    /\ UNCHANGED <<dispVars, disp_term, ownVars, m_term, m_events_queue, pc, scanVars,
                   loopVars>>

\* ... and its thread is joined before the next worker's turn.
JoinThread ==
    /\ pc[mi] = "done"
    /\ IF mi + 1 < NumWorkers
         THEN MainGoto("thjoin", "term") /\ mi' = mi + 1
         ELSE MainGoto("thjoin", "joined") /\ mi' = 0
    /\ UNCHANGED <<dispVars, disp_term, ownVars, m_term, m_events_queue, pc, scanVars,
                   loopVars>>

\* What the main thread does without being told to by the application.
MainStep ==
    \/ CreateWorker \/ AwaitWorker \/ ElectFirst \/ MoveFirst \/ UserdataFirst
    \/ RaiseFirst \/ WakeUp \/ TerminateWorker \/ ReadLeader \/ Interrupt \/ JoinThread
-----------------------------------------------------------------------------
(* Other threads                                                           *)

\* dispatcher::terminate, from a handler, a signal handler or any thread.
Terminate ==
    /\ main \in {"up", "join"}
    /\ ~disp_term
    /\ disp_term' = TRUE
    /\ UNCHANGED <<dispVars, ownVars, m_term, m_events_queue, pc, scanVars, loopVars,
                   mainVars>>

\* async_call on worker w from a thread that is no worker: add_task and
\* add_async_event, while the application runs.
AsyncCall(w) ==
    /\ main \in {"up", "join"}
    /\ async_sent' = [async_sent EXCEPT ![loop_ptr(w)] = TRUE]
    /\ UNCHANGED <<dispVars, disp_term, ownVars, m_term, m_events_queue, pc, scanVars,
                   userdata, destroyed, mainVars>>

\* The process has ended, or the dispatcher is gone.
Finished == main \in {"gone", "aborted"} /\ UNCHANGED vars

Next ==
    \/ \E w \in Workers: Run(w) \/ EventLoop(w) \/ AsyncCall(w)
    \/ MainStep \/ SpuriousWakeup \/ Terminate
    \/ CallJoin \/ CallDestroy \/ ResetInstance \/ ResetUnjoined \/ RejoinThread
    \/ Finished

\* Threads are scheduled, handlers return, and a loop with a pending async
\* call returns.  Nothing forces a loop to see I/O, the application to call
\* join, destroy or terminate, or a condition variable to wake up spuriously.
Fairness ==
    /\ \A w \in Workers:
          /\ WF_vars(Run(w))
          /\ WF_vars(m_loop[w] # NoLoop /\ async_sent[m_loop[w]] /\ EventLoop(w))
    /\ WF_vars(MainStep)

Spec == Init /\ [][Next]_vars /\ Fairness
-----------------------------------------------------------------------------
(* Safety                                                                  *)

\* The code relies on this in ev_loop(m_loop->ptr), in both callbacks'
\* assert(nullptr != worker) and in assert(worker->exec_in_worker_ctx(...)):
\* a thread inside ev_loop is a leader, owns a loop that is not destroyed, is
\* the worker that the loop's callbacks find, and is alone in that loop.
LoopSafe ==
    \A w \in Workers: pc[w] = "evloop" =>
        /\ m_leader[w]
        /\ m_loop[w] # NoLoop
        /\ ~destroyed[m_loop[w]]
        /\ userdata[m_loop[w]] = w
        /\ \A v \in Workers \ {w}: pc[v] = "evloop" => m_loop[v] # m_loop[w]

\* m_events_queue is a plain std::queue: it is only filled and drained by the
\* worker's own thread between ev_loop and the end of the handlers.  No event
\* is left behind in the queue of a worker that waits, polls or has ended.
EventsNotStranded ==
    \A w \in Workers: m_events_queue[w] > 0 =>
        pc[w] \in {"fired", "find", "claim", "demote", "move", "userdata", "raise",
                   "handle", "killed"}

\* A promotion by some worker is under way.
Promoting(w) == pc[w] \in {"claim", "demote", "move", "userdata", "raise"}

\* get_worker_by_task hands tasks of foreign threads to m_last_worker_id, "the
\* last active worker, which should be the current leader": it is, whenever no
\* promotion is under way and no worker has been told to terminate.
LastWorkerLeads ==
    SingleLoop /\ main \in {"up", "join"} /\ (\A w \in Workers: ~Promoting(w))
        => m_leader[m_last_worker_id]

\* A worker that is free for promotion has no loop, no events and does not
\* run handlers: promoting it cannot hit a thread that is at work.
FreeWorkersIdle ==
    \A w \in Workers: m_workers_busy[w] =>
        /\ ~m_leader[w] /\ m_loop[w] = NoLoop /\ m_events_queue[w] = 0
        /\ pc[w] \in {"while", "wait", "lead", "ended", "shut", "done", "killed"}

\* When join has returned, every thread has ended with an empty queue: nothing
\* still runs handlers on an application that is being torn down.
JoinedMeansStopped ==
    main \in {"joined", "gone"} =>
        \A w \in Workers: pc[w] = "done" /\ m_events_queue[w] = 0
-----------------------------------------------------------------------------
(* Liveness                                                                *)

\* A queued event is handled, whatever happens to its worker's leadership.
EventsHandled ==
    \A w \in Workers: m_events_queue[w] > 0 ~> (m_events_queue[w] = 0 \/ pc[w] = "killed")

\* Work sent to a loop is picked up, although the worker it was sent to may
\* have lost the loop, as long as the application does not shut down.
CallsCollected ==
    \A l \in Loops: async_sent[l] ~> (~async_sent[l] \/ main \notin {"up", "join"})

\* A worker that handled its events as a follower becomes free, or the leader,
\* again.
FollowersReturn ==
    \A w \in Workers: pc[w] = "handle" ~>
        (m_workers_busy[w] \/ m_leader[w] \/ m_term[w] \/ pc[w] = "killed")

\* Once join stops waiting, it terminates every worker and returns.
ShutdownCompletes == main = "term" ~> main = "joined"
-----------------------------------------------------------------------------
(* SINGLE_LOOP mode implements the leader and followers pattern            *)

\* A promotion has taken worker v out of the bitset and is not finished.
Claimed(v) ==
    \/ \E w \in Workers: pc[w] \in {"demote", "move", "userdata", "raise"} /\ chk_idx[w] = v
    \/ main \in {"move0", "userdata0", "raise0"} /\ v = 0

Stopped(w) == pc[w] \in {"done", "killed"}

\* Leadership passes when the promoted worker's m_leader is set.
Leading(w) == m_leader[w] \/ pc[w] \in {"move", "userdata", "raise"}

role == [w \in Workers |->
    IF Stopped(w) THEN "stopped"
    ELSE IF Leading(w) THEN "leading"
    ELSE IF m_workers_busy[w] \/ Claimed(w) THEN "following" ELSE "working"]

LF == INSTANCE LeaderFollowers WITH Threads <- Workers, role <- role

\* promote_leader, free_worker, add_free_worker and start together implement
\* the pattern: never two leaders, only free workers are promoted, and a
\* worker that is done handling comes back as a follower.
LeaderFollowersSpec == LF!Spec
-----------------------------------------------------------------------------
(* What comments and documentation say                                     *)

\* worker.cpp: "Shutdown, the leader terminates the loop".
LoopDestroyedAtShutdown == main = "joined" => \A l \in Loops: destroyed[l]

\* dispatcher.h, run and join: "blocks until terminate() gets called".
BlocksUntilTerminate == main \in {"term", "joined"} => disp_term

\* dispatcher.h, terminate: "Terminate the workers and die."
TerminateStopsWorkers ==
    main = "aborted" /\ disp_term => \A w \in Workers: pc[w] # "killed"

\* worker.h, terminate: "interrupt the event loop": it is there to interrupt.
InterruptsLiveLoop == main = "send" => ~destroyed[loop_ptr(mi)]
=============================================================================
