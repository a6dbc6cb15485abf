--------------------------- MODULE DispatcherInv ---------------------------
(***************************************************************************)
(* The inductive invariant of Dispatcher: why a loop never has two threads *)
(* in it.  The loop is passed around like a token: m_loop says who has it, *)
(* m_leader lets the owner use it, and the bitset together with the claims *)
(* under way says which threads may be given it.                           *)
(***************************************************************************)
EXTENDS Dispatcher

\* The main thread has not promoted the first leader yet.
Starting == main \in {"create", "await", "elect", "move0", "userdata0", "raise0"}

\* From claim to raise: w is handing its loop to worker chk_idx[w].
Handing(w) == pc[w] \in {"demote", "move", "userdata", "raise"}

\* Thread x cannot reach the loop on its own: it waits, it has ended, or it is
\* on its way out because of m_term.
Passive(x) ==
    \/ pc[x] \in {"while", "wait", "done", "killed"}
    \/ pc[x] \in {"lead", "ended", "shut"} /\ m_term[x]

\* A loop has one owner, and a leader owns the loop whose callbacks find it.
Ownership ==
    /\ \A w, v \in Workers: m_loop[w] # NoLoop /\ m_loop[w] = m_loop[v] => w = v
    /\ \A w \in Workers: m_leader[w] =>
          m_loop[w] # NoLoop /\ userdata[m_loop[w]] = w

\* What each thread may rely on where it is.
Places == \A w \in Workers:
    /\ pc[w] \in {"evloop", "fired", "find", "claim", "demote"} => m_leader[w]
    /\ pc[w] \in {"find", "claim", "demote", "move", "userdata", "raise"} => SingleLoop
    /\ pc[w] = "move" => m_loop[w] # NoLoop /\ ~m_leader[w]
    /\ pc[w] \in {"userdata", "raise"} => m_loop[w] = NoLoop /\ ~m_leader[w]
    /\ pc[w] = "mark" /\ SingleLoop => m_loop[w] = NoLoop /\ ~m_leader[w]
    /\ pc[w] = "lead" /\ ~m_leader[w] /\ ~m_term[w] => m_loop[w] = NoLoop
    /\ pc[w] = "handle" /\ ~m_leader[w] => m_loop[w] = NoLoop
    /\ pc[w] = "ended" /\ ~m_term[w] => m_loop[w] = NoLoop /\ ~m_leader[w]
    /\ pc[w] = "shut" => m_term[w]
    /\ pc[w] = "none" => m_loop[w] = NoLoop /\ ~m_leader[w]
    /\ ~SingleLoop /\ pc[w] # "none" => m_loop[w] = w /\ m_leader[w]

\* A worker whose bit is set cannot use the loop and has nothing to handle.
FreeWorkers == \A x \in Workers: m_workers_busy[x] =>
    Passive(x) /\ m_loop[x] = NoLoop /\ ~m_leader[x] /\ m_events_queue[x] = 0

\* A promotion aims at another worker, which was free when it was found, and
\* cannot use the loop before it is raised.
Promotions == \A w \in Workers:
    /\ pc[w] = "claim" => m_workers_busy[chk_idx[w]]
    /\ Handing(w) => /\ chk_idx[w] # w
                     /\ Passive(chk_idx[w])
                     /\ ~m_workers_busy[chk_idx[w]]
                     /\ ~m_leader[chk_idx[w]]
                     /\ m_last_worker_id = chk_idx[w]
    /\ pc[w] \in {"demote", "move"} => m_loop[chk_idx[w]] = NoLoop
    /\ pc[w] \in {"userdata", "raise"} => m_loop[chk_idx[w]] # NoLoop
    /\ pc[w] = "raise" => userdata[m_loop[chk_idx[w]]] = chk_idx[w]

\* One worker at a time hands over the loop.
OnePromotion == \A w, v \in Workers: Promoting(w) /\ Promoting(v) => w = v

\* start creates the workers in order.
Creation ==
    /\ main = "create" => \A x \in Workers: pc[x] = "none" <=> x >= mi
    /\ main # "create" => \A x \in Workers: pc[x] # "none"

\* start, until worker 0 is the leader.
StartUp ==
    /\ Starting => m_last_worker_id = 0 /\ \A x \in Workers: ~Promoting(x)
    /\ Starting /\ SingleLoop => \A x \in Workers:
          ~m_leader[x] /\ (m_loop[x] # NoLoop => x = 0)
    /\ main \in {"create", "await", "elect", "move0"} /\ SingleLoop =>
          m_loop[0] = NoLoop
    /\ (main = "await" /\ mi > 0) \/ main = "elect" => m_workers_busy[0]
    /\ main \in {"await", "elect", "move0", "userdata0", "raise0"} => SingleLoop
    /\ main \in {"move0", "userdata0", "raise0"} => Passive(0) /\ ~m_workers_busy[0]
    /\ main \in {"userdata0", "raise0"} => m_loop[0] = 0
    /\ main = "raise0" => userdata[0] = 0

\* Only a leader that terminates destroys its loop, and it keeps it.
Destroyed == \A l \in Loops: destroyed[l] =>
    /\ userdata[l] \in Workers
    /\ m_loop[userdata[l]] = l
    /\ m_leader[userdata[l]]
    /\ m_term[userdata[l]]
    /\ pc[userdata[l]] \in {"while", "done", "killed"}

\* join terminates the workers in order and waits for each thread.
JoinOrder ==
    /\ main \in {"term", "intr", "send", "thjoin"} =>
          \A x \in Workers: x < mi => pc[x] = "done"
    /\ main \in {"joined", "gone"} => \A x \in Workers: pc[x] = "done"
    /\ main \in {"elect", "move0", "userdata0", "raise0", "up", "join", "joined"} => mi = 0

IInv ==
    /\ TypeOK
    /\ Ownership
    /\ Places
    /\ FreeWorkers
    /\ Promotions
    /\ OnePromotion
    /\ Creation
    /\ StartUp
    /\ Destroyed
    /\ EventsNotStranded
    /\ LastWorkerLeads
    /\ JoinOrder
=============================================================================
