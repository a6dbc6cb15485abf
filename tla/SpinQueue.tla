----------------------------- MODULE SpinQueue -----------------------------
(***************************************************************************)
(* tools::queue: a list with a spinlock at each end.  The first node is a  *)
(* dummy.  A push links its node and moves m_last under m_push_lock, a pop *)
(* moves m_first under m_pop_lock and deletes the old dummy without it.    *)
(*                                                                         *)
(* The heap gives out any address that is not in use, so the address of a  *)
(* deleted node comes back.  pc[t] names the next access of thread t.      *)
(***************************************************************************)
EXTENDS Naturals, Sequences, Functions

CONSTANTS
    Producers, Consumers,
    Values,
    Nodes,          \* addresses of nodes
    None,           \* nullptr, and the value that pop leaves alone
    MaxPush         \* bound: pushes

ASSUME SpinQueueAssumption ==
    /\ None \notin Values \cup Nodes \cup Producers \cup Consumers
    /\ Nodes # {}
    /\ Producers \cap Consumers = {}
    /\ MaxPush \in Nat

Threads == Producers \cup Consumers

VARIABLES
    heap,           \* the nodes that are allocated
    val, next,      \* per node
    m_first, m_last,
    m_pop_lock, m_push_lock,    \* the thread that holds it, or None
    pc,             \* per thread
    n, old, res,    \* per thread: local variables, and the result of its last pop
    chain,          \* history: the nodes from m_first on, in the order they were linked
    pushed          \* pushes begun

nodeVars == <<heap, val, next>>
endVars == <<m_first, m_last>>
lockVars == <<m_pop_lock, m_push_lock>>
localVars == <<n, old, res>>
vars == <<nodeVars, endVars, lockVars, pc, localVars, chain, pushed>>

TypeOK ==
    /\ heap \subseteq Nodes
    /\ val \in [Nodes -> Values \cup {None}]
    /\ next \in [Nodes -> Nodes \cup {None}]
    /\ m_first \in Nodes \cup {None} /\ m_last \in Nodes
    /\ m_pop_lock \in Consumers \cup {None} /\ m_push_lock \in Producers \cup {None}
    /\ pc \in [Threads -> {"idle", "lock", "link", "last", "unlock", "test", "first", "copy",
                           "found", "delete", "empty", "ended"}]
    /\ n \in [Producers -> Nodes \cup {None}]
    /\ old \in [Consumers -> Nodes \cup {None}]
    /\ res \in [Threads -> Values \cup {None}]
    /\ chain \in Seq(Nodes)
    /\ pushed \in 0..MaxPush

\* The constructor.
Init ==
    \E dummy \in Nodes:
        /\ heap = {dummy}
        /\ m_first = dummy /\ m_last = dummy
        /\ chain = <<dummy>>
        /\ val = [a \in Nodes |-> None]
        /\ next = [a \in Nodes |-> None]
        /\ m_pop_lock = None /\ m_push_lock = None
        /\ pc = [t \in Threads |-> "idle"]
        /\ n = [t \in Producers |-> None]
        /\ old = [t \in Consumers |-> None]
        /\ res = [t \in Threads |-> None]
        /\ pushed = 0

Goto(t, from, to) == pc[t] = from /\ pc' = [pc EXCEPT ![t] = to]
-----------------------------------------------------------------------------
(* push                                                                    *)

NewNode(t, a, v) ==
    /\ Goto(t, "idle", "lock")
    /\ pushed < MaxPush /\ pushed' = pushed + 1
    /\ a \notin heap
    /\ heap' = heap \cup {a}
    /\ val' = [val EXCEPT ![a] = v]
    /\ next' = [next EXCEPT ![a] = None]
    /\ n' = [n EXCEPT ![t] = a]
    /\ UNCHANGED <<endVars, lockVars, old, res, chain>>

\* spinlock::lock: exchange returned FALSE.
PushLock(t) ==
    /\ Goto(t, "lock", "link")
    /\ m_push_lock = None /\ m_push_lock' = t
    /\ UNCHANGED <<nodeVars, endVars, m_pop_lock, localVars, chain, pushed>>

\* A mutated form of Link: the lock is released before m_last is moved.
Link_unlocked(t) ==
    /\ Goto(t, "link", "last")
    /\ next' = [next EXCEPT ![m_last] = n[t]]
    /\ chain' = Append(chain, n[t])
    /\ m_push_lock' = None
    /\ UNCHANGED <<heap, val, endVars, m_pop_lock, localVars, pushed>>

Link(t) ==
    /\ Goto(t, "link", "last")
    /\ next' = [next EXCEPT ![m_last] = n[t]]
    /\ chain' = Append(chain, n[t])
    /\ UNCHANGED <<heap, val, endVars, lockVars, localVars, pushed>>

MoveLast(t) ==
    /\ Goto(t, "last", "unlock")
    /\ m_last' = n[t]
    /\ UNCHANGED <<nodeVars, m_first, lockVars, localVars, chain, pushed>>

PushUnlock(t) ==
    /\ Goto(t, "unlock", "idle")
    /\ m_push_lock' = None
    /\ n' = [n EXCEPT ![t] = None]
    /\ UNCHANGED <<nodeVars, endVars, m_pop_lock, old, res, chain, pushed>>
-----------------------------------------------------------------------------
(* pop                                                                     *)

PopLock(t) ==
    /\ Goto(t, "idle", "test")
    /\ m_pop_lock = None /\ m_pop_lock' = t
    /\ UNCHANGED <<nodeVars, endVars, m_push_lock, localVars, chain, pushed>>

\* m_first->next is there: remember the old first node ...
TestNext(t) ==
    /\ Goto(t, "test", "first")
    /\ next[m_first] # None
    /\ old' = [old EXCEPT ![t] = m_first]
    /\ UNCHANGED <<nodeVars, endVars, lockVars, n, res, chain, pushed>>

\* ... move on to its successor ...
MoveFirst(t) ==
    /\ Goto(t, "first", "copy")
    /\ m_first' = next[m_first]
    /\ chain' = Tail(chain)
    /\ UNCHANGED <<nodeVars, m_last, lockVars, localVars, pushed>>

\* ... copy the value, and release the lock.
CopyValue(t) ==
    /\ Goto(t, "copy", "found")
    /\ res' = [res EXCEPT ![t] = val[m_first]]
    /\ UNCHANGED <<nodeVars, endVars, lockVars, n, old, chain, pushed>>

PopUnlock(t) ==
    /\ Goto(t, "found", "delete")
    /\ m_pop_lock' = None
    /\ UNCHANGED <<nodeVars, endVars, m_push_lock, localVars, chain, pushed>>

\* A mutated form of DeleteOld: the new first node is deleted.
DeleteOld_first(t) ==
    /\ Goto(t, "delete", "idle")
    /\ heap' = heap \ {m_first}
    /\ old' = [old EXCEPT ![t] = None]
    /\ UNCHANGED <<val, next, endVars, lockVars, n, res, chain, pushed>>

DeleteOld(t) ==
    /\ Goto(t, "delete", "idle")
    /\ heap' = heap \ {old[t]}
    /\ old' = [old EXCEPT ![t] = None]
    /\ UNCHANGED <<val, next, endVars, lockVars, n, res, chain, pushed>>

\* There is no successor.
TestNull(t) ==
    /\ Goto(t, "test", "empty")
    /\ next[m_first] = None
    /\ res' = [res EXCEPT ![t] = None]
    /\ UNCHANGED <<nodeVars, endVars, lockVars, n, old, chain, pushed>>

\* A mutated form of EmptyUnlock: the lock is kept when there is nothing.
EmptyUnlock_kept(t) ==
    /\ Goto(t, "empty", "idle")
    /\ UNCHANGED <<nodeVars, endVars, lockVars, localVars, chain, pushed>>

EmptyUnlock(t) ==
    /\ Goto(t, "empty", "idle")
    /\ m_pop_lock' = None
    /\ UNCHANGED <<nodeVars, endVars, m_push_lock, localVars, chain, pushed>>
-----------------------------------------------------------------------------
\* The destructor: nobody uses the queue any more, all nodes are deleted.
Destroy ==
    /\ \A t \in Threads: pc[t] = "idle"
    /\ pushed = MaxPush
    /\ pc' = [t \in Threads |-> "ended"]
    /\ heap' = heap \ Range(chain)
    /\ m_first' = None
    /\ chain' = <<>>
    /\ UNCHANGED <<val, next, m_last, lockVars, localVars, pushed>>

PushStep(t) == PushLock(t) \/ Link(t) \/ MoveLast(t) \/ PushUnlock(t)
PopStep(t) ==
    \/ PopLock(t) \/ TestNext(t) \/ MoveFirst(t) \/ CopyValue(t) \/ PopUnlock(t)
    \/ DeleteOld(t) \/ TestNull(t) \/ EmptyUnlock(t)

Next ==
    \/ \E t \in Producers, a \in Nodes, v \in Values: NewNode(t, a, v)
    \/ \E t \in Producers: PushStep(t)
    \/ \E t \in Consumers: PopStep(t)
    \/ Destroy

\* Threads are scheduled, consumers call pop again and again.  A spinlock gives
\* no thread a turn of its own.
Fairness ==
    /\ \A t \in Producers: WF_vars(PushStep(t))
    /\ \A t \in Consumers: WF_vars(PopStep(t))

Spec == Init /\ [][Next]_vars /\ Fairness
-----------------------------------------------------------------------------
(* Safety                                                                  *)

\* No thread reads or writes a node that another one has deleted, although the
\* old first node is deleted without a lock, and while a push that linked its
\* successor has still to move m_last away from it.  Every node that is allocated
\* is in the list or in the hands of the one thread that will link or delete it:
\* nothing is deleted twice, and after the destructor nothing is left.
NoDanglingNode ==
    /\ \A t \in Threads:
        /\ pc[t] = "link" => m_last \in heap /\ n[t] \in heap
        /\ pc[t] \in {"test", "first", "copy"} => m_first \in heap
        /\ pc[t] = "delete" =>
              old[t] \notin Range(chain) \cup {old[c]: c \in Consumers \ {t}}
    /\ heap = Range(chain) \cup {n[t]: t \in {p \in Producers: pc[p] \in {"lock", "link"}}}
                            \cup {old[t]: t \in {c \in Consumers: old[c] # None}}

\* "A thread safe queue": it is a FIFO queue in which a push takes effect with
\* the link and a pop with the move of m_first.  The value is copied later, out
\* of a node that nobody deletes or fills meanwhile.
Contents == [i \in 1..(Len(chain) - 1) |-> val[chain[i + 1]]]
Copied == [t \in Threads |-> IF pc[t] = "copy" THEN val[m_first] ELSE res[t]]

Abstract == INSTANCE Fifo WITH queue <- Contents, result <- Copied

FifoSpec == Abstract!Spec

\* Every value is popped some time: neither the locks nor a value that came
\* just after pop had looked keep it in the queue.
Drained == Contents # <<>> ~> Contents = <<>>
=============================================================================
