-------------------------- MODULE SpinQueueProofs --------------------------
(***************************************************************************)
(* Theorems about SpinQueue, for any number of threads, values, addresses  *)
(* and pushes: nothing dangles, and the queue implements Fifo.             *)
(***************************************************************************)
EXTENDS SpinQueue, ListLemmas

\* The list from m_first on: its nodes are different ones, linked in order, and
\* all but the dummy have a value.  It is empty after the destructor only.
ChainPart ==
    /\ IsInjective(chain)
    /\ chain # <<>> => m_first = chain[1]
    /\ \A i \in 1..Len(chain): next[chain[i]] = IF i = Len(chain) THEN None ELSE chain[i + 1]
    /\ \A i \in 2..Len(chain): val[chain[i]] \in Values
    /\ \A t \in Threads: pc[t] = "ended" <=> chain = <<>>

\* Who is where, and who holds the locks.
LockPart ==
    /\ \A p \in Producers:
          /\ pc[p] \in {"idle", "lock", "link", "last", "unlock", "ended"}
          /\ m_push_lock = p <=> pc[p] \in {"link", "last", "unlock"}
    /\ \A c \in Consumers:
          /\ pc[c] \in {"idle", "test", "first", "copy", "found", "delete", "empty", "ended"}
          /\ m_pop_lock = c <=> pc[c] \in {"test", "first", "copy", "found", "empty"}

\* m_last is the last node, but for a push that has linked its node and not yet
\* moved m_last: then m_last may be a node that was deleted.
LastPart ==
    /\ chain # <<>> => m_last = chain[Len(chain)] \/ \E p \in Producers: pc[p] = "last"
    /\ \A p \in Producers: pc[p] \in {"last", "unlock"} => n[p] = chain[Len(chain)]

\* A node that is not yet linked belongs to one push.
NewPart ==
    /\ \A p \in Producers: pc[p] \in {"lock", "link"} =>
          /\ n[p] \in Nodes \ Range(chain)
          /\ next[n[p]] = None /\ val[n[p]] \in Values
    /\ \A p, q \in Producers:
          pc[p] \in {"lock", "link"} /\ pc[q] \in {"lock", "link"} /\ n[p] = n[q] => p = q

\* A node that was taken off belongs to one pop.
OldPart ==
    /\ \A c \in Consumers:
          /\ old[c] # None <=> pc[c] \in {"first", "copy", "found", "delete"}
          /\ pc[c] = "first" => old[c] = m_first /\ Len(chain) > 1
          /\ pc[c] \in {"copy", "found", "delete"} => old[c] \notin Range(chain)
    /\ \A c, d \in Consumers: old[c] = old[d] /\ old[c] # None => c = d
    /\ \A c \in Consumers, p \in Producers: pc[p] \in {"lock", "link"} => old[c] # n[p]

HeapPart ==
    \A a \in Nodes: a \in heap <=>
        \/ a \in Range(chain)
        \/ \E p \in Producers: pc[p] \in {"lock", "link"} /\ n[p] = a
        \/ \E c \in Consumers: old[c] = a

IInv == TypeOK /\ ChainPart /\ LockPart /\ LastPart /\ NewPart /\ OldPart /\ HeapPart
-----------------------------------------------------------------------------
\* Every access of a push, of a pop and of the destructor keeps the invariant.
LEMMA Step == IInv /\ [Next]_vars => IInv'
<1> SUFFICES ASSUME TypeOK, ChainPart, LockPart, LastPart, NewPart, OldPart, HeapPart,
                    [Next]_vars
             PROVE  IInv'
  BY DEF IInv
<1> USE SpinQueueAssumption DEF Threads, nodeVars, endVars, lockVars, localVars, Goto
<1>1. ASSUME NEW t \in Producers, NEW a \in Nodes, NEW v \in Values, NewNode(t, a, v) PROVE IInv'
  <2>1. TypeOK'
    BY <1>1 DEF TypeOK, NewNode
  <2>2. ChainPart'
    <3>1. ASSUME NEW i \in 1..Len(chain) PROVE chain[i] \in Nodes /\ chain[i] # a
      BY <1>1 DEF TypeOK, HeapPart, Range, NewNode
    <3> QED
      BY <1>1, <3>1 DEF TypeOK, ChainPart, NewNode
  <2>3. LockPart'
    BY <1>1 DEF TypeOK, LockPart, NewNode
  <2>4. LastPart'
    BY <1>1 DEF TypeOK, LastPart, LockPart, NewNode
  <2>5. NewPart'
    BY <1>1 DEF TypeOK, NewPart, HeapPart, LockPart, NewNode
  <2>6. OldPart'
    BY <1>1 DEF TypeOK, OldPart, HeapPart, LockPart, NewNode
  <2>7. HeapPart'
    BY <1>1 DEF TypeOK, HeapPart, LockPart, NewNode
  <2> QED
    BY <2>1, <2>2, <2>3, <2>4, <2>5, <2>6, <2>7 DEF IInv
<1>2. ASSUME NEW t \in Producers, PushLock(t) PROVE IInv'
  <2>1. TypeOK'
    BY <1>2 DEF TypeOK, PushLock
  <2>2. ChainPart'
    BY <1>2 DEF TypeOK, ChainPart, PushLock
  <2>3. LockPart'
    BY <1>2 DEF TypeOK, LockPart, PushLock
  <2>4. LastPart'
    BY <1>2 DEF TypeOK, LastPart, PushLock
  <2>5. NewPart'
    BY <1>2 DEF TypeOK, NewPart, PushLock
  <2>6. OldPart'
    BY <1>2 DEF TypeOK, OldPart, PushLock
  <2>7. HeapPart'
    BY <1>2 DEF TypeOK, HeapPart, LockPart, PushLock
  <2> QED
    BY <2>1, <2>2, <2>3, <2>4, <2>5, <2>6, <2>7 DEF IInv
<1>3. ASSUME NEW t \in Producers, Link(t) PROVE IInv'
  <2>1. chain # <<>> /\ m_last = chain[Len(chain)]
    BY <1>3 DEF TypeOK, ChainPart, LockPart, LastPart, Link
  <2>2. n[t] \in Nodes \ Range(chain) /\ chain' = Append(chain, n[t])
    BY <1>3 DEF NewPart, Link
  <2>3. /\ chain' \in Seq(Nodes) /\ IsInjective(chain') /\ chain' # <<>>
        /\ Len(chain) \in Nat \ {0} /\ Len(chain') = Len(chain) + 1
        /\ chain'[Len(chain) + 1] = n[t]
        /\ \A i \in 1..Len(chain): chain'[i] = chain[i] /\ chain[i] \in Range(chain)
        /\ Range(chain') = Range(chain) \cup {n[t]}
    <3>1. IsInjective(chain) /\ n[t] \notin ToSet(chain) /\ chain \in Seq(Nodes)
      BY <2>2, RangeIsSet DEF TypeOK, ChainPart
    <3>2. /\ chain' \in Seq(Nodes) /\ IsInjective(chain')
          /\ Range(chain') = Range(chain) \cup {n[t]}
      BY <2>2, <3>1, AppendSet, RangeIsSet
    <3> QED
      BY <2>1, <2>2, <3>1, <3>2 DEF Range
  <2>4. next' = [next EXCEPT ![chain[Len(chain)]] = n[t]]
    BY <1>3, <2>1 DEF Link
  <2>5. TypeOK'
    BY <1>3, <2>2, <2>3 DEF TypeOK, Link
  <2>6. ChainPart'
    BY <1>3, <2>2, <2>3, <2>4 DEF TypeOK, ChainPart, NewPart, Link
  <2>7. LockPart'
    BY <1>3 DEF TypeOK, LockPart, Link
  <2>8. LastPart'
    BY <1>3, <2>1, <2>2, <2>3 DEF TypeOK, LastPart, LockPart, Link
  <2>9. NewPart'
    BY <1>3, <2>2, <2>3, <2>4 DEF TypeOK, NewPart, LockPart, Link
  <2>10. OldPart'
    BY <1>3, <2>2, <2>3 DEF TypeOK, OldPart, NewPart, ChainPart, Link
  <2>11. HeapPart'
    BY <1>3, <2>2, <2>3 DEF TypeOK, HeapPart, NewPart, Link
  <2> QED
    BY <2>5, <2>6, <2>7, <2>8, <2>9, <2>10, <2>11 DEF IInv
<1>4. ASSUME NEW t \in Producers, MoveLast(t) PROVE IInv'
  <2>1. n[t] \in Nodes
    BY <1>4 DEF TypeOK, LastPart, ChainPart, MoveLast
  <2>2. TypeOK'
    BY <1>4, <2>1 DEF TypeOK, LastPart, ChainPart, MoveLast
  <2>3. ChainPart'
    BY <1>4 DEF TypeOK, ChainPart, MoveLast
  <2>4. LockPart'
    BY <1>4 DEF TypeOK, LockPart, MoveLast
  <2>5. LastPart'
    BY <1>4 DEF TypeOK, LastPart, LockPart, MoveLast
  <2>6. NewPart'
    BY <1>4 DEF TypeOK, NewPart, MoveLast
  <2>7. OldPart'
    BY <1>4 DEF TypeOK, OldPart, MoveLast
  <2>8. HeapPart'
    BY <1>4 DEF TypeOK, HeapPart, MoveLast
  <2> QED
    BY <2>2, <2>3, <2>4, <2>5, <2>6, <2>7, <2>8 DEF IInv
<1>5. ASSUME NEW t \in Producers, PushUnlock(t) PROVE IInv'
  <2>1. TypeOK'
    BY <1>5 DEF TypeOK, PushUnlock
  <2>2. ChainPart'
    BY <1>5 DEF TypeOK, ChainPart, PushUnlock
  <2>3. LockPart'
    BY <1>5 DEF TypeOK, LockPart, PushUnlock
  <2>4. LastPart'
    BY <1>5 DEF TypeOK, LastPart, LockPart, PushUnlock
  <2>5. NewPart'
    BY <1>5 DEF TypeOK, NewPart, LockPart, PushUnlock
  <2>6. OldPart'
    BY <1>5 DEF TypeOK, OldPart, PushUnlock
  <2>7. HeapPart'
    BY <1>5 DEF TypeOK, HeapPart, PushUnlock
  <2> QED
    BY <2>1, <2>2, <2>3, <2>4, <2>5, <2>6, <2>7 DEF IInv
<1>6. ASSUME NEW t \in Consumers, PopLock(t) PROVE IInv'
  <2>1. TypeOK'
    BY <1>6 DEF TypeOK, PopLock
  <2>2. ChainPart'
    BY <1>6 DEF TypeOK, ChainPart, PopLock
  <2>3. LockPart'
    BY <1>6 DEF TypeOK, LockPart, PopLock
  <2>4. LastPart'
    BY <1>6 DEF TypeOK, LastPart, LockPart, PopLock
  <2>5. NewPart'
    BY <1>6 DEF TypeOK, NewPart, LockPart, PopLock
  <2>6. OldPart'
    BY <1>6 DEF TypeOK, OldPart, LockPart, PopLock
  <2>7. HeapPart'
    BY <1>6 DEF TypeOK, HeapPart, PopLock
  <2> QED
    BY <2>1, <2>2, <2>3, <2>4, <2>5, <2>6, <2>7 DEF IInv
<1>7. ASSUME NEW t \in Consumers, TestNext(t) PROVE IInv'
  <2>1. chain # <<>> /\ m_first = chain[1] /\ Len(chain) > 1 /\ m_first \in Range(chain)
    BY <1>7 DEF TypeOK, ChainPart, Range, TestNext
  <2>2. TypeOK'
    BY <1>7, <2>1 DEF TypeOK, TestNext
  <2>3. ChainPart'
    BY <1>7 DEF TypeOK, ChainPart, TestNext
  <2>4. LockPart'
    BY <1>7 DEF TypeOK, LockPart, TestNext
  <2>5. LastPart'
    BY <1>7 DEF TypeOK, LastPart, TestNext
  <2>6. NewPart'
    BY <1>7 DEF TypeOK, NewPart, TestNext
  <2>7. OldPart'
    BY <1>7, <2>1 DEF TypeOK, OldPart, LockPart, ChainPart, NewPart, TestNext
  <2>8. HeapPart'
    BY <1>7, <2>1 DEF TypeOK, HeapPart, ChainPart, OldPart, LockPart, TestNext
  <2> QED
    BY <2>2, <2>3, <2>4, <2>5, <2>6, <2>7, <2>8 DEF IInv
<1>8. ASSUME NEW t \in Consumers, MoveFirst(t) PROVE IInv'
  <2>1. Len(chain) > 1 /\ chain # <<>> /\ m_first = chain[1] /\ next[m_first] = chain[2]
    <3>1. Len(chain) > 1
      BY <1>8 DEF OldPart, MoveFirst
    <3>2. chain # <<>> /\ m_first = chain[1] /\ 1 \in 1..Len(chain) /\ Len(chain) # 1
      BY <3>1 DEF TypeOK, ChainPart
    <3> QED
      BY <3>1, <3>2 DEF ChainPart
  <2>2. /\ chain' \in Seq(Nodes) /\ IsInjective(chain') /\ chain' # <<>>
        /\ Len(chain) \in Nat /\ Len(chain') = Len(chain) - 1
        /\ \A i \in 1..Len(chain'): chain'[i] = chain[i + 1]
        /\ Range(chain') = Range(chain) \ {m_first} /\ m_first \in Range(chain)
        /\ m_first' = chain[2]
    <3>1. /\ IsInjective(chain) /\ chain \in Seq(Nodes) 
          /\ chain' = Tail(chain) /\ Head(chain) = m_first
      BY <1>8, <2>1 DEF TypeOK, ChainPart, MoveFirst
    <3>2. /\ chain' \in Seq(Nodes) /\ IsInjective(chain')
          /\ Range(chain') = Range(chain) \ {m_first} /\ m_first \in Range(chain)
      BY <2>1, <3>1, TailSet, RangeIsSet
    <3>3. /\ Len(chain) \in Nat /\ Len(chain') = Len(chain) - 1
          /\ \A i \in 1..Len(chain'): chain'[i] = chain[i + 1]
      BY <2>1, <3>1, TailElements
    <3>5. chain' # <<>>
      BY <2>1, <3>2, <3>3
    <3>4. m_first' = chain[2]
      BY <1>8, <2>1 DEF MoveFirst
    <3> QED
      BY <3>2, <3>3, <3>4, <3>5
  <2>3. TypeOK'
    BY <1>8, <2>1, <2>2 DEF TypeOK, MoveFirst
  <2>4. ChainPart'
    <3>1. next' = next /\ val' = val
      BY <1>8 DEF MoveFirst
    <3>2. ASSUME NEW i \in 1..Len(chain')
          PROVE  next[chain'[i]] = IF i = Len(chain') THEN None ELSE chain'[i + 1]
      BY <2>2 DEF ChainPart
    <3>3. \A i \in 2..Len(chain'): val[chain'[i]] \in Values
      BY <2>2 DEF ChainPart
    <3>4. \A u \in Threads: pc'[u] = "ended" <=> chain' = <<>>
      BY <1>8, <2>1, <2>2 DEF ChainPart, TypeOK, MoveFirst
    <3> QED
      BY <2>1, <2>2, <3>1, <3>2, <3>3, <3>4 DEF ChainPart
  <2>5. LockPart'
    BY <1>8, <2>2 DEF TypeOK, LockPart, MoveFirst
  <2>6. LastPart'
    BY <1>8, <2>1, <2>2 DEF TypeOK, LastPart, LockPart, MoveFirst
  <2>7. NewPart'
    BY <1>8, <2>2 DEF TypeOK, NewPart, LockPart, MoveFirst
  <2>8. OldPart'
    BY <1>8, <2>1, <2>2 DEF TypeOK, OldPart, LockPart, NewPart, MoveFirst
  <2>9. HeapPart'
    BY <1>8, <2>2 DEF TypeOK, HeapPart, OldPart, LockPart, MoveFirst
  <2> QED
    BY <2>3, <2>4, <2>5, <2>6, <2>7, <2>8, <2>9 DEF IInv
<1>9. ASSUME NEW t \in Consumers, CopyValue(t) PROVE IInv'
  <2>1. chain # <<>> /\ m_first \in Nodes
    BY <1>9 DEF TypeOK, ChainPart, CopyValue
  <2>2. TypeOK'
    BY <1>9, <2>1 DEF TypeOK, ChainPart, CopyValue
  <2>3. ChainPart'
    BY <1>9 DEF TypeOK, ChainPart, CopyValue
  <2>4. LockPart'
    BY <1>9 DEF TypeOK, LockPart, CopyValue
  <2>5. LastPart'
    BY <1>9 DEF TypeOK, LastPart, CopyValue
  <2>6. NewPart'
    BY <1>9 DEF TypeOK, NewPart, CopyValue
  <2>7. OldPart'
    BY <1>9 DEF TypeOK, OldPart, CopyValue
  <2>8. HeapPart'
    BY <1>9 DEF TypeOK, HeapPart, CopyValue
  <2> QED
    BY <2>2, <2>3, <2>4, <2>5, <2>6, <2>7, <2>8 DEF IInv
<1>10. ASSUME NEW t \in Consumers, PopUnlock(t) PROVE IInv'
  <2>1. TypeOK'
    BY <1>10 DEF TypeOK, PopUnlock
  <2>2. ChainPart'
    BY <1>10 DEF TypeOK, ChainPart, PopUnlock
  <2>3. LockPart'
    BY <1>10 DEF TypeOK, LockPart, PopUnlock
  <2>4. LastPart'
    BY <1>10 DEF TypeOK, LastPart, PopUnlock
  <2>5. NewPart'
    BY <1>10 DEF TypeOK, NewPart, PopUnlock
  <2>6. OldPart'
    BY <1>10 DEF TypeOK, OldPart, PopUnlock
  <2>7. HeapPart'
    BY <1>10 DEF TypeOK, HeapPart, PopUnlock
  <2> QED
    BY <2>1, <2>2, <2>3, <2>4, <2>5, <2>6, <2>7 DEF IInv
<1>11. ASSUME NEW t \in Consumers, DeleteOld(t) PROVE IInv'
  <2>1. TypeOK'
    BY <1>11 DEF TypeOK, DeleteOld
  <2>2. ChainPart'
    BY <1>11 DEF TypeOK, ChainPart, DeleteOld
  <2>3. LockPart'
    BY <1>11 DEF TypeOK, LockPart, DeleteOld
  <2>4. LastPart'
    BY <1>11 DEF TypeOK, LastPart, DeleteOld
  <2>5. NewPart'
    BY <1>11 DEF TypeOK, NewPart, DeleteOld
  <2>6. OldPart'
    BY <1>11 DEF TypeOK, OldPart, NewPart, LockPart, DeleteOld
  <2>7. HeapPart'
    <3>1. /\ heap' = heap \ {old[t]} /\ old' = [old EXCEPT ![t] = None]
          /\ chain' = chain /\ n' = n
      BY <1>11 DEF DeleteOld
    <3>2. \A p \in Producers: pc'[p] = pc[p]
      BY <1>11 DEF TypeOK, DeleteOld
    <3>3. old[t] # None /\ old[t] \notin Range(chain)
      BY <1>11 DEF OldPart, DeleteOld
    <3>4. ASSUME NEW a \in Nodes, a # old[t] PROVE a \in heap' <=> a \in heap
      BY <3>1, <3>4
    <3>5. ASSUME NEW a \in Nodes, NEW c \in Consumers, a # old[t]
          PROVE  old'[c] = a <=> old[c] = a
      BY <3>1, <3>5 DEF TypeOK
    <3>6. \A c \in Consumers: old'[c] # old[t]
      BY <3>1, <3>3 DEF TypeOK, OldPart
    <3>7. \A p \in Producers: pc[p] \in {"lock", "link"} => n[p] # old[t]
      BY DEF OldPart
    <3> QED
      BY <3>1, <3>2, <3>3, <3>4, <3>5, <3>6, <3>7 DEF HeapPart
  <2> QED
    BY <2>1, <2>2, <2>3, <2>4, <2>5, <2>6, <2>7 DEF IInv
<1>12. ASSUME NEW t \in Consumers, TestNull(t) PROVE IInv'
  <2>1. TypeOK'
    BY <1>12 DEF TypeOK, TestNull
  <2>2. ChainPart'
    BY <1>12 DEF TypeOK, ChainPart, TestNull
  <2>3. LockPart'
    BY <1>12 DEF TypeOK, LockPart, TestNull
  <2>4. LastPart'
    BY <1>12 DEF TypeOK, LastPart, TestNull
  <2>5. NewPart'
    BY <1>12 DEF TypeOK, NewPart, TestNull
  <2>6. OldPart'
    BY <1>12 DEF TypeOK, OldPart, TestNull
  <2>7. HeapPart'
    BY <1>12 DEF TypeOK, HeapPart, TestNull
  <2> QED
    BY <2>1, <2>2, <2>3, <2>4, <2>5, <2>6, <2>7 DEF IInv
<1>13. ASSUME NEW t \in Consumers, EmptyUnlock(t) PROVE IInv'
  <2>1. TypeOK'
    BY <1>13 DEF TypeOK, EmptyUnlock
  <2>2. ChainPart'
    BY <1>13 DEF TypeOK, ChainPart, EmptyUnlock
  <2>3. LockPart'
    BY <1>13 DEF TypeOK, LockPart, EmptyUnlock
  <2>4. LastPart'
    BY <1>13 DEF TypeOK, LastPart, EmptyUnlock
  <2>5. NewPart'
    BY <1>13 DEF TypeOK, NewPart, EmptyUnlock
  <2>6. OldPart'
    BY <1>13 DEF TypeOK, OldPart, EmptyUnlock
  <2>7. HeapPart'
    BY <1>13 DEF TypeOK, HeapPart, EmptyUnlock
  <2> QED
    BY <2>1, <2>2, <2>3, <2>4, <2>5, <2>6, <2>7 DEF IInv
<1>14. ASSUME Destroy PROVE IInv'
  <2>1. TypeOK'
    BY <1>14 DEF TypeOK, Destroy
  <2>2. ChainPart'
    BY <1>14, EmptyList DEF TypeOK, ChainPart, Destroy
  <2>3. LockPart'
    BY <1>14 DEF TypeOK, LockPart, Destroy
  <2>4. LastPart'
    BY <1>14 DEF TypeOK, LastPart, Destroy
  <2>5. NewPart'
    BY <1>14 DEF TypeOK, NewPart, Destroy
  <2>6. OldPart'
    BY <1>14 DEF TypeOK, OldPart, Destroy
  <2>7. HeapPart'
    <3>1. \A a \in Nodes: a \notin heap'
      BY <1>14 DEF HeapPart, OldPart, Destroy
    <3>2. \A c \in Consumers: old'[c] = None
      BY <1>14 DEF OldPart, Destroy
    <3> QED
      BY <1>14, <3>1, <3>2, EmptyList DEF HeapPart, Destroy
  <2> QED
    BY <2>1, <2>2, <2>3, <2>4, <2>5, <2>6, <2>7 DEF IInv
<1>15. ASSUME UNCHANGED vars PROVE IInv'
  BY <1>15 DEF IInv, TypeOK, ChainPart, LockPart, LastPart, NewPart, OldPart,
     HeapPart, vars
<1> QED
  BY <1>1, <1>2, <1>3, <1>4, <1>5, <1>6, <1>7, <1>8, <1>9, <1>10, <1>11, <1>12, <1>13,
     <1>14, <1>15 DEF Next, PushStep, PopStep

\* The constructor establishes the invariant.
LEMMA InitInvariant == Init => IInv
<1> SUFFICES ASSUME Init PROVE IInv
  OBVIOUS
<1> USE SpinQueueAssumption DEF Threads
<1>1. PICK dummy \in Nodes:
        /\ heap = {dummy} /\ m_first = dummy /\ m_last = dummy /\ chain = <<dummy>>
        /\ val = [a \in Nodes |-> None] /\ next = [a \in Nodes |-> None]
        /\ m_pop_lock = None /\ m_push_lock = None
        /\ pc = [t \in Threads |-> "idle"]
        /\ n = [t \in Producers |-> None] /\ old = [t \in Consumers |-> None]
        /\ res = [t \in Threads |-> None] /\ pushed = 0
  BY DEF Init
<1>2. /\ chain \in Seq(Nodes) /\ Len(chain) = 1 /\ chain[1] = dummy /\ chain # <<>>
      /\ Range(chain) = {dummy} /\ IsInjective(chain)
  BY <1>1 DEF Range, IsInjective
<1>3. TypeOK
  BY <1>1, <1>2 DEF TypeOK
<1>4. ChainPart
  BY <1>1, <1>2 DEF ChainPart
<1>5. LockPart /\ LastPart /\ NewPart /\ OldPart
  BY <1>1, <1>2 DEF LockPart, LastPart, NewPart, OldPart
<1>6. HeapPart
  BY <1>1, <1>2 DEF HeapPart
<1> QED
  BY <1>3, <1>4, <1>5, <1>6 DEF IInv

\* The invariant holds in every state of every run of push, pop and ~queue.
THEOREM Invariant == Spec => []IInv
BY InitInvariant, Step, PTL DEF Spec

\* Every variable keeps its type.
THEOREM TypeCorrect == Spec => []TypeOK
<1>1. IInv => TypeOK
  BY DEF IInv
<1> QED
  BY <1>1, Invariant, PTL

\* Deleting the old first node outside of m_pop_lock is safe: no push or pop
\* touches a deleted node, no node is deleted twice, and none is lost.
THEOREM NodesSafe == Spec => []NoDanglingNode
<1>1. ASSUME IInv PROVE NoDanglingNode
  <2> USE <1>1, SpinQueueAssumption DEF IInv, Threads
  <2>1. \A i \in 1..Len(chain): chain[i] \in Range(chain) /\ chain[i] \in Nodes
    BY DEF TypeOK, Range
  <2>2. Range(chain) \subseteq Nodes
    BY DEF TypeOK, Range
  <2>3. ASSUME NEW t \in Threads, pc[t] # "ended"
        PROVE  Len(chain) \in Nat \ {0} /\ m_first = chain[1]
    BY <2>3 DEF TypeOK, ChainPart
  <2>4. ASSUME NEW t \in Threads, pc[t] = "link" PROVE m_last \in heap /\ n[t] \in heap
    <3>1. t \in Producers /\ n[t] \in Nodes
      BY <2>4 DEF LockPart, NewPart
    <3>2. m_last = chain[Len(chain)]
      BY <2>3, <2>4, <3>1 DEF LockPart, LastPart
    <3> QED
      BY <2>1, <2>3, <2>4, <3>1, <3>2 DEF HeapPart
  <2>5. ASSUME NEW t \in Threads, pc[t] \in {"test", "first", "copy"} PROVE m_first \in heap
    BY <2>1, <2>3, <2>5 DEF HeapPart
  <2>6. ASSUME NEW t \in Threads, pc[t] = "delete"
        PROVE  old[t] \notin Range(chain) \cup {old[c]: c \in Consumers \ {t}}
    BY <2>6 DEF LockPart, OldPart
  <2>7. heap = Range(chain) \cup {n[t]: t \in {p \in Producers: pc[p] \in {"lock", "link"}}}
                            \cup {old[t]: t \in {c \in Consumers: old[c] # None}}
    <3>1. \A p \in Producers: pc[p] \in {"lock", "link"} => n[p] \in Nodes
      BY DEF NewPart
    <3>2. \A c \in Consumers: old[c] # None => old[c] \in Nodes
      BY DEF TypeOK
    <3>3. heap \subseteq Nodes
      BY DEF TypeOK
    <3> QED
      BY <2>2, <3>1, <3>2, <3>3 DEF HeapPart
  <2> QED
    BY <2>4, <2>5, <2>6, <2>7 DEF NoDanglingNode
<1> QED
  BY <1>1, Invariant, PTL
-----------------------------------------------------------------------------
(* The queue implements Fifo                                               *)

\* The values in the queue, one for each node behind the dummy.
LEMMA ContentsType ==
    ASSUME IInv, chain # <<>>
    PROVE  /\ Contents \in Seq(Values)
           /\ Len(Contents) = Len(chain) - 1
           /\ \A i \in 1..(Len(chain) - 1): Contents[i] = val[chain[i + 1]]
<1>1. Len(chain) \in Nat \ {0}
  BY DEF IInv, TypeOK
<1>2. \A i \in 1..(Len(chain) - 1): val[chain[i + 1]] \in Values
  BY <1>1 DEF IInv, ChainPart
<1> QED
  BY <1>1, <1>2 DEF Contents

\* A step that leaves the chain and its values alone leaves the queue alone.
LEMMA ContentsSame ==
    ASSUME TypeOK, chain' = chain, \A i \in 1..Len(chain): val'[chain[i]] = val[chain[i]]
    PROVE  Contents' = Contents
<1>1. \A i \in 1..(Len(chain) - 1): val'[chain[i + 1]] = val[chain[i + 1]]
  BY DEF TypeOK
<1> QED
  BY <1>1 DEF Contents

\* The results, as Fifo sees them: a pop has its value when m_first has moved.
LEMMA CopiedSame ==
    ASSUME \A t \in Threads:
              IF pc'[t] = "copy" THEN pc[t] = "copy" /\ val'[m_first'] = val[m_first]
                                 ELSE pc[t] # "copy" /\ res'[t] = res[t]
    PROVE  Copied' = Copied
BY DEF Copied

\* A list without a node behind the dummy is an empty queue.
LEMMA ContentsEmpty ==
    ASSUME chain \in Seq(Nodes), Len(chain) <= 1
    PROVE  Contents = <<>>
<1>1. Len(chain) \in Nat
  OBVIOUS
<1>2. 1..(Len(chain) - 1) = {}
  BY <1>1
<1> QED
  BY <1>2 DEF Contents

\* A push takes effect when its node is linked.
LEMMA LinkPushes ==
    ASSUME IInv, NEW t \in Producers, Link(t)
    PROVE  \E v \in Values: Abstract!Push(v)
<1> USE SpinQueueAssumption DEF Threads
<1>1. chain # <<>> /\ Len(chain) \in Nat \ {0} /\ chain \in Seq(Nodes)
  BY DEF IInv, TypeOK, ChainPart, Link, Goto
<1>2. val[n[t]] \in Values /\ n[t] \in Nodes
  BY DEF IInv, NewPart, Link, Goto
<1>3. chain' = Append(chain, n[t]) /\ val' = val
  BY DEF Link
<1>4. /\ Len(chain') = Len(chain) + 1 /\ chain'[Len(chain) + 1] = n[t]
      /\ \A i \in 1..Len(chain): chain'[i] = chain[i]
  BY <1>1, <1>2, <1>3
<1>5. Contents' = Append(Contents, val[n[t]])
  <2>1. Contents' = [i \in 1..Len(chain) |-> val[chain'[i + 1]]]
    BY <1>1, <1>3, <1>4 DEF Contents
  <2>2. /\ Contents \in Seq(Values) /\ Len(Contents) = Len(chain) - 1
        /\ \A i \in 1..(Len(chain) - 1): Contents[i] = val[chain[i + 1]]
    BY <1>1, ContentsType
  <2>3. \A i \in 1..Len(chain): val[chain'[i + 1]] =
            IF i <= Len(Contents) THEN Contents[i] ELSE val[n[t]]
    BY <1>1, <1>4, <2>2
  <2>4. /\ Append(Contents, val[n[t]]) \in Seq(Values)
        /\ Len(Append(Contents, val[n[t]])) = Len(chain)
        /\ \A i \in 1..Len(chain): Append(Contents, val[n[t]])[i] = val[chain'[i + 1]]
    BY <1>1, <1>2, <2>2, <2>3
  <2>5. /\ Contents' \in Seq(Values) /\ Len(Contents') = Len(chain)
        /\ \A i \in 1..Len(chain): Contents'[i] = val[chain'[i + 1]]
    BY <1>1, <1>2, <2>1, <2>2, <2>3
  <2> QED
    BY <2>4, <2>5, SameList
<1>6. Copied' = Copied
  <2>1. \A u \in Threads: pc[u] = "copy" <=> pc'[u] = "copy"
    BY DEF IInv, TypeOK, Link, Goto
  <2>2. res' = res /\ m_first' = m_first
    BY DEF Link, endVars, localVars
  <2> QED
    BY <1>3, <2>1, <2>2, CopiedSame
<1> QED
  BY <1>2, <1>5, <1>6 DEF Abstract!Push

\* A pop takes effect when m_first moves: m_pop_lock keeps everyone else away
\* until the value has been copied.
LEMMA MoveFirstPops ==
    ASSUME IInv, NEW t \in Consumers, MoveFirst(t)
    PROVE  Abstract!Pop(t)
<1> USE SpinQueueAssumption DEF Threads
<1>1. chain # <<>> /\ Len(chain) > 1 /\ Len(chain) \in Nat /\ chain \in Seq(Nodes)
  BY DEF IInv, TypeOK, ChainPart, OldPart, MoveFirst, Goto
<1>2. next[m_first] = chain[2]
  BY <1>1 DEF IInv, ChainPart
<1>3. m_first' = chain[2] /\ chain' = Tail(chain) /\ val' = val /\ res' = res
  BY <1>2 DEF MoveFirst, nodeVars, localVars
<1>4. /\ Contents \in Seq(Values) /\ Len(Contents) = Len(chain) - 1
      /\ \A i \in 1..(Len(chain) - 1): Contents[i] = val[chain[i + 1]]
  BY <1>1, ContentsType
<1>5. Contents # <<>> /\ Head(Contents) = val[chain[2]]
  BY <1>1, <1>4
<1>6. Contents' = Tail(Contents)
  <2>1. Len(chain') = Len(chain) - 1 /\ \A i \in 1..Len(chain'): chain'[i] = chain[i + 1]
    BY <1>1, <1>3, TailElements
  <2>2. Contents' = [i \in 1..(Len(chain) - 2) |-> val[chain'[i + 1]]]
    BY <1>1, <1>3, <2>1 DEF Contents
  <2>3. \A i \in 1..(Len(chain) - 2): chain'[i + 1] = chain[(i + 1) + 1]
    BY <1>1, <2>1
  <2>4. \A i \in 1..(Len(chain) - 2):
            val[chain'[i + 1]] = Contents[i + 1] /\ Contents[i + 1] \in Values
    BY <1>1, <1>4, <2>3
  <2>5. /\ Contents' \in Seq(Values) /\ Len(Contents') = Len(chain) - 2
        /\ \A i \in 1..(Len(chain) - 2): Contents'[i] = Contents[i + 1]
    BY <1>1, <2>2, <2>4
  <2>6. /\ Tail(Contents) \in Seq(Values) /\ Len(Tail(Contents)) = Len(chain) - 2
        /\ \A i \in 1..(Len(chain) - 2): Tail(Contents)[i] = Contents[i + 1]
    BY <1>1, <1>4, <1>5, TailElements
  <2> QED
    BY <2>5, <2>6, SameList
<1>7. Copied' = [Copied EXCEPT ![t] = Head(Contents)]
  <2>1. pc' = [pc EXCEPT ![t] = "copy"]
    BY DEF MoveFirst, Goto
  <2>2. ASSUME NEW u \in Threads, u # t PROVE pc[u] # "copy" /\ pc'[u] = pc[u]
    BY <2>1, <2>2 DEF IInv, TypeOK, LockPart, MoveFirst, Goto
  <2>3. pc'[t] = "copy"
    BY <2>1 DEF IInv, TypeOK
  <2> QED
    BY <1>3, <1>5, <2>2, <2>3 DEF Copied
<1> QED
  BY <1>5, <1>6, <1>7 DEF Abstract!Pop

\* A pop that finds no successor of the dummy finds an empty queue.
LEMMA TestNullFails ==
    ASSUME IInv, NEW t \in Consumers, TestNull(t)
    PROVE  Abstract!PopFalse(t)
<1> USE SpinQueueAssumption DEF Threads
<1>1. chain # <<>> /\ Len(chain) \in Nat \ {0} /\ chain \in Seq(Nodes)
  BY DEF IInv, TypeOK, ChainPart, TestNull, Goto
<1>2. Len(chain) = 1
  <2>1. next[chain[1]] = None
    BY <1>1 DEF IInv, ChainPart, TestNull
  <2>2. Len(chain) > 1 => chain[2] \in Nodes
    BY <1>1
  <2>3. Len(chain) > 1 => next[chain[1]] = chain[2]
    BY <1>1 DEF IInv, ChainPart
  <2>4. None \notin Nodes
    BY SpinQueueAssumption
  <2>5. ~(Len(chain) > 1)
    BY <2>1, <2>2, <2>3, <2>4
  <2>6. \A k \in Nat \ {0}: ~(k > 1) => k = 1
    OBVIOUS
  <2> QED
    BY <1>1, <2>5, <2>6
<1>3. chain' = chain /\ val' = val /\ m_first' = m_first
  BY DEF TestNull, nodeVars, endVars
<1>4. Contents = <<>> /\ Contents' = Contents
  <2>1. Contents = <<>>
    BY <1>1, <1>2, ContentsEmpty
  <2>2. Contents' = Contents
    BY <1>3 DEF Contents
  <2> QED
    BY <2>1, <2>2
<1>5. Copied' = [Copied EXCEPT ![t] = None]
  <2>1. pc' = [pc EXCEPT ![t] = "empty"] /\ res' = [res EXCEPT ![t] = None]
    BY DEF TestNull, Goto
  <2>2. pc'[t] = "empty" /\ res'[t] = None
    BY <2>1 DEF IInv, TypeOK
  <2>3. \A u \in Threads \ {t}: pc'[u] = pc[u] /\ res'[u] = res[u]
    BY <2>1 DEF IInv, TypeOK
  <2> QED
    BY <1>3, <2>2, <2>3 DEF Copied
<1> QED
  BY <1>4, <1>5 DEF Abstract!PopFalse

\* The destructor takes the values with it.
LEMMA DestroyClears ==
    ASSUME IInv, Destroy
    PROVE  Abstract!Clear
<1>1. chain' = <<>> /\ res' = res
  BY DEF Destroy, localVars
<1>2. Contents' = <<>>
  <2>1. 1..(Len(chain') - 1) = {}
    BY <1>1
  <2> QED
    BY <2>1 DEF Contents
<1>3. \A u \in Threads: pc[u] # "copy" /\ pc'[u] # "copy"
  BY DEF Destroy
<1>4. Copied' = Copied
  BY <1>1, <1>3, CopiedSame
<1> QED
  BY <1>2, <1>4 DEF Abstract!Clear

\* Before its node is linked a push changes nothing: it fills a node that is
\* neither in the list nor the one a pop is copying from.
LEMMA NewNodeHidden ==
    ASSUME IInv, NEW t \in Producers, NEW a \in Nodes, NEW v \in Values, NewNode(t, a, v)
    PROVE  UNCHANGED Abstract!vars
<1> USE SpinQueueAssumption DEF Threads
<1>1. chain' = chain /\ val' = [val EXCEPT ![a] = v] /\ m_first' = m_first /\ res' = res
  BY DEF NewNode, endVars
<1>2. \A i \in 1..Len(chain): chain[i] \in Nodes /\ chain[i] # a
  BY DEF IInv, TypeOK, HeapPart, Range, NewNode
<1>3. Contents' = Contents
  BY <1>1, <1>2, ContentsSame DEF IInv, TypeOK
<1>4. chain # <<>> /\ Len(chain) \in Nat \ {0} /\ m_first = chain[1]
  BY DEF IInv, TypeOK, ChainPart, NewNode, Goto
<1>5. val'[m_first'] = val[m_first]
  BY <1>1, <1>2, <1>4 DEF IInv, TypeOK
<1>6. \A u \in Threads: pc[u] = "copy" <=> pc'[u] = "copy"
  BY DEF IInv, TypeOK, NewNode, Goto
<1>7. Copied' = Copied
  BY <1>1, <1>5, <1>6, CopiedSame
<1> QED
  BY <1>3, <1>7 DEF Abstract!vars

\* The value is copied out of the node that the pop has moved m_first to.
LEMMA CopyHidden ==
    ASSUME IInv, NEW t \in Consumers, CopyValue(t)
    PROVE  UNCHANGED Abstract!vars
<1> USE SpinQueueAssumption DEF Threads
<1>1. chain' = chain /\ val' = val /\ m_first' = m_first
  BY DEF CopyValue, nodeVars, endVars
<1>2. Contents' = Contents
  BY <1>1 DEF Contents
<1>3. /\ pc[t] = "copy" /\ pc' = [pc EXCEPT ![t] = "found"]
      /\ res' = [res EXCEPT ![t] = val[m_first]]
  BY DEF CopyValue, Goto
<1>4. pc'[t] = "found" /\ res'[t] = val[m_first]
  BY <1>3 DEF IInv, TypeOK
<1>5. \A u \in Threads \ {t}: pc'[u] = pc[u] /\ res'[u] = res[u]
  BY <1>3 DEF IInv, TypeOK
<1>6. Copied' = Copied
  BY <1>1, <1>3, <1>4, <1>5 DEF Copied
<1> QED
  BY <1>2, <1>6 DEF Abstract!vars

\* The other accesses touch neither the list nor a result.
Bookkeeping(t) ==
    \/ PushLock(t) \/ MoveLast(t) \/ PushUnlock(t)
    \/ PopLock(t) \/ TestNext(t) \/ PopUnlock(t) \/ DeleteOld(t) \/ EmptyUnlock(t)

LEMMA BookkeepingHidden ==
    ASSUME IInv, NEW t \in Threads, Bookkeeping(t)
    PROVE  UNCHANGED Abstract!vars
<1>1. chain' = chain /\ val' = val /\ m_first' = m_first /\ res' = res
  BY DEF Bookkeeping, PushLock, MoveLast, PushUnlock, PopLock, TestNext, PopUnlock,
         DeleteOld, EmptyUnlock, nodeVars, endVars, localVars
<1>2. \A u \in Threads: pc[u] = "copy" <=> pc'[u] = "copy"
  BY DEF IInv, TypeOK, Bookkeeping, PushLock, MoveLast, PushUnlock, PopLock, TestNext,
         PopUnlock, DeleteOld, EmptyUnlock, Goto
<1>3. Copied' = Copied
  BY <1>1, <1>2, CopiedSame
<1>4. Contents' = Contents
  BY <1>1 DEF Contents
<1> QED
  BY <1>3, <1>4 DEF Abstract!vars

\* Every access is a step of Fifo, or none at all.
LEMMA StepImplements == IInv /\ [Next]_vars => [Abstract!Next]_(Abstract!vars)
<1> SUFFICES ASSUME IInv, [Next]_vars PROVE Abstract!Next \/ UNCHANGED Abstract!vars
  OBVIOUS
<1>1. ASSUME NEW t \in Producers, NEW a \in Nodes, NEW v \in Values, NewNode(t, a, v)
      PROVE  UNCHANGED Abstract!vars
  BY <1>1, NewNodeHidden
<1>2. ASSUME NEW t \in Producers, Link(t) PROVE Abstract!Next
  BY <1>2, LinkPushes DEF Abstract!Next
<1>3. ASSUME NEW t \in Consumers, MoveFirst(t) PROVE Abstract!Next
  BY <1>3, MoveFirstPops DEF Abstract!Next, Threads
<1>4. ASSUME NEW t \in Consumers, TestNull(t) PROVE Abstract!Next
  BY <1>4, TestNullFails DEF Abstract!Next, Threads
<1>5. ASSUME NEW t \in Consumers, CopyValue(t) PROVE UNCHANGED Abstract!vars
  BY <1>5, CopyHidden
<1>6. ASSUME NEW t \in Threads, Bookkeeping(t) PROVE UNCHANGED Abstract!vars
  BY <1>6, BookkeepingHidden
<1>7. ASSUME Destroy PROVE Abstract!Next
  BY <1>7, DestroyClears DEF Abstract!Next
<1>8. ASSUME UNCHANGED vars PROVE UNCHANGED Abstract!vars
  BY <1>8 DEF vars, nodeVars, endVars, localVars, Abstract!vars, Contents, Copied
<1> QED
  BY <1>1, <1>2, <1>3, <1>4, <1>5, <1>6, <1>7, <1>8
     DEF Next, PushStep, PopStep, Bookkeeping, Threads

\* The queue implements Fifo, with any number of threads on each side: values
\* come out once and in order, and pop returns FALSE on an empty queue only.
THEOREM ImplementsFifo == Spec => FifoSpec
<1>1. ASSUME Init PROVE Abstract!Init
  <2>1. chain \in Seq(Nodes) /\ Len(chain) = 1
    BY <1>1 DEF Init
  <2>2. Contents = <<>>
    BY <2>1, ContentsEmpty
  <2>3. Copied = [t \in Threads |-> None]
    BY <1>1 DEF Init, Copied
  <2> QED
    BY <2>2, <2>3 DEF Abstract!Init
<1> QED
  BY <1>1, StepImplements, Invariant, PTL DEF Spec, FifoSpec, Abstract!Spec
=============================================================================
