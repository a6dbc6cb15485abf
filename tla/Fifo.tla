-------------------------------- MODULE Fifo --------------------------------
(***************************************************************************)
(* What a queue promises: values leave it in the order in which they came, *)
(* and pop says FALSE only when there is none.                             *)
(***************************************************************************)
EXTENDS Sequences

CONSTANTS Threads, Values, None

VARIABLES
    queue,          \* the values in the queue
    result          \* per thread: what its last pop returned, or None

vars == <<queue, result>>

Init ==
    /\ queue = <<>>
    /\ result = [t \in Threads |-> None]

Push(v) ==
    /\ queue' = Append(queue, v)
    /\ UNCHANGED result

Pop(t) ==
    /\ queue # <<>>
    /\ result' = [result EXCEPT ![t] = Head(queue)]
    /\ queue' = Tail(queue)

PopFalse(t) ==
    /\ queue = <<>>
    /\ result' = [result EXCEPT ![t] = None]
    /\ UNCHANGED queue

\* The queue goes with what is left in it.
Clear ==
    /\ queue' = <<>>
    /\ UNCHANGED result

Next == Clear \/ (\E v \in Values: Push(v)) \/ \E t \in Threads: Pop(t) \/ PopFalse(t)

Spec == Init /\ [][Next]_vars
=============================================================================
