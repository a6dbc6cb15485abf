--------------------------- MODULE LeaderFollowers ---------------------------
(***************************************************************************)
(* What the worker threads promise in SINGLE_LOOP mode: the leader and     *)
(* followers pattern.  At most one thread leads (polls the event loop);    *)
(* leadership passes in one step from the leader to a thread that is free; *)
(* a leader that gave it away works, and comes back as a follower.         *)
(***************************************************************************)
CONSTANT Threads

VARIABLE role

Roles == {"working", "following", "leading", "stopped"}

Init == role = [t \in Threads |-> "working"]

NoLeader == \A t \in Threads: role[t] # "leading"

\* A thread that finished its work is free to be promoted.
Enlist(t) ==
    /\ role[t] = "working"
    /\ role' = [role EXCEPT ![t] = "following"]

\* The first leader.
Elect(t) ==
    /\ NoLeader
    /\ role[t] = "following"
    /\ role' = [role EXCEPT ![t] = "leading"]

Promote(t, v) ==
    /\ role[t] = "leading"
    /\ role[v] = "following"
    /\ role' = [role EXCEPT ![t] = "working", ![v] = "leading"]

\* During the shutdown the follower chosen by the leader may have stopped.
Abandon(t) ==
    /\ role[t] = "leading"
    /\ \E v \in Threads: role[v] = "stopped"
    /\ role' = [role EXCEPT ![t] = "working"]

Stop(t) ==
    /\ role[t] # "stopped"
    /\ role' = [role EXCEPT ![t] = "stopped"]

\* The process ends.
StopAll == role' = [t \in Threads |-> "stopped"]

Next ==
    \/ \E t \in Threads:
          \/ Enlist(t) \/ Elect(t) \/ Abandon(t) \/ Stop(t)
          \/ \E v \in Threads: Promote(t, v)
    \/ StopAll

Fairness ==
    /\ \A t \in Threads: WF_role(Enlist(t))
    /\ WF_role(\E t \in Threads: Elect(t))

Spec == Init /\ [][Next]_role /\ Fairness
=============================================================================
