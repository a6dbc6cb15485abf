SPECIFICATION Spec
CONSTANTS
    Producers = {p1, p2}
    Consumers = {c1, c2}
    Values = {x, y}
    Nodes = {n1, n2, n3, n4}
    None = None
    MaxPush = 3
INVARIANTS NoDanglingNode
PROPERTIES FifoSpec Drained
\* The queue is destroyed in the end.
CHECK_DEADLOCK FALSE
