---------------------------- MODULE MCThriftCall ----------------------------
EXTENDS ThriftCall

\* No variables, one, and two of which one has no value.
AllVarLists == {<<>>, <<[key |-> 1, val |-> 1]>>,
                <<[key |-> 1, val |-> Empty], [key |-> 2, val |-> 1]>>}
=============================================================================
