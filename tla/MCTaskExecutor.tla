--------------------------- MODULE MCTaskExecutor ---------------------------
EXTENDS TaskExecutor

\* items that give nothing, one result and several results
MCEmits == [x \in 0 .. MaxItems - 1 |-> <<2, 0, 1, 1, 0, 2>>[x + 1]]

=============================================================================
