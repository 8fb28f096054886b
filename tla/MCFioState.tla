----------------------------- MODULE MCFioState ------------------------------
EXTENDS FioState, TLC

\* A device that is attached (1), busy (2) or failed (3): one table moves it on,
\* the other leaves the failed state alone.
MCArcTables ==
  {<<[from |-> {1}, to |-> 2], [from |-> {1, 2}, to |-> 3]>>,
   <<[from |-> {3}, to |-> FIO_STATE_SAME], [from |-> {2, 3}, to |-> 1]>>}
=============================================================================
