-------------------------- MODULE MCThreadSafeQueue --------------------------
(* Small instances of ThreadSafeQueue for TLC, with what a comment of the    *)
(* code says of it and a run refutes.                                        *)
EXTENDS ThreadSafeQueue

\* ThreadSafeQueue.h:62 "Pop and element from the queue, or blocks until one
\* available": pop() would never come back empty-handed.
PopBlocksUntilAvailable == empties = 0
=============================================================================
