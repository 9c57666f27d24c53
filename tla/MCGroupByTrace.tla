---------------------------- MODULE MCGroupByTrace ----------------------------
(***************************************************************************)
(* Instances of GroupByTrace for TLC: one worker or two, traces of one and *)
(* of several batches.                                                     *)
(***************************************************************************)
EXTENDS GroupByTrace

CONSTANTS t1, t2, t3, b1, b2, b3, b4, w1, w2

\* Two batches of one trace, and one of each other.
BatchTraces == [b \in Batches |-> IF b = b3 THEN t2 ELSE IF b = b4 THEN t3 ELSE t1]
\* Two traces share a worker, the third has its own.
TraceWorkers == [t \in Traces |-> IF t = t3 THEN w2 ELSE w1]
=============================================================================
