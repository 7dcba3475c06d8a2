----------------------------- MODULE MCBreaker ------------------------------
(* Small instances of Breaker for TLC. *)
EXTENDS Breaker

CONSTANTS t1, t2, t3, w1, w2, w3

\* Every worker runs one thread.
Alone == [t \in Threads |-> IF t = t1 THEN w1 ELSE IF t = t2 THEN w2 ELSE w3]

\* Two threads in one worker, the third in another.
Mixed == [t \in Threads |-> IF t = t3 THEN w2 ELSE w1]

\* All threads in one worker.
Together == [t \in Threads |-> w1]
=============================================================================
