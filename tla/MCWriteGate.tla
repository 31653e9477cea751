------------------------------ MODULE MCWriteGate ------------------------------
(* Three writing requests, a backup, a reading request and a job for TLC, more than *)
(* the two threads of the pool.                                                    *)
EXTENDS WriteGate

CONSTANTS d1, d2, d3, b1, r1, j1
================================================================================
