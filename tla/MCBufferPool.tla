---------------------------- MODULE MCBufferPool ----------------------------
(* Bounds for TLC: the users and the threads that run them. *)
EXTENDS BufferPool

CONSTANTS u1, u2, t1, t2

OneThread == [u \in User |-> t1]
TwoThreads == (u1 :> t1) @@ (u2 :> t2)
=============================================================================
