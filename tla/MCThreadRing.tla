---------------------------- MODULE MCThreadRing ----------------------------
(* Two queues that share the nextThread field of a few threads.            *)
EXTENDS ThreadRing
=============================================================================
