---------------------------- MODULE MCKVMThreads ----------------------------
EXTENDS KVMThreads, TLC

CONSTANTS t1, t2, t3, o1, o2

(* The main thread is not an object programs lock; t2's is o1.             *)
JavaThreadOf == [t \in Threads |-> IF t = t2 THEN o1 ELSE NIL]

MonitorSymmetry == Permutations(Monitors)
=============================================================================
