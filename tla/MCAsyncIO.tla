----------------------------- MODULE MCAsyncIO -----------------------------
EXTENDS AsyncIO, TLC

(* Java threads differ in nothing but their names, nor do I/O threads.     *)
ThreadSymmetry == Permutations(Threads) \cup Permutations(IOThreads)
=============================================================================
