---------------------------- MODULE MCKVMEvents ----------------------------
EXTENDS KVMEvents

CONSTANTS t1, t2, t3

AllThree == <<t3, t2, t1>>
=============================================================================
