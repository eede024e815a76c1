--------------------------- MODULE MCHeapCompactor ---------------------------
EXTENDS HeapCompactor
==============================================================================
