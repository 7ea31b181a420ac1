---------------------------- MODULE MCMCodeHeap ----------------------------
EXTENDS MCodeHeapProps
=============================================================================
