------------------------------- MODULE MCHeap --------------------------------
EXTENDS Heap
=============================================================================
