---------------------------- MODULE MCValueHeap ----------------------------
EXTENDS ValueHeap

MCIntKeys == {1}
=============================================================================
