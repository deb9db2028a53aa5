----------------------------- MODULE MCEtlQueue ------------------------------
EXTENDS EtlQueue
CONSTANTS a, b, t1
OneType == [i \in Items |-> t1]
ItsOwn == [i \in Items |-> i]
=============================================================================
