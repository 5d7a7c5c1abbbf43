----------------------------- MODULE MCCheckSync -----------------------------
EXTENDS CheckSync
MCProc == 0..(N - 1)
MCMutex == <<"mutex", 0>>
MCNextSem == <<"next", 0>>
MCSelf == [i \in MCProc |-> <<"cv", i>>]
MCCv == {<<"cv", i>> : i \in MCProc}
MCSem == {MCMutex, MCNextSem} \cup MCCv
MCInitialValue == [s \in MCSem |-> IF s = MCMutex THEN 1 ELSE 0]
=============================================================================
