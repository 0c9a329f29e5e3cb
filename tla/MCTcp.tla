------------------------------- MODULE MCTcp -------------------------------
EXTENDS Tcp
CONSTANTS p1, p2, x, y, z
MCIsn == [p \in Ports |-> IF p = FirstPort THEN 3 ELSE 5]
MCIsnWrap == [p \in Ports |-> SeqMod - 3]
MCMessages == {<<x>>, <<y, z>>}
=============================================================================
