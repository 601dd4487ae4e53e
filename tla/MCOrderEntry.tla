---------------------------- MODULE MCOrderEntry ----------------------------
EXTENDS OrderEntry

CONSTANTS c1, c2

MCConns  == {c1, c2}
MCFrames == [c \in MCConns |-> IF c = c1 THEN 2 ELSE 1]
=============================================================================
