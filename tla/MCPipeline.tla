------------------------------ MODULE MCPipeline ------------------------------
EXTENDS Pipeline

MCCapacity == [c \in Channels |-> 1]
MCMaxOwed == [c \in Channels |-> IF c = 2 THEN 1 ELSE 2]
=============================================================================
