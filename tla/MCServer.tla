------------------------------- MODULE MCServer ------------------------------
EXTENDS Server

CONSTANTS c1, c2, q1, a1

\* The TCP connections reuse one ip:port.
MCRemoteAddr == [c \in TCPConns |-> a1]

==============================================================================
