----------------------- MODULE MCMcpWebSocketSession -----------------------
EXTENDS McpWebSocketSession

\* The broken message and the one after it come in two frames.
MCFragments == [m \in Messages |-> IF m \in {2, 3} THEN 2 ELSE 1]

=============================================================================
