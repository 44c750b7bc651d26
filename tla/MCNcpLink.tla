----------------------------- MODULE MCNcpLink -----------------------------
\* Model-checking constants for NcpLink.
EXTENDS NcpLink

\* Requests one way and one indication back.
MCBothWays == [p \in Peer |-> IF p = Host THEN 2 ELSE 1]
\* Enough packets one way for the frame numbers to wrap (0, 1, 2, 3, 1).
MCOneWay   == [p \in Peer |-> IF p = Host THEN 5 ELSE 0]
MCTwo      == [p \in Peer |-> IF p = Host THEN 2 ELSE 0]
=============================================================================
