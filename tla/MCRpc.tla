------------------------------- MODULE MCRpc -------------------------------
EXTENDS RpcSystem, TLC

CONSTANTS c1, c2, c3, p1, p2

\* c3 passes the channel reserved for responses; everybody else uses channel 1.
MCChannelOf ==
    [x \in Calls \cup PeerCalls |-> IF x = c3 THEN CHANNEL_RESPONSE ELSE 1]

\* c1 and c2, and the peer's calls, are interchangeable.
MCSymmetry == Permutations({c1, c2}) \cup Permutations(PeerCalls)
============================================================================
