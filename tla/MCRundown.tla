----------------------------- MODULE MCRundown -----------------------------
EXTENDS VictimRundown

CONSTANTS main, rpc, init, ep, f
=============================================================================
