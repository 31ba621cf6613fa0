----------------------------- MODULE MCSession -----------------------------
EXTENDS DebugSession

CONSTANT process
=============================================================================
