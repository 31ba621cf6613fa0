--------------------------- MODULE MCBreakpoints ---------------------------
EXTENDS Breakpoints

CONSTANTS main, t2, rpc, ep, f
============================================================================
