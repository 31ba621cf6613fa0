------------------------------ MODULE MCPyRpc ------------------------------
EXTENDS PyRpcNode
=============================================================================
