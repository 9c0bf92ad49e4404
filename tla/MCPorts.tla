------------------------------ MODULE MCPorts ------------------------------
EXTENDS Ports
=============================================================================
