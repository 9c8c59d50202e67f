------------------------------ MODULE MCSockets ------------------------------
EXTENDS AtSockets
=============================================================================
