------------------------------ MODULE MCWebSocket ------------------------------
EXTENDS WebSocket
=============================================================================
