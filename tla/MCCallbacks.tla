----------------------------- MODULE MCCallbacks -----------------------------
EXTENDS Callbacks
=============================================================================
