------------------------------- MODULE MCZBus -------------------------------
EXTENDS ZBus
=============================================================================
