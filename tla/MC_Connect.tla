----------------------------- MODULE MC_Connect -----------------------------
EXTENDS Connect
=============================================================================
