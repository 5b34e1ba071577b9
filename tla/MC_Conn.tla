------------------------------ MODULE MC_Conn ------------------------------
EXTENDS Conn

CONSTANTS u, d, close, bg

MCCtx == {u, d, close}
MCDeadlineCtx == {d, close}
MCCloseCtx == close
MCBackground == bg
=============================================================================
