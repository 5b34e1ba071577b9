------------------------------ MODULE MC_Rows ------------------------------
EXTENDS Rows
=============================================================================
