------------------------------- MODULE MCForce ------------------------------
EXTENDS Force
=============================================================================
