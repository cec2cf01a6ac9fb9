------------------------------ MODULE MCZipper ------------------------------
EXTENDS Zipper, TLC
=============================================================================
