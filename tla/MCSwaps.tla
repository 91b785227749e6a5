------------------------------ MODULE MCSwaps -------------------------------
EXTENDS Swaps
=============================================================================
