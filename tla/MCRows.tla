------------------------------- MODULE MCRows -------------------------------
EXTENDS Rows
=============================================================================
