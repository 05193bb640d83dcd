------------------------------- MODULE MCUtpMtu -------------------------------
EXTENDS UtpMtu
===============================================================================
