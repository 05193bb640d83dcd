------------------------------ MODULE MCUtpSender ------------------------------
EXTENDS UtpSender
===============================================================================
