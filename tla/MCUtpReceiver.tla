----------------------------- MODULE MCUtpReceiver -----------------------------
\* A small instance of UtpReceiver: six packets, one of them empty, the last a
\* FIN; the reorder buffer starts with two slots so that it has to grow.
EXTENDS UtpReceiver

MCPayload == <<{1}, {2, 3}, {}, {4}, {5}, {}>>
===============================================================================
