---------------------------- MODULE MCUtpConnection ----------------------------
EXTENDS UtpConnection

\* Both sequence spaces wrap during the connection.
MCISN == [client |-> 65534, server |-> 65535]

\* The first packet of data of each side has sequence number 0.
ZeroISN == [client |-> 65535, server |-> 0]

OneWay == [client |-> 2, server |-> 0]
TwoWay == [client |-> 1, server |-> 1]
Nothing == [client |-> 0, server |-> 0]
One == [client |-> 1, server |-> 0]
Three == [client |-> 3, server |-> 0]
Server == {"server"}
Client == {"client"}
Both == {"client", "server"}
===============================================================================
