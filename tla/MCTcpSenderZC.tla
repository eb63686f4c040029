--------------------------- MODULE MCTcpSenderZC ---------------------------
(* TcpSenderZC on small instances.                                         *)
EXTENDS TcpSenderZC

L(n, t) == [size |-> n, tail |-> t]

\* A list of one call or two, and one for each way the worker gives up.
CallLists == {L(2, "end"), L(0, "unsupported"), L(1, "short_file")}
=============================================================================
