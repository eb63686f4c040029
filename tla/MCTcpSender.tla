---------------------------- MODULE MCTcpSender ----------------------------
(* TcpSender on small instances.                                           *)
EXTENDS TcpSender, TLC

L(n, t) == [size |-> n, tail |-> t]

\* A list sent in one call or in two, one that ends the worker before anything is
\* sent, one it never finishes.
AllLists == {L(2, "end"), L(0, "unsupported"), L(1, "short_file")}

\* The workers are interchangeable.
Threads == Permutations(Worker)
=============================================================================
