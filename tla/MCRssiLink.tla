----------------------------- MODULE MCRssiLink -----------------------------
(***************************************************************************)
(* Instances of RssiLink for TLC: what the users and the network do.       *)
(***************************************************************************)
EXTENDS RssiLink

Plan(pushC, pushS, opens, dup, nul) ==
    [push |-> [C |-> pushC, S |-> pushS], syn |-> [e \in End |-> opens],
     dup |-> dup, nul |-> nul]

\* A duplicate in a connection that carries two payloads; a keep-alive and a payload
\* in one connection; or a second connection, whichever end sends.
Streams  == {Plan(2, 0, 1, 1, 0), Plan(1, 0, 1, 0, 1),
             Plan(1, 0, 2, 0, 0), Plan(0, 1, 2, 0, 0)}
BothWays == {Plan(1, 1, 1, 0, 1)}
OneWay   == {Plan(2, 0, 1, 0, 0)}

\* With two payloads of the server in its second connection (Plans <- Stale in
\* link.cfg) the link does NOT implement the stream, see the README.
Stale    == {Plan(0, 2, 2, 0, 0)}
=============================================================================
