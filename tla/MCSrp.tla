-------------------------------- MODULE MCSrp --------------------------------
(***************************************************************************)
(* Instances of Srp for TLC: configurations, and the calls to make.        *)
(***************************************************************************)
EXTENDS Srp

V2     == [v3 |-> FALSE, byteRes |-> FALSE, posted |-> FALSE]
V3Byte == [v3 |-> TRUE,  byteRes |-> TRUE,  posted |-> FALSE]
Posted == [v3 |-> TRUE,  byteRes |-> FALSE, posted |-> TRUE]

SomeModes == {V2, V3Byte, Posted}
OldMode   == {V2}

Write(off, n, m1, mn) ==
    [kind |-> "write", off |-> off, n |-> n, m1 |-> m1, mn |-> mn, cacheable |-> TRUE]
Read(off, n) ==
    [kind |-> "read", off |-> off, n |-> n, m1 |-> {}, mn |-> {}, cacheable |-> TRUE]

\* In words of two bytes: aligned or not, with and without masks, in one word, two, and as many as
\* need two readbacks or two blocks.
SomeCalls ==
    {Write(1, 1, {}, {1}), Write(0, 2, {1}, {2}), Write(2, 2, {}, {}),
     Write(1, 2, {}, {}), Write(1, 4, {1}, {2}), Write(0, 5, {1}, {2}),
     Write(1, 7, {2}, {}), Write(0, 8, {1}, {2}), Write(0, 0, {}, {}),
     Read(0, 8), Read(1, 2), [Write(1, 1, {}, {}) EXCEPT !.cacheable = FALSE]}

\* Partial words at both ends, in one to three words of four bytes.
UnevenCalls == {Write(1, n, {}, {}) : n \in 1..10}
=============================================================================
