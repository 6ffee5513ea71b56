----------------------------- MODULE MCTDestMux2 -----------------------------
(* Instances of TDestMux2 for TLC: the first frames of port 0 have two, three *)
(* and one fragments, those of port 1 three, one and two.                     *)
EXTENDS TDestMux2

Sizes == << <<1, 2>>, <<2, 2>>, <<3, 2, 2>> >>
Plan(push, lose, users) == [push |-> [p \in Ports |-> push[p + 1]],
                            lose |-> lose, users |-> users]

\* Two programs share port 0; or one uses both ports, and fragments get lost.
SharedOrLossy == {Plan(<<3, 0>>, 0, {1, 2}), Plan(<<2, 1>>, 2, {1})}
OneBreak      == {Plan(<<2>>, 2, {1})}
AnyDoor       == [u \in Users |-> IF u = 1 THEN Ports ELSE {0}]
==============================================================================
