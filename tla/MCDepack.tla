------------------------------ MODULE MCDepack ------------------------------
(* Instances of Depack for TLC: frames of one, three and two fragments, and  *)
(* a first frame number at the start of the range or close to its end.       *)
EXTENDS Depack

Sizes  == << <<2>>, <<4, 1, 2, 3>>, <<3, 3>> >>
Firsts == {0, FrameMod - 2}
=============================================================================
