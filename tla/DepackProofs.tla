----------------------------- MODULE DepackProofs -----------------------------
(***************************************************************************)
(* What is proved of the depacketizer, for every size of its windows and   *)
(* any number of frames, losses and restarts, when the network is Gentle:  *)
(* that it keeps up with the sender (ReceiverKeepsUp), so that it never    *)
(* finds a frame in the slot of another (NoInconsistency), its window is   *)
(* in order (WindowStaysInOrder) and what it hands down are the frames     *)
(* that were sent (FramesStayIntact).                                      *)
(*                                                                         *)
(* From the small to the large: remainders; chains of buffers; a frame     *)
(* that is assembled (Collects); the window (Window), when frames leave it *)
(* (Moved) and when a fragment arrives (Processed); the sender (Flies);    *)
(* receiver and sender together (Turn, Tracks), then one step per action.  *)
(***************************************************************************)
EXTENDS Depack, SequenceTheorems, WellFoundedInduction, TLAPS

-----------------------------------------------------------------------------
(* Remainders.                                                             *)

\* The remainder.
LEMMA DivMod ==
    ASSUME NEW m \in Nat \ {0}, NEW a \in Int
    PROVE  /\ a % m \in 0..(m - 1)
           /\ \E q \in Int : a = m * q + (a % m)
<1>1. a \div m \in Int
  OBVIOUS
<1>2. a = m * (a \div m) + (a % m)
  OBVIOUS
<1>3. a % m \in 0..(m - 1)
  OBVIOUS
<1> QED BY <1>1, <1>2, <1>3, Zenon

\* It is unique.
LEMMA ModUnique ==
    ASSUME NEW m \in Nat \ {0}, NEW a \in Int, NEW q \in Int, NEW r \in 0..(m - 1),
           a = m * q + r
    PROVE  a % m = r
OBVIOUS

\* Numbers that differ by a multiple have the same remainder.
LEMMA ModShift ==
    ASSUME NEW m \in Nat \ {0}, NEW a \in Int, NEW b \in Int, NEW p \in Int, a = b + m * p
    PROVE  a % m = b % m
<1>1. PICK q \in Int, r \in 0..(m - 1) : b = m * q + r /\ r = b % m
  BY DivMod
<1>2. m * q + m * p = m * (q + p) /\ q + p \in Int /\ m * q \in Int /\ m * p \in Int
  OBVIOUS
<1>3. a = m * (q + p) + r
  BY <1>1, <1>2
<1>4. a % m = r
  BY <1>2, <1>3, ModUnique
<1> QED BY <1>1, <1>4

\* Numbers that have the same remainder differ by a multiple.
LEMMA ModEqual ==
    ASSUME NEW m \in Nat \ {0}, NEW a \in Int, NEW b \in Int, a % m = b % m
    PROVE  \E p \in Int : a = b + m * p
<1>1. PICK q \in Int : a = m * q + (a % m)
  BY DivMod
<1>2. PICK p \in Int : b = m * p + (b % m)
  BY DivMod
<1>3. PICK r \in Int : r = a % m
  BY DivMod
<1>4. m * (q - p) = m * q - m * p /\ q - p \in Int /\ m * q \in Int /\ m * p \in Int
  OBVIOUS
<1>5. a = m * q + r /\ b = m * p + r
  BY <1>1, <1>2, <1>3
<1>6. a = b + (m * q - m * p)
  BY <1>4, <1>5
<1> QED BY <1>4, <1>6

\* A multiple that is small is none.
LEMMA SmallMultiple ==
    ASSUME NEW m \in Nat \ {0}, NEW p \in Int, NEW d \in Int, d = m * p, d < m, -m < d
    PROVE  d = 0
<1>1. CASE p >= 1
  <2>1. m * p >= m
    BY <1>1
  <2> QED BY <2>1
<1>2. CASE p <= -1
  <2>1. m * p <= -m
    BY <1>2
  <2> QED BY <2>1
<1>3. CASE p = 0
  BY <1>3
<1> QED BY <1>1, <1>2, <1>3

\* Numbers less than m apart have different remainders.
LEMMA ModDistinct ==
    ASSUME NEW m \in Nat \ {0}, NEW a \in Int, NEW b \in Int, a % m = b % m,
           a - b < m, b - a < m
    PROVE  a = b
<1>1. PICK p \in Int : a = b + m * p
  BY ModEqual
<1>2. PICK d \in Int : d = m * p
  OBVIOUS
<1>3. a = b + d
  BY <1>1, <1>2
<1>4. d < m /\ -m < d
  BY <1>3
<1>5. d = 0
  BY <1>2, <1>4, SmallMultiple
<1> QED BY <1>3, <1>5

\* The remainders of small numbers.
LEMMA ModSmall ==
    ASSUME NEW m \in Nat \ {0}, NEW a \in Int
    PROVE  /\ 0 <= a /\ a < m => a % m = a
           /\ -m <= a /\ a < 0 => a % m = a + m
<1>1. ASSUME 0 <= a, a < m PROVE a % m = a
  <2>1. a \in 0..(m - 1) /\ a = m * 0 + a /\ 0 \in Int
    BY <1>1
  <2> QED BY <2>1, ModUnique
<1>2. ASSUME -m <= a, a < 0 PROVE a % m = a + m
  <2>1. a + m \in 0..(m - 1) /\ a = m * (-1) + (a + m) /\ -1 \in Int
    BY <1>2
  <2> QED BY <2>1, ModUnique
<1> QED BY <1>1, <1>2

\* The remainders of two numbers less than m apart are as far apart as the
\* numbers, or wrap around.
LEMMA ModApart ==
    ASSUME NEW m \in Nat \ {0}, NEW a \in Int, NEW b \in Int, a - b < m, b - a < m
    PROVE  (a % m) - (b % m) \in {a - b, a - b - m, a - b + m}
<1>1. PICK r \in Int, q \in Int : r \in 0..(m - 1) /\ r = a % m /\ a = m * q + r
  <2>1. a % m \in 0..(m - 1) /\ a % m \in Int
    BY DivMod
  <2> QED BY <2>1, DivMod
<1>2. PICK t \in Int, p \in Int : t \in 0..(m - 1) /\ t = b % m /\ b = m * p + t
  <2>1. b % m \in 0..(m - 1) /\ b % m \in Int
    BY DivMod
  <2> QED BY <2>1, DivMod
<1>3. m * (q - p) = m * q - m * p /\ q - p \in Int /\ m * q \in Int /\ m * p \in Int
  OBVIOUS
<1>4. PICK k \in Int : k = q - p
  BY <1>3
<1>5. PICK e \in Int : e = m * k
  OBVIOUS
<1>6. a - b = e + (r - t)
  BY <1>1, <1>2, <1>3, <1>4, <1>5
<1>7. e < 2 * m /\ -(2 * m) < e
  BY <1>1, <1>2, <1>6
<1>8. k \in {-1, 0, 1}
  <2>1. CASE k >= 2
    <3>1. m * k >= 2 * m
      BY <2>1
    <3> QED BY <1>5, <1>7, <3>1
  <2>2. CASE k <= -2
    <3>1. m * k <= -(2 * m)
      BY <2>2
    <3> QED BY <1>5, <1>7, <3>1
  <2> QED BY <2>1, <2>2
<1>9. e \in {-m, 0, m}
  BY <1>5, <1>8
<1> QED BY <1>1, <1>2, <1>6, <1>9

\* The remainder of a remainder.
LEMMA ModOfMod ==
    ASSUME NEW m \in Nat \ {0}, NEW w \in Nat \ {0}, m % w = 0, NEW a \in Int, NEW i \in Int
    PROVE  ((a % m) + i) % w = (a + i) % w
<1>1. PICK q \in Int : m = w * q + 0
  BY DivMod
<1>2. PICK p \in Int, r \in Int : a = m * p + r /\ r = a % m
  <2>1. a % m \in Int
    BY DivMod
  <2> QED BY <2>1, DivMod
<1>3. m = w * q
  BY <1>1
<1>4. m * p = w * (q * p) /\ q * p \in Int
  BY <1>3
<1>5. PICK k \in Int : k = q * p
  BY <1>4
<1>6. w * k \in Int /\ a = w * k + r
  BY <1>2, <1>4, <1>5
<1>7. PICK c \in Int, d \in Int : c = a + i /\ d = r + i
  OBVIOUS
<1>8. c = d + w * k
  BY <1>6, <1>7
<1>9. c % w = d % w
  BY <1>8, ModShift
<1> QED BY <1>2, <1>7, <1>9

\* Counting round from a number gets everywhere.
LEMMA ModReach ==
    ASSUME NEW m \in Nat \ {0}, NEW o \in Int, NEW j \in 0..(m - 1)
    PROVE  \E f \in o..(o + m - 1) : f % m = j
<1>0. PICK d \in Int : d = j - o
  OBVIOUS
<1>1. PICK i \in Int : i = d % m /\ i \in 0..(m - 1)
  BY DivMod
<1>2. i % m = d % m
  BY <1>1, ModSmall
<1>3. PICK p \in Int : i = d + m * p
  BY <1>2, ModEqual
<1>4. PICK f \in Int : f = o + i
  OBVIOUS
<1>5. j \in Int /\ m * p \in Int /\ f = j + m * p
  BY <1>0, <1>3, <1>4
<1>6. f % m = j % m
  BY <1>5, ModShift
<1>7. j % m = j
  BY ModSmall
<1>8. f \in o..(o + m - 1)
  BY <1>1, <1>4
<1> QED BY <1>6, <1>7, <1>8

-----------------------------------------------------------------------------
(* The constants; what the sender takes off a chain.                       *)

\* The windows are small beside the range of frame numbers.
LEMMA Windows ==
    /\ FrameMod \in Nat \ {0} /\ FrameWin \in Nat \ {0} /\ FragWin \in Nat \ {0} /\ FragMax \in Nat
    /\ FrameMod % FrameWin = 0 /\ 4 * FrameWin <= FrameMod
<1>1. /\ FrameWin \in Nat \ {0} /\ FragWin \in Nat \ {0} /\ FragMax \in Nat
      /\ FrameMod \in Nat \ {0} /\ FrameMod > 2 * FrameWin
  BY WindowAssumption
<1>2. PICK w \in Nat \ {0} : w = 2 * FrameWin
  BY <1>1
<1>3. FrameMod % w = 0
  BY <1>2, WindowAssumption
<1>4. PICK q \in Int : FrameMod = w * q + (FrameMod % w)
  <2>1. FrameMod \in Int
    BY <1>1
  <2> QED BY <2>1, DivMod
<1>5. FrameMod = w * q
  BY <1>1, <1>3, <1>4
<1>6. FrameMod % FrameWin = 0
  <2>1. 2 * q \in Int /\ FrameMod = FrameWin * (2 * q) + 0 /\ 0 \in 0..(FrameWin - 1)
    BY <1>1, <1>2, <1>5
  <2> QED BY <1>1, <2>1, ModUnique
<1>7. 4 * FrameWin <= FrameMod
  <2>1. SUFFICES ASSUME FrameMod < 2 * w PROVE FALSE
    BY <1>1, <1>2
  <2>2. PICK d \in Int : d = FrameMod - w
    BY <1>1
  <2>3. PICK p \in Int : p = q - 1
    OBVIOUS
  <2>4. d = w * p
    BY <1>1, <1>5, <2>2, <2>3
  <2>5. d < w /\ -w < d /\ d # 0
    BY <1>1, <1>2, <2>1, <2>2
  <2> QED BY <2>4, <2>5, SmallMultiple
<1> QED BY <1>1, <1>6, <1>7

\* A frame is a chain of at least one buffer.
LEMMA ChainFacts ==
    ASSUME NEW f \in Nat
    PROVE  /\ Chain(f) \in Seq(Nat) /\ Len(Chain(f)) \in 1..FragMax
           /\ DOMAIN Chain(f) = 1..Len(Chain(f))
           /\ \A j \in 1..Len(Chain(f)) :
                 Chain(f)[j] \in Nat /\ Chain(f)[j] + (IF j > 1 THEN Hdr ELSE 0) <= Mtu
<1>1. Len(Chains) \in Nat \ {0} /\ DOMAIN Chains = 1..Len(Chains)
  BY ChainAssumption, EmptySeq, LenProperties
<1>2. f % Len(Chains) \in 0..(Len(Chains) - 1)
  <2>1. f \in Int
    OBVIOUS
  <2> QED BY <1>1, <2>1, DivMod
<1>3. PICK i \in DOMAIN Chains : i = (f % Len(Chains)) + 1
  BY <1>1, <1>2
<1>4. PICK c : c = Chains[i]
  OBVIOUS
<1>5. Chain(f) = c
  BY <1>3, <1>4 DEF Chain
<1>6. /\ c \in Seq(Nat) /\ c # <<>> /\ Len(c) <= FragMax
      /\ \A j \in DOMAIN c : c[j] + (IF j > 1 THEN Hdr ELSE 0) <= Mtu
  BY <1>1, <1>4, ChainAssumption, ElementOfSeq
<1>7. Len(c) \in Nat \ {0} /\ DOMAIN c = 1..Len(c) /\ \A j \in 1..Len(c) : c[j] \in Nat
  BY <1>6, EmptySeq, LenProperties, ElementOfSeq
<1> QED BY <1>5, <1>6, <1>7, Windows

\* The size of one buffer is its own.
LEMMA SizeOfOne ==
    ASSUME NEW c, NEW i \in Nat, c[i] \in Nat
    PROVE  Size(c, i, i) = c[i]
<1> DEFINE Sums(h) == h = [k \in (i - 1)..i |-> IF k < i THEN 0 ELSE h[k - 1] + c[k]]
           g == [k \in (i - 1)..i |-> IF k < i THEN 0 ELSE c[i]]
           h == CHOOSE x : Sums(x)
<1>1. Size(c, i, i) = h[i]
  BY DEF Size
<1>2. Sums(g)
  <2>1. \A k \in (i - 1)..i : g[k] = IF k < i THEN 0 ELSE g[k - 1] + c[k]
    <3> TAKE k \in (i - 1)..i
    <3>1. CASE k < i
      BY <3>1
    <3>2. CASE ~(k < i)
      <4>1. k = i /\ k - 1 \in (i - 1)..i /\ k - 1 < i
        BY <3>2
      <4> QED BY <4>1
    <3> QED BY <3>1, <3>2
  <2> QED BY <2>1
<1>3. Sums(h)
  <2> HIDE DEF Sums, g
  <2> QED BY <1>2
<1> HIDE DEF h
<1>4. i \in (i - 1)..i /\ i - 1 \in (i - 1)..i /\ i - 1 < i /\ ~(i < i)
  OBVIOUS
<1>5. h[i] = h[i - 1] + c[i] /\ h[i - 1] = 0
  BY <1>3, <1>4
<1> QED BY <1>1, <1>5

\* A set of numbers that is not empty has a least one.
LEMMA Least ==
    ASSUME NEW S, S \subseteq Nat, S # {}
    PROVE  \E i \in S : \A j \in S : i <= j
<1>1. PICK i \in S : \A j \in S : ~(<<j, i>> \in OpToRel(<, Nat))
  BY NatLessThanWellFounded, WFMin
<1>2. \A a, b \in Nat : a < b => <<a, b>> \in OpToRel(<, Nat)
  BY Zenon DEF OpToRel
<1>3. \A j \in S : j \in Nat /\ i \in Nat /\ ~(j < i)
  BY <1>1, <1>2, Zenon
<1> QED BY <1>3

\* A run of numbers that have a property ends somewhere.
LEMMA RunEnds ==
    ASSUME NEW a \in Nat, NEW b \in Nat, a <= b, NEW S
    PROVE  \E n \in a..b : (\A i \in a..(n - 1) : i \in S) /\ (n < b => n \notin S)
<1> DEFINE T == {n \in a..b : n < b => n \notin S}
<1>1. b \in T
  OBVIOUS
<1>2. T \subseteq Nat
  OBVIOUS
<1>3. PICK n \in T : \A j \in T : n <= j
  <2> HIDE DEF T
  <2> QED BY <1>1, <1>2, Least
<1>4. \A i \in a..(n - 1) : i \in S
  BY <1>3
<1> QED BY <1>3, <1>4

\* A fragment has a buffer at least.
LEMMA LastBufBound ==
    ASSUME NEW f \in Nat, NEW frag \in Nat, NEW i \in 1..Len(Chain(f)), frag = 0 \/ i > 1
    PROVE  LastBuf(Chain(f), frag, i) \in i..Len(Chain(f))
<1>1. PICK c : c = Chain(f)
  OBVIOUS
<1>2. /\ Len(c) \in Nat /\ i \in 1..Len(c) /\ c[i] \in Nat /\ Mtu \in Nat /\ Hdr \in Nat
      /\ c[i] + (IF i > 1 THEN Hdr ELSE 0) <= Mtu
  <2>1. /\ Len(c) \in 1..FragMax
        /\ \A j \in 1..Len(c) : c[j] \in Nat /\ c[j] + (IF j > 1 THEN Hdr ELSE 0) <= Mtu
    BY <1>1, ChainFacts
  <2>2. Mtu \in Nat /\ Hdr \in Nat
    BY ChainAssumption
  <2> QED BY <1>1, <2>1, <2>2
<1>3. fitsInMTU(c, frag, i, i)
  <2>1. Size(c, i, i) = c[i]
    BY <1>2, SizeOfOne
  <2> QED BY <1>2, <2>1 DEF fitsInMTU
<1> DEFINE S == {j \in i..Len(c) : fitsInMTU(c, frag, i, j + 1)}
<1>4. PICK n \in i..Len(c) : (\A j \in i..(n - 1) : j \in S) /\ (n < Len(c) => n \notin S)
  <2>1. i \in Nat /\ Len(c) \in Nat /\ i <= Len(c)
    BY <1>2
  <2> HIDE DEF S
  <2> QED BY <2>1, RunEnds
<1>5. fitsInMTU(c, frag, i, n)
  <2>1. CASE n = i
    BY <1>3, <2>1
  <2>2. CASE n # i
    <3>1. n - 1 \in i..(n - 1) /\ (n - 1) + 1 = n
      BY <1>2, <2>2
    <3>2. n - 1 \in S
      BY <1>4, <3>1
    <3>3. fitsInMTU(c, frag, i, (n - 1) + 1)
      BY <3>2
    <3> QED BY <3>1, <3>3
  <2> QED BY <2>1, <2>2
<1>6. n < Len(c) => ~fitsInMTU(c, frag, i, n + 1)
  BY <1>4
<1>7. LastBuf(c, frag, i) \in i..Len(c)
  BY <1>5, <1>6 DEF LastBuf
<1> QED BY <1>1, <1>7

-----------------------------------------------------------------------------
(* A frame in the window.                                                  *)

Piece     == [frame : Nat, frag : Nat, first : Nat, last : Nat, eof : BOOLEAN]
Slots     == 0..(FrameWin - 1)
Places    == 0..(FragWin - 1)
FrameSlot == [frameID : Nat, oldestFrag : Nat, lastFrag : Nat \cup {NoFrag}, isComplete : BOOLEAN,
              running : BOOLEAN, prod : Seq(Piece), fragWin : [Places -> Piece \cup {NoBuf}]]

\* The fragments that are kept of a frame.
Held(fr) == {fr.prod[k] : k \in DOMAIN fr.prod} \cup ({fr.fragWin[j] : j \in Places} \ {NoBuf})

\* A fragment that processOutput() takes off frame f.
PartOf(x, f) ==
    /\ x \in Piece /\ x.frame = f /\ x.frag < x.last /\ x.last <= Len(Chain(f))
    /\ x.frag = 0 => x.first = 1
    /\ x.eof <=> x.last = Len(Chain(f))

\* Two fragments that it takes off the same frame.
Fits(x, y) ==
    /\ x.frag = y.frag => x = y
    /\ y.frag = x.frag + 1 => y.first = x.last + 1
    /\ x.eof => y.frag <= x.frag

\* The fragments fr keeps are of frame f, and where they belong.
Gathers(fr, f) ==
    /\ fr \in FrameSlot
    /\ \A x \in Held(fr) : PartOf(x, f)
    /\ \A x, y \in Held(fr) : Fits(x, y)
    /\ Len(fr.prod) = fr.oldestFrag
    /\ \A k \in DOMAIN fr.prod : fr.prod[k].frag = k - 1
    /\ \A j \in Places : fr.fragWin[j] # NoBuf =>
          /\ fr.fragWin[j].frag % FragWin = j
          /\ fr.oldestFrag <= fr.fragWin[j].frag /\ fr.fragWin[j].frag < fr.oldestFrag + FragWin
    /\ fr.lastFrag # NoFrag => \E x \in Held(fr) : x.eof /\ x.frag = fr.lastFrag
    /\ fr.isComplete => fr.prod # <<>> /\ Whole(fr.prod) /\ fr.prod[1].frame = f

Collects(fr, f) ==
    /\ Gathers(fr, f)
    /\ fr.frameID \in {NoFrame, f % FrameMod}
    /\ fr.frameID = NoFrame => fr = [EmptyFrame EXCEPT !.running = fr.running]

\* What is held, taken apart.
LEMMA HeldIs ==
    ASSUME NEW fr, NEW x
    PROVE  x \in Held(fr) <=> \/ \E k \in DOMAIN fr.prod : x = fr.prod[k]
                              \/ \E j \in Places : x = fr.fragWin[j] /\ x # NoBuf
BY DEF Held

\* No frame number is NoFrame, no fragment NoBuf.
LEMMA NotNumbers ==
    /\ NoFrame \in Nat /\ FrameMod <= NoFrame
    /\ \A f \in Nat : f % FrameMod \in 0..(FrameMod - 1) /\ f % FrameMod # NoFrame
    /\ NoBuf \notin Piece
<1>1. FrameMod \in Nat \ {0}
  BY Windows
<1>2. FrameMod * FrameMod \in Nat /\ FrameMod <= FrameMod * FrameMod
  BY <1>1
<1>3. \A f \in Nat : f % FrameMod \in 0..(FrameMod - 1)
  BY <1>1, DivMod
<1>4. NoBuf \notin Piece
  BY DEF NoBuf, Piece
<1> QED BY <1>1, <1>2, <1>3, <1>4 DEF NoFrame

\* An empty slot, its timeout running or not, and when it has got a number.
EmptyAs(fr, r, no) == fr = [EmptyFrame EXCEPT !.running = r, !.frameID = no]

\* It is right for any frame.
LEMMA EmptyCollects ==
    ASSUME NEW f \in Nat, NEW r \in BOOLEAN, NEW fr, NEW no \in Nat, EmptyAs(fr, r, no)
    PROVE  /\ Gathers(fr, f) /\ Held(fr) = {} /\ fr.running = r /\ fr.frameID = no
           /\ fr.oldestFrag = 0 /\ fr.lastFrag = NoFrag
           /\ \A j \in Places : fr.fragWin[j] = NoBuf
<1>1. /\ fr = [frameID |-> no, oldestFrag |-> 0, lastFrag |-> NoFrag, isComplete |-> FALSE,
               running |-> r, prod |-> <<>>, fragWin |-> [i \in 0..(FragWin - 1) |-> NoBuf]]
  BY DEF EmptyFrame, EmptyAs
<1>2. /\ fr.frameID = no /\ fr.oldestFrag = 0 /\ fr.lastFrag = NoFrag /\ ~fr.isComplete
      /\ fr.running = r /\ fr.prod = <<>> /\ fr.fragWin = [i \in Places |-> NoBuf]
  BY <1>1 DEF Places
<1>3. \A j \in Places : fr.fragWin[j] = NoBuf
  BY <1>2
<1>4. fr.prod \in Seq(Piece) /\ Len(fr.prod) = 0 /\ DOMAIN fr.prod = {}
  <2>1. <<>> \in Seq(Piece) /\ Len(<<>>) = 0 /\ DOMAIN <<>> = {}
    OBVIOUS
  <2> QED BY <1>2, <2>1
<1>5. fr \in FrameSlot
  <2>1. fr.fragWin \in [Places -> Piece \cup {NoBuf}]
    BY <1>2
  <2> QED BY <1>1, <1>2, <1>4, <2>1 DEF FrameSlot
<1>6. Held(fr) = {}
  BY <1>3, <1>4, HeldIs
<1> QED BY <1>2, <1>3, <1>4, <1>5, <1>6 DEF Gathers

\* Starting the timeout of a frame changes nothing else.
LEMMA RunningCollects ==
    ASSUME NEW f \in Nat, NEW fr, Collects(fr, f), NEW r \in BOOLEAN, NEW z,
           z = [fr EXCEPT !.running = r]
    PROVE  Collects(z, f) /\ Held(z) = Held(fr) /\ z.running = r
<1>1. fr \in FrameSlot
  BY DEF Collects, Gathers
<1>2. /\ z \in FrameSlot /\ z.running = r /\ z.frameID = fr.frameID /\ z.oldestFrag = fr.oldestFrag
      /\ z.lastFrag = fr.lastFrag /\ z.isComplete = fr.isComplete /\ z.prod = fr.prod
      /\ z.fragWin = fr.fragWin
  BY <1>1 DEF FrameSlot
<1>3. Held(z) = Held(fr)
  BY <1>2 DEF Held
<1>4. Gathers(z, f)
  BY <1>2, <1>3 DEF Collects, Gathers
<1>5. fr.frameID = NoFrame => z = [EmptyFrame EXCEPT !.running = r]
  <2>1. SUFFICES ASSUME fr.frameID = NoFrame PROVE z = [EmptyFrame EXCEPT !.running = r]
    OBVIOUS
  <2>2. fr = [EmptyFrame EXCEPT !.running = fr.running]
    BY <2>1 DEF Collects
  <2> QED BY <2>2 DEF EmptyFrame
<1> QED BY <1>2, <1>3, <1>4, <1>5 DEF Collects

\* Fragments 0, 1, ... of a frame up to the last one are the frame.
LEMMA LastOneEnds ==
    ASSUME NEW f \in Nat, NEW p \in Seq(Piece), NEW e \in DOMAIN p, p[e].eof,
           \A k \in DOMAIN p : PartOf(p[k], f) /\ p[k].frag = k - 1,
           \A k, l \in DOMAIN p : Fits(p[k], p[l])
    PROVE  p # <<>> /\ Whole(p) /\ p[1].frame = f
<1>1. DOMAIN p = 1..Len(p) /\ Len(p) \in Nat
  BY LenProperties
<1>2. \A k \in DOMAIN p : k <= e
  <2> TAKE k \in DOMAIN p
  <2>1. p[k].frag <= p[e].frag
    BY DEF Fits
  <2> QED BY <1>1, <2>1
<1>3. e = Len(p) /\ Len(p) \in 1..Len(p) /\ 1 \in DOMAIN p
  BY <1>1, <1>2
<1>4. \A k \in DOMAIN p : p[k].eof => k = Len(p)
  <2> TAKE k \in DOMAIN p
  <2>1. SUFFICES ASSUME p[k].eof PROVE k = Len(p)
    OBVIOUS
  <2>2. p[e].frag <= p[k].frag
    BY <2>1 DEF Fits
  <2> QED BY <1>1, <1>3, <2>2
<1>5. \A k \in DOMAIN p : p[k].first = IF k = 1 THEN 1 ELSE p[k - 1].last + 1
  <2> TAKE k \in DOMAIN p
  <2>1. CASE k = 1
    BY <2>1 DEF PartOf
  <2>2. CASE k # 1
    <3>1. k - 1 \in DOMAIN p /\ p[k].frag = p[k - 1].frag + 1
      BY <1>1, <2>2
    <3> QED BY <2>2, <3>1 DEF Fits
  <2> QED BY <2>1, <2>2
<1>6. p[Len(p)].last = Len(Chain(f)) /\ \A k \in DOMAIN p : p[k].frame = f
  BY <1>3 DEF PartOf
<1>7. p[Len(p)].eof
  BY <1>3
<1> QED BY <1>3, <1>4, <1>5, <1>6, <1>7 DEF Whole

\* What updateChain() does: it takes n fragments that are there.
Chained(fr, u, n) ==
    /\ n \in 0..FragWin
    /\ \A i \in 0..(n - 1) : fr.fragWin[toFragIdx(fr.oldestFrag + i)] # NoBuf
    /\ u.frameID = fr.frameID /\ u.lastFrag = fr.lastFrag /\ u.running = fr.running
    /\ u.oldestFrag = fr.oldestFrag + n
    /\ u.isComplete = (fr.isComplete \/ u.oldestFrag = fr.lastFrag + 1 \/ u.oldestFrag = FragMax)
    /\ u.prod = fr.prod \o [i \in 1..n |-> fr.fragWin[toFragIdx(fr.oldestFrag + i - 1)]]
    /\ u.fragWin = [j \in Places |->
                       IF j \in {toFragIdx(fr.oldestFrag + i) : i \in 0..(n - 1)} THEN NoBuf
                                                                                ELSE fr.fragWin[j]]
    /\ u = [frameID |-> u.frameID, oldestFrag |-> u.oldestFrag, lastFrag |-> u.lastFrag,
            isComplete |-> u.isComplete, running |-> u.running, prod |-> u.prod,
            fragWin |-> u.fragWin]

\* It takes all that are there one after another.
LEMMA UpdateChains ==
    ASSUME NEW fr \in FrameSlot
    PROVE  \E n \in 0..FragWin : Chained(fr, updateChain(fr), n)
<1> DEFINE S == {i \in 0..FragWin : fr.fragWin[toFragIdx(fr.oldestFrag + i)] # NoBuf}
           Q(m) == /\ \A i \in 0..(m - 1) : fr.fragWin[toFragIdx(fr.oldestFrag + i)] # NoBuf
                   /\ m < FragWin => fr.fragWin[toFragIdx(fr.oldestFrag + m)] = NoBuf
           n == CHOOSE m \in 0..FragWin : Q(m)
<1>1. \E m \in 0..FragWin : Q(m)
  <2>1. FragWin \in Nat /\ 0 \in Nat /\ 0 <= FragWin
    BY Windows
  <2>2. PICK m \in 0..FragWin : (\A i \in 0..(m - 1) : i \in S) /\ (m < FragWin => m \notin S)
    <3> HIDE DEF S
    <3> QED BY <2>1, RunEnds
  <2>3. Q(m)
    <3>1. \A i \in 0..(m - 1) : fr.fragWin[toFragIdx(fr.oldestFrag + i)] # NoBuf
      BY <2>2
    <3>2. m < FragWin => fr.fragWin[toFragIdx(fr.oldestFrag + m)] = NoBuf
      BY <2>2
    <3> QED BY <3>1, <3>2
  <2> QED BY <2>2, <2>3
<1>2. n \in 0..FragWin /\ Q(n)
  <2> HIDE DEF Q
  <2> QED BY <1>1
<1>3. updateChain(fr) =
        [fr EXCEPT !.oldestFrag = fr.oldestFrag + n,
                   !.prod = @ \o [i \in 1..n |-> fr.fragWin[toFragIdx(fr.oldestFrag + i - 1)]],
                   !.fragWin = [i \in DOMAIN @ |->
                       IF i \in {toFragIdx(fr.oldestFrag + i_1) : i_1 \in 0..(n - 1)} THEN NoBuf ELSE @[i]],
                   !.isComplete = @ \/ fr.oldestFrag + n = fr.lastFrag + 1 \/ fr.oldestFrag + n = FragMax]
  BY DEF updateChain
<1>4. \A i \in 0..(n - 1) : fr.fragWin[toFragIdx(fr.oldestFrag + i)] # NoBuf
  BY <1>2
<1> HIDE DEF n, Q, S
<1>5. PICK m \in 0..FragWin : m = n
  BY <1>2
<1>6. DOMAIN fr.fragWin = Places
  BY DEF FrameSlot
<1>7. Chained(fr, updateChain(fr), m)
  BY <1>3, <1>4, <1>5, <1>6 DEF Chained, FrameSlot
<1> QED BY <1>7

\* What is taken are the next fragments.
LEMMA ChainedTakes ==
    ASSUME NEW f \in Nat, NEW fr, Gathers(fr, f), NEW u, NEW n \in 0..FragWin, Chained(fr, u, n)
    PROVE  /\ \A i \in 0..(n - 1) :
                 /\ toFragIdx(fr.oldestFrag + i) \in Places
                 /\ fr.fragWin[toFragIdx(fr.oldestFrag + i)] \in Held(fr)
                 /\ fr.fragWin[toFragIdx(fr.oldestFrag + i)].frag = fr.oldestFrag + i
           /\ u.prod \in Seq(Piece) /\ Len(u.prod) = u.oldestFrag /\ u.oldestFrag \in Nat
           /\ DOMAIN u.prod = 1..u.oldestFrag
           /\ \A k \in 1..fr.oldestFrag : u.prod[k] = fr.prod[k]
           /\ \A i \in 0..(n - 1) : u.prod[fr.oldestFrag + i + 1] =
                                       fr.fragWin[toFragIdx(fr.oldestFrag + i)]
<1>0. FragWin \in Nat \ {0} /\ n \in Nat /\ n <= FragWin
  BY Windows
<1>1. /\ fr.oldestFrag \in Nat /\ fr.prod \in Seq(Piece) /\ Len(fr.prod) = fr.oldestFrag
      /\ \A j \in Places : fr.fragWin[j] \in Piece \cup {NoBuf}
  BY DEF Gathers, FrameSlot
<1>2. ASSUME NEW i \in 0..(n - 1)
      PROVE  /\ toFragIdx(fr.oldestFrag + i) \in Places
             /\ fr.fragWin[toFragIdx(fr.oldestFrag + i)] \in Held(fr)
             /\ fr.fragWin[toFragIdx(fr.oldestFrag + i)] \in Piece
             /\ fr.fragWin[toFragIdx(fr.oldestFrag + i)].frag = fr.oldestFrag + i
  <2>1. PICK a \in Nat : a = fr.oldestFrag + i
    BY <1>0, <1>1
  <2>2. PICK j : j = toFragIdx(a)
    OBVIOUS
  <2>3. j = a % FragWin /\ j \in Places
    <3>1. a \in Int
      BY <2>1
    <3>2. a % FragWin \in 0..(FragWin - 1)
      BY <1>0, <3>1, DivMod
    <3> QED BY <2>2, <3>2 DEF toFragIdx, Places
  <2>4. PICK x : x = fr.fragWin[j]
    OBVIOUS
  <2>5. x # NoBuf
    BY <2>1, <2>2, <2>4 DEF Chained
  <2>6. x \in Piece /\ x \in Held(fr)
    BY <1>1, <2>3, <2>4, <2>5, HeldIs
  <2>7. x.frag % FragWin = j /\ fr.oldestFrag <= x.frag /\ x.frag < fr.oldestFrag + FragWin
    BY <2>3, <2>4, <2>5 DEF Gathers
  <2>8. PICK b \in Int : b = x.frag
    BY <2>6 DEF Piece
  <2>9. b = a
    <3>1. PICK c \in Nat : c = fr.oldestFrag
      BY <1>1
    <3>2. c <= b /\ b < c + FragWin
      BY <2>7, <2>8, <3>1
    <3>3. a = c + i
      BY <2>1, <3>1
    <3>4. a - b < FragWin /\ b - a < FragWin /\ a \in Int
      BY <1>0, <3>2, <3>3
    <3>5. a % FragWin = b % FragWin
      BY <2>3, <2>7, <2>8, Zenon
    <3> QED BY <1>0, <3>4, <3>5, ModDistinct
  <2> QED BY <2>1, <2>2, <2>3, <2>4, <2>6, <2>8, <2>9
<1>3. PICK q : q = [i \in 1..n |-> fr.fragWin[toFragIdx(fr.oldestFrag + i - 1)]]
  OBVIOUS
<1>4. \A i \in 1..n : q[i] = fr.fragWin[toFragIdx(fr.oldestFrag + (i - 1))] /\ q[i] \in Piece
  <2> TAKE i \in 1..n
  <2>1. i - 1 \in 0..(n - 1) /\ fr.oldestFrag + i - 1 = fr.oldestFrag + (i - 1)
    BY <1>0, <1>1
  <2> QED BY <1>2, <1>3, <2>1
<1>5. q \in Seq(Piece) /\ Len(q) = n
  <2>1. q \in [1..n -> Piece]
    BY <1>3, <1>4
  <2> QED BY <1>0, <2>1
<1>6. u.prod = fr.prod \o q /\ u.oldestFrag = fr.oldestFrag + n
  BY <1>3 DEF Chained
<1>7. /\ u.prod \in Seq(Piece) /\ Len(u.prod) = u.oldestFrag /\ u.oldestFrag \in Nat
      /\ DOMAIN u.prod = 1..u.oldestFrag
  <2>1. PICK p \in Seq(Piece) : p = fr.prod
    BY <1>1
  <2>2. PICK r : r = u.prod /\ r = p \o q
    BY <1>6, <2>1
  <2>3. Len(p) = fr.oldestFrag
    BY <1>1, <2>1
  <2>4. r \in Seq(Piece) /\ Len(r) = Len(p) + Len(q)
    BY <1>5, <2>2, ConcatProperties
  <2>5. DOMAIN r = 1..Len(r)
    BY <2>4, LenProperties
  <2>6. Len(r) = u.oldestFrag /\ u.oldestFrag \in Nat
    BY <1>0, <1>1, <1>5, <1>6, <2>3, <2>4
  <2> QED BY <2>2, <2>4, <2>5, <2>6
<1>8. \A k \in 1..fr.oldestFrag : u.prod[k] = fr.prod[k]
  BY <1>0, <1>1, <1>5, <1>6
<1>9. ASSUME NEW i \in 0..(n - 1)
      PROVE  u.prod[fr.oldestFrag + i + 1] = fr.fragWin[toFragIdx(fr.oldestFrag + i)]
  <2>1. PICK l \in 1..n : l = i + 1
    BY <1>0
  <2>2. (fr.prod \o q)[fr.oldestFrag + l] = q[l]
    BY <1>0, <1>1, <1>5, <2>1
  <2>3. fr.oldestFrag + i + 1 = fr.oldestFrag + l /\ i = l - 1
    BY <1>1, <2>1
  <2>4. q[l] = fr.fragWin[toFragIdx(fr.oldestFrag + (l - 1))]
    BY <1>4
  <2> QED BY <1>6, <2>2, <2>3, <2>4
<1> QED BY <1>2, <1>7, <1>8, <1>9

\* Nothing that is held is lost, nothing else is held.
LEMMA ChainedHolds ==
    ASSUME NEW f \in Nat, NEW fr, Gathers(fr, f), NEW u, NEW n \in 0..FragWin, Chained(fr, u, n)
    PROVE  Held(u) = Held(fr)
<1>0. n \in Nat /\ fr.oldestFrag \in Nat /\ DOMAIN fr.prod = 1..fr.oldestFrag
  BY Windows, LenProperties DEF Gathers, FrameSlot
<1>1. u.oldestFrag = fr.oldestFrag + n
  BY DEF Chained
<1>2. \A j \in Places : u.fragWin[j] = IF j \in {toFragIdx(fr.oldestFrag + i) : i \in 0..(n - 1)}
                                       THEN NoBuf ELSE fr.fragWin[j]
  BY DEF Chained
<1>3. ASSUME NEW x \in Held(u) PROVE x \in Held(fr)
  <2>1. CASE \E k \in DOMAIN u.prod : x = u.prod[k]
    <3>1. PICK k \in 1..u.oldestFrag : x = u.prod[k]
      BY <2>1, ChainedTakes
    <3>2. CASE k <= fr.oldestFrag
      <4>1. k \in 1..fr.oldestFrag
        BY <1>0, <1>1, <3>2
      <4>2. x = fr.prod[k] /\ k \in DOMAIN fr.prod
        BY <1>0, <3>1, <4>1, ChainedTakes
      <4> QED BY <4>2, HeldIs
    <3>3. CASE ~(k <= fr.oldestFrag)
      <4>1. PICK i \in 0..(n - 1) : k = fr.oldestFrag + i + 1
        <5>1. k - fr.oldestFrag - 1 \in 0..(n - 1) /\ k = fr.oldestFrag + (k - fr.oldestFrag - 1) + 1
          BY <1>0, <1>1, <3>3
        <5> QED BY <5>1
      <4>2. x = fr.fragWin[toFragIdx(fr.oldestFrag + i)]
        BY <3>1, <4>1, ChainedTakes
      <4> QED BY <4>2, ChainedTakes
    <3> QED BY <3>2, <3>3
  <2>2. CASE \E j \in Places : x = u.fragWin[j] /\ x # NoBuf
    BY <1>2, <2>2, HeldIs
  <2> QED BY <2>1, <2>2, HeldIs
<1>4. ASSUME NEW x \in Held(fr) PROVE x \in Held(u)
  <2>1. CASE \E k \in DOMAIN fr.prod : x = fr.prod[k]
    <3>1. PICK k \in 1..fr.oldestFrag : x = fr.prod[k]
      BY <1>0, <2>1
    <3>2. k \in DOMAIN u.prod /\ x = u.prod[k]
      <4>1. k \in 1..u.oldestFrag
        BY <1>0, <1>1
      <4> QED BY <3>1, <4>1, ChainedTakes
    <3> QED BY <3>2, HeldIs
  <2>2. CASE \E j \in Places : x = fr.fragWin[j] /\ x # NoBuf
    <3>1. PICK j \in Places : x = fr.fragWin[j] /\ x # NoBuf
      BY <2>2
    <3>2. CASE j \in {toFragIdx(fr.oldestFrag + i) : i \in 0..(n - 1)}
      <4>1. PICK i \in 0..(n - 1) : j = toFragIdx(fr.oldestFrag + i)
        BY <3>2
      <4>2. x = u.prod[fr.oldestFrag + i + 1]
        BY <3>1, <4>1, ChainedTakes
      <4>3. fr.oldestFrag + i + 1 \in 1..u.oldestFrag
        BY <1>0, <1>1
      <4>4. fr.oldestFrag + i + 1 \in DOMAIN u.prod
        BY <4>3, ChainedTakes
      <4> QED BY <4>2, <4>4, HeldIs
    <3>3. CASE ~(j \in {toFragIdx(fr.oldestFrag + i) : i \in 0..(n - 1)})
      BY <1>2, <3>1, <3>3, HeldIs
    <3> QED BY <3>2, <3>3
  <2> QED BY <2>1, <2>2, HeldIs
<1> QED BY <1>3, <1>4

\* A frame that becomes complete is whole.
LEMMA ChainedWhole ==
    ASSUME NEW f \in Nat, NEW fr, Gathers(fr, f), NEW u, NEW n \in 0..FragWin, Chained(fr, u, n),
           Held(u) = Held(fr), \A k \in DOMAIN u.prod : u.prod[k].frag = k - 1, u.isComplete
    PROVE  u.prod # <<>> /\ Whole(u.prod) /\ u.prod[1].frame = f
<1>0. /\ u.prod \in Seq(Piece) /\ u.oldestFrag \in Nat /\ DOMAIN u.prod = 1..u.oldestFrag
      /\ fr.oldestFrag \in Nat /\ n \in Nat /\ u.oldestFrag = fr.oldestFrag + n
  <2>1. fr.oldestFrag \in Nat /\ n \in Nat /\ u.oldestFrag = fr.oldestFrag + n
    BY Windows DEF Gathers, FrameSlot, Chained
  <2> QED BY <2>1, ChainedTakes
<1>1. \A k \in DOMAIN u.prod : u.prod[k] \in Held(fr)
  BY HeldIs
<1>2. \A k \in DOMAIN u.prod : PartOf(u.prod[k], f) /\ u.prod[k].frag = k - 1
  BY <1>1 DEF Gathers
<1>3. \A k, l \in DOMAIN u.prod : Fits(u.prod[k], u.prod[l])
  BY <1>1 DEF Gathers
<1>4. SUFFICES \E e \in DOMAIN u.prod : u.prod[e].eof
  BY <1>0, <1>2, <1>3, LastOneEnds
<1>5. CASE fr.isComplete
  <2>1. fr.prod # <<>> /\ Whole(fr.prod) /\ fr.prod \in Seq(Piece) /\ Len(fr.prod) = fr.oldestFrag
    BY <1>5 DEF Gathers, FrameSlot
  <2>2. DOMAIN fr.prod = 1..fr.oldestFrag /\ fr.oldestFrag \in Nat \ {0}
    BY <2>1, EmptySeq, LenProperties
  <2>3. fr.oldestFrag \in DOMAIN fr.prod /\ fr.oldestFrag \in 1..fr.oldestFrag
    BY <2>2
  <2>4. fr.prod[fr.oldestFrag].eof
    BY <2>1, <2>3 DEF Whole
  <2>5. u.prod[fr.oldestFrag] = fr.prod[fr.oldestFrag]
    BY <2>3, ChainedTakes
  <2>6. fr.oldestFrag \in DOMAIN u.prod
    BY <1>0, <2>2
  <2> QED BY <2>4, <2>5, <2>6
<1>6. CASE u.oldestFrag = fr.lastFrag + 1
  <2>1. fr.lastFrag \in Nat \cup {NoFrag} /\ NoFrag = -2
    BY DEF Gathers, FrameSlot, NoFrag
  <2>2. fr.lastFrag # NoFrag /\ fr.lastFrag \in Nat
    BY <1>0, <1>6, <2>1
  <2>3. PICK x \in Held(fr) : x.eof /\ x.frag = fr.lastFrag
    BY <2>2 DEF Gathers
  <2>4. PICK e : e = u.oldestFrag
    OBVIOUS
  <2>5. e \in DOMAIN u.prod /\ u.prod[e].frag = e - 1 /\ e - 1 = fr.lastFrag
    <3>1. e \in DOMAIN u.prod /\ e - 1 = fr.lastFrag
      BY <1>0, <1>6, <2>2, <2>4
    <3> QED BY <3>1
  <2>6. Fits(x, u.prod[e])
    BY <1>1, <2>5 DEF Gathers
  <2>7. x = u.prod[e]
    BY <2>3, <2>5, <2>6 DEF Fits
  <2> QED BY <2>3, <2>5, <2>7
<1>7. CASE u.oldestFrag = FragMax
  <2>1. Len(Chain(f)) \in 1..FragMax /\ FragMax \in Nat
    BY ChainFacts, Windows
  <2>2. FragMax \in DOMAIN u.prod
    BY <1>0, <1>7, <2>1
  <2>3. PICK x : x = u.prod[FragMax]
    OBVIOUS
  <2>4. PartOf(x, f) /\ x.frag = FragMax - 1
    BY <1>2, <2>2, <2>3
  <2>5. x.last \in Nat /\ x.frag < x.last /\ x.last <= Len(Chain(f))
    BY <2>4 DEF PartOf, Piece
  <2>6. x.last = Len(Chain(f))
    BY <2>1, <2>4, <2>5
  <2>7. x.eof
    BY <2>4, <2>6 DEF PartOf
  <2> QED BY <2>2, <2>3, <2>7
<1> QED BY <1>5, <1>6, <1>7 DEF Chained

\* updateChain() keeps the frame in shape.
LEMMA UpdateGathers ==
    ASSUME NEW f \in Nat, NEW fr, Gathers(fr, f), NEW u, u = updateChain(fr)
    PROVE  /\ Gathers(u, f) /\ Held(u) = Held(fr)
           /\ u.frameID = fr.frameID /\ u.running = fr.running
<1>1. fr \in FrameSlot
  BY DEF Gathers
<1>2. PICK n \in 0..FragWin : Chained(fr, u, n)
  BY <1>1, UpdateChains
<1>3. Held(u) = Held(fr)
  BY <1>2, ChainedHolds
<1>4. /\ u.prod \in Seq(Piece) /\ u.oldestFrag \in Nat /\ DOMAIN u.prod = 1..u.oldestFrag
      /\ Len(u.prod) = u.oldestFrag
      /\ fr.oldestFrag \in Nat /\ n \in Nat /\ u.oldestFrag = fr.oldestFrag + n
      /\ DOMAIN fr.prod = 1..fr.oldestFrag
  <2>1. /\ fr.oldestFrag \in Nat /\ n \in Nat /\ u.oldestFrag = fr.oldestFrag + n
        /\ DOMAIN fr.prod = 1..fr.oldestFrag
    BY <1>2, Windows, LenProperties DEF Gathers, FrameSlot, Chained
  <2> QED BY <1>2, <2>1, ChainedTakes
<1>5. \A k \in DOMAIN u.prod : u.prod[k].frag = k - 1
  <2> TAKE k \in DOMAIN u.prod
  <2>1. CASE k <= fr.oldestFrag
    <3>1. k \in 1..fr.oldestFrag
      BY <1>4, <2>1
    <3>2. fr.prod[k].frag = k - 1
      BY <1>4, <3>1 DEF Gathers
    <3> QED BY <1>2, <3>1, <3>2, ChainedTakes
  <2>2. CASE ~(k <= fr.oldestFrag)
    <3>1. PICK i \in 0..(n - 1) : k = fr.oldestFrag + i + 1
      <4>1. k - fr.oldestFrag - 1 \in 0..(n - 1) /\ k = fr.oldestFrag + (k - fr.oldestFrag - 1) + 1
        BY <1>4, <2>2
      <4> QED BY <4>1
    <3>2. u.prod[k] = fr.fragWin[toFragIdx(fr.oldestFrag + i)]
      BY <1>2, <3>1, ChainedTakes
    <3>3. u.prod[k].frag = fr.oldestFrag + i
      BY <1>2, <3>2, ChainedTakes
    <3> QED BY <1>4, <3>1, <3>3
  <2> QED BY <2>1, <2>2
<1>6. ASSUME NEW j \in Places, u.fragWin[j] # NoBuf
      PROVE  /\ u.fragWin[j].frag % FragWin = j
             /\ u.oldestFrag <= u.fragWin[j].frag /\ u.fragWin[j].frag < u.oldestFrag + FragWin
  <2>1. /\ ~(j \in {toFragIdx(fr.oldestFrag + i) : i \in 0..(n - 1)})
        /\ u.fragWin[j] = fr.fragWin[j]
    BY <1>2, <1>6 DEF Chained
  <2>2. PICK x : x = fr.fragWin[j]
    OBVIOUS
  <2>3. x \in Piece /\ x.frag \in Nat
    <3>1. x \in Piece
      BY <1>1, <1>6, <2>1, <2>2 DEF FrameSlot
    <3> QED BY <3>1 DEF Piece
  <2>4. x.frag % FragWin = j /\ fr.oldestFrag <= x.frag /\ x.frag < fr.oldestFrag + FragWin
    BY <1>6, <2>1, <2>2 DEF Gathers
  <2>5. u.oldestFrag <= x.frag
    <3>1. SUFFICES ASSUME x.frag < fr.oldestFrag + n PROVE FALSE
      BY <1>4, <2>3
    <3>2. PICK i \in 0..(n - 1) : x.frag = fr.oldestFrag + i
      <4>1. x.frag - fr.oldestFrag \in 0..(n - 1) /\ x.frag = fr.oldestFrag + (x.frag - fr.oldestFrag)
        BY <1>4, <2>3, <2>4, <3>1
      <4> QED BY <4>1
    <3>3. j = toFragIdx(fr.oldestFrag + i)
      BY <2>4, <3>2 DEF toFragIdx
    <3> QED BY <2>1, <3>3
  <2>6. x.frag < u.oldestFrag + FragWin
    BY <1>4, <2>3, <2>4, Windows
  <2> QED BY <2>1, <2>2, <2>4, <2>5, <2>6
<1>7. u.isComplete => u.prod # <<>> /\ Whole(u.prod) /\ u.prod[1].frame = f
  BY <1>2, <1>3, <1>5, ChainedWhole
<1>8. u.frameID = fr.frameID /\ u.running = fr.running /\ u.lastFrag = fr.lastFrag
  BY <1>2 DEF Chained
<1>9. u \in FrameSlot
  <2>1. /\ u.frameID \in Nat /\ u.running \in BOOLEAN /\ u.lastFrag \in Nat \cup {NoFrag}
        /\ \A j \in Places : fr.fragWin[j] \in Piece \cup {NoBuf}
    BY <1>1, <1>8 DEF FrameSlot
  <2>2. u.fragWin \in [Places -> Piece \cup {NoBuf}]
    BY <1>2, <2>1 DEF Chained
  <2>3. u.isComplete \in BOOLEAN
    BY <1>2 DEF Chained
  <2>4. u = [frameID |-> u.frameID, oldestFrag |-> u.oldestFrag, lastFrag |-> u.lastFrag,
             isComplete |-> u.isComplete, running |-> u.running, prod |-> u.prod,
             fragWin |-> u.fragWin]
    BY <1>2 DEF Chained
  <2> QED BY <1>4, <2>1, <2>2, <2>3, <2>4 DEF FrameSlot
<1>10. Gathers(u, f)
  BY <1>3, <1>4, <1>5, <1>6, <1>7, <1>8, <1>9 DEF Gathers
<1> QED BY <1>3, <1>8, <1>10

\* A fragment of the frame that there is a free place for.
Fresh(fr, g, f) ==
    /\ PartOf(g, f)
    /\ \A x \in Held(fr) : Fits(x, g) /\ Fits(g, x)
    /\ ~Outside(fr, g)
    /\ fr.fragWin[toFragIdx(g.frag)] = NoBuf

\* What Store() does before updateChain().
LastOf(fr, g) == IF (g.eof \/ g.frag = FragMax) /\ fr.lastFrag = NoFrag THEN g.frag ELSE fr.lastFrag
Put(fr, g) == [fr EXCEPT !.fragWin[toFragIdx(g.frag)] = g, !.lastFrag = LastOf(fr, g)]

\* The types of what a fresh fragment meets.
LEMMA FreshTypes ==
    ASSUME NEW f \in Nat, NEW fr, Gathers(fr, f), NEW g, Fresh(fr, g, f)
    PROVE  /\ fr \in FrameSlot /\ g \in Piece /\ g.frag \in Nat /\ g.eof \in BOOLEAN
           /\ fr.oldestFrag \in Nat /\ fr.fragWin \in [Places -> Piece \cup {NoBuf}]
           /\ fr.lastFrag \in Nat \cup {NoFrag} /\ g # NoBuf
           /\ toFragIdx(g.frag) \in Places /\ toFragIdx(g.frag) = g.frag % FragWin
           /\ g.frag < FragMax
           /\ fr.oldestFrag <= g.frag /\ g.frag < fr.oldestFrag + FragWin
<1>1. /\ fr \in FrameSlot /\ g \in Piece /\ g.frag \in Nat /\ g.last \in Nat /\ g.eof \in BOOLEAN
      /\ fr.oldestFrag \in Nat /\ fr.fragWin \in [Places -> Piece \cup {NoBuf}]
      /\ fr.lastFrag \in Nat \cup {NoFrag}
  BY DEF Fresh, Gathers, PartOf, Piece, FrameSlot
<1>2. toFragIdx(g.frag) \in Places /\ toFragIdx(g.frag) = g.frag % FragWin
  <2>1. g.frag \in Int /\ FragWin \in Nat \ {0}
    BY <1>1, Windows
  <2>2. g.frag % FragWin \in 0..(FragWin - 1)
    BY <2>1, DivMod
  <2> QED BY <2>2 DEF toFragIdx, Places
<1>3. g.frag < FragMax
  <2>1. g.frag < g.last /\ g.last <= Len(Chain(f))
    BY DEF Fresh, PartOf
  <2>2. Len(Chain(f)) \in 1..FragMax /\ FragMax \in Nat
    BY ChainFacts, Windows
  <2> QED BY <1>1, <2>1, <2>2
<1>4. fr.oldestFrag <= g.frag /\ g.frag < fr.oldestFrag + FragWin
  <2>1. ~Outside(fr, g)
    BY DEF Fresh
  <2> QED BY <1>1, <2>1, Windows DEF Outside
<1>5. g # NoBuf
  BY <1>1, NotNumbers
<1> QED BY <1>1, <1>2, <1>3, <1>4, <1>5

\* What is different after Put().
PutIs(fr, g, z, j) ==
    /\ j \in Places /\ j = g.frag % FragWin /\ j = toFragIdx(g.frag)
    /\ z.frameID = fr.frameID /\ z.running = fr.running /\ z.oldestFrag = fr.oldestFrag
    /\ z.isComplete = fr.isComplete /\ z.prod = fr.prod /\ z.lastFrag = LastOf(fr, g)
    /\ \A i \in Places : z.fragWin[i] = IF i = j THEN g ELSE fr.fragWin[i]
    /\ z \in FrameSlot

\* Put() does that.
LEMMA PutDoes ==
    ASSUME NEW f \in Nat, NEW fr, Gathers(fr, f), NEW g, Fresh(fr, g, f), NEW z, z = Put(fr, g)
    PROVE  PutIs(fr, g, z, toFragIdx(g.frag))
<1>1. PICK j : j = toFragIdx(g.frag)
  OBVIOUS
<1>2. PICK last : last = LastOf(fr, g)
  OBVIOUS
<1>3. PICK w : w = [fr.fragWin EXCEPT ![j] = g]
  OBVIOUS
<1>4. /\ fr \in FrameSlot /\ g \in Piece /\ fr.fragWin \in [Places -> Piece \cup {NoBuf}]
      /\ j \in Places /\ j = g.frag % FragWin
  BY <1>1, FreshTypes
<1>5. last \in Nat \cup {NoFrag}
  BY <1>2, FreshTypes DEF LastOf
<1>6. w \in [Places -> Piece \cup {NoBuf}] /\ \A i \in Places : w[i] = IF i = j THEN g ELSE fr.fragWin[i]
  BY <1>3, <1>4
<1>7. z = [fr EXCEPT !.fragWin = w, !.lastFrag = last]
  BY <1>1, <1>2, <1>3 DEF Put
<1>8. /\ z.frameID = fr.frameID /\ z.running = fr.running /\ z.oldestFrag = fr.oldestFrag
      /\ z.isComplete = fr.isComplete /\ z.prod = fr.prod /\ z.lastFrag = last /\ z.fragWin = w
      /\ z \in FrameSlot
  BY <1>4, <1>5, <1>6, <1>7 DEF FrameSlot
<1>9. PutIs(fr, g, z, j)
  BY <1>1, <1>2, <1>4, <1>6, <1>8 DEF PutIs
<1> QED BY <1>1, <1>9

\* The fragment joins those that are held.
LEMMA PutHolds ==
    ASSUME NEW f \in Nat, NEW fr, Gathers(fr, f), NEW g, Fresh(fr, g, f), NEW z, NEW j, PutIs(fr, g, z, j)
    PROVE  Held(z) = Held(fr) \cup {g}
<1>1. g # NoBuf
  BY FreshTypes
<1>2. fr.fragWin[j] = NoBuf /\ j \in Places /\ z.prod = fr.prod
  BY DEF PutIs, Fresh
<1>3. \A i \in Places : z.fragWin[i] = IF i = j THEN g ELSE fr.fragWin[i]
  BY DEF PutIs
<1>4. {z.fragWin[i] : i \in Places} \ {NoBuf} = ({fr.fragWin[i] : i \in Places} \ {NoBuf}) \cup {g}
  BY <1>1, <1>2, <1>3
<1> QED BY <1>2, <1>4 DEF Held

\* A fragment of the frame is put into a free place of its window.
LEMMA PutGathers ==
    ASSUME NEW f \in Nat, NEW fr, Gathers(fr, f), NEW g, Fresh(fr, g, f), NEW z, z = Put(fr, g)
    PROVE  /\ Gathers(z, f) /\ Held(z) = Held(fr) \cup {g}
           /\ z.frameID = fr.frameID /\ z.running = fr.running
<1>1. PICK j : j = toFragIdx(g.frag)
  OBVIOUS
<1>2. PutIs(fr, g, z, j)
  BY <1>1, PutDoes
<1>3. Held(z) = Held(fr) \cup {g}
  BY <1>2, PutHolds
<1>4. \A x \in Held(z) : PartOf(x, f)
  BY <1>3 DEF Gathers, Fresh
<1>5. \A x, y \in Held(z) : Fits(x, y)
  <2>1. \A x, y \in Held(fr) : Fits(x, y)
    BY DEF Gathers
  <2>2. \A x \in Held(fr) : Fits(x, g) /\ Fits(g, x)
    BY DEF Fresh
  <2>3. Fits(g, g)
    <3>1. g.frag \in Nat
      BY FreshTypes
    <3>2. g.frag # g.frag + 1 /\ g.frag <= g.frag
      BY <3>1
    <3> QED BY <3>2 DEF Fits
  <2> QED BY <1>3, <2>1, <2>2, <2>3
<1>6. ASSUME NEW i \in Places, z.fragWin[i] # NoBuf
      PROVE  /\ z.fragWin[i].frag % FragWin = i
             /\ z.oldestFrag <= z.fragWin[i].frag /\ z.fragWin[i].frag < z.oldestFrag + FragWin
  <2>1. CASE i = j
    <3>1. z.fragWin[i] = g /\ z.oldestFrag = fr.oldestFrag
      BY <1>2, <2>1 DEF PutIs
    <3> QED BY <1>1, <2>1, <3>1, FreshTypes
  <2>2. CASE i # j
    <3>1. z.fragWin[i] = fr.fragWin[i] /\ z.oldestFrag = fr.oldestFrag
      BY <1>2, <2>2 DEF PutIs
    <3> QED BY <1>6, <3>1 DEF Gathers
  <2> QED BY <2>1, <2>2
<1>7. ASSUME z.lastFrag # NoFrag PROVE \E x \in Held(z) : x.eof /\ x.frag = z.lastFrag
  <2>1. CASE fr.lastFrag # NoFrag
    <3>1. \E x \in Held(fr) : x.eof /\ x.frag = fr.lastFrag
      BY <2>1 DEF Gathers
    <3>2. z.lastFrag = fr.lastFrag
      BY <1>2, <2>1 DEF PutIs, LastOf
    <3> QED BY <1>3, <3>1, <3>2
  <2>2. CASE fr.lastFrag = NoFrag
    <3>1. z.lastFrag = g.frag /\ (g.eof \/ g.frag = FragMax)
      BY <1>2, <1>7, <2>2 DEF PutIs, LastOf
    <3>2. g.frag # FragMax
      <4>1. g.frag \in Nat /\ g.frag < FragMax
        BY FreshTypes
      <4> QED BY <4>1, Windows
    <3> QED BY <1>3, <3>1, <3>2
  <2> QED BY <2>1, <2>2
<1>8. /\ Len(z.prod) = z.oldestFrag /\ \A k \in DOMAIN z.prod : z.prod[k].frag = k - 1
      /\ z.isComplete => z.prod # <<>> /\ Whole(z.prod) /\ z.prod[1].frame = f
  BY <1>2 DEF PutIs, Gathers
<1>9. Gathers(z, f)
  BY <1>2, <1>4, <1>5, <1>6, <1>7, <1>8 DEF Gathers, PutIs
<1> QED BY <1>2, <1>3, <1>9 DEF PutIs

\* Store() keeps the frame in shape.
LEMMA StoreGathers ==
    ASSUME NEW f \in Nat, NEW fr, Gathers(fr, f), NEW g, Fresh(fr, g, f), NEW u, u = Store(fr, g)
    PROVE  /\ Gathers(u, f) /\ Held(u) = Held(fr) \cup {g}
           /\ u.frameID = fr.frameID /\ u.running = fr.running
<1>1. PICK z : z = Put(fr, g)
  OBVIOUS
<1>2. Gathers(z, f) /\ Held(z) = Held(fr) \cup {g} /\ z.frameID = fr.frameID /\ z.running = fr.running
  BY <1>1, PutGathers
<1>3. u = updateChain(z)
  BY <1>1 DEF Store, Put, LastOf
<1>4. Gathers(u, f) /\ Held(u) = Held(z) /\ u.frameID = z.frameID /\ u.running = z.running
  BY <1>2, <1>3, UpdateGathers
<1> QED BY <1>2, <1>4, Zenon

-----------------------------------------------------------------------------
(* The window.                                                             *)

Receiver == [oldestFrame : Nat, frameWin : [Slots -> FrameSlot], out : Seq(Seq(Piece)),
             panic : BOOLEAN]

\* The slot of frame f.
At(s, f) == s.frameWin[f % FrameWin]

\* The window is that of the frames from o on: the timeouts of n frames run, and
\* each slot holds the frame whose turn it is.
Holds(s, f, n) ==
    /\ At(s, f).running <=> f < n
    /\ ~At(s, f).running => At(s, f) = EmptyFrame
    /\ Collects(At(s, f), f)
Window(s, o, n) ==
    /\ s \in Receiver /\ ~s.panic
    /\ s.oldestFrame = o % FrameMod
    /\ \A f \in o..(o + FrameWin - 1) : Holds(s, f, o + n)

\* What has been handed down: whole frames, older than b, in order.
Handed(out, b) ==
    /\ \A i \in DOMAIN out : out[i] # <<>> => Whole(out[i]) /\ out[i][1].frame \in Nat /\ out[i][1].frame < b
    /\ \A i, j \in DOMAIN out :
           i < j /\ out[i] # <<>> /\ out[j] # <<>> => out[i][1].frame < out[j][1].frame

\* The fragments that are kept.
Kept(s) == UNION {Held(s.frameWin[k]) : k \in Slots}

\* Every slot is that of one of the frames of the window.
LEMMA SlotOf ==
    ASSUME NEW o \in Nat, NEW k \in Slots
    PROVE  \E f \in o..(o + FrameWin - 1) : f \in Nat /\ f % FrameWin = k
<1>1. FrameWin \in Nat \ {0} /\ o \in Int /\ k \in 0..(FrameWin - 1)
  BY Windows DEF Slots
<1>2. PICK f \in o..(o + FrameWin - 1) : f % FrameWin = k
  BY <1>1, ModReach
<1> QED BY <1>2

\* A frame has a slot.
LEMMA SlotIn ==
    ASSUME NEW f \in Nat
    PROVE  f % FrameWin \in Slots
<1>1. f \in Int /\ FrameWin \in Nat \ {0}
  BY Windows
<1>2. f % FrameWin \in 0..(FrameWin - 1)
  BY <1>1, DivMod
<1> QED BY <1>2 DEF Slots

\* Two frames of a window do not share a slot.
LEMMA SlotOfOne ==
    ASSUME NEW f \in Nat, NEW h \in Nat, f - h < FrameWin, h - f < FrameWin
    PROVE  f % FrameWin = h % FrameWin => f = h
<1>1. f \in Int /\ h \in Int /\ FrameWin \in Nat \ {0}
  BY Windows
<1> QED BY <1>1, ModDistinct

\* The slot at a distance from the oldest frame.
LEMMA SlotAt ==
    ASSUME NEW s, NEW o \in Nat, NEW i \in Nat, s.oldestFrame = o % FrameMod
    PROVE  /\ toFrameIdx(s.oldestFrame + i) = (o + i) % FrameWin
           /\ Slot(s, i) = At(s, o + i)
           /\ moduloFrameSz(s.oldestFrame + i) = (o + i) % FrameMod
<1>1. /\ FrameMod \in Nat \ {0} /\ FrameWin \in Nat \ {0} /\ FrameMod % FrameWin = 0
      /\ o \in Int /\ i \in Int
  BY Windows
<1>2. FrameMod % FrameMod = 0
  <2>1. FrameMod \in Int /\ FrameMod = FrameMod * 1 + 0 /\ 0 \in 0..(FrameMod - 1) /\ 1 \in Int /\ 0 \in Int
    BY <1>1
  <2> QED BY <1>1, <2>1, ModUnique
<1>3. ((o % FrameMod) + i) % FrameWin = (o + i) % FrameWin
  BY <1>1, ModOfMod
<1>4. ((o % FrameMod) + i) % FrameMod = (o + i) % FrameMod
  BY <1>1, <1>2, ModOfMod
<1> QED BY <1>3, <1>4 DEF Slot, At, toFrameIdx, moduloFrameSz

\* The number of a frame has the same slot.
LEMMA SlotOfNumber ==
    ASSUME NEW f \in Nat
    PROVE  /\ toFrameIdx(f % FrameMod) = f % FrameWin
           /\ moduloFrameSz((f % FrameMod) + 1) = (f + 1) % FrameMod
           /\ f % FrameMod \in Nat
<1>1. PICK s : s = [oldestFrame |-> f % FrameMod, frameWin |-> <<>>]
  OBVIOUS
<1>2. s.oldestFrame = f % FrameMod /\ 0 \in Nat /\ 1 \in Nat
  BY <1>1
<1>3. /\ toFrameIdx(s.oldestFrame + 0) = (f + 0) % FrameWin
      /\ moduloFrameSz(s.oldestFrame + 1) = (f + 1) % FrameMod
  BY <1>2, SlotAt
<1>4. f % FrameMod \in Nat
  BY NotNumbers
<1>5. s.oldestFrame + 0 = f % FrameMod /\ f + 0 = f
  BY <1>2, <1>4
<1> QED BY <1>2, <1>3, <1>4, <1>5

\* An empty slot is right for any frame.
LEMMA EmptySlot ==
    ASSUME NEW f \in Nat
    PROVE  Collects(EmptyFrame, f) /\ ~EmptyFrame.running /\ Held(EmptyFrame) = {}
<1>1. PICK e : e = EmptyFrame
  OBVIOUS
<1>2. e.running = FALSE /\ e = [EmptyFrame EXCEPT !.running = FALSE, !.frameID = NoFrame]
      /\ e = [EmptyFrame EXCEPT !.running = FALSE]
  <2>1. e = [frameID |-> NoFrame, oldestFrag |-> 0, lastFrag |-> NoFrag, isComplete |-> FALSE,
             running |-> FALSE, prod |-> <<>>, fragWin |-> [i \in 0..(FragWin - 1) |-> NoBuf]]
    BY <1>1 DEF EmptyFrame
  <2>2. e.running = FALSE
    BY <2>1
  <2>3. PICK y : y = [EmptyFrame EXCEPT !.running = FALSE, !.frameID = NoFrame]
    OBVIOUS
  <2>4. y = [frameID |-> NoFrame, oldestFrag |-> 0, lastFrag |-> NoFrag, isComplete |-> FALSE,
             running |-> FALSE, prod |-> <<>>, fragWin |-> [i \in 0..(FragWin - 1) |-> NoBuf]]
    BY <2>3 DEF EmptyFrame
  <2>5. PICK z : z = [EmptyFrame EXCEPT !.running = FALSE]
    OBVIOUS
  <2>6. z = [frameID |-> NoFrame, oldestFrag |-> 0, lastFrag |-> NoFrag, isComplete |-> FALSE,
             running |-> FALSE, prod |-> <<>>, fragWin |-> [i \in 0..(FragWin - 1) |-> NoBuf]]
    BY <2>5 DEF EmptyFrame
  <2> QED BY <2>1, <2>2, <2>3, <2>4, <2>5, <2>6, Zenon
<1>3. NoFrame \in Nat /\ EmptyAs(e, FALSE, NoFrame)
  BY <1>2, NotNumbers DEF EmptyAs
<1>4. Gathers(e, f) /\ Held(e) = {} /\ e.frameID = NoFrame
  BY <1>3, EmptyCollects
<1>5. Collects(e, f)
  BY <1>2, <1>4 DEF Collects
<1> QED BY <1>1, <1>2, <1>4, <1>5

\* What Release() does to the window of the frames from o on.
Released(s, t, o, m) ==
    /\ t \in Receiver /\ t.panic = s.panic /\ t.oldestFrame = (o + m) % FrameMod
    /\ \A f \in (o + m)..(o + m + FrameWin - 1) :
          At(t, f) = IF f < o + FrameWin THEN At(s, f) ELSE EmptyFrame
    /\ \A k \in Slots : t.frameWin[k] \in {s.frameWin[k], EmptyFrame}
    /\ t.out = s.out \o [i \in 1..m |-> HandedDown(At(s, o + i - 1))]

\* Its fields.
ReleaseForm(s, t, o, m) ==
    /\ t.panic = s.panic /\ t.oldestFrame = (o + m) % FrameMod
    /\ t.frameWin = [k \in Slots |-> IF k \in {(o + i) % FrameWin : i \in 0..(m - 1)}
                                     THEN EmptyFrame ELSE s.frameWin[k]]
    /\ t.out = s.out \o [i \in 1..m |-> HandedDown(At(s, o + i - 1))]
    /\ t = [oldestFrame |-> t.oldestFrame, frameWin |-> t.frameWin, out |-> t.out,
            panic |-> t.panic]

\* The fields of what Release() returns.
LEMMA ReleaseFields ==
    ASSUME NEW s \in Receiver, NEW o \in Nat, NEW m \in Nat, s.oldestFrame = o % FrameMod,
           NEW t, t = Release(s, m)
    PROVE  ReleaseForm(s, t, o, m)
<1>1. PICK gone, idx : /\ gone = [i \in 1..m |-> HandedDown(Slot(s, i - 1))]
                       /\ idx = {toFrameIdx(s.oldestFrame + i) : i \in 0..(m - 1)}
  OBVIOUS
<1>2. t = [s EXCEPT !.out = @ \o gone,
                    !.frameWin = [i \in DOMAIN @ |-> IF i \in idx THEN EmptyFrame ELSE @[i]],
                    !.oldestFrame = IF m = 0 THEN @ ELSE moduloFrameSz(@ + m)]
  BY <1>1 DEF Release
<1>3. gone = [i \in 1..m |-> HandedDown(At(s, o + i - 1))]
  <2>1. \A i \in 1..m : Slot(s, i - 1) = At(s, o + i - 1)
    <3> TAKE i \in 1..m
    <3>1. PICK k \in Nat : k = i - 1 /\ o + i - 1 = o + k
      OBVIOUS
    <3>2. Slot(s, k) = At(s, o + k)
      BY SlotAt
    <3> QED BY <3>1, <3>2
  <2> QED BY <1>1, <2>1
<1>4. idx = {(o + i) % FrameWin : i \in 0..(m - 1)}
  <2>1. \A i \in 0..(m - 1) : toFrameIdx(s.oldestFrame + i) = (o + i) % FrameWin
    <3> TAKE i \in 0..(m - 1)
    <3>1. i \in Nat
      OBVIOUS
    <3> QED BY <3>1, SlotAt
  <2> QED BY <1>1, <2>1
<1>5. PICK no : no = (o + m) % FrameMod
  OBVIOUS
<1>6. no = IF m = 0 THEN s.oldestFrame ELSE moduloFrameSz(s.oldestFrame + m)
  <2>1. CASE m = 0
    BY <1>5, <2>1
  <2>2. CASE m # 0
    BY <1>5, <2>2, SlotAt
  <2> QED BY <2>1, <2>2
<1>7. PICK w : w = [k \in Slots |-> IF k \in idx THEN EmptyFrame ELSE s.frameWin[k]]
  OBVIOUS
<1>8. DOMAIN s.frameWin = Slots
  BY DEF Receiver
<1>9. t = [s EXCEPT !.out = @ \o gone, !.frameWin = w, !.oldestFrame = no]
  BY <1>2, <1>6, <1>7, <1>8
<1>10. /\ t.panic = s.panic /\ t.oldestFrame = no /\ t.frameWin = w /\ t.out = s.out \o gone
       /\ t = [oldestFrame |-> t.oldestFrame, frameWin |-> t.frameWin, out |-> t.out,
               panic |-> t.panic]
  BY <1>9 DEF Receiver
<1> QED BY <1>3, <1>4, <1>5, <1>7, <1>10 DEF ReleaseForm

\* Nothing is handed down but what a frame held.
LEMMA GoneType ==
    ASSUME NEW s \in Receiver, NEW o \in Nat, NEW m \in Nat
    PROVE  [i \in 1..m |-> HandedDown(At(s, o + i - 1))] \in Seq(Seq(Piece))
<1>1. \A i \in 1..m : HandedDown(At(s, o + i - 1)) \in Seq(Piece)
  <2> TAKE i \in 1..m
  <2>1. PICK f \in Nat : f = o + i - 1
    OBVIOUS
  <2>2. PICK fr : fr = At(s, f)
    OBVIOUS
  <2>3. fr \in FrameSlot
    BY <2>2, SlotIn DEF At, Receiver
  <2>4. fr.prod \in Seq(Piece) /\ <<>> \in Seq(Piece)
    BY <2>3 DEF FrameSlot
  <2>5. HandedDown(fr) \in Seq(Piece)
    BY <2>4 DEF HandedDown
  <2> QED BY <2>1, <2>2, <2>5
<1> QED BY <1>1

\* Release() does what Released says.
LEMMA ReleaseDoes ==
    ASSUME NEW s \in Receiver, NEW o \in Nat, NEW m \in 0..FrameWin, s.oldestFrame = o % FrameMod,
           NEW t, t = Release(s, m)
    PROVE  Released(s, t, o, m)
<1>1. m \in Nat /\ FrameWin \in Nat \ {0} /\ m <= FrameWin
  BY Windows
<1>0. ReleaseForm(s, t, o, m)
  BY <1>1, ReleaseFields
<1>2. /\ t.panic = s.panic /\ t.oldestFrame = (o + m) % FrameMod
      /\ t.frameWin = [k \in Slots |-> IF k \in {(o + i) % FrameWin : i \in 0..(m - 1)}
                                       THEN EmptyFrame ELSE s.frameWin[k]]
      /\ t.out = s.out \o [i \in 1..m |-> HandedDown(At(s, o + i - 1))]
      /\ t = [oldestFrame |-> t.oldestFrame, frameWin |-> t.frameWin, out |-> t.out,
              panic |-> t.panic]
  BY <1>0 DEF ReleaseForm
<1>3. \A k \in Slots : t.frameWin[k] \in {s.frameWin[k], EmptyFrame}
  BY <1>2
<1>4. ASSUME NEW f \in (o + m)..(o + m + FrameWin - 1)
      PROVE  At(t, f) = IF f < o + FrameWin THEN At(s, f) ELSE EmptyFrame
  <2>1. f \in Nat /\ f % FrameWin \in Slots
    <3>1. f \in Nat
      BY <1>1
    <3> QED BY <3>1, SlotIn
  <2>2. t.frameWin[f % FrameWin] =
           IF f % FrameWin \in {(o + i) % FrameWin : i \in 0..(m - 1)} THEN EmptyFrame
                                                                       ELSE s.frameWin[f % FrameWin]
    BY <1>2, <2>1
  <2>3. f % FrameWin \in {(o + i) % FrameWin : i \in 0..(m - 1)} <=> ~(f < o + FrameWin)
    <3>1. ASSUME f < o + FrameWin, f % FrameWin \in {(o + i) % FrameWin : i \in 0..(m - 1)}
          PROVE  FALSE
      <4>1. PICK i \in 0..(m - 1) : f % FrameWin = (o + i) % FrameWin
        BY <3>1
      <4>2. PICK h \in Nat : h = o + i
        BY <1>1
      <4>3. f - h < FrameWin /\ h - f < FrameWin /\ f # h
        BY <1>1, <2>1, <3>1, <4>2
      <4>4. f % FrameWin = h % FrameWin
        BY <4>1, <4>2
      <4> QED BY <2>1, <4>3, <4>4, SlotOfOne
    <3>2. ASSUME ~(f < o + FrameWin)
          PROVE  f % FrameWin \in {(o + i) % FrameWin : i \in 0..(m - 1)}
      <4>1. PICK i \in 0..(m - 1) : f = (o + i) + FrameWin * 1
        <5>1. f - o - FrameWin \in 0..(m - 1) /\ f = (o + (f - o - FrameWin)) + FrameWin * 1
          BY <1>1, <2>1, <3>2
        <5> QED BY <5>1
      <4>2. PICK h \in Int : h = o + i
        BY <1>1
      <4>3. f \in Int /\ 1 \in Int /\ f = h + FrameWin * 1
        BY <2>1, <4>1, <4>2
      <4>4. f % FrameWin = h % FrameWin
        BY <1>1, <4>3, ModShift
      <4> QED BY <4>2, <4>4
    <3> QED BY <3>1, <3>2
  <2> QED BY <2>2, <2>3 DEF At
<1>5. t \in Receiver
  <2>1. EmptyFrame \in FrameSlot
    <3>1. 0 \in Nat
      OBVIOUS
    <3> QED BY <3>1, EmptySlot DEF Collects, Gathers
  <2>2. t.frameWin \in [Slots -> FrameSlot]
    <3>1. s.frameWin \in [Slots -> FrameSlot]
      BY DEF Receiver
    <3> QED BY <1>2, <2>1, <3>1
  <2>3. t.out \in Seq(Seq(Piece))
    <3>1. s.out \in Seq(Seq(Piece))
      BY DEF Receiver
    <3>2. PICK q : q = [i \in 1..m |-> HandedDown(At(s, o + i - 1))]
      OBVIOUS
    <3>3. q \in Seq(Seq(Piece))
      BY <1>1, <3>2, GoneType
    <3>4. t.out = s.out \o q
      BY <1>2, <3>2
    <3> QED BY <3>1, <3>3, <3>4, ConcatProperties
  <2>4. t.oldestFrame \in Nat
    <3>1. PICK f \in Nat : f = o + m
      BY <1>1
    <3>2. f % FrameMod \in Nat
      BY <3>1, SlotOfNumber
    <3> QED BY <1>2, <3>1, <3>2
  <2>5. t.panic \in BOOLEAN
    BY <1>2 DEF Receiver
  <2> QED BY <1>2, <2>2, <2>3, <2>4, <2>5 DEF Receiver
<1> QED BY <1>2, <1>3, <1>4, <1>5 DEF Released

\* The window moves on.
LEMMA ReleasedWindow ==
    ASSUME NEW s, NEW o \in Nat, NEW n \in 0..FrameWin, NEW m \in 0..n, Window(s, o, n),
           NEW t, Released(s, t, o, m)
    PROVE  Window(t, o + m, n - m)
<1>1. FrameWin \in Nat \ {0} /\ n \in Nat /\ m \in Nat /\ m <= n /\ n <= FrameWin
  BY Windows
<1>2. t \in Receiver /\ ~t.panic /\ t.oldestFrame = (o + m) % FrameMod
  BY DEF Released, Window
<1>3. (o + m) + (n - m) = o + n
  BY <1>1
<1>4. ASSUME NEW f \in (o + m)..((o + m) + FrameWin - 1) PROVE Holds(t, f, o + n)
  <2>1. f \in Nat
    BY <1>1
  <2>2. At(t, f) = IF f < o + FrameWin THEN At(s, f) ELSE EmptyFrame
    BY DEF Released
  <2>3. CASE f < o + FrameWin
    <3>1. f \in o..(o + FrameWin - 1) /\ At(t, f) = At(s, f)
      BY <1>1, <2>1, <2>2, <2>3
    <3>2. Holds(s, f, o + n)
      BY <3>1 DEF Window
    <3> QED BY <3>1, <3>2 DEF Holds
  <2>4. CASE ~(f < o + FrameWin)
    <3>1. At(t, f) = EmptyFrame /\ ~(f < o + n)
      BY <1>1, <2>1, <2>2, <2>4
    <3>2. Collects(EmptyFrame, f) /\ ~EmptyFrame.running
      BY <2>1, EmptySlot
    <3> QED BY <3>1, <3>2 DEF Holds
  <2> QED BY <2>3, <2>4
<1> QED BY <1>2, <1>3, <1>4 DEF Window

\* Nothing is kept that was not.
LEMMA ReleasedKept ==
    ASSUME NEW s, NEW t, NEW o, NEW m, Released(s, t, o, m)
    PROVE  Kept(t) \subseteq Kept(s)
<1>1. Held(EmptyFrame) = {}
  <2>1. 0 \in Nat
    OBVIOUS
  <2> QED BY <2>1, EmptySlot
<1>2. \A k \in Slots : Held(t.frameWin[k]) \subseteq Held(s.frameWin[k])
  <2> TAKE k \in Slots
  <2>1. CASE t.frameWin[k] = s.frameWin[k]
    BY <2>1
  <2>2. CASE t.frameWin[k] = EmptyFrame
    BY <1>1, <2>2
  <2> QED BY <2>1, <2>2 DEF Released
<1> QED BY <1>2 DEF Kept

\* What is handed down of a frame is the whole frame, or nothing.
LEMMA HandedWhole ==
    ASSUME NEW f \in Nat, NEW fr, Collects(fr, f), NEW p, p = HandedDown(fr), p # <<>>
    PROVE  Whole(p) /\ p[1].frame = f
<1>1. fr.isComplete /\ p = fr.prod
  BY DEF HandedDown
<1> QED BY <1>1 DEF Collects, Gathers

\* The order in which frames are handed down is kept.
LEMMA ReleasedHanded ==
    ASSUME NEW s, NEW o \in Nat, NEW n \in 0..FrameWin, NEW m \in 0..n, Window(s, o, n),
           Handed(s.out, o), NEW t, Released(s, t, o, m)
    PROVE  Handed(t.out, o + m)
<1>1. FrameWin \in Nat \ {0} /\ n \in Nat /\ m \in Nat /\ m <= n /\ n <= FrameWin
  BY Windows
<1>2. PICK a, q : a = s.out /\ q = [i \in 1..m |-> HandedDown(At(s, o + i - 1))]
  OBVIOUS
<1>3. a \in Seq(Seq(Piece)) /\ Handed(a, o)
  BY <1>2 DEF Window, Receiver
<1>4. q \in Seq(Seq(Piece)) /\ Len(q) = m
  <2>1. s \in Receiver
    BY DEF Window
  <2>2. q \in Seq(Seq(Piece))
    BY <1>1, <1>2, <2>1, GoneType
  <2>3. Len(q) = m
    BY <1>1, <1>2
  <2> QED BY <2>2, <2>3
<1>5. ASSUME NEW i \in 1..m, q[i] # <<>> PROVE Whole(q[i]) /\ q[i][1].frame = o + i - 1
  <2>1. PICK f \in Nat : f = o + i - 1
    BY <1>1
  <2>2. f \in o..(o + FrameWin - 1)
    BY <1>1, <2>1
  <2>3. Collects(At(s, f), f)
    BY <2>2 DEF Window, Holds
  <2>4. q[i] = HandedDown(At(s, f))
    BY <1>2, <2>1
  <2> QED BY <1>5, <2>1, <2>3, <2>4, HandedWhole
<1>6. PICK c : c = a \o q
  OBVIOUS
<1>7. t.out = c
  BY <1>2, <1>6 DEF Released
<1>8. PICK l \in Nat : l = Len(a)
  BY <1>3, LenProperties
<1>9. /\ DOMAIN a = 1..l /\ DOMAIN c = 1..(l + m)
      /\ \A i \in 1..l : c[i] = a[i]
      /\ \A i \in 1..m : c[l + i] = q[i]
  BY <1>1, <1>3, <1>4, <1>6, <1>8
<1>10. ASSUME NEW i \in DOMAIN c, c[i] # <<>>
       PROVE  /\ Whole(c[i]) /\ c[i][1].frame \in Nat /\ c[i][1].frame < o + m
              /\ i \in 1..l => c[i] = a[i] /\ c[i][1].frame < o
              /\ i \notin 1..l => c[i][1].frame = o + (i - l) - 1 /\ i - l \in 1..m
  <2>1. CASE i \in 1..l
    <3>1. c[i] = a[i] /\ i \in DOMAIN a
      BY <1>9, <2>1
    <3>2. Whole(a[i]) /\ a[i][1].frame \in Nat /\ a[i][1].frame < o
      BY <1>3, <1>10, <3>1 DEF Handed
    <3>3. a[i][1].frame < o + m
      BY <1>1, <3>2
    <3> QED BY <2>1, <3>1, <3>2, <3>3
  <2>2. CASE i \notin 1..l
    <3>1. PICK k \in 1..m : i = l + k
      <4>1. i - l \in 1..m /\ i = l + (i - l)
        BY <1>1, <1>9, <2>2
      <4> QED BY <4>1
    <3>2. c[i] = q[k]
      BY <1>9, <3>1
    <3>3. Whole(c[i]) /\ c[i][1].frame = o + k - 1
      BY <1>5, <1>10, <3>2
    <3>4. k = i - l /\ o + k - 1 \in Nat /\ o + k - 1 < o + m
      BY <1>1, <3>1
    <3> QED BY <2>2, <3>1, <3>3, <3>4
  <2> QED BY <2>1, <2>2
<1>11. ASSUME NEW i \in DOMAIN c, NEW j \in DOMAIN c, i < j, c[i] # <<>>, c[j] # <<>>
       PROVE  c[i][1].frame < c[j][1].frame
  <2>1. CASE j \in 1..l
    <3>1. i \in 1..l /\ j \in 1..l
      BY <1>9, <1>11, <2>1
    <3>2. c[i] = a[i] /\ c[j] = a[j] /\ i \in DOMAIN a /\ j \in DOMAIN a
      BY <1>9, <3>1
    <3> QED BY <1>3, <1>11, <3>2 DEF Handed
  <2>2. CASE j \notin 1..l /\ i \in 1..l
    <3>1. c[i][1].frame \in Nat /\ c[i][1].frame < o
      BY <1>10, <1>11, <2>2
    <3>2. c[j][1].frame = o + (j - l) - 1 /\ j - l \in 1..m
      BY <1>10, <1>11, <2>2
    <3> QED BY <1>1, <3>1, <3>2
  <2>3. CASE j \notin 1..l /\ i \notin 1..l
    <3>1. c[i][1].frame = o + (i - l) - 1 /\ i - l \in 1..m
      BY <1>10, <1>11, <2>3
    <3>2. c[j][1].frame = o + (j - l) - 1 /\ j - l \in 1..m
      BY <1>10, <1>11, <2>3
    <3>3. i - l < j - l
      BY <1>9, <1>11
    <3> QED BY <3>1, <3>2, <3>3
  <2> QED BY <2>1, <2>2, <2>3
<1>12. Handed(c, o + m)
  BY <1>10, <1>11 DEF Handed
<1> QED BY <1>7, <1>12

\* What is older than b is older than anything later.
LEMMA HandedLater ==
    ASSUME NEW out, NEW b \in Nat, NEW c \in Nat, b <= c, Handed(out, b)
    PROVE  Handed(out, c)
BY DEF Handed

\* Nothing happens when nothing is released.
LEMMA ReleaseNone ==
    ASSUME NEW s \in Receiver
    PROVE  Release(s, 0) = s
<1>1. PICK gone, idx : /\ gone = [i \in 1..0 |-> HandedDown(Slot(s, i - 1))]
                       /\ idx = {toFrameIdx(s.oldestFrame + i) : i \in 0..(0 - 1)}
  OBVIOUS
<1>2. Release(s, 0) = [s EXCEPT !.out = @ \o gone,
                    !.frameWin = [i \in DOMAIN @ |-> IF i \in idx THEN EmptyFrame ELSE @[i]],
                    !.oldestFrame = IF 0 = 0 THEN @ ELSE moduloFrameSz(@ + 0)]
  BY <1>1 DEF Release
<1>3. gone = <<>> /\ idx = {}
  BY <1>1
<1>4. PICK w, q : w = s.frameWin /\ q = s.out
  OBVIOUS
<1>5. q \o gone = q /\ [i \in DOMAIN w |-> IF i \in idx THEN EmptyFrame ELSE w[i]] = w
  <2>1. w \in [Slots -> FrameSlot] /\ q \in Seq(Seq(Piece))
    BY <1>4 DEF Receiver
  <2>2. q \o <<>> = q
    BY <2>1
  <2> QED BY <1>3, <2>1, <2>2
<1>6. Release(s, 0) = [s EXCEPT !.out = q, !.frameWin = w, !.oldestFrame = s.oldestFrame]
  BY <1>2, <1>4, <1>5
<1> QED BY <1>4, <1>6 DEF Receiver

\* The m oldest of the n frames that run have left the window.
Moved(s, t, o, n, m) ==
    /\ m \in 0..n
    /\ Window(t, o + m, n - m)
    /\ Kept(t) \subseteq Kept(s)
    /\ Handed(s.out, o) => Handed(t.out, o + m)
    /\ m = 0 => t = s

\* Release() moves the window.
LEMMA ReleaseMoves ==
    ASSUME NEW s, NEW o \in Nat, NEW n \in 0..FrameWin, NEW m \in 0..n, Window(s, o, n),
           NEW t, t = Release(s, m)
    PROVE  Moved(s, t, o, n, m)
<1>1. s \in Receiver /\ s.oldestFrame = o % FrameMod
  BY DEF Window
<1>2. m \in 0..FrameWin
  BY Windows
<1>3. Released(s, t, o, m)
  BY <1>1, <1>2, ReleaseDoes
<1>4. Window(t, o + m, n - m)
  BY <1>3, ReleasedWindow
<1>5. Kept(t) \subseteq Kept(s)
  BY <1>3, ReleasedKept
<1>6. Handed(s.out, o) => Handed(t.out, o + m)
  BY <1>3, ReleasedHanded
<1>7. m = 0 => t = s
  BY <1>1, ReleaseNone
<1> QED BY <1>4, <1>5, <1>6, <1>7 DEF Moved

\* A window has a number for its oldest frame.
LEMMA WindowNumbered ==
    ASSUME NEW s, NEW o \in Nat, NEW n, Window(s, o, n)
    PROVE  s.oldestFrame # NoFrame /\ s.oldestFrame \in 0..(FrameMod - 1)
BY NotNumbers DEF Window

\* The frames that can be released are among those whose timeout runs.
LEMMA ReleasableRuns ==
    ASSUME NEW s, NEW o \in Nat, NEW n \in 0..FrameWin, Window(s, o, n),
           NEW i \in 0..(FrameWin - 1), NEW oc \in BOOLEAN
    PROVE  /\ Releasable(s, i, oc) => i < n
           /\ ~oc /\ i < n => Releasable(s, i, oc)
<1>1. FrameWin \in Nat \ {0} /\ n \in Nat /\ i \in Nat
  BY Windows
<1>2. s.oldestFrame = o % FrameMod
  BY DEF Window
<1>3. Slot(s, i) = At(s, o + i)
  BY <1>1, <1>2, SlotAt
<1>4. PICK f \in o..(o + FrameWin - 1) : f = o + i
  BY <1>1
<1>5. At(s, f).running <=> f < o + n
  BY DEF Window, Holds
<1>6. f < o + n <=> i < n
  BY <1>1, <1>4
<1> QED BY <1>3, <1>4, <1>5, <1>6 DEF Releasable

\* releaseFrames() moves the window, past all frames whose timeout runs if they
\* need not be complete.
LEMMA ReleaseFramesMoves ==
    ASSUME NEW s, NEW o \in Nat, NEW n \in 0..FrameWin, Window(s, o, n), NEW oc \in BOOLEAN,
           NEW t, t = releaseFrames(s, oc)
    PROVE  \E m \in 0..n : Moved(s, t, o, n, m) /\ (~oc => m = n)
<1> DEFINE S == {i \in 0..FrameWin : Releasable(s, i, oc)}
           Q(m) == /\ \A i \in 0..(m - 1) : Releasable(s, i, oc)
                   /\ m < FrameWin => ~Releasable(s, m, oc)
           k == CHOOSE m \in 0..FrameWin : Q(m)
<1>0. FrameWin \in Nat \ {0} /\ n \in Nat /\ n <= FrameWin
  BY Windows
<1>1. \E m \in 0..FrameWin : Q(m)
  <2>1. 0 \in Nat /\ FrameWin \in Nat /\ 0 <= FrameWin
    BY <1>0
  <2>2. PICK m \in 0..FrameWin : (\A i \in 0..(m - 1) : i \in S) /\ (m < FrameWin => m \notin S)
    <3> HIDE DEF S
    <3> QED BY <2>1, RunEnds
  <2>3. \A i \in 0..(m - 1) : Releasable(s, i, oc)
    BY <2>2
  <2>4. m < FrameWin => ~Releasable(s, m, oc)
    BY <2>2
  <2> QED BY <2>3, <2>4
<1>2. k \in 0..FrameWin /\ Q(k)
  <2> HIDE DEF Q
  <2> QED BY <1>1
<1>3. t = Release(s, k)
  BY WindowNumbered DEF releaseFrames
<1>4. (\A i \in 0..(k - 1) : Releasable(s, i, oc)) /\ (k < FrameWin => ~Releasable(s, k, oc))
  BY <1>2
<1> HIDE DEF k, Q, S
<1>5. PICK m \in 0..FrameWin : m = k
  BY <1>2
<1>6. m \in 0..n
  <2>1. SUFFICES ASSUME n < m PROVE FALSE
    BY <1>0
  <2>2. n \in 0..(k - 1) /\ n \in 0..(FrameWin - 1)
    BY <1>0, <1>5, <2>1
  <2>3. Releasable(s, n, oc)
    BY <1>4, <2>2
  <2>4. n < n
    BY <2>2, <2>3, ReleasableRuns
  <2> QED BY <1>0, <2>4
<1>7. ~oc => m = n
  <2>1. SUFFICES ASSUME ~oc, m < n PROVE FALSE
    BY <1>0, <1>6
  <2>2. m \in 0..(FrameWin - 1) /\ m < FrameWin
    BY <1>0, <2>1
  <2>3. Releasable(s, m, oc)
    BY <2>1, <2>2, ReleasableRuns
  <2> QED BY <1>4, <1>5, <2>2, <2>3
<1>8. Moved(s, t, o, n, m)
  BY <1>3, <1>5, <1>6, ReleaseMoves
<1> QED BY <1>6, <1>7, <1>8

\* releaseOldestFrame() moves the window by one frame at most.
LEMMA OldestMoves ==
    ASSUME NEW s, NEW o \in Nat, NEW n \in 0..FrameWin, Window(s, o, n),
           NEW t, t = releaseOldestFrame(s, FALSE)
    PROVE  Moved(s, t, o, n, IF n = 0 THEN 0 ELSE 1)
<1>0. FrameWin \in Nat \ {0} /\ n \in Nat /\ n <= FrameWin /\ 0 \in 0..(FrameWin - 1)
  BY Windows
<1>1. s.oldestFrame # NoFrame
  BY WindowNumbered
<1>2. Releasable(s, 0, FALSE) <=> 0 < n
  BY <1>0, ReleasableRuns
<1>3. CASE n = 0
  <2>1. t = s
    BY <1>2, <1>3 DEF releaseOldestFrame
  <2>2. t = Release(s, 0)
    BY <2>1, ReleaseNone DEF Window
  <2>3. 0 \in 0..n
    BY <1>3
  <2> QED BY <1>3, <2>2, <2>3, ReleaseMoves
<1>4. CASE n # 0
  <2>1. 1 \in 0..n /\ 0 < n
    BY <1>0, <1>4
  <2>2. s.oldestFrame # NoFrame /\ Releasable(s, 0, FALSE)
    BY <1>1, <1>2, <2>1
  <2>3. t = Release(s, 1)
    BY <2>2, Zenon DEF releaseOldestFrame
  <2> QED BY <1>4, <2>1, <2>3, ReleaseMoves
<1> QED BY <1>3, <1>4

\* Two moves are one.
LEMMA MovedTwice ==
    ASSUME NEW s, NEW t, NEW u, NEW o \in Nat, NEW n \in Nat, NEW m, Moved(s, t, o, n, m),
           NEW l, Moved(t, u, o + m, n - m, l)
    PROVE  Moved(s, u, o, n, m + l)
<1>1. m \in 0..n /\ l \in 0..(n - m) /\ n - m \in Nat
  BY DEF Moved
<1>2. m + l \in 0..n /\ (o + m) + l = o + (m + l) /\ (n - m) - l = n - (m + l)
      /\ (m + l = 0 => m = 0 /\ l = 0)
  BY <1>1
<1>3. /\ Kept(u) \subseteq Kept(s) /\ (Handed(s.out, o) => Handed(u.out, (o + m) + l))
      /\ Window(u, (o + m) + l, (n - m) - l) /\ (m = 0 /\ l = 0 => u = s)
  BY DEF Moved
<1> QED BY <1>2, <1>3 DEF Moved

-----------------------------------------------------------------------------
(* A fragment is accepted.                                                 *)

\* One slot is written.
LEMMA OneSlot ==
    ASSUME NEW s \in Receiver, NEW o \in Nat, NEW f \in o..(o + FrameWin - 1), NEW z \in FrameSlot,
           NEW u, u = [s EXCEPT !.frameWin[f % FrameWin] = z]
    PROVE  /\ u \in Receiver /\ u.out = s.out /\ u.panic = s.panic /\ u.oldestFrame = s.oldestFrame
           /\ At(u, f) = z
           /\ \A h \in o..(o + FrameWin - 1) : h # f => At(u, h) = At(s, h)
           /\ Kept(u) \subseteq Kept(s) \cup Held(z)
<1>1. FrameWin \in Nat \ {0} /\ f \in Nat
  BY Windows
<1>2. PICK k \in Slots : k = f % FrameWin
  BY <1>1, SlotIn
<1>3. PICK w : w = [s.frameWin EXCEPT ![k] = z]
  OBVIOUS
<1>4. s.frameWin \in [Slots -> FrameSlot]
  BY DEF Receiver
<1>5. w \in [Slots -> FrameSlot] /\ \A i \in Slots : w[i] = IF i = k THEN z ELSE s.frameWin[i]
  BY <1>3, <1>4
<1>6. u = [s EXCEPT !.frameWin = w]
  BY <1>2, <1>3
<1>7. /\ u \in Receiver /\ u.out = s.out /\ u.panic = s.panic /\ u.oldestFrame = s.oldestFrame
      /\ u.frameWin = w
  BY <1>5, <1>6 DEF Receiver
<1>8. At(u, f) = z
  BY <1>2, <1>5, <1>7 DEF At
<1>9. ASSUME NEW h \in o..(o + FrameWin - 1), h # f PROVE At(u, h) = At(s, h)
  <2>1. h \in Nat /\ f - h < FrameWin /\ h - f < FrameWin
    BY <1>1
  <2>2. h % FrameWin # k
    BY <1>1, <1>2, <1>9, <2>1, SlotOfOne
  <2>3. h % FrameWin \in Slots
    BY <2>1, SlotIn
  <2> QED BY <1>5, <1>7, <2>2, <2>3 DEF At
<1>10. Kept(u) \subseteq Kept(s) \cup Held(z)
  <2>1. \A i \in Slots : Held(u.frameWin[i]) \subseteq Held(s.frameWin[i]) \cup Held(z)
    <3> TAKE i \in Slots
    <3>1. CASE i = k
      BY <1>5, <1>7, <3>1
    <3>2. CASE i # k
      BY <1>5, <1>7, <3>2
    <3> QED BY <3>1, <3>2
  <2> QED BY <2>1 DEF Kept
<1> QED BY <1>7, <1>8, <1>9, <1>10

\* The timeouts of the frames up to f are started.
Started(s, t, o, f) ==
    /\ t \in Receiver /\ t.out = s.out /\ t.panic = s.panic /\ t.oldestFrame = s.oldestFrame
    /\ \A h \in o..(o + FrameWin - 1) : At(t, h) = [At(s, h) EXCEPT !.running = @ \/ h <= f]

\* How far the slot of a frame is from the oldest.
LEMMA SlotDistance ==
    ASSUME NEW o \in Nat, NEW f \in o..(o + FrameWin - 1), NEW a, a = o % FrameWin, NEW b, b = f % FrameWin
    PROVE  (b - a) % FrameWin = f - o
<1>1. FrameWin \in Nat \ {0} /\ f \in Int /\ o \in Int
  BY Windows
<1>2. f - o < FrameWin /\ o - f < FrameWin
  BY <1>1
<1>3. b - a \in {f - o, f - o - FrameWin, f - o + FrameWin}
  BY <1>1, <1>2, ModApart
<1>4. a \in 0..(FrameWin - 1) /\ b \in 0..(FrameWin - 1)
  BY <1>1, DivMod
<1>5. PICK d \in Int, e \in Int : d = b - a /\ e = f - o
  BY <1>1, <1>4
<1>6. 0 <= e /\ e < FrameWin /\ d < FrameWin /\ -FrameWin < d /\ d \in {e, e - FrameWin, e + FrameWin}
  BY <1>1, <1>3, <1>4, <1>5
<1>7. d % FrameWin = e
  <2>1. CASE 0 <= d
    <3>1. d = e
      BY <1>1, <1>6, <2>1
    <3> QED BY <1>1, <1>6, <2>1, <3>1, ModSmall
  <2>2. CASE d < 0
    <3>1. d + FrameWin = e
      BY <1>1, <1>6, <2>2
    <3>2. -FrameWin <= d
      BY <1>1, <1>6
    <3> QED BY <1>1, <2>2, <3>1, <3>2, ModSmall
  <2> QED BY <2>1, <2>2
<1> QED BY <1>5, <1>7

\* StartTimeouts() starts them.
LEMMA TimeoutsStart ==
    ASSUME NEW s \in Receiver, NEW o \in Nat, s.oldestFrame = o % FrameMod,
           NEW f \in o..(o + FrameWin - 1), NEW t, t = StartTimeouts(s, f % FrameWin)
    PROVE  Started(s, t, o, f)
<1>1. FrameWin \in Nat \ {0} /\ f \in Nat
  BY Windows
<1>2. PICK m \in 0..(FrameWin - 1) : m = f - o
  BY <1>1
<1>3. toFrameIdx(s.oldestFrame) = o % FrameWin
  BY SlotOfNumber
<1>4. ((f % FrameWin) - toFrameIdx(s.oldestFrame)) % FrameWin = m
  BY <1>2, <1>3, SlotDistance
<1>5. PICK st : st = {toFrameIdx(s.oldestFrame + i) : i \in 0..m}
  OBVIOUS
<1>6. t = [s EXCEPT !.frameWin = [i \in DOMAIN s.frameWin |->
              [s.frameWin[i] EXCEPT !.running = s.frameWin[i].running \/ i \in st]]]
  BY <1>4, <1>5 DEF StartTimeouts
<1>7. PICK w : w = [i \in Slots |-> [s.frameWin[i] EXCEPT !.running = @ \/ i \in st]]
  OBVIOUS
<1>8. s.frameWin \in [Slots -> FrameSlot]
  BY DEF Receiver
<1>9. t = [s EXCEPT !.frameWin = w]
  <2>1. DOMAIN s.frameWin = Slots
    BY <1>8
  <2> QED BY <1>6, <1>7, <2>1, Zenon
<1>10. w \in [Slots -> FrameSlot]
  <2>1. \A i \in Slots : [s.frameWin[i] EXCEPT !.running = @ \/ i \in st] \in FrameSlot
    <3> TAKE i \in Slots
    <3>1. PICK fr \in FrameSlot : fr = s.frameWin[i]
      BY <1>8
    <3>2. PICK r \in BOOLEAN : r = (fr.running \/ i \in st)
      OBVIOUS
    <3>3. [fr EXCEPT !.running = r] \in FrameSlot
      BY DEF FrameSlot
    <3> QED BY <3>1, <3>2, <3>3
  <2> QED BY <1>7, <2>1
<1>11. /\ t \in Receiver /\ t.out = s.out /\ t.panic = s.panic /\ t.oldestFrame = s.oldestFrame
       /\ t.frameWin = w
  BY <1>9, <1>10 DEF Receiver
<1>12. \A i \in 0..m : toFrameIdx(s.oldestFrame + i) = (o + i) % FrameWin
  <2> TAKE i \in 0..m
  <2>1. i \in Nat
    BY <1>1, <1>2
  <2> QED BY <2>1, SlotAt
<1>13. ASSUME NEW h \in o..(o + FrameWin - 1)
       PROVE  At(t, h) = [At(s, h) EXCEPT !.running = @ \/ h <= f]
  <2>1. h \in Nat /\ h % FrameWin \in Slots
    <3>1. h \in Nat
      BY <1>1
    <3> QED BY <3>1, SlotIn
  <2>2. h % FrameWin \in st <=> h <= f
    <3>1. ASSUME h <= f PROVE h % FrameWin \in st
      <4>1. PICK i \in 0..m : h = o + i
        <5>1. h - o \in 0..m /\ h = o + (h - o)
          BY <1>1, <1>2, <2>1, <3>1
        <5> QED BY <5>1
      <4> QED BY <1>5, <1>12, <4>1
    <3>2. ASSUME h % FrameWin \in st PROVE h <= f
      <4>1. PICK i \in 0..m : h % FrameWin = toFrameIdx(s.oldestFrame + i)
        BY <1>5, <3>2
      <4>2. PICK g \in Nat : g = o + i
        BY <1>1, <1>2
      <4>3. h % FrameWin = g % FrameWin
        BY <1>12, <4>1, <4>2
      <4>4. h - g < FrameWin /\ g - h < FrameWin
        BY <1>1, <1>2, <2>1, <4>2
      <4>5. h = g
        BY <2>1, <4>3, <4>4, SlotOfOne
      <4> QED BY <1>1, <1>2, <4>2, <4>5
    <3> QED BY <3>1, <3>2
  <2>3. w[h % FrameWin] = [s.frameWin[h % FrameWin] EXCEPT !.running = @ \/ h % FrameWin \in st]
    BY <1>7, <2>1
  <2> QED BY <1>11, <2>2, <2>3 DEF At
<1> QED BY <1>11, <1>13 DEF Started

\* A frame that takes a fragment in keeps its place.
LEMMA StoreCollects ==
    ASSUME NEW f \in Nat, NEW fr, Gathers(fr, f), fr.frameID = f % FrameMod, NEW g, Fresh(fr, g, f),
           NEW z, z = Store(fr, g)
    PROVE  Collects(z, f) /\ z \in FrameSlot /\ Held(z) = Held(fr) \cup {g} /\ z.running = fr.running
<1>1. /\ Gathers(z, f) /\ Held(z) = Held(fr) \cup {g}
      /\ z.frameID = fr.frameID /\ z.running = fr.running
  BY StoreGathers
<1>2. z.frameID = f % FrameMod /\ z.frameID # NoFrame
  BY <1>1, NotNumbers
<1>3. Collects(z, f)
  BY <1>1, <1>2 DEF Collects
<1> QED BY <1>1, <1>3 DEF Gathers

\* The fragments that are kept of a frame are kept.
LEMMA KeptOf ==
    ASSUME NEW s, NEW f \in Nat
    PROVE  Held(At(s, f)) \subseteq Kept(s)
<1>1. f % FrameWin \in Slots
  BY SlotIn
<1> QED BY <1>1 DEF Kept, At

\* What Accept() does with fragment g of frame f: n frames run, then l.
Accepted(s, u, o, n, l, f, g) ==
    /\ l \in n..FrameWin /\ (l > n => f = o + l - 1)
    /\ Window(u, o, l) /\ u.out = s.out
    /\ Kept(u) \subseteq Kept(s) \cup {g}
    /\ g.frag < FragWin => f < o + l

\* A frame of which fragments are here takes one more.
LEMMA StoreAccepted ==
    ASSUME NEW s, NEW o \in Nat, NEW n \in 0..FrameWin, Window(s, o, n),
           NEW f \in o..(o + FrameWin - 1), NEW g, Fresh(At(s, f), g, f),
           At(s, f).frameID = f % FrameMod,
           NEW u, u = [s EXCEPT !.frameWin[f % FrameWin] = Store(At(s, f), g)]
    PROVE  Accepted(s, u, o, n, n, f, g)
<1>1. FrameWin \in Nat \ {0} /\ f \in Nat /\ n \in Nat
  BY Windows
<1>2. PICK fr : fr = At(s, f)
  OBVIOUS
<1>3. Holds(s, f, o + n) /\ s \in Receiver
  BY DEF Window
<1>4. Gathers(fr, f) /\ fr.frameID = f % FrameMod /\ Fresh(fr, g, f)
  BY <1>2, <1>3 DEF Holds, Collects
<1>5. PICK z : z = Store(fr, g)
  OBVIOUS
<1>6. Collects(z, f) /\ z \in FrameSlot /\ Held(z) = Held(fr) \cup {g} /\ z.running = fr.running
  BY <1>1, <1>4, <1>5, StoreCollects
<1>7. u = [s EXCEPT !.frameWin[f % FrameWin] = z]
  BY <1>2, <1>5
<1>8. /\ u \in Receiver /\ u.out = s.out /\ u.panic = s.panic /\ u.oldestFrame = s.oldestFrame
      /\ At(u, f) = z
      /\ \A h \in o..(o + FrameWin - 1) : h # f => At(u, h) = At(s, h)
      /\ Kept(u) \subseteq Kept(s) \cup Held(z)
  BY <1>3, <1>6, <1>7, OneSlot
<1>9. fr.running
  <2>1. SUFFICES ASSUME ~fr.running PROVE FALSE
    OBVIOUS
  <2>2. fr = EmptyFrame
    BY <1>2, <1>3, <2>1 DEF Holds
  <2>3. fr.frameID = NoFrame
    BY <2>2 DEF EmptyFrame
  <2> QED BY <1>1, <1>4, <2>3, NotNumbers
<1>10. f < o + n
  BY <1>2, <1>3, <1>9 DEF Holds
<1>11. \A h \in o..(o + FrameWin - 1) : Holds(u, h, o + n)
  <2> TAKE h \in o..(o + FrameWin - 1)
  <2>1. CASE h = f
    BY <1>6, <1>8, <1>9, <1>10, <2>1 DEF Holds
  <2>2. CASE h # f
    <3>1. At(u, h) = At(s, h)
      BY <1>8, <2>2
    <3>2. Holds(s, h, o + n)
      BY DEF Window
    <3> QED BY <3>1, <3>2 DEF Holds
  <2> QED BY <2>1, <2>2
<1>12. Window(u, o, n)
  BY <1>8, <1>11 DEF Window
<1>13. Kept(u) \subseteq Kept(s) \cup {g}
  <2>1. Held(fr) \subseteq Kept(s)
    BY <1>1, <1>2, KeptOf
  <2> QED BY <1>6, <1>8, <2>1
<1>14. n \in n..FrameWin /\ ~(n > n)
  BY <1>1
<1> QED BY <1>8, <1>10, <1>12, <1>13, <1>14 DEF Accepted

\* The first fragment of a frame: its timeout starts, and those of the frames
\* before it.
LEMMA FirstAccepted ==
    ASSUME NEW s, NEW o \in Nat, NEW n \in 0..FrameWin, Window(s, o, n),
           NEW f \in o..(o + FrameWin - 1), NEW g, PartOf(g, f), ~Outside(At(s, f), g),
           At(s, f).frameID = NoFrame, NEW l \in n..FrameWin,
           l = IF f < o + n THEN n ELSE f - o + 1,
           NEW t, Started(s, t, o, f),
           NEW u, u = [t EXCEPT !.frameWin[f % FrameWin] =
                          Store([At(t, f) EXCEPT !.frameID = f % FrameMod], g)]
    PROVE  Accepted(s, u, o, n, l, f, g)
<1>1. FrameWin \in Nat \ {0} /\ f \in Nat /\ n \in Nat /\ l \in Nat
  BY Windows
<1>2. Holds(s, f, o + n) /\ s \in Receiver /\ t \in Receiver
  BY DEF Window, Started
<1>3. PICK fr, x : fr = At(s, f) /\ x = [At(t, f) EXCEPT !.frameID = f % FrameMod]
  OBVIOUS
<1>4. PICK no \in Nat : no = f % FrameMod
  BY <1>1, SlotOfNumber
<1>5. fr = [EmptyFrame EXCEPT !.running = fr.running] /\ fr \in FrameSlot /\ fr.running \in BOOLEAN
  BY <1>2, <1>3 DEF Holds, Collects, Gathers, FrameSlot
<1>6. EmptyAs(x, TRUE, no)
  <2>1. f <= f
    BY <1>1
  <2>2. At(t, f) = [fr EXCEPT !.running = @ \/ f <= f]
    BY <1>3 DEF Started
  <2>3. At(t, f) = [fr EXCEPT !.running = TRUE]
    BY <2>1, <2>2
  <2>4. At(t, f) = [EmptyFrame EXCEPT !.running = TRUE]
    <3>1. PICK r \in BOOLEAN : r = fr.running
      BY <1>5
    <3>2. fr = [EmptyFrame EXCEPT !.running = r]
      BY <1>5, <3>1
    <3> QED BY <2>3, <3>2 DEF EmptyFrame
  <2>5. x = [EmptyFrame EXCEPT !.running = TRUE, !.frameID = no]
    BY <1>3, <1>4, <2>4 DEF EmptyFrame
  <2> QED BY <2>5 DEF EmptyAs
<1>7. /\ Gathers(x, f) /\ Held(x) = {} /\ x.running = TRUE /\ x.frameID = no
      /\ x.oldestFrag = 0 /\ x.lastFrag = NoFrag
      /\ \A j \in Places : x.fragWin[j] = NoBuf
  BY <1>1, <1>4, <1>6, EmptyCollects
<1>8. Fresh(x, g, f)
  <2>1. fr.oldestFrag = 0
    BY <1>5 DEF EmptyFrame
  <2>2. ~Outside(x, g)
    BY <1>3, <1>7, <2>1 DEF Outside
  <2>3. toFragIdx(g.frag) \in Places
    <3>1. g.frag \in Nat
      BY DEF PartOf, Piece
    <3>2. g.frag \in Int /\ FragWin \in Nat \ {0}
      BY <3>1, Windows
    <3>3. g.frag % FragWin \in 0..(FragWin - 1)
      BY <3>2, DivMod
    <3> QED BY <3>3 DEF toFragIdx, Places
  <2> QED BY <1>7, <2>2, <2>3 DEF Fresh
<1>9. PICK z : z = Store(x, g)
  OBVIOUS
<1>10. Collects(z, f) /\ z \in FrameSlot /\ Held(z) = {g} /\ z.running
  <2>1. Collects(z, f) /\ z \in FrameSlot /\ Held(z) = Held(x) \cup {g} /\ z.running = x.running
    BY <1>1, <1>4, <1>7, <1>8, <1>9, StoreCollects
  <2> QED BY <1>7, <2>1
<1>11. u = [t EXCEPT !.frameWin[f % FrameWin] = z]
  BY <1>3, <1>9
<1>12. /\ u \in Receiver /\ u.out = t.out /\ u.panic = t.panic /\ u.oldestFrame = t.oldestFrame
       /\ At(u, f) = z
       /\ \A h \in o..(o + FrameWin - 1) : h # f => At(u, h) = At(t, h)
       /\ Kept(u) \subseteq Kept(t) \cup Held(z)
  BY <1>2, <1>10, <1>11, OneSlot
<1>13. ASSUME NEW h \in o..(o + FrameWin - 1)
       PROVE  /\ Collects(At(t, h), h) /\ Held(At(t, h)) = Held(At(s, h))
              /\ At(t, h).running <=> h < o + n \/ h <= f
              /\ ~At(t, h).running => At(t, h) = EmptyFrame
  <2>1. h \in Nat
    BY <1>1
  <2>2. Holds(s, h, o + n)
    BY DEF Window
  <2>3. PICK a, b : a = At(s, h) /\ b = At(t, h)
    OBVIOUS
  <2>4. b = [a EXCEPT !.running = @ \/ h <= f]
    BY <2>3 DEF Started
  <2>5. PICK r \in BOOLEAN : r = (a.running \/ h <= f)
    OBVIOUS
  <2>6. b = [a EXCEPT !.running = r] /\ Collects(a, h)
    BY <2>2, <2>3, <2>4, <2>5 DEF Holds
  <2>7. Collects(b, h) /\ Held(b) = Held(a) /\ b.running = r
    BY <2>1, <2>6, RunningCollects
  <2>8. a.running <=> h < o + n
    BY <2>2, <2>3 DEF Holds
  <2>9. ~r => b = EmptyFrame
    <3>1. SUFFICES ASSUME ~r PROVE b = EmptyFrame
      OBVIOUS
    <3>2. a = EmptyFrame
      BY <2>2, <2>3, <2>5, <3>1 DEF Holds
    <3>3. b = [EmptyFrame EXCEPT !.running = FALSE]
      BY <2>6, <3>1, <3>2
    <3> QED BY <3>3 DEF EmptyFrame
  <2> QED BY <2>3, <2>5, <2>7, <2>8, <2>9
<1>14. \A h \in o..(o + FrameWin - 1) : h < o + l <=> h < o + n \/ h <= f
  BY <1>1
<1>15. \A h \in o..(o + FrameWin - 1) : Holds(u, h, o + l)
  <2> TAKE h \in o..(o + FrameWin - 1)
  <2>1. CASE h = f
    <3>1. f <= f /\ f < o + l
      BY <1>1, <1>14
    <3> QED BY <1>10, <1>12, <2>1, <3>1 DEF Holds
  <2>2. CASE h # f
    <3>1. At(u, h) = At(t, h)
      BY <1>12, <2>2
    <3> QED BY <1>13, <1>14, <3>1 DEF Holds
  <2> QED BY <2>1, <2>2
<1>16. Window(u, o, l) /\ u.out = s.out
  <2>1. u.oldestFrame = o % FrameMod /\ ~u.panic /\ u.out = s.out
    BY <1>12 DEF Started, Window
  <2> QED BY <1>12, <1>15, <2>1 DEF Window
<1>17. Kept(t) \subseteq Kept(s)
  <2>1. ASSUME NEW k \in Slots PROVE Held(t.frameWin[k]) \subseteq Kept(s)
    <3>1. PICK h \in o..(o + FrameWin - 1) : h \in Nat /\ h % FrameWin = k
      BY SlotOf
    <3>2. Held(At(t, h)) = Held(At(s, h)) /\ Held(At(s, h)) \subseteq Kept(s)
      BY <1>13, <3>1, KeptOf
    <3> QED BY <3>1, <3>2 DEF At
  <2> QED BY <2>1 DEF Kept
<1>18. f < o + l /\ (l > n => f = o + l - 1)
  BY <1>1, <1>14
<1> QED BY <1>1, <1>10, <1>12, <1>16, <1>17, <1>18 DEF Accepted

\* The fragments that are kept of the frame of g go with g.
Agrees(s, g) == \A x \in Kept(s) : x.frame = g.frame => Fits(x, g) /\ Fits(g, x)

\* A fragment that is not taken: if it is among the first of its frame, the
\* timeout of the frame runs.
LEMMA NotTaken ==
    ASSUME NEW s, NEW o \in Nat, NEW n \in 0..FrameWin, Window(s, o, n),
           NEW f \in o..(o + FrameWin - 1), NEW g, PartOf(g, f),
           Outside(At(s, f), g) \/ At(s, f).frameID # NoFrame
    PROVE  Accepted(s, s, o, n, n, f, g)
<1>1. FrameWin \in Nat \ {0} /\ FragWin \in Nat \ {0} /\ n \in Nat /\ f \in Nat /\ g.frag \in Nat
  BY Windows DEF PartOf, Piece
<1>2. Holds(s, f, o + n)
  BY DEF Window
<1>3. ASSUME g.frag < FragWin, ~At(s, f).running PROVE FALSE
  <2>1. At(s, f) = EmptyFrame
    BY <1>2, <1>3 DEF Holds
  <2>2. At(s, f).frameID = NoFrame /\ At(s, f).oldestFrag = 0
    BY <2>1 DEF EmptyFrame
  <2>3. Outside(At(s, f), g)
    BY <2>2
  <2> QED BY <1>1, <1>3, <2>2, <2>3 DEF Outside
<1>4. g.frag < FragWin => f < o + n
  BY <1>2, <1>3 DEF Holds
<1>5. n \in n..FrameWin /\ ~(n > n)
  BY <1>1
<1> QED BY <1>4, <1>5 DEF Accepted

\* A fragment that is taken fits.
LEMMA TakenFits ==
    ASSUME NEW s, NEW o \in Nat, NEW n \in 0..FrameWin, Window(s, o, n),
           NEW f \in o..(o + FrameWin - 1), NEW g, PartOf(g, f), Agrees(s, g),
           ~Outside(At(s, f), g), ~Useless(At(s, f), g)
    PROVE  Fresh(At(s, f), g, f)
<1>1. f \in Nat
  BY Windows
<1>2. Collects(At(s, f), f)
  BY DEF Window, Holds
<1>3. \A x \in Held(At(s, f)) : Fits(x, g) /\ Fits(g, x)
  <2> TAKE x \in Held(At(s, f))
  <2>1. x.frame = f /\ g.frame = f
    BY <1>2 DEF Collects, Gathers, PartOf
  <2>2. x \in Kept(s)
    BY <1>1, KeptOf
  <2> QED BY <2>1, <2>2 DEF Agrees
<1>4. At(s, f).fragWin[toFragIdx(g.frag)] = NoBuf
  BY DEF Useless
<1> QED BY <1>3, <1>4 DEF Fresh

\* Accept() of a fragment of a frame of the window.
LEMMA AcceptMoves ==
    ASSUME NEW s, NEW o \in Nat, NEW n \in 0..FrameWin, Window(s, o, n),
           NEW f \in o..(o + FrameWin - 1), NEW g, PartOf(g, f), Agrees(s, g),
           NEW u, u = Accept(s, g, f % FrameMod)
    PROVE  \E l \in n..FrameWin : Accepted(s, u, o, n, l, f, g)
<1>1. FrameWin \in Nat \ {0} /\ f \in Nat /\ n \in n..FrameWin /\ n \in Nat
  BY Windows
<1>2. PICK fr, no : fr = At(s, f) /\ no = f % FrameMod
  OBVIOUS
<1>3. toFrameIdx(no) = f % FrameWin
  BY <1>1, <1>2, SlotOfNumber
<1>4. s.frameWin[f % FrameWin] = fr
  BY <1>2 DEF At
<1>5. Collects(fr, f)
  BY <1>2 DEF Window, Holds
<1>6. fr.frameID = NoFrame \/ fr.frameID = no
  BY <1>2, <1>5 DEF Collects
<1>7. no # NoFrame
  BY <1>1, <1>2, NotNumbers
<1>8. CASE Outside(fr, g)
  <2>1. u = s
    BY <1>2, <1>3, <1>4, <1>8, Zenon DEF Accept
  <2>2. Accepted(s, s, o, n, n, f, g)
    BY <1>2, <1>8, NotTaken
  <2> QED BY <1>1, <2>1, <2>2
<1>9. CASE ~Outside(fr, g) /\ fr.frameID = no
  <2>1. u = IF Useless(fr, g) THEN s ELSE [s EXCEPT !.frameWin[f % FrameWin] = Store(fr, g)]
    BY <1>2, <1>3, <1>4, <1>7, <1>9 DEF Accept
  <2>2. CASE Useless(fr, g)
    <3>1. Accepted(s, s, o, n, n, f, g)
      BY <1>2, <1>7, <1>9, NotTaken
    <3>2. u = s
      BY <2>1, <2>2
    <3> QED BY <1>1, <3>1, <3>2
  <2>3. CASE ~Useless(fr, g)
    <3>1. Fresh(fr, g, f)
      BY <1>2, <1>9, <2>3, TakenFits
    <3>2. u = [s EXCEPT !.frameWin[f % FrameWin] = Store(At(s, f), g)]
      BY <1>2, <2>1, <2>3
    <3>3. Accepted(s, u, o, n, n, f, g)
      BY <1>2, <1>9, <3>1, <3>2, StoreAccepted
    <3> QED BY <1>1, <3>3
  <2> QED BY <2>2, <2>3
<1>10. CASE ~Outside(fr, g) /\ fr.frameID = NoFrame
  <2>1. PICK t : t = StartTimeouts(s, f % FrameWin)
    OBVIOUS
  <2>2. Started(s, t, o, f)
    BY <2>1, TimeoutsStart DEF Window
  <2>3. u = [StartTimeouts(s, f % FrameWin) EXCEPT
                !.frameWin[f % FrameWin] = Store([@ EXCEPT !.frameID = no], g)]
    BY <1>2, <1>3, <1>4, <1>7, <1>10 DEF Accept
  <2>4. u = [t EXCEPT !.frameWin[f % FrameWin] =
                Store([At(t, f) EXCEPT !.frameID = f % FrameMod], g)]
    BY <1>2, <2>1, <2>3 DEF At
  <2>5. PICK l \in n..FrameWin : l = IF f < o + n THEN n ELSE f - o + 1
    <3>1. CASE f < o + n
      BY <1>1, <3>1
    <3>2. CASE ~(f < o + n)
      <4>1. f - o + 1 \in n..FrameWin
        BY <1>1, <3>2
      <4> QED BY <3>2, <4>1
    <3> QED BY <3>1, <3>2
  <2>6. Accepted(s, u, o, n, l, f, g)
    BY <1>2, <1>10, <2>2, <2>4, <2>5, FirstAccepted
  <2> QED BY <2>5, <2>6
<1> QED BY <1>6, <1>8, <1>9, <1>10

-----------------------------------------------------------------------------
(* Where a fragment goes.                                                  *)

\* The distance of two numbers, which takes one of them being a round ahead for
\* a large distance.
LEMMA DistanceIs ==
    ASSUME NEW s, NEW no, NEW x \in Int, x = no - s.oldestFrame, -FrameMod < x, x < FrameMod
    PROVE  /\ Distance(s, no) \in Nat
           /\ x < 0 => Distance(s, no) = -x
           /\ x >= 0 => \/ Distance(s, no) = x /\ 2 * x <= FrameMod
                        \/ Distance(s, no) = FrameMod - x /\ FrameMod <= 2 * x + 1
<1>1. FrameMod \in Nat \ {0}
  BY Windows
<1>2. PICK h \in Nat : h = FrameMod \div 2 /\ 2 * h <= FrameMod /\ FrameMod <= 2 * h + 1
  <2>1. FrameMod \div 2 \in Nat /\ 2 * (FrameMod \div 2) <= FrameMod /\ FrameMod <= 2 * (FrameMod \div 2) + 1
    BY <1>1
  <2> QED BY <2>1
<1>3. PICK d : d = signExtendFrameNo(x)
  OBVIOUS
<1>4. Distance(s, no) = IF d < 0 THEN -d ELSE d
  BY <1>3 DEF Distance
<1>5. d = IF x % FrameMod >= h THEN (x % FrameMod) - FrameMod ELSE x
  BY <1>2, <1>3 DEF signExtendFrameNo
<1>6. CASE x < 0
  <2>1. x % FrameMod = x + FrameMod
    BY <1>1, <1>6, ModSmall
  <2>2. d = x
    BY <1>1, <1>5, <2>1
  <2> QED BY <1>4, <1>6, <2>2
<1>7. CASE x >= 0
  <2>1. x % FrameMod = x
    BY <1>1, <1>7, ModSmall
  <2>2. d = IF x >= h THEN x - FrameMod ELSE x
    BY <1>5, <2>1
  <2>3. CASE x >= h
    <3>1. d = x - FrameMod /\ d < 0 /\ -d = FrameMod - x
      BY <1>1, <2>2, <2>3
    <3> QED BY <1>1, <1>2, <1>4, <1>7, <2>3, <3>1
  <2>4. CASE ~(x >= h)
    <3>1. d = x /\ ~(d < 0)
      BY <1>7, <2>2, <2>4
    <3> QED BY <1>1, <1>2, <1>4, <1>7, <2>4, <3>1
  <2> QED BY <2>3, <2>4
<1> QED BY <1>6, <1>7

\* The frames whose timeout runs have numbers that do not wrap around: a frame
\* that has wrapped around counts as far away.
Straight(o, n) == (o % FrameMod) + n <= FrameMod

\* All frames leave the window, which goes on after frame f.
Synced(s, u, f) == u = [releaseFrames(s, FALSE) EXCEPT !.oldestFrame = (f + 1) % FrameMod]

\* A frame is old if it is before the window; the window may be more than its
\* size ahead if the numbers have not wrapped around in between.
Old(o, f) == f < o /\ (o <= f + FrameWin \/ (o < f + FrameMod /\ f % FrameMod < o % FrameMod))

\* What is done with fragment g of frame f: it is accepted, all frames leave the
\* window, or nothing.
Goes(s, u, o, n, f, g) ==
    \/ /\ f \in o..(o + FrameWin)
       /\ f % FrameMod = (o % FrameMod) + (f - o)
       /\ u = Accept(IF f = o + FrameWin THEN releaseOldestFrame(s, FALSE) ELSE s, g, f % FrameMod)
    \/ Synced(s, u, f) /\ (o + n <= f \/ f + FrameWin < o)
    \/ u = s /\ f < o

\* It depends on where the frame is.
LEMMA WhereTo ==
    ASSUME NEW s, NEW o \in Nat, NEW n \in 0..FrameWin, Window(s, o, n), Straight(o, n),
           NEW f \in Nat, f < o + 2 * FrameWin, f < o => Old(o, f),
           NEW g, g.frame = f, NEW u, u = processBuffer(s, g)
    PROVE  Goes(s, u, o, n, f, g)
<1>1. /\ FrameMod \in Nat \ {0} /\ FrameWin \in Nat \ {0} /\ 4 * FrameWin <= FrameMod
      /\ n \in Nat /\ n <= FrameWin
  BY Windows
<1>2. PICK a \in 0..(FrameMod - 1) : a = f % FrameMod
  BY NotNumbers
<1>3. PICK b \in 0..(FrameMod - 1) : b = o % FrameMod
  BY NotNumbers
<1>4. s.oldestFrame = b /\ b # NoFrame
  BY <1>3, WindowNumbered DEF Window
<1>5. moduloFrameSz(f) = a /\ moduloFrameSz(a + 1) = (f + 1) % FrameMod
  BY <1>2, SlotOfNumber DEF moduloFrameSz
<1>6. PICK r : r = (a - b) % FrameMod
  OBVIOUS
<1>7. u = IF a < b \/ r > FrameWin THEN frameSync(s, a)
          ELSE Accept(IF r = FrameWin THEN releaseOldestFrame(s, FALSE) ELSE s, g, a)
  BY <1>4, <1>5, <1>6 DEF processBuffer, moduloFrameSz
<1>8. frameSync(s, a) = IF Distance(s, a) > FrameWin
                        THEN [releaseFrames(s, FALSE) EXCEPT !.oldestFrame = (f + 1) % FrameMod]
                        ELSE s
  BY <1>5 DEF frameSync
<1>9. PICK x \in Int : x = a - b
  OBVIOUS
<1>10. -FrameMod < x /\ x < FrameMod /\ x = a - s.oldestFrame
  BY <1>1, <1>4, <1>9
<1>11. PICK d \in Nat : /\ d = Distance(s, a)
                        /\ x < 0 => d = -x
                        /\ x >= 0 => \/ d = x /\ 2 * x <= FrameMod
                                     \/ d = FrameMod - x /\ FrameMod <= 2 * x + 1
  BY <1>10, DistanceIs
<1>12. r = IF x < 0 THEN x + FrameMod ELSE x
  <2>1. CASE x < 0
    BY <1>1, <1>6, <1>9, <1>10, <2>1, ModSmall
  <2>2. CASE x >= 0
    <3>1. 0 <= x /\ ~(x < 0)
      BY <2>2
    <3>2. x % FrameMod = x
      BY <1>1, <1>10, <3>1, ModSmall
    <3>3. r = x % FrameMod
      BY <1>6, <1>9
    <3> QED BY <3>1, <3>2, <3>3
  <2> QED BY <2>1, <2>2
<1>13. f - o < FrameMod /\ o - f < FrameMod
  BY <1>1 DEF Old
<1>14. x \in {f - o, f - o - FrameMod, f - o + FrameMod}
  <2>1. f \in Int /\ o \in Int
    OBVIOUS
  <2>2. (f % FrameMod) - (o % FrameMod) \in {f - o, f - o - FrameMod, f - o + FrameMod}
    BY <1>1, <1>13, <2>1, ModApart
  <2> QED BY <1>2, <1>3, <1>9, <2>2
<1>15. b + n <= FrameMod
  BY <1>3 DEF Straight
<1>16. CASE f >= o /\ x >= 0
  <2>1. x = f - o /\ r = f - o
    BY <1>1, <1>10, <1>12, <1>14, <1>16
  <2>2. CASE f <= o + FrameWin
    <3>1. ~(a < b) /\ ~(r > FrameWin) /\ (r = FrameWin <=> f = o + FrameWin)
      BY <1>1, <1>9, <1>16, <2>1, <2>2
    <3>2. u = Accept(IF f = o + FrameWin THEN releaseOldestFrame(s, FALSE) ELSE s, g, a)
      BY <1>7, <3>1
    <3>3. f \in o..(o + FrameWin) /\ a = b + (f - o)
      BY <1>1, <1>9, <1>16, <2>1, <2>2
    <3> QED BY <1>2, <1>3, <3>2, <3>3 DEF Goes
  <2>3. CASE ~(f <= o + FrameWin)
    <3>1. r > FrameWin /\ d > FrameWin /\ o + n <= f
      BY <1>1, <1>11, <1>13, <2>1, <2>3
    <3>2. Synced(s, u, f)
      BY <1>7, <1>8, <1>11, <3>1 DEF Synced
    <3> QED BY <3>1, <3>2 DEF Goes
  <2> QED BY <2>2, <2>3
<1>17. CASE f >= o /\ x < 0
  <2>1. x = f - o - FrameMod
    BY <1>1, <1>10, <1>14, <1>17
  <2>2. a < b /\ d > FrameWin
    BY <1>1, <1>9, <1>11, <1>17, <2>1
  <2>3. o + n <= f
    BY <1>1, <1>9, <1>15, <2>1
  <2>4. Synced(s, u, f)
    BY <1>7, <1>8, <1>11, <2>2 DEF Synced
  <2> QED BY <2>3, <2>4 DEF Goes
<1>18. CASE f < o /\ o <= f + FrameWin
  <2>1. \/ x = f - o
        \/ x = f - o + FrameMod
    BY <1>1, <1>10, <1>14, <1>18
  <2>2. a < b \/ r > FrameWin
    BY <1>1, <1>9, <1>12, <1>18, <2>1
  <2>3. ~(d > FrameWin)
    <3>1. CASE x = f - o
      BY <1>1, <1>11, <1>18, <3>1
    <3>2. CASE x = f - o + FrameMod
      <4>1. x >= 0 /\ 2 * x > FrameMod
        BY <1>1, <1>18, <3>2
      <4> QED BY <1>1, <1>11, <1>18, <3>2, <4>1
    <3> QED BY <2>1, <3>1, <3>2
  <2>4. u = s
    BY <1>7, <1>8, <1>11, <2>2, <2>3
  <2> QED BY <1>18, <2>4 DEF Goes
<1>19. CASE f < o /\ ~(o <= f + FrameWin)
  <2>1. a < b
    BY <1>2, <1>3, <1>19 DEF Old
  <2>2. x < 0 /\ f + FrameWin < o
    BY <1>9, <1>1, <1>19, <2>1
  <2>3. x = f - o
    BY <1>1, <1>10, <1>13, <1>14, <1>19, <2>2
  <2>4. d > FrameWin
    BY <1>1, <1>11, <2>2, <2>3
  <2>5. Synced(s, u, f)
    BY <1>7, <1>8, <1>11, <2>1, <2>4 DEF Synced
  <2> QED BY <2>2, <2>5 DEF Goes
<1>20. (f >= o /\ x >= 0) \/ (f >= o /\ x < 0) \/ (f < o /\ o <= f + FrameWin)
       \/ (f < o /\ ~(o <= f + FrameWin))
  BY <1>1, <1>9
<1> QED BY <1>16, <1>17, <1>18, <1>19, <1>20, Zenon

\* No frame is in the window that has wrapped around while others have not.
LEMMA StraightMoves ==
    ASSUME NEW o \in Nat, NEW n \in Nat, Straight(o, n), NEW m \in 0..n
    PROVE  Straight(o + m, n - m)
<1>1. FrameMod \in Nat \ {0}
  BY Windows
<1>2. PICK b \in 0..(FrameMod - 1) : b = o % FrameMod
  BY NotNumbers
<1>3. PICK c \in 0..(FrameMod - 1) : c = (o + m) % FrameMod
  <2>1. o + m \in Nat
    OBVIOUS
  <2> QED BY <2>1, NotNumbers
<1>4. b + n <= FrameMod /\ m <= n
  BY <1>2 DEF Straight
<1>5. o \in Int /\ o + m \in Int
  OBVIOUS
<1>6. CASE b + m < FrameMod
  <2>1. PICK k \in Int : k = o + m
    BY <1>5
  <2>2. k - o < FrameMod /\ o - k < FrameMod
    BY <1>1, <1>2, <1>6, <2>1
  <2>3. (k % FrameMod) - (o % FrameMod) \in {k - o, k - o - FrameMod, k - o + FrameMod}
    BY <1>1, <1>5, <2>2, ModApart
  <2>4. c - b \in {m, m - FrameMod, m + FrameMod}
    BY <1>1, <1>2, <1>3, <2>1, <2>3
  <2>5. c = b + m
    BY <1>1, <1>6, <2>4
  <2> QED BY <1>1, <1>3, <1>4, <2>5 DEF Straight
<1>7. CASE ~(b + m < FrameMod)
  <2>1. n - m = 0
    BY <1>1, <1>4, <1>7
  <2> QED BY <1>1, <1>3, <2>1 DEF Straight
<1> QED BY <1>6, <1>7

\* Nor is the frame that is accepted.
LEMMA StraightTo ==
    ASSUME NEW o \in Nat, NEW f \in Nat, NEW m \in Nat, o + m <= f, f < o + FrameMod,
           f % FrameMod = (o % FrameMod) + (f - o)
    PROVE  Straight(o + m, f - (o + m) + 1)
<1>1. FrameMod \in Nat \ {0}
  BY Windows
<1>2. PICK b \in 0..(FrameMod - 1) : b = o % FrameMod
  BY NotNumbers
<1>3. f % FrameMod \in 0..(FrameMod - 1) /\ f % FrameMod = b + (f - o)
  BY <1>2, NotNumbers
<1>4. b + (f - o) < FrameMod
  BY <1>1, <1>3
<1>5. PICK n \in Nat : n = f - o + 1
  BY <1>1
<1>6. Straight(o, n)
  BY <1>1, <1>2, <1>4, <1>5 DEF Straight
<1>7. m \in 0..n /\ f - (o + m) + 1 = n - m
  BY <1>5
<1> QED BY <1>6, <1>7, StraightMoves

\* What processBuffer() makes of the window of the frames from o on: that of the
\* frames from p on.
Kind(s, u, o, n, f, g, p, l) ==
    \/ /\ p >= o /\ p + l >= o + n /\ p <= f /\ f < p + FrameWin
       /\ p + l > o + n => p + l = f + 1
       /\ g.frag < FragWin => f < p + l
       /\ Handed(s.out, o) => Handed(u.out, p)
    \/ /\ p = f + 1 /\ l = 0 /\ (o + n <= f \/ f + FrameWin < o)
       /\ Handed(s.out, o) => Handed(u.out, o + n)
    \/ u = s /\ p = o /\ l = n /\ f < o
Processed(s, u, o, n, f, g, p, l) ==
    /\ p \in Nat /\ l \in 0..FrameWin /\ Window(u, p, l) /\ Straight(p, l)
    /\ Kept(u) \subseteq Kept(s) \cup {g}
    /\ n = 0 => u.out = s.out
    /\ Kind(s, u, o, n, f, g, p, l)

\* All frames leave the window.
LEMMA SyncMoves ==
    ASSUME NEW s, NEW o \in Nat, NEW n \in 0..FrameWin, Window(s, o, n),
           NEW f \in Nat, NEW u, Synced(s, u, f)
    PROVE  /\ Window(u, f + 1, 0) /\ Straight(f + 1, 0)
           /\ Kept(u) \subseteq Kept(s) /\ (n = 0 => u.out = s.out)
           /\ Handed(s.out, o) => Handed(u.out, o + n)
<1>1. FrameWin \in Nat \ {0} /\ n \in Nat
  BY Windows
<1>2. PICK t : t = releaseFrames(s, FALSE)
  OBVIOUS
<1>3. PICK oc \in BOOLEAN : oc = FALSE
  OBVIOUS
<1>4. Moved(s, t, o, n, n)
  <2>1. t = releaseFrames(s, oc)
    BY <1>2, <1>3
  <2>2. \E m \in 0..n : Moved(s, t, o, n, m) /\ (~oc => m = n)
    BY <2>1, ReleaseFramesMoves
  <2> QED BY <1>3, <2>2
<1>5. /\ Window(t, o + n, 0) /\ Kept(t) \subseteq Kept(s) /\ (n = 0 => t = s)
      /\ Handed(s.out, o) => Handed(t.out, o + n)
  BY <1>1, <1>4 DEF Moved
<1>6. PICK no \in Nat : no = (f + 1) % FrameMod /\ no \in 0..(FrameMod - 1)
  <2>1. f + 1 \in Nat
    OBVIOUS
  <2> QED BY <2>1, NotNumbers
<1>7. u = [t EXCEPT !.oldestFrame = no]
  BY <1>2, <1>6 DEF Synced
<1>8. /\ u \in Receiver /\ u.oldestFrame = no /\ u.frameWin = t.frameWin
      /\ u.out = t.out /\ u.panic = t.panic
  BY <1>5, <1>7 DEF Window, Receiver
<1>9. ASSUME NEW h \in (f + 1)..((f + 1) + FrameWin - 1) PROVE Holds(u, h, (f + 1) + 0)
  <2>1. h \in Nat
    BY <1>1
  <2>2. h % FrameWin \in Slots
    BY <2>1, SlotIn
  <2>3. PICK k \in (o + n)..((o + n) + FrameWin - 1) : k \in Nat /\ k % FrameWin = h % FrameWin
    <3>1. o + n \in Nat
      BY <1>1
    <3> QED BY <2>2, <3>1, SlotOf
  <2>4. At(u, h) = At(t, k)
    BY <1>8, <2>3 DEF At
  <2>5. Holds(t, k, (o + n) + 0)
    BY <1>5 DEF Window
  <2>6. ~(k < (o + n) + 0) /\ ~(h < (f + 1) + 0)
    BY <1>1, <2>1, <2>3
  <2>7. At(t, k) = EmptyFrame
    BY <2>5, <2>6 DEF Holds
  <2>8. Collects(EmptyFrame, h) /\ ~EmptyFrame.running
    BY <2>1, EmptySlot
  <2> QED BY <2>4, <2>6, <2>7, <2>8 DEF Holds
<1>10. Window(u, f + 1, 0)
  BY <1>5, <1>6, <1>8, <1>9 DEF Window
<1>11. Straight(f + 1, 0)
  BY <1>6, Windows DEF Straight
<1>12. Kept(u) = Kept(t)
  BY <1>8 DEF Kept
<1> QED BY <1>5, <1>8, <1>10, <1>11, <1>12

\* An accepted fragment.
LEMMA AcceptedProcessed ==
    ASSUME NEW s, NEW o \in Nat, NEW n \in 0..FrameWin, Window(s, o, n), Straight(o, n),
           NEW f \in o..(o + FrameWin), NEW g, PartOf(g, f), Agrees(s, g),
           f % FrameMod = (o % FrameMod) + (f - o), n = 0 => f < o + FrameWin,
           NEW u, u = Accept(IF f = o + FrameWin THEN releaseOldestFrame(s, FALSE) ELSE s,
                             g, f % FrameMod)
    PROVE  \E p \in Nat, l \in 0..FrameWin : Processed(s, u, o, n, f, g, p, l)
<1>1. FrameWin \in Nat \ {0} /\ n \in Nat /\ f \in Nat /\ FrameMod \in Nat /\ 4 * FrameWin <= FrameMod
  BY Windows
<1>2. PICK t : t = IF f = o + FrameWin THEN releaseOldestFrame(s, FALSE) ELSE s
  OBVIOUS
<1>3. PICK m \in 0..n : /\ Moved(s, t, o, n, m) /\ m <= 1 /\ (f = o + FrameWin => m = 1)
  <2>1. CASE f = o + FrameWin
    <3>1. n # 0 /\ 1 \in 0..n
      BY <1>1, <2>1
    <3>2. t = releaseOldestFrame(s, FALSE)
      BY <1>2, <2>1
    <3>3. Moved(s, t, o, n, IF n = 0 THEN 0 ELSE 1)
      BY <3>2, OldestMoves
    <3> QED BY <3>1, <3>3
  <2>2. CASE f # o + FrameWin
    <3>1. t = s /\ 0 \in 0..n /\ o + 0 = o /\ n - 0 = n
      BY <1>1, <1>2, <2>2
    <3>2. Moved(s, t, o, n, 0)
      BY <3>1 DEF Moved
    <3> QED BY <2>2, <3>1, <3>2
  <2> QED BY <2>1, <2>2
<1>4. PICK p \in Nat, k \in 0..FrameWin : p = o + m /\ k = n - m
  BY <1>1, <1>3
<1>5. CASE o + m <= f
  <2>1. f \in p..(p + FrameWin - 1)
    BY <1>1, <1>3, <1>4, <1>5
  <2>2. /\ Window(t, p, k) /\ Kept(t) \subseteq Kept(s) /\ (m = 0 => t = s)
        /\ Handed(s.out, o) => Handed(t.out, p)
    BY <1>3, <1>4 DEF Moved
  <2>3. Agrees(t, g)
    BY <2>2 DEF Agrees
  <2>4. u = Accept(t, g, f % FrameMod)
    BY <1>2
  <2>5. PICK l \in k..FrameWin : Accepted(t, u, p, k, l, f, g)
    BY <2>1, <2>2, <2>3, <2>4, AcceptMoves
  <2>6. l \in 0..FrameWin /\ l \in Nat
    BY <1>1, <1>4, <2>5
  <2>7. /\ Window(u, p, l) /\ u.out = t.out /\ Kept(u) \subseteq Kept(s) \cup {g}
        /\ g.frag < FragWin => f < p + l
        /\ l > k => f = p + l - 1
    BY <2>2, <2>5 DEF Accepted
  <2>8. Straight(p, l)
    <3>1. CASE l > k
      <4>1. l = f - (o + m) + 1
        BY <1>4, <2>6, <2>7, <3>1
      <4>2. f < o + FrameMod /\ m \in Nat
        BY <1>1
      <4> QED BY <1>1, <1>4, <1>5, <4>1, <4>2, StraightTo
    <3>2. CASE ~(l > k)
      <4>1. l = n - m
        BY <1>4, <2>6, <3>2
      <4>2. Straight(o + m, n - m)
        BY <1>1, StraightMoves
      <4> QED BY <1>4, <4>1, <4>2
    <3> QED BY <3>1, <3>2
  <2>9. n = 0 => u.out = s.out
    <3>1. n = 0 => m = 0
      OBVIOUS
    <3> QED BY <2>2, <2>7, <3>1
  <2>10. /\ p >= o /\ p + l >= o + n /\ p <= f /\ f < p + FrameWin
         /\ p + l > o + n => p + l = f + 1
    BY <1>1, <1>4, <1>5, <2>1, <2>5, <2>6, <2>7
  <2>11. Kind(s, u, o, n, f, g, p, l)
    BY <2>2, <2>7, <2>10 DEF Kind
  <2>12. Processed(s, u, o, n, f, g, p, l)
    BY <2>6, <2>7, <2>8, <2>9, <2>11 DEF Processed
  <2> QED BY <2>6, <2>12
<1>6. CASE ~(o + m <= f)
  <2>1. m = 1 /\ f = o /\ f # o + FrameWin
    BY <1>1, <1>3, <1>6
  <2>2. t = s /\ Window(s, o, n)
    BY <1>2, <2>1
  <2>3. u = Accept(s, g, f % FrameMod)
    BY <1>2, <2>1
  <2>4. f \in o..(o + FrameWin - 1)
    BY <1>1, <2>1
  <2>5. PICK l \in n..FrameWin : Accepted(s, u, o, n, l, f, g)
    BY <2>3, <2>4, AcceptMoves
  <2>6. l \in 0..FrameWin /\ l \in Nat
    BY <1>1, <2>5
  <2>7. /\ Window(u, o, l) /\ u.out = s.out /\ Kept(u) \subseteq Kept(s) \cup {g}
        /\ g.frag < FragWin => f < o + l
        /\ l > n => f = o + l - 1
    BY <2>5 DEF Accepted
  <2>8. Straight(o, l)
    <3>1. CASE l > n
      <4>1. l = f - (o + 0) + 1 /\ o + 0 = o /\ f < o + FrameMod /\ o + 0 <= f /\ 0 \in Nat
        BY <1>1, <2>1, <2>6, <2>7, <3>1
      <4> QED BY <1>1, <4>1, StraightTo
    <3>2. CASE ~(l > n)
      <4>1. l = n
        BY <1>1, <2>5, <2>6, <3>2
      <4> QED BY <4>1
    <3> QED BY <3>1, <3>2
  <2>9. /\ o >= o /\ o + l >= o + n /\ o <= f /\ f < o + FrameWin
        /\ o + l > o + n => o + l = f + 1
    BY <1>1, <2>1, <2>5, <2>6, <2>7
  <2>10. Kind(s, u, o, n, f, g, o, l)
    BY <2>7, <2>9 DEF Kind
  <2>11. Processed(s, u, o, n, f, g, o, l)
    BY <2>6, <2>7, <2>8, <2>10 DEF Processed
  <2> QED BY <2>6, <2>11
<1> QED BY <1>1, <1>5, <1>6

\* A fragment that arrives.
LEMMA ProcessMoves ==
    ASSUME NEW s, NEW o \in Nat, NEW n \in 0..FrameWin, Window(s, o, n), Straight(o, n),
           NEW f \in Nat, f < o + 2 * FrameWin, f < o => Old(o, f), n = 0 => f < o + FrameWin,
           NEW g, PartOf(g, f), Agrees(s, g), NEW u, u = processBuffer(s, g)
    PROVE  \E p \in Nat, l \in 0..FrameWin : Processed(s, u, o, n, f, g, p, l)
<1>1. g.frame = f /\ FrameWin \in Nat
  BY Windows DEF PartOf
<1>2. CASE /\ f \in o..(o + FrameWin)
           /\ f % FrameMod = (o % FrameMod) + (f - o)
           /\ u = Accept(IF f = o + FrameWin THEN releaseOldestFrame(s, FALSE) ELSE s,
                         g, f % FrameMod)
  BY <1>2, AcceptedProcessed
<1>3. CASE Synced(s, u, f) /\ (o + n <= f \/ f + FrameWin < o)
  <2>1. /\ Window(u, f + 1, 0) /\ Straight(f + 1, 0)
        /\ Kept(u) \subseteq Kept(s) /\ (n = 0 => u.out = s.out)
        /\ Handed(s.out, o) => Handed(u.out, o + n)
    BY <1>3, SyncMoves
  <2>2. f + 1 \in Nat /\ 0 \in 0..FrameWin
    BY <1>1
  <2>3. Kind(s, u, o, n, f, g, f + 1, 0)
    BY <1>3, <2>1 DEF Kind
  <2>4. Processed(s, u, o, n, f, g, f + 1, 0)
    BY <2>1, <2>2, <2>3 DEF Processed
  <2> QED BY <2>2, <2>4
<1>4. CASE u = s /\ f < o
  <2>1. Kind(s, u, o, n, f, g, o, n)
    BY <1>4 DEF Kind
  <2>2. Processed(s, u, o, n, f, g, o, n)
    BY <1>4, <2>1 DEF Processed
  <2> QED BY <2>2
<1>5. Goes(s, u, o, n, f, g)
  BY <1>1, WhereTo
<1> QED BY <1>2, <1>3, <1>4, <1>5, Zenon DEF Goes

-----------------------------------------------------------------------------
(* The sender.                                                             *)

\* A frame that is sent, and the fragments that have been taken off it.
TX == [frame : Nat, frags : Seq(Piece)]
SentOf(tx) ==
    /\ tx \in TX
    /\ \A k \in 1..Len(tx.frags) :
          /\ PartOf(tx.frags[k], tx.frame)
          /\ tx.frags[k].frag = k - 1
          /\ tx.frags[k].first = IF k = 1 THEN 1 ELSE tx.frags[k - 1].last + 1
          /\ tx.frags[k].eof => k = Len(tx.frags)

\* Fragments of a frame that is sent go with each other.
LEMMA SentFits ==
    ASSUME NEW tx, SentOf(tx), NEW k \in 1..Len(tx.frags), NEW l \in 1..Len(tx.frags)
    PROVE  Fits(tx.frags[k], tx.frags[l])
<1>1. Len(tx.frags) \in Nat
  BY LenProperties DEF SentOf, TX
<1>2. tx.frags[k].frag = k - 1 /\ tx.frags[l].frag = l - 1
  BY DEF SentOf
<1>3. tx.frags[k].frag = tx.frags[l].frag => tx.frags[k] = tx.frags[l]
  <2>1. SUFFICES ASSUME tx.frags[k].frag = tx.frags[l].frag PROVE k = l
    OBVIOUS
  <2> QED BY <1>1, <1>2, <2>1
<1>4. tx.frags[l].frag = tx.frags[k].frag + 1 => tx.frags[l].first = tx.frags[k].last + 1
  <2>1. SUFFICES ASSUME tx.frags[l].frag = tx.frags[k].frag + 1
                 PROVE  tx.frags[l].first = tx.frags[k].last + 1
    OBVIOUS
  <2>2. l # 1 /\ l - 1 = k
    BY <1>1, <1>2, <2>1
  <2> QED BY <2>2 DEF SentOf
<1>5. tx.frags[k].eof => tx.frags[l].frag <= tx.frags[k].frag
  <2>1. SUFFICES ASSUME tx.frags[k].eof PROVE l <= k
    BY <1>1, <1>2
  <2>2. k = Len(tx.frags)
    BY <2>1 DEF SentOf
  <2> QED BY <1>1, <2>2
<1> QED BY <1>3, <1>4, <1>5 DEF Fits

\* The next fragment of a frame, if there is one.
LEMMA NextFragment ==
    ASSUME NEW tx, SentOf(tx), NextBuf(tx) <= Len(Chain(tx.frame)),
           NEW g, g = Fragment(tx.frame, Len(tx.frags), NextBuf(tx))
    PROVE  /\ PartOf(g, tx.frame) /\ g \in Piece /\ g.frag = Len(tx.frags)
           /\ g.first = NextBuf(tx)
           /\ \A k \in 1..Len(tx.frags) : ~tx.frags[k].eof
<1>1. tx.frame \in Nat /\ tx.frags \in Seq(Piece)
  BY DEF SentOf, TX
<1>2. PICK f, n, i : /\ f = tx.frame /\ n = Len(tx.frags) /\ i = NextBuf(tx)
                     /\ f \in Nat /\ n \in Nat
  BY <1>1, LenProperties
<1>3. Len(Chain(f)) \in Nat
  BY ChainFacts
<1>4. /\ i \in Nat /\ n < i /\ (n = 0 => i = 1)
      /\ n > 0 => i = tx.frags[n].last + 1 /\ tx.frags[n].last \in Nat
  <2>1. CASE n = 0
    <3>1. tx.frags = <<>>
      BY <1>1, <1>2, <2>1, EmptySeq
    <3>2. i = 1
      BY <1>2, <3>1 DEF NextBuf
    <3> QED BY <2>1, <3>2
  <2>2. CASE n # 0
    <3>1. n \in 1..Len(tx.frags) /\ n > 0 /\ tx.frags # <<>>
      BY <1>1, <1>2, <2>2, EmptySeq
    <3>2. i = tx.frags[n].last + 1
      BY <1>2, <3>1 DEF NextBuf
    <3>3. PICK x : x = tx.frags[n]
      OBVIOUS
    <3>4. x \in Piece /\ x.frag < x.last /\ x.frag = n - 1
      BY <3>1, <3>3 DEF SentOf, PartOf
    <3>5. x.last \in Nat /\ n <= x.last
      BY <3>1, <3>4 DEF Piece
    <3> QED BY <1>2, <2>2, <3>2, <3>3, <3>5
  <2> QED BY <2>1, <2>2
<1>5. i \in 1..Len(Chain(f)) /\ (n = 0 \/ i > 1)
  BY <1>2, <1>3, <1>4
<1>6. PICK j \in i..Len(Chain(f)) : j = LastBuf(Chain(f), n, i)
  BY <1>2, <1>5, LastBufBound
<1>7. g = [frame |-> f, frag |-> n, first |-> i, last |-> j, eof |-> j = Len(Chain(f))]
  BY <1>2, <1>6 DEF Fragment
<1>8. /\ g.frame = f /\ g.frag = n /\ g.first = i /\ g.last = j
      /\ g.eof <=> j = Len(Chain(f))
  <2>1. g.frame = f /\ g.frag = n /\ g.first = i /\ g.last = j
    BY <1>7
  <2>2. g.eof = (j = Len(Chain(f)))
    BY <1>7
  <2> QED BY <2>1, <2>2
<1>9. g \in Piece
  BY <1>2, <1>3, <1>4, <1>6, <1>7 DEF Piece
<1>10. n < j /\ j <= Len(Chain(f))
  BY <1>2, <1>3, <1>4, <1>6
<1>11. PartOf(g, f)
  BY <1>4, <1>8, <1>9, <1>10 DEF PartOf
<1>12. ASSUME NEW k \in 1..Len(tx.frags), tx.frags[k].eof PROVE FALSE
  <2>1. k = n /\ n > 0
    BY <1>2, <1>12 DEF SentOf
  <2>2. tx.frags[n].last = Len(Chain(f))
    BY <1>2, <1>12, <2>1 DEF SentOf, PartOf
  <2> QED BY <1>2, <1>3, <1>4, <2>1, <2>2
<1> QED BY <1>2, <1>8, <1>9, <1>11, <1>12

\* The same frame with more fragments.
Continues(t, tx) ==
    /\ SentOf(t) /\ t.frame = tx.frame
    /\ \A x : (\E k \in 1..Len(tx.frags) : x = tx.frags[k])
                 => \E k \in 1..Len(t.frags) : x = t.frags[k]

\* The next fragment continues its frame.
LEMMA SentMore ==
    ASSUME NEW tx, SentOf(tx), NextBuf(tx) <= Len(Chain(tx.frame)),
           NEW t, t = [frame |-> tx.frame,
                       frags |-> Append(tx.frags, Fragment(tx.frame, Len(tx.frags), NextBuf(tx)))]
    PROVE  Continues(t, tx)
<1>1. PICK g : g = Fragment(tx.frame, Len(tx.frags), NextBuf(tx))
  OBVIOUS
<1>2. /\ PartOf(g, tx.frame) /\ g \in Piece /\ g.frag = Len(tx.frags)
      /\ g.first = NextBuf(tx)
      /\ \A k \in 1..Len(tx.frags) : ~tx.frags[k].eof
  BY <1>1, NextFragment
<1>3. tx.frame \in Nat /\ tx.frags \in Seq(Piece)
  BY DEF SentOf, TX
<1>4. PICK p, q : p = tx.frags /\ q = Append(p, g) /\ p \in Seq(Piece)
  BY <1>3
<1>5. PICK n \in Nat : n = Len(p)
  BY <1>4, LenProperties
<1>6. /\ q \in Seq(Piece) /\ Len(q) = n + 1
      /\ \A k \in 1..n : q[k] = p[k]
      /\ q[n + 1] = g
  BY <1>2, <1>4, <1>5, AppendProperties
<1>7. t = [frame |-> tx.frame, frags |-> q]
  BY <1>1, <1>4
<1>8. t \in TX /\ t.frame = tx.frame /\ t.frags = q
  BY <1>3, <1>6, <1>7 DEF TX
<1>9. ASSUME NEW k \in 1..Len(q)
      PROVE  /\ PartOf(q[k], tx.frame)
             /\ q[k].frag = k - 1
             /\ q[k].first = IF k = 1 THEN 1 ELSE q[k - 1].last + 1
             /\ q[k].eof => k = Len(q)
  <2>1. CASE k \in 1..n
    <3>1. q[k] = p[k] /\ (k # 1 => q[k - 1] = p[k - 1])
      <4>1. k # 1 => k - 1 \in 1..n
        BY <2>1
      <4> QED BY <1>6, <2>1, <4>1
    <3>2. k \in 1..Len(tx.frags)
      BY <1>4, <1>5, <2>1
    <3> QED BY <1>2, <1>4, <3>1, <3>2 DEF SentOf
  <2>2. CASE k = n + 1
    <3>1. q[k] = g /\ k - 1 = n /\ k = Len(q)
      BY <1>5, <1>6, <2>2
    <3>2. g.first = IF k = 1 THEN 1 ELSE q[k - 1].last + 1
      <4>1. CASE n = 0
        <5>1. p = <<>> /\ k = 1
          <6>1. Len(p) = 0 /\ k = 1
            BY <1>5, <2>2, <4>1
          <6> QED BY <1>4, <6>1, EmptySeq
        <5> QED BY <1>2, <1>4, <5>1 DEF NextBuf
      <4>2. CASE n # 0
        <5>1. p # <<>> /\ n \in 1..n /\ k # 1 /\ k - 1 = n
          BY <1>4, <1>5, <2>2, <4>2, EmptySeq
        <5>2. NextBuf(tx) = p[n].last + 1 /\ q[n] = p[n]
          BY <1>4, <1>5, <1>6, <5>1 DEF NextBuf
        <5> QED BY <1>2, <5>1, <5>2
      <4> QED BY <4>1, <4>2
    <3> QED BY <1>2, <1>4, <1>5, <3>1, <3>2
  <2> QED BY <1>5, <1>6, <2>1, <2>2
<1>10. SentOf(t)
  BY <1>8, <1>9 DEF SentOf
<1>11. ASSUME NEW x, NEW k \in 1..Len(tx.frags), x = tx.frags[k]
       PROVE  \E l \in 1..Len(t.frags) : x = t.frags[l]
  <2>1. k \in 1..n /\ k \in 1..Len(q)
    BY <1>4, <1>5, <1>6
  <2> QED BY <1>4, <1>6, <1>8, <1>11, <2>1
<1> QED BY <1>8, <1>10, <1>11 DEF Continues

\* The frames whose fragments are in the network, one after another.
Flies(q) ==
    /\ q \in Seq(TX) /\ Len(q) \in 1..(Late + 1)
    /\ \A i \in 1..Len(q) : SentOf(q[i]) /\ q[i].frame = q[Len(q)].frame - (Len(q) - i)

\* A fragment that was sent: it is among those of its frame in the network, if
\* this still is there.
KnownIn(x, q) ==
    /\ x.frame \in Nat /\ x.frame <= q[Len(q)].frame
    /\ \A i \in 1..Len(q) :
          x.frame = q[i].frame => \E k \in 1..Len(q[i].frags) : x = q[i].frags[k]

\* What is known in network q is known in r.
Knows(r, q) == \A x : KnownIn(x, q) => KnownIn(x, r)

\* The last frame of network q becomes t.
LastPut(r, q, t) == r = [q EXCEPT ![Len(q)] = t]

\* One more fragment.
LEMMA FliesSend ==
    ASSUME Late \in Nat, NEW q, Flies(q), NEW tx, tx = q[Len(q)],
           NEW t, Continues(t, tx), NEW r, LastPut(r, q, t)
    PROVE  /\ Flies(r) /\ r[Len(r)].frame = q[Len(q)].frame
           /\ r[1].frame = q[1].frame /\ Knows(r, q)
<1>0. /\ SentOf(t) /\ t.frame = tx.frame
      /\ \A x : (\E k \in 1..Len(tx.frags) : x = tx.frags[k])
                   => \E k \in 1..Len(t.frags) : x = t.frags[k]
  BY DEF Continues
<1>1. q \in Seq(TX) /\ Len(q) \in 1..(Late + 1)
  BY DEF Flies
<1>2. PICK n \in Nat : n = Len(q) /\ n \in 1..n /\ 1 \in 1..n
  BY <1>1
<1>3. t \in TX
  BY <1>0 DEF SentOf
<1>4. r \in Seq(TX) /\ Len(r) = n /\ \A i \in 1..n : r[i] = IF i = n THEN t ELSE q[i]
  BY <1>1, <1>2, <1>3, ExceptSeq DEF LastPut
<1>5. \A i \in 1..n : r[i].frame = q[i].frame /\ SentOf(r[i])
  BY <1>0, <1>2, <1>4 DEF Flies
<1>6. Flies(r)
  BY <1>1, <1>2, <1>4, <1>5 DEF Flies
<1>7. ASSUME NEW x, KnownIn(x, q) PROVE KnownIn(x, r)
  <2>1. ASSUME NEW i \in 1..n, x.frame = r[i].frame PROVE \E k \in 1..Len(r[i].frags) : x = r[i].frags[k]
    <3>1. \E k \in 1..Len(q[i].frags) : x = q[i].frags[k]
      BY <1>2, <1>5, <1>7, <2>1 DEF KnownIn
    <3>2. CASE i = n
      <4>1. r[i] = t /\ q[i] = tx
        BY <1>2, <1>4, <3>2
      <4>2. \E k \in 1..Len(tx.frags) : x = tx.frags[k]
        BY <3>1, <4>1
      <4>3. \E k \in 1..Len(t.frags) : x = t.frags[k]
        BY <1>0, <4>2
      <4> QED BY <4>1, <4>3
    <3>3. CASE i # n
      BY <1>4, <3>1, <3>3
    <3> QED BY <3>2, <3>3
  <2> QED BY <1>2, <1>4, <1>5, <1>7, <2>1 DEF KnownIn
<1> QED BY <1>2, <1>4, <1>5, <1>6, <1>7 DEF Knows

\* A frame of which nothing has been sent.
LEMMA SentNone ==
    ASSUME NEW f \in Nat, NEW t, t = [frame |-> f, frags |-> <<>>]
    PROVE  SentOf(t) /\ t.frame = f
<1>1. t.frame = f /\ t.frags = <<>> /\ Len(t.frags) = 0 /\ t \in TX
  BY DEF TX
<1> QED BY <1>1 DEF SentOf

\* What stays in the network when a frame starts: all frames but d.
Rest(q, p, d) ==
    /\ p \in Seq(TX) /\ Len(p) \in Nat /\ Len(p) <= Late /\ d \in {0, 1} /\ Len(q) = Len(p) + d
    /\ \A i \in 1..Len(p) : p[i] = q[i + d]

\* The frames that stay.
Stays(p, q) == p = IF Len(q) > Late THEN Tail(q) ELSE q

\* Not more than Late frames stay.
LEMMA RestOf ==
    ASSUME Late \in Nat, NEW q, Flies(q), NEW p, Stays(p, q)
    PROVE  \E d : Rest(q, p, d)
<1>1. q \in Seq(TX) /\ Len(q) \in 1..(Late + 1)
  BY DEF Flies
<1>2. CASE Len(q) > Late
  <2>1. p = Tail(q) /\ q # <<>>
    BY <1>1, <1>2, EmptySeq DEF Stays
  <2>2. p \in Seq(TX) /\ Len(p) = Len(q) - 1 /\ \A i \in 1..Len(p) : p[i] = q[i + 1]
    BY <1>1, <2>1, HeadTailProperties
  <2>3. Rest(q, p, 1)
    BY <1>1, <2>2 DEF Rest
  <2> QED BY <2>3
<1>3. CASE ~(Len(q) > Late)
  <2>1. p = q
    BY <1>3 DEF Stays
  <2>2. \A i \in 1..Len(q) : i = i + 0
    BY <1>1
  <2>3. Len(q) \in Nat /\ Len(q) <= Late /\ Len(q) = Len(q) + 0
    BY <1>1, <1>3
  <2>4. Rest(q, q, 0)
    BY <1>1, <2>2, <2>3 DEF Rest
  <2> QED BY <2>1, <2>4
<1> QED BY <1>2, <1>3

\* The frames of a network, by their place.
LEMMA FliesAt ==
    ASSUME NEW q, Flies(q), NEW i \in 1..Len(q)
    PROVE  /\ SentOf(q[i]) /\ q[i].frame \in Nat /\ q[i].frame = q[Len(q)].frame - (Len(q) - i)
           /\ q[Len(q)].frame \in Nat /\ Len(q) \in Nat
<1>1. q \in Seq(TX) /\ Len(q) \in Nat
  BY LenProperties DEF Flies
<1>2. Len(q) \in 1..Len(q)
  BY <1>1
<1>3. q[i] \in TX /\ q[Len(q)] \in TX
  BY <1>1, <1>2, ElementOfSeq
<1>4. SentOf(q[i]) /\ q[i].frame = q[Len(q)].frame - (Len(q) - i)
  BY DEF Flies
<1> QED BY <1>1, <1>3, <1>4 DEF TX

\* Frame t joins those that stay.
Joins(r, p, t) == r = Append(p, t)

\* The next frame.
LEMMA FliesNew ==
    ASSUME Late \in Nat, NEW q, Flies(q), NEW f \in Nat, f = q[Len(q)].frame + 1,
           NEW t, SentOf(t), t.frame = f, NEW p, NEW d, Rest(q, p, d), NEW r, Joins(r, p, t)
    PROVE  /\ Flies(r) /\ r[Len(r)].frame = f /\ r[1].frame \in Nat /\ q[1].frame <= r[1].frame
           /\ Knows(r, q)
<1>1. PICK n, m, N : n = Len(q) /\ m = Len(p) /\ N = q[n].frame
  OBVIOUS
<1>2. /\ p \in Seq(TX) /\ m \in Nat /\ m <= Late /\ d \in {0, 1} /\ n = m + d
      /\ \A i \in 1..m : p[i] = q[i + d]
  BY <1>1 DEF Rest
<1>3. n \in Nat /\ 1 \in 1..n /\ n > 0
  BY <1>1 DEF Flies
<1>4. \A i \in 1..n : SentOf(q[i]) /\ q[i].frame \in Nat /\ q[i].frame = N - (n - i)
  BY <1>1, FliesAt
<1>5. N \in Nat /\ f = N + 1
  BY <1>1, <1>3, FliesAt
<1>6. t \in TX
  BY DEF SentOf
<1>7. r \in Seq(TX) /\ Len(r) = m + 1 /\ (\A i \in 1..m : r[i] = p[i]) /\ r[m + 1] = t
  BY <1>1, <1>2, <1>6, AppendProperties DEF Joins
<1>8. ASSUME NEW i \in 1..(m + 1), i \in 1..m
      PROVE  r[i] = q[i + d] /\ i + d \in 1..n /\ r[i].frame = f - ((m + 1) - i) /\ SentOf(r[i])
  <2>1. i + d \in 1..n /\ i + d \in Nat /\ r[i] = q[i + d]
    BY <1>2, <1>7, <1>8
  <2>2. PICK k \in 1..n : k = i + d
    BY <2>1
  <2>3. r[i].frame = N - (n - k) /\ SentOf(r[i])
    BY <1>4, <2>1, <2>2
  <2>4. N - (n - k) = f - ((m + 1) - i)
    <3>1. d \in Int /\ n = m + d /\ m \in Int /\ N \in Int /\ f = N + 1 /\ k = i + d
      BY <1>2, <1>5, <2>2
    <3> QED BY <3>1
  <2> QED BY <2>1, <2>3, <2>4
<1>9. \A i \in 1..(m + 1) : i \in 1..m \/ i = m + 1
  BY <1>2
<1>10. r[m + 1].frame = f /\ SentOf(r[m + 1]) /\ f = f - ((m + 1) - (m + 1))
  BY <1>2, <1>7
<1>11. Flies(r)
  <2>1. Len(r) \in 1..(Late + 1)
    BY <1>2, <1>7
  <2>2. \A i \in 1..(m + 1) : SentOf(r[i]) /\ r[i].frame = f - ((m + 1) - i)
    BY <1>8, <1>9, <1>10
  <2> QED BY <1>7, <1>10, <2>1, <2>2 DEF Flies
<1>12. r[1].frame \in Nat /\ q[1].frame <= r[1].frame
  <2>1. q[1].frame = N - (n - 1) /\ q[1].frame \in Nat
    BY <1>3, <1>4
  <2>2. r[1].frame = f - m
    <3>1. CASE 1 \in 1..m
      <4>1. 1 \in 1..(m + 1) /\ (m + 1) - 1 = m
        BY <1>2
      <4> QED BY <1>8, <3>1, <4>1
    <3>2. CASE 1 \notin 1..m
      <4>1. m = 0 /\ 0 + 1 = 1 /\ f - 0 = f
        BY <1>2, <3>2
      <4> QED BY <1>10, <4>1
    <3> QED BY <3>1, <3>2
  <2>3. N - (n - 1) <= f - m /\ f - m \in Int
    BY <1>2, <1>5
  <2>4. f - m \in Nat
    BY <1>2, <1>3, <1>5, <2>1, <2>3
  <2> QED BY <2>1, <2>2, <2>3, <2>4
<1>13. ASSUME NEW x, KnownIn(x, q) PROVE KnownIn(x, r)
  <2>1. x.frame \in Nat /\ x.frame <= N
    BY <1>1, <1>13 DEF KnownIn
  <2>2. x.frame <= f /\ x.frame # f
    BY <1>5, <2>1
  <2>3. ASSUME NEW i \in 1..(m + 1), x.frame = r[i].frame
        PROVE  \E k \in 1..Len(r[i].frags) : x = r[i].frags[k]
    <3>1. i \in 1..m
      BY <1>9, <1>10, <2>2, <2>3
    <3>2. r[i] = q[i + d] /\ i + d \in 1..n
      BY <1>8, <3>1
    <3> QED BY <1>1, <1>13, <2>3, <3>2 DEF KnownIn
  <2> QED BY <1>7, <1>10, <2>1, <2>2, <2>3 DEF KnownIn
<1> QED BY <1>7, <1>10, <1>11, <1>12, <1>13 DEF Knows

\* The first frame, at the start and after a restart.
LEMMA FliesAlone ==
    ASSUME Late \in Nat, NEW f \in Nat, NEW t, t = [frame |-> f, frags |-> <<>>], NEW r, r = <<t>>
    PROVE  /\ Flies(r) /\ Len(r) = 1 /\ r[1].frame = f
           /\ \A x : x.frame \in Nat /\ x.frame < f => KnownIn(x, r)
<1>1. SentOf(t) /\ t.frame = f /\ t \in TX
  BY SentNone DEF SentOf
<1>2. r \in Seq(TX) /\ Len(r) = 1 /\ r[1] = t
  BY <1>1
<1>3. \A i \in 1..1 : i = 1
  OBVIOUS
<1>4. Flies(r)
  <2>1. f = f - (1 - 1) /\ 1 \in 1..(Late + 1)
    OBVIOUS
  <2> QED BY <1>1, <1>2, <1>3, <2>1 DEF Flies
<1>5. \A x : x.frame \in Nat /\ x.frame < f => KnownIn(x, r)
  <2>1. \A n \in Nat : n < f => n <= f /\ n # f
    OBVIOUS
  <2> QED BY <1>1, <1>2, <1>3, <2>1 DEF KnownIn
<1> QED BY <1>1, <1>2, <1>4, <1>5

-----------------------------------------------------------------------------
(* The receiver keeps up with the sender.                                  *)

\* The network is gentle to the receiver: what is late and what vanishes
\* together fit into the window.
Gentle == Burst >= 1 /\ Late + Burst <= FrameWin

\* Frames up to e may have arrived: they fit into the window, and the timeouts
\* that run are not far behind.
Near(e, o, n) == e < o + FrameWin /\ e < o + n + Late

\* After a restart of the sender the window is ahead of it, but is empty and
\* less than a round ahead of where the numbers started again.
Stale(s, o, n, N, c) ==
    /\ n = 0 /\ N + 1 < o
    /\ \E b \in Nat : b % FrameMod = 0 /\ b <= c /\ o < b + FrameMod /\ Handed(s.out, b)

\* The window is that of the n frames from o on, the newest frame of the sender
\* is N, the oldest in the network c.
Turn(s, o, n, N, e, c) ==
    /\ Window(s, o, n) /\ Straight(o, n) /\ Near(e, o, n)
    /\ (Handed(s.out, o) /\ o + n <= N + 1) \/ Stale(s, o, n, N, c)

\* It stays so when frames leave the window.
LEMMA MovedTurn ==
    ASSUME Late \in Nat, NEW s, NEW o \in Nat, NEW n \in 0..FrameWin, NEW N \in Nat, NEW e \in Int, NEW c \in Nat,
           Turn(s, o, n, N, e, c), NEW m \in 0..n, NEW t, Moved(s, t, o, n, m)
    PROVE  Turn(t, o + m, n - m, N, e, c)
<1>1. FrameWin \in Nat /\ n \in Nat /\ m \in Nat /\ m <= n
  BY Windows
<1>2. /\ Window(t, o + m, n - m) /\ (m = 0 => t = s)
      /\ Handed(s.out, o) => Handed(t.out, o + m)
  BY DEF Moved
<1>3. Straight(o + m, n - m)
  BY <1>1, StraightMoves DEF Turn
<1>4. Near(e, o + m, n - m)
  <2>1. e < o + FrameWin /\ e < o + n + Late
    BY DEF Turn, Near
  <2> QED BY <1>1, <2>1 DEF Near
<1>5. CASE Handed(s.out, o) /\ o + n <= N + 1
  <2>1. (o + m) + (n - m) <= N + 1
    BY <1>1, <1>5
  <2> QED BY <1>2, <1>3, <1>4, <1>5, <2>1 DEF Turn
<1>6. CASE Stale(s, o, n, N, c)
  <2>1. n = 0
    BY <1>6 DEF Stale
  <2>2. m = 0
    BY <1>1, <2>1
  <2>3. o + m = o /\ n - m = n
    BY <1>1, <2>2
  <2> QED BY <1>2, <2>2, <2>3
<1> QED BY <1>5, <1>6 DEF Turn

\* The fragments in the network are of frames near the window.
Arrives(f, N, e, c) ==
    /\ f \in Nat /\ N \in Nat /\ e \in Int /\ c \in Nat
    /\ c <= f /\ f <= N /\ N <= f + Late /\ N <= e + Burst /\ e <= N

\* A frame whose fragment arrives is where processBuffer() can tell.
LEMMA TurnReady ==
    ASSUME Late \in Nat, Burst \in Nat, Gentle, NEW s, NEW o \in Nat, NEW n \in 0..FrameWin,
           NEW f, NEW N, NEW e, NEW c, Turn(s, o, n, N, e, c), Arrives(f, N, e, c)
    PROVE  f < o + 2 * FrameWin /\ (f < o => Old(o, f)) /\ (n = 0 => f < o + FrameWin)
<1>1. FrameWin \in Nat /\ n \in Nat /\ FrameMod \in Nat \ {0} /\ Burst >= 1 /\ Late + Burst <= FrameWin
  BY Windows DEF Gentle
<1>2. /\ f \in Nat /\ N \in Nat /\ e \in Int /\ c \in Nat
      /\ c <= f /\ f <= N /\ N <= f + Late /\ N <= e + Burst /\ e <= N
  BY DEF Arrives
<1>3. e < o + FrameWin /\ e < o + n + Late
  BY DEF Turn, Near
<1>4. f < o + 2 * FrameWin /\ (n = 0 => f < o + FrameWin)
  BY <1>1, <1>2, <1>3
<1>5. CASE o + n <= N + 1
  <2>1. o <= f + FrameWin
    BY <1>1, <1>2, <1>5
  <2> QED BY <1>4, <2>1 DEF Old
<1>6. CASE Stale(s, o, n, N, c)
  <2>1. PICK b \in Nat : b % FrameMod = 0 /\ b <= c /\ o < b + FrameMod
    BY <1>6 DEF Stale
  <2>2. SUFFICES ASSUME f < o PROVE Old(o, f)
    BY <1>4
  <2>3. b \in Int /\ f \in Int /\ o \in Int /\ b <= f /\ f < b + FrameMod /\ b <= o
    BY <1>1, <1>2, <2>1, <2>2
  <2>4. PICK q \in Int : b = FrameMod * q + 0
    BY <1>1, <2>1, <2>3, DivMod
  <2>5. PICK i \in 0..(FrameMod - 1), j \in 0..(FrameMod - 1) : i = f - b /\ j = o - b
    BY <1>1, <2>1, <2>3
  <2>6. PICK k \in Int : k = FrameMod * q
    BY <1>1
  <2>7. f = k + i /\ o = k + j
    BY <2>3, <2>4, <2>5, <2>6
  <2>8. f = FrameMod * q + i /\ o = FrameMod * q + j
    BY <2>6, <2>7
  <2>9. f % FrameMod = i
    BY <1>1, <2>3, <2>8, ModUnique
  <2>10. o % FrameMod = j
    BY <1>1, <2>3, <2>8, ModUnique
  <2>11. i < j /\ o < f + FrameMod
    BY <1>1, <2>1, <2>2, <2>3, <2>5
  <2> QED BY <2>2, <2>9, <2>10, <2>11 DEF Old
<1> QED BY <1>5, <1>6 DEF Turn

\* The receiver keeps up when a fragment arrives.
LEMMA ProcessedTurn ==
    ASSUME Late \in Nat, Burst \in Nat, Gentle, NEW s, NEW o \in Nat, NEW n \in 0..FrameWin,
           NEW f, NEW N, NEW e, NEW c, Turn(s, o, n, N, e, c), Arrives(f, N, e, c), NEW g,
           NEW d, d = e \/ (g.frag < FragWin /\ d = f),
           NEW u, NEW p \in Nat, NEW l \in 0..FrameWin, Processed(s, u, o, n, f, g, p, l)
    PROVE  Turn(u, p, l, N, d, c)
<1>1. FrameWin \in Nat /\ n \in Nat /\ l \in Nat /\ Burst >= 1 /\ Late + Burst <= FrameWin
  BY Windows DEF Gentle
<1>2. /\ f \in Nat /\ N \in Nat /\ e \in Int /\ c \in Nat
      /\ c <= f /\ f <= N /\ N <= f + Late /\ N <= e + Burst /\ e <= N
  BY DEF Arrives
<1>3. e < o + FrameWin /\ e < o + n + Late
  BY DEF Turn, Near
<1>4. Window(u, p, l) /\ Straight(p, l) /\ (n = 0 => u.out = s.out) /\ Kind(s, u, o, n, f, g, p, l)
  BY DEF Processed
<1>5. CASE /\ p >= o /\ p + l >= o + n /\ p <= f /\ f < p + FrameWin
           /\ p + l > o + n => p + l = f + 1
           /\ g.frag < FragWin => f < p + l
           /\ Handed(s.out, o) => Handed(u.out, p)
  <2>1. Near(d, p, l)
    <3>1. CASE d = e
      BY <1>1, <1>2, <1>3, <1>5, <3>1 DEF Near
    <3>2. CASE g.frag < FragWin /\ d = f
      <4>1. f < p + l /\ f < p + FrameWin
        BY <1>5, <3>2
      <4>2. f < p + l + Late
        BY <1>1, <1>2, <4>1
      <4> QED BY <3>2, <4>1, <4>2 DEF Near
    <3> QED BY <3>1, <3>2
  <2>2. CASE Handed(s.out, o) /\ o + n <= N + 1
    <3>1. p + l <= N + 1
      BY <1>1, <1>2, <1>5, <2>2
    <3> QED BY <1>4, <1>5, <2>1, <2>2, <3>1 DEF Turn
  <2>3. CASE Stale(s, o, n, N, c)
    <3>1. N + 1 < o
      BY <2>3 DEF Stale
    <3> QED BY <1>2, <1>5, <3>1
  <2> QED BY <2>2, <2>3 DEF Turn
<1>6. CASE /\ p = f + 1 /\ l = 0 /\ (o + n <= f \/ f + FrameWin < o)
           /\ Handed(s.out, o) => Handed(u.out, o + n)
  <2>1. Near(d, p, l)
    <3>1. d <= f + Late /\ d \in Int
      BY <1>2
    <3> QED BY <1>1, <1>2, <1>6, <3>1 DEF Near
  <2>2. p + l <= N + 1
    BY <1>2, <1>6
  <2>3. Handed(u.out, p)
    <3>1. CASE Handed(s.out, o) /\ o + n <= N + 1
      <4>1. o + n \in Nat /\ o + n <= p
        BY <1>1, <1>2, <1>6, <3>1
      <4>2. Handed(u.out, o + n)
        BY <1>6, <3>1
      <4> QED BY <4>1, <4>2, HandedLater
    <3>2. CASE Stale(s, o, n, N, c)
      <4>1. PICK b \in Nat : b <= c /\ Handed(s.out, b)
        BY <3>2 DEF Stale
      <4>2. Handed(u.out, b) /\ b <= p
        <5>1. n = 0
          BY <3>2 DEF Stale
        <5>2. b <= p
          BY <1>2, <1>6, <4>1
        <5> QED BY <1>4, <4>1, <5>1, <5>2
      <4> QED BY <4>2, HandedLater
    <3> QED BY <3>1, <3>2 DEF Turn
  <2> QED BY <1>4, <2>1, <2>2, <2>3 DEF Turn
<1>7. CASE u = s /\ p = o /\ l = n /\ f < o
  <2>1. Near(d, o, n)
    <3>1. CASE d = e
      BY <3>1 DEF Turn
    <3>2. CASE d = f
      BY <1>1, <1>2, <1>7, <3>2 DEF Near
    <3> QED BY <3>1, <3>2
  <2> QED BY <1>7, <2>1 DEF Turn
<1> QED BY <1>4, <1>5, <1>6, <1>7 DEF Kind

\* Before the first fragment number 0 has arrived.
Blank(s) ==
    /\ s \in Receiver /\ ~s.panic /\ s.oldestFrame = NoFrame /\ s.out = <<>>
    /\ \A k \in Slots : s.frameWin[k] = EmptyFrame

\* The window may begin at any frame.
LEMMA BlankWindow ==
    ASSUME NEW s, Blank(s), NEW h \in Nat, NEW t, t = [s EXCEPT !.oldestFrame = h % FrameMod]
    PROVE  Window(t, h, 0) /\ Kept(t) = {} /\ t.out = <<>>
<1>1. PICK no \in Nat : no = h % FrameMod
  BY NotNumbers
<1>2. t = [s EXCEPT !.oldestFrame = no]
  BY <1>1
<1>3. /\ t \in Receiver /\ ~t.panic /\ t.out = <<>> /\ t.oldestFrame = no
      /\ t.frameWin = s.frameWin
  BY <1>2 DEF Blank, Receiver
<1>4. ASSUME NEW f \in h..(h + FrameWin - 1) PROVE Holds(t, f, h + 0)
  <2>1. f \in Nat /\ ~(f < h + 0)
    BY Windows
  <2>2. f % FrameWin \in Slots
    BY <2>1, SlotIn
  <2>3. At(t, f) = EmptyFrame
    BY <1>3, <2>2 DEF At, Blank
  <2>4. Collects(EmptyFrame, f) /\ ~EmptyFrame.running
    BY <2>1, EmptySlot
  <2> QED BY <2>1, <2>3, <2>4 DEF Holds
<1>5. Window(t, h, 0)
  BY <1>1, <1>3, <1>4 DEF Window
<1>6. Kept(t) = {}
  <2>1. Held(EmptyFrame) = {}
    <3>1. 0 \in Nat
      OBVIOUS
    <3> QED BY <3>1, EmptySlot
  <2>2. \A k \in Slots : Held(t.frameWin[k]) = {}
    BY <1>3, <2>1 DEF Blank
  <2> QED BY <2>2 DEF Kept
<1> QED BY <1>3, <1>5, <1>6

\* Nothing is handed down at first.
LEMMA HandedNone ==
    ASSUME NEW b
    PROVE  Handed(<<>>, b)
BY DEF Handed

\* What a fragment does before any number 0 has arrived: nothing, or all fragments
\* of its frame and the earlier ones are dropped from now on, or it is the first
\* of the oldest frame.
LEMMA BlankGoes ==
    ASSUME NEW s, Blank(s), NEW f \in Nat, NEW g, g.frame = f, NEW u, u = processBuffer(s, g)
    PROVE  \/ u = s
           \/ u = [s EXCEPT !.oldestFrame = (f + 1) % FrameMod]
           \/ g.frag = 0 /\ u = Accept([s EXCEPT !.oldestFrame = f % FrameMod], g, f % FrameMod)
<1>1. FrameMod \in Nat \ {0} /\ FrameWin \in Nat \ {0}
  BY Windows
<1>2. PICK no : /\ no = f % FrameMod /\ no \in 0..(FrameMod - 1)
                /\ moduloFrameSz(no + 1) = (f + 1) % FrameMod
  BY NotNumbers, SlotOfNumber
<1>3. moduloFrameSz(g.frame) = no /\ s.oldestFrame = NoFrame /\ no < NoFrame /\ no \in Nat
  <2>1. moduloFrameSz(f) = no
    BY <1>2 DEF moduloFrameSz
  <2>2. NoFrame \in Nat /\ FrameMod <= NoFrame
    BY NotNumbers
  <2> QED BY <1>1, <1>2, <2>1, <2>2 DEF Blank
<1>4. CASE g.frag = 0
  <2>1. PICK t : t = [s EXCEPT !.oldestFrame = no]
    OBVIOUS
  <2>2. t.oldestFrame = no
    BY <2>1 DEF Blank, Receiver
  <2>3. moduloFrameSz(no - t.oldestFrame) = 0
    <3>1. no - no = 0 /\ 0 \in Int /\ 0 <= 0 /\ 0 < FrameMod
      BY <1>1, <1>3
    <3>2. 0 % FrameMod = 0
      BY <1>1, <3>1, ModSmall
    <3> QED BY <2>2, <3>1, <3>2 DEF moduloFrameSz
  <2>4. ~(no < t.oldestFrame) /\ ~(0 > FrameWin) /\ 0 # FrameWin
    BY <1>1, <1>3, <2>2
  <2>5. u = Accept(t, g, no)
    BY <1>3, <1>4, <2>1, <2>3, <2>4 DEF processBuffer
  <2> QED BY <1>2, <1>4, <2>1, <2>5
<1>5. CASE g.frag # 0
  <2>1. u = frameSync(s, no)
    BY <1>3, <1>5 DEF processBuffer
  <2>2. releaseFrames(s, FALSE) = s
    BY <1>3, Zenon DEF releaseFrames
  <2>3. u = IF Distance(s, no) > FrameWin THEN [s EXCEPT !.oldestFrame = (f + 1) % FrameMod] ELSE s
    BY <1>2, <2>1, <2>2 DEF frameSync
  <2> QED BY <2>3
<1> QED BY <1>4, <1>5

Begins(s, u, g, N, d, c) ==
    /\ Kept(u) \subseteq Kept(s) \cup {g}
    /\ u = s \/ \E p \in Nat, l \in 0..FrameWin : Turn(u, p, l, N, d, c)

\* The receiver begins to follow the sender.
LEMMA BlankTurn ==
    ASSUME Late \in Nat, Burst \in Nat, Gentle, NEW s, Blank(s),
           NEW f, NEW N, NEW e, NEW c, Arrives(f, N, e, c), NEW g, PartOf(g, f),
           NEW d, d = e \/ (g.frag < FragWin /\ d = f),
           NEW u, u = processBuffer(s, g)
    PROVE  Begins(s, u, g, N, d, c)
<1>1. FrameWin \in Nat \ {0} /\ FragWin \in Nat \ {0} /\ Burst >= 1 /\ Late + Burst <= FrameWin
  BY Windows DEF Gentle
<1>2. /\ f \in Nat /\ N \in Nat /\ d \in Int /\ f <= N /\ d <= f + Late
  BY DEF Arrives
<1>3. g.frame = f
  BY DEF PartOf
<1>4. CASE u = [s EXCEPT !.oldestFrame = (f + 1) % FrameMod]
  <2>1. PICK h \in Nat : h = f + 1
    BY <1>2
  <2>2. Window(u, h, 0) /\ Kept(u) = {} /\ u.out = <<>>
    BY <1>4, <2>1, BlankWindow
  <2>3. Straight(h, 0)
    <3>1. h % FrameMod \in 0..(FrameMod - 1) /\ FrameMod \in Nat
      BY NotNumbers, Windows
    <3> QED BY <3>1 DEF Straight
  <2>4. Near(d, h, 0) /\ h + 0 <= N + 1
    BY <1>1, <1>2, <2>1 DEF Near
  <2>5. Turn(u, h, 0, N, d, c)
    BY <2>2, <2>3, <2>4, HandedNone DEF Turn
  <2>6. 0 \in 0..FrameWin
    BY <1>1
  <2> QED BY <2>2, <2>5, <2>6 DEF Begins
<1>5. CASE g.frag = 0 /\ u = Accept([s EXCEPT !.oldestFrame = f % FrameMod], g, f % FrameMod)
  <2>1. PICK t : t = [s EXCEPT !.oldestFrame = f % FrameMod]
    OBVIOUS
  <2>2. Window(t, f, 0) /\ Kept(t) = {} /\ t.out = <<>>
    BY <1>2, <2>1, BlankWindow
  <2>3. Agrees(t, g)
    BY <2>2 DEF Agrees
  <2>4. f \in f..(f + FrameWin - 1) /\ 0 \in 0..FrameWin
    BY <1>1, <1>2
  <2>5. PICK l \in 0..FrameWin : Accepted(t, u, f, 0, l, f, g)
    BY <1>2, <1>5, <2>1, <2>2, <2>3, <2>4, AcceptMoves
  <2>6. /\ l > 0 => f = f + l - 1
        /\ Window(u, f, l) /\ u.out = <<>> /\ Kept(u) \subseteq {g}
        /\ g.frag < FragWin => f < f + l
    BY <2>2, <2>5 DEF Accepted
  <2>7. l = 1
    <3>1. l \in Nat /\ 0 < FragWin
      BY <1>1
    <3> QED BY <1>2, <1>5, <2>6, <3>1
  <2>8. Straight(f, l)
    <3>1. f % FrameMod \in 0..(FrameMod - 1) /\ FrameMod \in Nat
      BY <1>2, NotNumbers, Windows
    <3> QED BY <2>7, <3>1 DEF Straight
  <2>9. Near(d, f, l) /\ f + l <= N + 1
    BY <1>1, <1>2, <2>7 DEF Near
  <2>10. Turn(u, f, l, N, d, c)
    BY <2>6, <2>8, <2>9, HandedNone DEF Turn
  <2> QED BY <1>2, <2>6, <2>10 DEF Begins
<1>6. CASE u = s
  BY <1>6 DEF Begins
<1> QED BY <1>2, <1>3, <1>4, <1>5, <1>6, BlankGoes

-----------------------------------------------------------------------------
(* The inductive invariant.                                                *)

Follows(s, q, us) ==
    \E o \in Nat, n \in 0..FrameWin :
        Turn(s, o, n, q[Len(q)].frame, q[Len(q)].frame - us, q[1].frame)

\* The receiver has seen nothing yet or follows the sender, and what it keeps are
\* fragments that were sent.
Tracks(s, q, us) ==
    /\ \A x \in Kept(s) : KnownIn(x, q)
    /\ Blank(s) \/ Follows(s, q, us)
IInv == Flies(sent) /\ unseen \in 0..Burst /\ Tracks(dp, sent, unseen)

\* The numbers of the frames in the network.
LEMMA FliesNumbers ==
    ASSUME Late \in Nat, Burst \in Nat, NEW q, Flies(q), NEW us \in 0..Burst
    PROVE  /\ q[1].frame \in Nat /\ q[Len(q)].frame \in Nat /\ q[1].frame <= q[Len(q)].frame
           /\ Len(q) \in Nat /\ 1 \in 1..Len(q)
           /\ \A i \in 1..Len(q) : Arrives(q[i].frame, q[Len(q)].frame, q[Len(q)].frame - us, q[1].frame)
<1>1. Len(q) \in 1..(Late + 1)
  BY DEF Flies
<1>2. PICK n, N, c : n = Len(q) /\ N = q[Len(q)].frame /\ c = q[1].frame
  OBVIOUS
<1>3. n \in Nat /\ 1 \in 1..n /\ n <= Late + 1
  BY <1>1, <1>2
<1>4. \A i \in 1..n : q[i].frame \in Nat /\ q[i].frame = N - (n - i) /\ N \in Nat
  BY <1>2, FliesAt
<1>5. N \in Nat /\ c \in Nat /\ c = N - (n - 1)
  BY <1>2, <1>3, <1>4
<1>6. ASSUME NEW i \in 1..n PROVE Arrives(q[i].frame, N, N - us, c)
  <2>1. PICK f \in Nat : f = q[i].frame /\ f = N - (n - i)
    BY <1>4
  <2>2. c <= f /\ f <= N /\ N <= f + Late
    BY <1>3, <1>5, <2>1
  <2>3. N - us \in Int /\ N <= (N - us) + Burst /\ N - us <= N
    BY <1>5
  <2> QED BY <1>5, <2>1, <2>2, <2>3 DEF Arrives
<1>7. c <= N
  BY <1>3, <1>5
<1> QED BY <1>2, <1>3, <1>5, <1>6, <1>7

\* A fragment in the network is known, and goes with what is known.
LEMMA FragmentKnown ==
    ASSUME Late \in Nat, NEW q, Flies(q), NEW i \in 1..Len(q), NEW k \in 1..Len(q[i].frags),
           NEW g, g = q[i].frags[k]
    PROVE  /\ PartOf(g, q[i].frame) /\ KnownIn(g, q)
           /\ \A x : KnownIn(x, q) /\ x.frame = g.frame => Fits(x, g) /\ Fits(g, x)
<1>1. /\ SentOf(q[i]) /\ q[i].frame \in Nat /\ q[i].frame = q[Len(q)].frame - (Len(q) - i)
      /\ q[Len(q)].frame \in Nat /\ Len(q) \in Nat
  BY FliesAt
<1>2. PartOf(g, q[i].frame)
  BY <1>1 DEF SentOf
<1>3. g.frame = q[i].frame
  BY <1>2 DEF PartOf
<1>4. KnownIn(g, q)
  <2>1. PICK n, N : n = Len(q) /\ N = q[Len(q)].frame
    OBVIOUS
  <2>2. q[i].frame <= N
    BY <1>1, <2>1
  <2>3. ASSUME NEW j \in 1..n, g.frame = q[j].frame PROVE j = i
    <3>1. q[j].frame = N - (n - j) /\ q[i].frame = N - (n - i)
      BY <1>1, <2>1, FliesAt
    <3> QED BY <1>1, <1>3, <2>1, <2>3, <3>1
  <2> QED BY <1>1, <1>3, <2>1, <2>2, <2>3 DEF KnownIn
<1>5. ASSUME NEW x, KnownIn(x, q), x.frame = g.frame PROVE Fits(x, g) /\ Fits(g, x)
  <2>1. PICK l \in 1..Len(q[i].frags) : x = q[i].frags[l]
    BY <1>3, <1>5 DEF KnownIn
  <2> QED BY <1>1, <2>1, SentFits
<1> QED BY <1>2, <1>4, <1>5

\* releaseFrames() keeps up, too.
LEMMA ReleaseTracks ==
    ASSUME Late \in Nat, Burst \in Nat, NEW q, Flies(q), NEW us \in 0..Burst, NEW s, Tracks(s, q, us),
           NEW oc \in BOOLEAN, NEW t, t = releaseFrames(s, oc)
    PROVE  Tracks(t, q, us)
<1>1. CASE Blank(s)
  <2>1. t = s
    BY <1>1, Zenon DEF releaseFrames, Blank
  <2> QED BY <2>1
<1>2. CASE Follows(s, q, us)
  <2>1. PICK N, e, c : N = q[Len(q)].frame /\ e = q[Len(q)].frame - us /\ c = q[1].frame
    OBVIOUS
  <2>2. N \in Nat /\ e \in Int /\ c \in Nat
    BY <2>1, FliesNumbers
  <2>3. PICK o \in Nat, n \in 0..FrameWin : Turn(s, o, n, N, e, c)
    BY <1>2, <2>1 DEF Follows
  <2>4. Window(s, o, n)
    BY <2>3 DEF Turn
  <2>5. PICK m \in 0..n : Moved(s, t, o, n, m)
    BY <2>4, ReleaseFramesMoves
  <2>6. Turn(t, o + m, n - m, N, e, c)
    BY <2>2, <2>3, <2>5, MovedTurn
  <2>7. o + m \in Nat /\ n - m \in 0..FrameWin
    BY Windows
  <2>8. Follows(t, q, us)
    BY <2>1, <2>6, <2>7 DEF Follows
  <2>9. Kept(t) \subseteq Kept(s)
    BY <2>5 DEF Moved
  <2> QED BY <2>8, <2>9 DEF Tracks
<1> QED BY <1>1, <1>2 DEF Tracks

\* Nobody who keeps up has found a frame in the slot of another.
LEMMA TracksSound ==
    ASSUME NEW s, NEW q, NEW us, Tracks(s, q, us)
    PROVE  ~s.panic
BY DEF Tracks, Blank, Follows, Turn, Window

\* How many frames have not been seen when fragment g of the frame after which m
\* more have started arrives.
Sees(vs, us, g, m) == vs = us \/ (g.frag < FragWin /\ vs = m)

\* A fragment that was sent of a frame.
FragmentOf(g, tx) == \E k \in 1..Len(tx.frags) : g = tx.frags[k]

\* processBuffer() keeps up.
LEMMA ProcessTracks ==
    ASSUME Late \in Nat, Burst \in Nat, Gentle, NEW q, Flies(q), NEW us \in 0..Burst,
           NEW s, Tracks(s, q, us), NEW i \in 1..Len(q), NEW g, FragmentOf(g, q[i]),
           NEW vs, Sees(vs, us, g, Len(q) - i),
           NEW u, u = processBuffer(s, g)
    PROVE  Tracks(u, q, vs)
<1>0. PICK k \in 1..Len(q[i].frags) : g = q[i].frags[k]
  BY DEF FragmentOf
<1>1. PICK N, e, c, f, d : /\ N = q[Len(q)].frame /\ e = q[Len(q)].frame - us /\ c = q[1].frame
                           /\ f = q[i].frame /\ d = q[Len(q)].frame - vs
  OBVIOUS
<1>2. N \in Nat /\ e \in Int /\ c \in Nat /\ Arrives(f, N, e, c) /\ f \in Nat
  <2>1. N \in Nat /\ e \in Int /\ c \in Nat /\ Arrives(f, N, e, c)
    BY <1>1, FliesNumbers
  <2> QED BY <2>1 DEF Arrives
<1>3. /\ PartOf(g, f) /\ KnownIn(g, q)
      /\ \A x : KnownIn(x, q) /\ x.frame = g.frame => Fits(x, g) /\ Fits(g, x)
  BY <1>0, <1>1, FragmentKnown
<1>4. d = e \/ (g.frag < FragWin /\ d = f)
  <2>1. CASE vs = us
    BY <1>1, <2>1
  <2>2. CASE g.frag < FragWin /\ vs = Len(q) - i
    <3>1. f = N - (Len(q) - i)
      BY <1>1, FliesAt
    <3> QED BY <1>1, <2>2, <3>1
  <2> QED BY <2>1, <2>2 DEF Sees
<1>5. ASSUME Kept(u) \subseteq Kept(s) \cup {g}
      PROVE  \A x \in Kept(u) : KnownIn(x, q)
  BY <1>3, <1>5 DEF Tracks
<1>6. CASE Blank(s)
  <2>0. Begins(s, u, g, N, d, c)
    BY <1>2, <1>3, <1>4, <1>6, BlankTurn
  <2>1. /\ Kept(u) \subseteq Kept(s) \cup {g}
        /\ u = s \/ \E p \in Nat, l \in 0..FrameWin : Turn(u, p, l, N, d, c)
    BY <2>0 DEF Begins
  <2>2. CASE u = s
    BY <1>6, <2>2 DEF Tracks
  <2>3. CASE \E p \in Nat, l \in 0..FrameWin : Turn(u, p, l, N, d, c)
    <3>1. Follows(u, q, vs)
      BY <1>1, <2>3 DEF Follows
    <3> QED BY <1>5, <2>1, <3>1 DEF Tracks
  <2> QED BY <2>1, <2>2, <2>3
<1>7. CASE Follows(s, q, us)
  <2>1. PICK o \in Nat, n \in 0..FrameWin : Turn(s, o, n, N, e, c)
    BY <1>1, <1>7 DEF Follows
  <2>2. Window(s, o, n) /\ Straight(o, n)
    BY <2>1 DEF Turn
  <2>3. f < o + 2 * FrameWin /\ (f < o => Old(o, f)) /\ (n = 0 => f < o + FrameWin)
    BY <1>2, <2>1, TurnReady
  <2>4. Agrees(s, g)
    BY <1>3 DEF Agrees, Tracks
  <2>5. PICK p \in Nat, l \in 0..FrameWin : Processed(s, u, o, n, f, g, p, l)
    BY <1>2, <1>3, <2>2, <2>3, <2>4, ProcessMoves
  <2>6. Turn(u, p, l, N, d, c)
    BY <1>2, <1>4, <2>1, <2>5, ProcessedTurn
  <2>7. Follows(u, q, vs)
    BY <1>1, <2>6 DEF Follows
  <2>8. Kept(u) \subseteq Kept(s) \cup {g}
    BY <2>5 DEF Processed
  <2> QED BY <1>5, <2>7, <2>8 DEF Tracks
<1> QED BY <1>6, <1>7 DEF Tracks

\* An empty window may be that of any frames with the right number.
LEMMA EmptyWindow ==
    ASSUME NEW s, NEW o \in Nat, Window(s, o, 0), NEW p \in Nat, p % FrameMod = o % FrameMod
    PROVE  Window(s, p, 0)
<1>1. ASSUME NEW f \in p..(p + FrameWin - 1) PROVE Holds(s, f, p + 0)
  <2>1. f \in Nat /\ ~(f < p + 0)
    BY Windows
  <2>2. f % FrameWin \in Slots
    BY <2>1, SlotIn
  <2>3. PICK h \in o..(o + FrameWin - 1) : h \in Nat /\ h % FrameWin = f % FrameWin
    BY <2>2, SlotOf
  <2>4. At(s, f) = At(s, h)
    BY <2>3 DEF At
  <2>5. Holds(s, h, o + 0) /\ ~(h < o + 0)
    <3>1. ~(h < o + 0)
      BY <2>3, Windows
    <3> QED BY <3>1 DEF Window
  <2>6. At(s, f) = EmptyFrame
    BY <2>4, <2>5 DEF Holds
  <2>7. Collects(EmptyFrame, f) /\ ~EmptyFrame.running
    BY <2>1, EmptySlot
  <2> QED BY <2>1, <2>6, <2>7 DEF Holds
<1> QED BY <1>1 DEF Window

\* The next frame of the sender.
LEMMA NewTurn ==
    ASSUME Late \in Nat, NEW s, NEW o \in Nat, NEW n \in 0..FrameWin,
           NEW N \in Nat, NEW e \in Int, e <= N, NEW c \in Nat, c <= N, NEW d \in Nat, c <= d,
           Turn(s, o, n, N, e, c)
    PROVE  Turn(s, o, n, N + 1, e, d)
<1>1. FrameWin \in Nat /\ n \in Nat
  BY Windows
<1>2. CASE Handed(s.out, o) /\ o + n <= N + 1
  <2>1. o + n <= (N + 1) + 1
    BY <1>1, <1>2
  <2> QED BY <1>2, <2>1 DEF Turn
<1>3. CASE Stale(s, o, n, N, c)
  <2>1. n = 0 /\ N + 1 < o
    BY <1>3 DEF Stale
  <2>2. PICK b \in Nat : b % FrameMod = 0 /\ b <= c /\ o < b + FrameMod /\ Handed(s.out, b)
    BY <1>3 DEF Stale
  <2>3. CASE (N + 1) + 1 < o
    <3>1. b <= d
      BY <2>2
    <3>2. Stale(s, o, n, N + 1, d)
      BY <2>1, <2>2, <2>3, <3>1 DEF Stale
    <3> QED BY <3>2 DEF Turn
  <2>4. CASE ~((N + 1) + 1 < o)
    <3>1. b <= o /\ o + n <= (N + 1) + 1
      BY <1>1, <2>1, <2>2, <2>4
    <3>2. Handed(s.out, o)
      BY <2>2, <3>1, HandedLater
    <3> QED BY <3>1, <3>2 DEF Turn
  <2> QED BY <2>3, <2>4
<1> QED BY <1>2, <1>3 DEF Turn

\* The sender starts again, at a number 0.
LEMMA RestartTurn ==
    ASSUME Late \in Nat, NEW s, NEW o \in Nat, NEW n \in 0..FrameWin,
           NEW N \in Nat, NEW e \in Int, NEW c \in Nat, c <= N,
           Turn(s, o, n, N, e, c), \A k \in Slots : ~s.frameWin[k].running,
           NEW f, f = ((N \div FrameMod) + 1) * FrameMod
    PROVE  f \in Nat /\ N < f /\ \E p \in Nat : Turn(s, p, 0, f, f - 1, f)
<1>1. FrameWin \in Nat \ {0} /\ FrameMod \in Nat \ {0} /\ n \in Nat
  BY Windows
<1>2. PICK q \in Nat : q = N \div FrameMod /\ N = FrameMod * q + (N % FrameMod)
                       /\ N % FrameMod \in 0..(FrameMod - 1)
  <2>1. N \div FrameMod \in Nat /\ N = FrameMod * (N \div FrameMod) + (N % FrameMod)
        /\ N % FrameMod \in 0..(FrameMod - 1)
    BY <1>1
  <2> QED BY <2>1
<1>3. PICK g \in Nat : g = FrameMod * q
  BY <1>1, <1>2
<1>4. (q + 1) * FrameMod = FrameMod * q + FrameMod
  BY <1>1, <1>2
<1>5. f = g + FrameMod /\ f \in Nat /\ N < f /\ c < f
  BY <1>1, <1>2, <1>3, <1>4
<1>6. q + 1 \in Int /\ f = FrameMod * (q + 1)
  BY <1>1, <1>2, <1>3, <1>4, <1>5
<1>7. f % FrameMod = 0
  <2>1. f \in Int /\ 0 \in 0..(FrameMod - 1) /\ f = FrameMod * (q + 1) + 0
    BY <1>1, <1>5, <1>6
  <2> QED BY <1>1, <1>6, <2>1, ModUnique
<1>8. n = 0
  <2>1. SUFFICES ASSUME n # 0 PROVE FALSE
    OBVIOUS
  <2>2. o \in o..(o + FrameWin - 1) /\ o < o + n
    BY <1>1, <2>1
  <2>3. At(s, o).running
    BY <2>2 DEF Turn, Window, Holds
  <2>4. o % FrameWin \in Slots
    BY SlotIn
  <2> QED BY <2>3, <2>4 DEF At
<1>9. PICK b \in 0..(FrameMod - 1) : b = o % FrameMod
  BY NotNumbers
<1>10. PICK p \in Nat : p = f + b
  BY <1>5
<1>11. p % FrameMod = o % FrameMod
  <2>1. p \in Int /\ p = FrameMod * (q + 1) + b
    BY <1>1, <1>6, <1>10
  <2> QED BY <1>1, <1>6, <1>9, <2>1, ModUnique
<1>12. Window(s, p, 0)
  BY <1>8, <1>11, EmptyWindow DEF Turn
<1>13. Straight(p, 0)
  BY <1>1, <1>9, <1>11 DEF Straight
<1>14. Near(f - 1, p, 0)
  BY <1>1, <1>5, <1>9, <1>10 DEF Near
<1>15. Handed(s.out, f)
  <2>1. CASE Handed(s.out, o) /\ o + n <= N + 1
    <3>1. o <= f
      BY <1>5, <1>8, <2>1
    <3> QED BY <1>5, <2>1, <3>1, HandedLater
  <2>2. CASE Stale(s, o, n, N, c)
    <3>1. PICK a \in Nat : a <= c /\ Handed(s.out, a)
      BY <2>2 DEF Stale
    <3>2. a <= f
      BY <1>5, <3>1
    <3> QED BY <1>5, <3>1, <3>2, HandedLater
  <2> QED BY <2>1, <2>2 DEF Turn
<1>16. CASE p <= f + 1
  <2>1. f <= p
    BY <1>5, <1>9, <1>10
  <2>2. Handed(s.out, p) /\ p + 0 <= f + 1
    BY <1>5, <1>15, <1>16, <2>1, HandedLater
  <2>3. Turn(s, p, 0, f, f - 1, f)
    BY <1>12, <1>13, <1>14, <2>2 DEF Turn
  <2> QED BY <1>5, <2>3
<1>17. CASE ~(p <= f + 1)
  <2>1. f + 1 < p /\ f <= f /\ p < f + FrameMod
    BY <1>1, <1>5, <1>9, <1>10, <1>17
  <2>2. Stale(s, p, 0, f, f)
    BY <1>5, <1>7, <1>15, <2>1 DEF Stale
  <2>3. Turn(s, p, 0, f, f - 1, f)
    BY <1>12, <1>13, <1>14, <2>2 DEF Turn
  <2> QED BY <1>5, <2>3
<1> QED BY <1>16, <1>17

\* The next buffer of a frame has a number.
LEMMA NextBufNumber ==
    ASSUME NEW tx, SentOf(tx)
    PROVE  NextBuf(tx) \in Nat /\ Len(Chain(tx.frame)) \in Nat
<1>1. tx.frame \in Nat /\ tx.frags \in Seq(Piece)
  BY DEF SentOf, TX
<1>2. Len(Chain(tx.frame)) \in Nat
  BY <1>1, ChainFacts
<1>3. NextBuf(tx) \in Nat
  <2>0. PICK p : p = tx.frags /\ p \in Seq(Piece)
    BY <1>1
  <2>1. PICK n \in Nat : n = Len(p)
    BY <2>0, LenProperties
  <2>2. CASE p = <<>>
    BY <2>0, <2>2 DEF NextBuf
  <2>3. CASE p # <<>>
    <3>1. n \in 1..n
      BY <2>0, <2>1, <2>3, EmptySeq
    <3>2. p[n] \in Piece
      BY <2>0, <2>1, <3>1, ElementOfSeq
    <3>3. p[n].last \in Nat
      BY <3>2 DEF Piece
    <3> QED BY <2>0, <2>1, <2>3, <3>3 DEF NextBuf
  <2> QED BY <2>2, <2>3
<1> QED BY <1>2, <1>3

\* What is known stays known, and a receiver that is blank stays so: it keeps up
\* when the sender has gone on.
LEMMA TracksOn ==
    ASSUME NEW s, NEW q, NEW us, NEW r, NEW vs, Tracks(s, q, us),
           Knows(r, q), Follows(s, q, us) => Follows(s, r, vs)
    PROVE  Tracks(s, r, vs)
BY DEF Tracks, Knows

\* SendFragment.
LEMMA SendKeeps ==
    ASSUME Late \in Nat, NEW s, NEW q, NEW us, Flies(q), Tracks(s, q, us),
           NEW tx, tx = q[Len(q)], ~(NextBuf(tx) > Len(Chain(tx.frame))),
           NEW t, t = [frame |-> tx.frame,
                       frags |-> Append(tx.frags, Fragment(tx.frame, Len(tx.frags), NextBuf(tx)))],
           NEW r, LastPut(r, q, t)
    PROVE  Flies(r) /\ Tracks(s, r, us)
<1>1. Len(q) \in 1..Len(q)
  BY DEF Flies
<1>2. SentOf(tx)
  BY <1>1 DEF Flies
<1>3. NextBuf(tx) <= Len(Chain(tx.frame))
  <2>1. PICK a, b : a = NextBuf(tx) /\ b = Len(Chain(tx.frame)) /\ a \in Nat /\ b \in Nat
    BY <1>2, NextBufNumber
  <2> QED BY <2>1
<1>4. Continues(t, tx)
  BY <1>2, <1>3, SentMore, Zenon
<1>5. /\ Flies(r) /\ r[Len(r)].frame = q[Len(q)].frame
      /\ r[1].frame = q[1].frame /\ Knows(r, q)
  BY <1>4, FliesSend
<1>6. Follows(s, q, us) => Follows(s, r, us)
  BY <1>5 DEF Follows
<1> QED BY <1>5, <1>6, TracksOn

\* NewFrame.
LEMMA NewKeeps ==
    ASSUME Late \in Nat, Burst \in Nat, NEW s, NEW q, NEW us \in 0..Burst, Flies(q), Tracks(s, q, us),
           NEW f, f = q[Len(q)].frame + 1, NEW t, t = [frame |-> f, frags |-> <<>>],
           NEW p, Stays(p, q), NEW r, Joins(r, p, t), NEW vs, vs = us + 1
    PROVE  Flies(r) /\ Tracks(s, r, vs)
<1>1. PICK N, e, c, d : N = q[Len(q)].frame /\ e = N - us /\ c = q[1].frame /\ d = r[1].frame
  OBVIOUS
<1>2. N \in Nat /\ c \in Nat /\ c <= N
  BY <1>1, FliesNumbers
<1>3. f \in Nat /\ f = N + 1 /\ e \in Int /\ e <= N /\ f - vs = e
  <2>1. us \in Nat /\ f = N + 1 /\ e = N - us /\ vs = us + 1
    BY <1>1
  <2>2. \A a, b \in Nat : a + 1 \in Nat /\ a - b \in Int /\ a - b <= a /\ (a + 1) - (b + 1) = a - b
    OBVIOUS
  <2>3. N + 1 \in Nat /\ N - us \in Int /\ N - us <= N /\ (N + 1) - (us + 1) = N - us
    BY <1>2, <2>1, <2>2
  <2>4. f - vs = e
    BY <2>1, <2>3, Zenon
  <2> QED BY <2>1, <2>3, <2>4, Zenon
<1>4. SentOf(t) /\ t.frame = f
  BY <1>3, SentNone
<1>5. PICK m : Rest(q, p, m)
  BY RestOf
<1>6. /\ Flies(r) /\ r[Len(r)].frame = f /\ d \in Nat /\ c <= d
      /\ Knows(r, q)
  <2>1. f = q[Len(q)].frame + 1
    OBVIOUS
  <2>2. /\ Flies(r) /\ r[Len(r)].frame = f /\ r[1].frame \in Nat /\ q[1].frame <= r[1].frame
        /\ Knows(r, q)
    BY <1>3, <1>4, <1>5, <2>1, FliesNew
  <2> QED BY <1>1, <2>2
<1>7. ASSUME Follows(s, q, us) PROVE Follows(s, r, vs)
  <2>1. PICK o \in Nat, n \in 0..FrameWin : Turn(s, o, n, N, e, c)
    BY <1>1, <1>7 DEF Follows
  <2>2. Turn(s, o, n, N + 1, e, d)
    BY <1>2, <1>3, <1>6, <2>1, NewTurn
  <2>3. Turn(s, o, n, r[Len(r)].frame, r[Len(r)].frame - vs, r[1].frame)
    BY <1>1, <1>3, <1>6, <2>2
  <2> QED BY <2>3 DEF Follows
<1> QED BY <1>6, <1>7, TracksOn

\* The number 0 the sender starts at is that of a later frame.
LEMMA RestartNumber ==
    ASSUME NEW N \in Nat, NEW f, f = ((N \div FrameMod) + 1) * FrameMod
    PROVE  f \in Nat /\ N < f
<1>1. FrameMod \in Nat \ {0}
  BY Windows
<1>2. PICK q \in Nat : q = N \div FrameMod /\ N = FrameMod * q + (N % FrameMod)
                       /\ N % FrameMod \in 0..(FrameMod - 1)
  <2>1. N \div FrameMod \in Nat /\ N = FrameMod * (N \div FrameMod) + (N % FrameMod)
        /\ N % FrameMod \in 0..(FrameMod - 1)
    BY <1>1
  <2> QED BY <2>1
<1>3. PICK g \in Nat : g = FrameMod * q
  BY <1>1, <1>2
<1>4. (q + 1) * FrameMod = FrameMod * q + FrameMod
  BY <1>1, <1>2
<1> QED BY <1>1, <1>2, <1>3, <1>4

\* Restart.
LEMMA RestartKeeps ==
    ASSUME Late \in Nat, Burst \in Nat, Gentle, NEW s, NEW q, NEW us \in 0..Burst, Flies(q), Tracks(s, q, us),
           \A k \in Slots : ~s.frameWin[k].running,
           NEW f, f = ((q[Len(q)].frame \div FrameMod) + 1) * FrameMod,
           NEW t, t = [frame |-> f, frags |-> <<>>], NEW r, r = <<t>>
    PROVE  Flies(r) /\ Tracks(s, r, 1)
<1>1. PICK N, e, c : N = q[Len(q)].frame /\ e = N - us /\ c = q[1].frame
  OBVIOUS
<1>2. N \in Nat /\ c \in Nat /\ c <= N
  BY <1>1, FliesNumbers
<1>3. e \in Int
  <2>1. us \in Nat
    OBVIOUS
  <2> QED BY <1>1, <1>2, <2>1
<1>4. f \in Nat /\ N < f
  <2>1. f = ((N \div FrameMod) + 1) * FrameMod
    BY <1>1
  <2> QED BY <1>2, <2>1, RestartNumber
<1>5. /\ Flies(r) /\ Len(r) = 1 /\ r[1].frame = f
      /\ \A x : x.frame \in Nat /\ x.frame < f => KnownIn(x, r)
  BY <1>4, FliesAlone
<1>6. Knows(r, q)
  <2>1. \A n \in Nat : n <= N => n < f
    BY <1>2, <1>4
  <2>2. \A x : KnownIn(x, q) => x.frame \in Nat /\ x.frame <= N
    BY <1>1 DEF KnownIn
  <2> QED BY <1>5, <2>1, <2>2 DEF Knows
<1>7. ASSUME Follows(s, q, us) PROVE Follows(s, r, 1)
  <2>1. PICK o \in Nat, n \in 0..FrameWin : Turn(s, o, n, N, e, c)
    BY <1>1, <1>7 DEF Follows
  <2>2. f = ((N \div FrameMod) + 1) * FrameMod
    BY <1>1
  <2>3. PICK p \in Nat : Turn(s, p, 0, f, f - 1, f)
    BY <1>2, <1>3, <2>1, <2>2, RestartTurn
  <2>4. Turn(s, p, 0, r[Len(r)].frame, r[Len(r)].frame - 1, r[1].frame)
    BY <1>5, <2>3
  <2>5. 0 \in 0..FrameWin
    BY Windows
  <2> QED BY <2>4, <2>5 DEF Follows
<1> QED BY <1>5, <1>6, <1>7, TracksOn

\* The first frame.
LEMMA InitKeeps ==
    ASSUME Late \in Nat, NEW f \in Nat, NEW t, t = [frame |-> f, frags |-> <<>>], NEW r, r = <<t>>,
           NEW s, s = [oldestFrame |-> NoFrame, frameWin |-> [i \in 0..(FrameWin - 1) |-> EmptyFrame],
                       out |-> <<>>, panic |-> FALSE]
    PROVE  Flies(r) /\ Tracks(s, r, 1)
<1>1. Flies(r)
  BY FliesAlone
<1>2. EmptyFrame \in FrameSlot /\ Held(EmptyFrame) = {}
  <2>1. 0 \in Nat
    OBVIOUS
  <2> QED BY <2>1, EmptySlot DEF Collects, Gathers
<1>3. PICK w : w = [i \in Slots |-> EmptyFrame]
  OBVIOUS
<1>4. w \in [Slots -> FrameSlot] /\ \A k \in Slots : w[k] = EmptyFrame
  BY <1>2, <1>3
<1>5. s = [oldestFrame |-> NoFrame, frameWin |-> w, out |-> <<>>, panic |-> FALSE]
  BY <1>3 DEF Slots
<1>6. NoFrame \in Nat /\ <<>> \in Seq(Seq(Piece))
  BY NotNumbers
<1>7. Blank(s)
  <2>1. s.oldestFrame = NoFrame /\ s.frameWin = w /\ s.out = <<>> /\ s.panic = FALSE
    BY <1>5
  <2>2. FALSE \in BOOLEAN
    OBVIOUS
  <2>3. s \in Receiver
    BY <1>4, <1>5, <1>6, <2>2 DEF Receiver
  <2> QED BY <1>4, <2>1, <2>3, Zenon DEF Blank
<1>8. Kept(s) = {}
  BY <1>2, <1>7 DEF Kept, Blank
<1> QED BY <1>1, <1>7, <1>8 DEF Tracks

\* What follows processBuffer().
Answered(u, t) == t = IF u.panic THEN u ELSE releaseFrames(u, TRUE)

\* Receive.
LEMMA ReceiveKeeps ==
    ASSUME Late \in Nat, Burst \in Nat, Gentle, NEW q, Flies(q), NEW us \in 0..Burst,
           NEW s, Tracks(s, q, us), NEW i \in 1..Len(q), NEW g, FragmentOf(g, q[i]),
           NEW vs \in 0..Burst, Sees(vs, us, g, Len(q) - i),
           NEW u, u = processBuffer(s, g), NEW t, Answered(u, t)
    PROVE  Tracks(t, q, vs)
<1>4. Tracks(u, q, vs)
  BY ProcessTracks
<1>5. ~u.panic
  BY <1>4, TracksSound
<1>6. t = releaseFrames(u, TRUE)
  BY <1>5 DEF Answered
<1> QED
  <2>1. TRUE \in BOOLEAN
    OBVIOUS
  <2> QED BY <1>4, <1>6, <2>1, ReleaseTracks

\* Timeout.
LEMMA TimeoutKeeps ==
    ASSUME Late \in Nat, Burst \in Nat, NEW q, Flies(q), NEW us \in 0..Burst,
           NEW s, Tracks(s, q, us), s.oldestFrame # NoFrame,
           NEW u, u = releaseOldestFrame(s, FALSE), NEW t, t = releaseFrames(u, TRUE)
    PROVE  Tracks(t, q, us)
<1>1. PICK N, e, c : N = q[Len(q)].frame /\ e = q[Len(q)].frame - us /\ c = q[1].frame
  OBVIOUS
<1>2. N \in Nat /\ e \in Int /\ c \in Nat
  BY <1>1, FliesNumbers
<1>3. ~Blank(s)
  BY DEF Blank
<1>4. PICK o \in Nat, n \in 0..FrameWin : Turn(s, o, n, N, e, c)
  BY <1>1, <1>3 DEF Tracks, Follows
<1>5. Window(s, o, n)
  BY <1>4 DEF Turn
<1>6. PICK m : m = IF n = 0 THEN 0 ELSE 1
  OBVIOUS
<1>7. Moved(s, u, o, n, m)
  BY <1>5, <1>6, OldestMoves
<1>8. m \in 0..n
  BY <1>7 DEF Moved
<1>9. Turn(u, o + m, n - m, N, e, c)
  BY <1>2, <1>4, <1>7, <1>8, MovedTurn
<1>10. o + m \in Nat /\ n - m \in 0..FrameWin
  BY <1>8, Windows
<1>11. Follows(u, q, us)
  BY <1>1, <1>9, <1>10 DEF Follows
<1>12. Kept(u) \subseteq Kept(s)
  BY <1>7 DEF Moved
<1>13. Tracks(u, q, us)
  BY <1>11, <1>12 DEF Tracks
<1>14. TRUE \in BOOLEAN
  OBVIOUS
<1> QED BY <1>13, <1>14, ReleaseTracks

-----------------------------------------------------------------------------
(* The theorems.                                                           *)

\* The bounds are numbers.
LEMMA Bounds ==
    Late \in Nat /\ Burst \in Nat
BY BoundAssumption

\* The slots of a receiver that keeps up.
LEMMA TracksSlots ==
    ASSUME NEW s, NEW q, NEW us, Tracks(s, q, us)
    PROVE  s \in Receiver /\ DOMAIN s.frameWin = Slots
<1>1. s \in Receiver
  BY DEF Tracks, Blank, Follows, Turn, Window
<1> QED BY <1>1 DEF Receiver

\* At the start the receiver keeps up: nothing has been sent.
LEMMA InitInv ==
    ASSUME Gentle, Init
    PROVE  IInv
<1>1. Late \in Nat /\ Burst \in Nat /\ First \subseteq Nat
  BY Bounds, ChainAssumption
<1>2. PICK f \in First : sent = << [frame |-> f, frags |-> <<>>] >>
  BY DEF Init
<1>3. PICK t : t = [frame |-> f, frags |-> <<>>]
  OBVIOUS
<1>4. PICK r : r = sent /\ r = <<t>>
  BY <1>2, <1>3
<1>5. PICK s : s = dp
  OBVIOUS
<1>6. s = [oldestFrame |-> NoFrame, frameWin |-> [i \in 0..(FrameWin - 1) |-> EmptyFrame],
           out |-> <<>>, panic |-> FALSE]
  BY <1>5 DEF Init
<1>7. Flies(r) /\ Tracks(s, r, 1)
  BY <1>1, <1>3, <1>4, <1>6, InitKeeps
<1>8. unseen = 1 /\ 1 \in 0..Burst
  <2>1. unseen = 1
    BY DEF Init
  <2> QED BY <1>1, <2>1 DEF Gentle
<1> QED BY <1>4, <1>5, <1>7, <1>8 DEF IInv

\* IInv is kept by a step that leads to a state where the receiver keeps up.
LEMMA InvAfter ==
    ASSUME NEW s, NEW q, NEW us \in 0..Burst, dp' = s, sent' = q, unseen' = us, Flies(q), Tracks(s, q, us)
    PROVE  IInv'
BY DEF IInv

\* The sender sends a fragment.
LEMMA SendInv ==
    ASSUME IInv, SendFragment
    PROVE  IInv'
<1>1. PICK s : s = dp
  OBVIOUS
<1>2. PICK q : q = sent
  OBVIOUS
<1>3. PICK us \in 0..Burst : us = unseen
  BY DEF IInv
<1>4. Flies(q) /\ Tracks(s, q, us)
  BY <1>1, <1>2, <1>3 DEF IInv
<1>5. PICK tx : tx = q[Len(q)]
  OBVIOUS
<1>6. PICK t : t = [frame |-> tx.frame,
                    frags |-> Append(tx.frags, Fragment(tx.frame, Len(tx.frags), NextBuf(tx)))]
  OBVIOUS
<1>7. ~(NextBuf(tx) > Len(Chain(tx.frame)))
  BY <1>2, <1>5 DEF SendFragment, Done, Newest
<1>8. PICK r : r = [q EXCEPT ![Len(q)] = t]
  OBVIOUS
<1>9. sent' = r /\ dp' = s /\ unseen' = us
  BY <1>1, <1>2, <1>3, <1>5, <1>6, <1>8, Zenon DEF SendFragment
<1>10. Flies(r) /\ Tracks(s, r, us)
  <2>1. LastPut(r, q, t)
    BY <1>8 DEF LastPut
  <2> QED BY <1>4, <1>5, <1>6, <1>7, <2>1, Bounds, SendKeeps
<1> QED BY <1>9, <1>10, InvAfter

\* The sender goes on to the next frame.
LEMMA NewInv ==
    ASSUME IInv, NewFrame
    PROVE  IInv'
<1>1. PICK s : s = dp
  OBVIOUS
<1>2. PICK q : q = sent
  OBVIOUS
<1>3. PICK us \in 0..Burst : us = unseen
  BY DEF IInv
<1>4. Flies(q) /\ Tracks(s, q, us)
  BY <1>1, <1>2, <1>3 DEF IInv
<1>5. PICK f : f = q[Len(q)].frame + 1
  OBVIOUS
<1>6. PICK p : p = IF Len(q) > Late THEN Tail(q) ELSE q
  OBVIOUS
<1>7. PICK t : t = [frame |-> f, frags |-> <<>>]
  OBVIOUS
<1>8. PICK r : r = Append(p, t)
  OBVIOUS
<1>9. PICK vs : vs = us + 1
  OBVIOUS
<1>10. sent' = r /\ dp' = s /\ unseen' = vs
  BY <1>1, <1>2, <1>3, <1>5, <1>6, <1>7, <1>8, <1>9, Zenon DEF NewFrame, StartFrame, Newest
<1>11. vs \in 0..Burst
  <2>1. us < Burst
    BY <1>3 DEF NewFrame
  <2>2. Burst \in Nat
    BY Bounds
  <2> QED BY <1>9, <2>1, <2>2
<1>12. Flies(r) /\ Tracks(s, r, vs)
  <2>1. Joins(r, p, t) /\ Stays(p, q)
    BY <1>6, <1>8 DEF Joins, Stays
  <2> QED BY <1>4, <1>5, <1>7, <1>9, <2>1, Bounds, NewKeeps
<1> QED BY <1>10, <1>11, <1>12, InvAfter

\* The sender starts over.
LEMMA RestartInv ==
    ASSUME Gentle, IInv, Restart
    PROVE  IInv'
<1>1. PICK s : s = dp
  OBVIOUS
<1>2. PICK q : q = sent
  OBVIOUS
<1>3. PICK us \in 0..Burst : us = unseen
  BY DEF IInv
<1>4. Flies(q) /\ Tracks(s, q, us)
  BY <1>1, <1>2, <1>3 DEF IInv
<1>5. PICK f : f = ((q[Len(q)].frame \div FrameMod) + 1) * FrameMod
  OBVIOUS
<1>6. PICK t : t = [frame |-> f, frags |-> <<>>]
  OBVIOUS
<1>7. PICK r : r = <<t>>
  OBVIOUS
<1>8. Append(<<>>, t) = r
  BY <1>7
<1>9. sent' = r /\ dp' = s /\ unseen' = 1
  BY <1>1, <1>2, <1>5, <1>6, <1>8, Zenon DEF Restart, StartFrame, Newest
<1>10. \A k \in Slots : ~s.frameWin[k].running
  <2>1. DOMAIN s.frameWin = Slots
    BY <1>4, TracksSlots
  <2> QED BY <1>1, <2>1, Zenon DEF Restart
<1>11. 1 \in 0..Burst
  BY Bounds DEF Gentle
<1>12. Flies(r) /\ Tracks(s, r, 1)
  BY <1>4, <1>5, <1>6, <1>7, <1>10, Bounds, RestartKeeps
<1> QED BY <1>9, <1>11, <1>12, InvAfter

\* The receiver takes a fragment from the network.
LEMMA ReceiveInv ==
    ASSUME Gentle, IInv, NEW i \in DOMAIN sent, NEW k \in DOMAIN sent[i].frags, Receive(i, sent[i].frags[k])
    PROVE  IInv'
<1>1. PICK s : s = dp
  OBVIOUS
<1>2. PICK q : q = sent
  OBVIOUS
<1>3. PICK us \in 0..Burst : us = unseen
  BY DEF IInv
<1>4. Flies(q) /\ Tracks(s, q, us)
  BY <1>1, <1>2, <1>3 DEF IInv
<1>5. PICK g : g = q[i].frags[k]
  OBVIOUS
<1>6. Receive(i, g)
  BY <1>2, <1>5
<1>7. q \in Seq(TX) /\ Len(q) \in Nat /\ i \in 1..Len(q)
  <2>1. q \in Seq(TX)
    BY <1>4 DEF Flies
  <2> QED BY <1>2, <2>1, LenProperties
<1>8. k \in 1..Len(q[i].frags)
  <2>1. q[i] \in TX
    BY <1>7, ElementOfSeq
  <2>2. q[i].frags \in Seq(Piece)
    BY <2>1 DEF TX
  <2> QED BY <1>2, <2>2, LenProperties
<1>9. FragmentOf(g, q[i])
  BY <1>5, <1>8 DEF FragmentOf
<1>10. PICK u : u = processBuffer(s, g)
  OBVIOUS
<1>11. PICK t : t = IF u.panic THEN u ELSE releaseFrames(u, TRUE)
  OBVIOUS
<1>12. PICK vs : vs = IF g.frag < FragWin /\ Len(q) - i < us THEN Len(q) - i ELSE us
  OBVIOUS
<1>13. dp' = t /\ sent' = q /\ unseen' = vs
  BY <1>1, <1>2, <1>3, <1>6, <1>10, <1>11, <1>12, Zenon DEF Receive
<1>14. vs \in 0..Burst /\ Sees(vs, us, g, Len(q) - i)
  <2>1. vs = us \/ (g.frag < FragWin /\ vs = Len(q) - i /\ Len(q) - i < us)
    BY <1>12
  <2>2. Len(q) - i \in Nat /\ (Len(q) - i < us => Len(q) - i \in 0..Burst)
    BY <1>7, Bounds
  <2> QED BY <2>1, <2>2 DEF Sees
<1>15. Tracks(t, q, vs)
  <2>1. Answered(u, t)
    BY <1>11 DEF Answered
  <2> QED BY <1>4, <1>7, <1>9, <1>10, <1>14, <2>1, Bounds, ReceiveKeeps
<1> QED BY <1>4, <1>13, <1>14, <1>15, InvAfter

\* The timeout of the oldest frame expires.
LEMMA TimeoutInv ==
    ASSUME IInv, Timeout
    PROVE  IInv'
<1>1. PICK s : s = dp
  OBVIOUS
<1>2. PICK q : q = sent
  OBVIOUS
<1>3. PICK us \in 0..Burst : us = unseen
  BY DEF IInv
<1>4. Flies(q) /\ Tracks(s, q, us)
  BY <1>1, <1>2, <1>3 DEF IInv
<1>5. PICK u : u = releaseOldestFrame(s, FALSE)
  OBVIOUS
<1>6. PICK t : t = releaseFrames(u, TRUE)
  OBVIOUS
<1>7. s.oldestFrame # NoFrame
  BY <1>1 DEF Timeout
<1>8. dp' = t /\ sent' = q /\ unseen' = us
  BY <1>1, <1>2, <1>3, <1>5, <1>6 DEF Timeout
<1>9. Tracks(t, q, us)
  BY <1>4, <1>5, <1>6, <1>7, Bounds, TimeoutKeeps
<1> QED BY <1>4, <1>8, <1>9, InvAfter

\* IInv is inductive when the network is gentle: one step for each action.
LEMMA StepInv ==
    ASSUME Gentle, IInv, [Next]_vars
    PROVE  IInv'
<1>1. CASE SendFragment
  BY <1>1, SendInv
<1>2. CASE NewFrame
  BY <1>2, NewInv
<1>3. CASE Restart
  BY <1>3, RestartInv
<1>4. CASE Timeout
  BY <1>4, TimeoutInv
<1>5. CASE \E i \in DOMAIN sent : \E k \in DOMAIN sent[i].frags : Receive(i, sent[i].frags[k])
  BY <1>5, ReceiveInv
<1>6. CASE UNCHANGED vars
  BY <1>6 DEF IInv, vars
<1> QED BY <1>1, <1>2, <1>3, <1>4, <1>5, <1>6 DEF Next

\* The receiver keeps up with the sender, whatever fragments are lost, repeated and
\* overtaken: IInv is an invariant when the network is gentle.
THEOREM ReceiverKeepsUp == Gentle => (Spec => []IInv)
<1>1. SUFFICES ASSUME Gentle PROVE Spec => []IInv
  OBVIOUS
<1>2. Init => IInv
  BY <1>1, InitInv
<1>3. IInv /\ [Next]_vars => IInv'
  BY <1>1, StepInv
<1> QED BY <1>2, <1>3, PTL DEF Spec

\* "Frame ID window inconsistency!" is never thrown: the number of a fragment that
\* processBuffer() accepts never differs from that of the frame in its slot.
THEOREM NoInconsistency == Gentle => (Spec => []NeverInconsistent)
<1>1. IInv => NeverInconsistent
  BY TracksSound DEF IInv, NeverInconsistent
<1> QED BY <1>1, ReceiverKeepsUp, PTL

\* A receiver that keeps up has its window in order.
LEMMA TracksInOrder ==
    ASSUME IInv
    PROVE  WindowInOrder
<1>1. PICK s : s = dp
  OBVIOUS
<1>2. Tracks(s, sent, unseen)
  BY <1>1 DEF IInv
<1>3. FrameWin \in Nat \ {0}
  BY Windows
<1>4. CASE Blank(s)
  <2>1. ASSUME NEW i \in 0..(FrameWin - 1)
        PROVE  ~s.frameWin[i].running /\ ~Slot(s, i).running /\ Slot(s, i) = EmptyFrame
    <3>1. ~EmptyFrame.running
      <4>1. 0 \in Nat
        OBVIOUS
      <4> QED BY <4>1, EmptySlot
    <3>2. s.frameWin[i] = EmptyFrame
      BY <1>4, <2>1 DEF Blank, Slots
    <3>3. PICK m \in Nat : m = NoFrame + i
      BY <1>3, NotNumbers
    <3>4. m % FrameWin \in Slots
      BY SlotIn
    <3>5. Slot(s, i) = EmptyFrame
      BY <1>4, <3>3, <3>4 DEF Slot, toFrameIdx, Blank
    <3> QED BY <3>1, <3>2, <3>5
  <2>2. s.oldestFrame = NoFrame /\ 0 \in 0..FrameWin
    BY <1>3, <1>4 DEF Blank
  <2> QED BY <1>1, <2>1, <2>2 DEF WindowInOrder
<1>5. CASE \E o \in Nat, n \in 0..FrameWin : Window(s, o, n)
  <2>1. PICK o \in Nat, n \in 0..FrameWin : Window(s, o, n)
    BY <1>5
  <2>2. s.oldestFrame # NoFrame /\ s.oldestFrame = o % FrameMod
    BY <2>1, WindowNumbered DEF Window
  <2>3. ASSUME NEW i \in 0..(FrameWin - 1)
        PROVE  /\ Slot(s, i).running <=> i < n
               /\ IF Slot(s, i).running
                  THEN Slot(s, i).frameID \in {NoFrame, moduloFrameSz(s.oldestFrame + i)}
                  ELSE Slot(s, i) = EmptyFrame
    <3>1. i \in Nat
      OBVIOUS
    <3>2. Slot(s, i) = At(s, o + i) /\ moduloFrameSz(s.oldestFrame + i) = (o + i) % FrameMod
      BY <2>2, <3>1, SlotAt
    <3>3. PICK f : f = o + i
      OBVIOUS
    <3>4. f \in o..(o + FrameWin - 1) /\ (f < o + n <=> i < n)
      BY <1>3, <3>1, <3>3
    <3>5. Holds(s, f, o + n)
      BY <2>1, <3>4 DEF Window
    <3>6. /\ At(s, f).running <=> f < o + n
          /\ ~At(s, f).running => At(s, f) = EmptyFrame
          /\ At(s, f).frameID \in {NoFrame, f % FrameMod}
      BY <3>5 DEF Holds, Collects
    <3> QED BY <3>2, <3>3, <3>4, <3>6
  <2> QED BY <1>1, <2>2, <2>3 DEF WindowInOrder
<1> QED BY <1>2, <1>4, <1>5 DEF Tracks, Follows, Turn

\* The timeouts of the oldest frames run, without a gap, and every slot in use
\* holds the frame whose turn it is.
THEOREM WindowStaysInOrder == Gentle => (Spec => []WindowInOrder)
<1>1. IInv => WindowInOrder
  BY TracksInOrder
<1> QED BY <1>1, ReceiverKeepsUp, PTL

\* A receiver that keeps up has handed down whole frames, in order.
LEMMA TracksIntact ==
    ASSUME IInv
    PROVE  FramesIntact
<1>1. Tracks(dp, sent, unseen)
  BY DEF IInv
<1>2. \E b : Handed(dp.out, b)
  <2>1. CASE Blank(dp)
    BY <2>1, HandedNone DEF Blank
  <2>2. CASE Follows(dp, sent, unseen)
    BY <2>2 DEF Follows, Turn, Stale
  <2> QED BY <1>1, <2>1, <2>2 DEF Tracks
<1> QED BY <1>2 DEF Handed, FramesIntact

\* pushDown() hands over whole frames, each as it was pushed at the other end, in
\* the order in which they were sent and none of them twice.
THEOREM FramesStayIntact == Gentle => (Spec => []FramesIntact)
<1>1. IInv => FramesIntact
  BY TracksIntact
<1> QED BY <1>1, ReceiverKeepsUp, PTL

=============================================================================
