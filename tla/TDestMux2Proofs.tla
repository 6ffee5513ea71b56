--------------------------- MODULE TDestMux2Proofs ---------------------------
(***************************************************************************)
(* Proofs about TDestMux2, for any number of ports and of programs that    *)
(* use them, and whatever RSSI loses: frames arrive in order, and a frame  *)
(* that is not whole has lost two fragments or more in a row; what can     *)
(* stay behind in the queue of a port that nobody has open is bounded, and *)
(* in queues that are deep enough it stalls nothing.                       *)
(***************************************************************************)
EXTENDS TDestMux2, TLAPS, SequenceTheorems, WellFoundedInduction, FiniteSetTheorems

-----------------------------------------------------------------------------
(* Frames arrive in order.  A cursor is a place in the stream of           *)
(* a port: behind buffer e of frame n, where the fragment with number k    *)
(* comes next.                                                             *)

\* The frame and the first and last buffer of a fragment.
Frame(g) == g.bufs[1].frame
First(g) == g.bufs[1].buf
End(g)   == First(g) + Len(g.bufs) - 1

\* Where fragment g begins, and where it ends.
At(g)  == [n |-> Frame(g), e |-> First(g) - 1, k |-> g.no]
Cur(g) == IF g.eof THEN [n |-> Frame(g) + 1, e |-> 0, k |-> 0]
                   ELSE [n |-> Frame(g), e |-> End(g), k |-> (g.no + 1) % FragMod]

\* Where the assembly a ends, if it is not empty.
CurA(a) == [n |-> a.bufs[1].frame, e |-> Len(a.bufs), k |-> (a.fragNo + 1) % FragMod]

\* Buffers a to b of frame n of port p.
Piece(p, n, a, b) == SubSeq(Chain(p, n), a, b)
Total(p, n)       == Len(Chain(p, n))

Buf      == [port : Ports, frame : Nat, buf : Nat, size : Nat]
Fragment == [dest : Ports, no : 0..(FragMod - 1), sof : BOOLEAN, eof : BOOLEAN, bufs : Seq(Buf)]
Assembly == [bufs : Seq(Buf), fragNo : Nat]

\* A fragment that sendFrag() made.
Valid(g) ==
    /\ g \in Fragment /\ Frame(g) \in Nat \ {0}
    /\ First(g) \in 1..Total(g.dest, Frame(g)) /\ End(g) \in First(g)..Total(g.dest, Frame(g))
    /\ g.bufs = Piece(g.dest, Frame(g), First(g), End(g))
    /\ g.sof <=> First(g) = 1
    /\ g.sof => g.no = 0
    /\ g.eof <=> End(g) = Total(g.dest, Frame(g))
AllValid(f) == \A i \in 1..Len(f) : Valid(f[i])

\* Buffers x of port p that begin as one of the frames T does, which are torn.
Torn(T, p, x) ==
    /\ x[1].frame \in T /\ x[1] = Chain(p, x[1].frame)[1]
    /\ \A j \in 1..Len(x) : x[j].port = p

\* The first part of a frame of port p, or something torn.
Begun(T, p, a) ==
    a.bufs # <<>> =>
        /\ a.bufs[1].frame \in Nat \ {0}
        /\ \/ /\ Len(a.bufs) \in 1..(Total(p, a.bufs[1].frame) - 1)
              /\ a.bufs = Piece(p, a.bufs[1].frame, 1, Len(a.bufs))
           \/ Torn(T, p, a.bufs)

\* What may arrive as a frame of port p.
Good(T, p, x) ==
    /\ x[1].frame \in Nat
    /\ x = Chain(p, x[1].frame) \/ Torn(T, p, x)

\* Of the fragments f: the next one after i with its port is j, the first and the
\* last one with its port, and no one with port p.
Adj(f, i, j)  == i < j /\ f[i].dest = f[j].dest /\ \A k \in (i + 1)..(j - 1) : f[k].dest # f[i].dest
IsFirst(f, j) == \A k \in 1..(j - 1) : f[k].dest # f[j].dest
IsLast(f, i)  == \A k \in (i + 1)..Len(f) : f[k].dest # f[i].dest
Absent(f, p)  == \A k \in 1..Len(f) : f[k].dest # p

\* From c on the next fragment that was not lost begins at d: they fit together, or
\* the gap shows, for a frame begins at d or the number does not fit, or the frame
\* at c is among those that are torn, T, or it ends at c.
Step(T, c, d) == c = d \/ c.n \in T \/ c.e = 0 \/ d.e = 0 \/ d.k # c.k

\* After c nothing has come yet that was not lost, and the sender is at w.
Due(t, c, w) ==
    \/ c.e = 0 \/ c.n \in t.torn
    \/ t.open = c.n /\ (IF t.gap THEN w.e = 0 \/ w.k # c.k ELSE c = w)

\* From the assemblies a of the ports through the fragments f under way to the
\* places w where the sender is, nothing is missing but what was lost, which left
\* the trails t.
Linked(f, a, w, t) ==
    /\ \A i, j \in 1..Len(f) :
          Adj(f, i, j) => Step(t[f[i].dest].torn, Cur(f[i]), At(f[j]))
    /\ \A j \in 1..Len(f) : IsFirst(f, j) /\ a[f[j].dest].bufs # <<>> =>
          Step(t[f[j].dest].torn, CurA(a[f[j].dest]), At(f[j]))
    /\ \A i \in 1..Len(f) : IsLast(f, i) => Due(t[f[i].dest], Cur(f[i]), w[f[i].dest])
    /\ \A p \in Ports : Absent(f, p) /\ a[p].bufs # <<>> => Due(t[p], CurA(a[p]), w[p])

\* No fragment is ahead of a later one or of the sender.
InOrder(f, w) ==
    /\ \A i, j \in 1..Len(f) : i < j /\ f[i].dest = f[j].dest => Cur(f[i]).n <= Frame(f[j])
    /\ \A i \in 1..Len(f) : Cur(f[i]).n <= w[f[i].dest].n

\* Frame n of port p is behind everything that is still to come.
Behind(f, a, w, p, n) ==
    /\ \A j \in 1..Len(f) : f[j].dest = p => n < Frame(f[j])
    /\ a[p].bufs # <<>> => n < a[p].bufs[1].frame
    /\ n < w[p].n

\* What has begun to arrive at port p is of a frame that nothing still to come is
\* before.
Latest(f, a, w, p) == a[p].bufs # <<>> => Behind(f, a, w, p, a[p].bufs[1].frame - 1)

\* The frames h that have arrived at port p, the last one read being frame m, are
\* good, in order and behind everything that is still to come.
Arrived(T, h, m, f, a, w, p) ==
    /\ Behind(f, a, w, p, m)
    /\ \A i \in 1..Len(h) :
          /\ Good(T, p, h[i])
          /\ m < h[i][1].frame /\ Behind(f, a, w, p, h[i][1].frame)
    /\ \A i, j \in 1..Len(h) : i < j => h[i][1].frame < h[j][1].frame

\* The frame that port p sends: the last of those that have left the input queue.
Sending(p) == prod[p].pushed - Len(inq[p])

\* Where the sender is in the stream of port p.
CurW(p) ==
    IF work[p].bc # <<>>
    THEN [n |-> Sending(p), e |-> work[p].bc[1].buf - 1, k |-> work[p].fragNo % FragMod]
    ELSE [n |-> Sending(p) + 1, e |-> 0, k |-> 0]

\* Where the next fragment begins that RSSI may be given.
Places == [p \in Ports |-> IF mux.pc = "push" /\ mux.frag.dest = p THEN At(mux.frag)
                                                                 ELSE CurW(p)]

\* The fragment in hand is made of what precedes that place.
InHand == mux.pc = "push" => Valid(mux.frag) /\ Cur(mux.frag) = CurW(mux.frag.dest)

\* What port p of the sender has in hand: the frames that were pushed, one after
\* another, and the rest of one of them.
Supply(p) ==
    /\ Len(inq[p]) \in 0..prod[p].pushed
    /\ \A i \in 1..Len(inq[p]) : inq[p][i] = Chain(p, Sending(p) + i)
    /\ work[p].bc # <<>> =>
          /\ Sending(p) \in Nat \ {0} /\ work[p].fragNo \in Nat \ {0}
          /\ work[p].bc[1].buf \in 2..Total(p, Sending(p))
          /\ work[p].bc = Piece(p, Sending(p), work[p].bc[1].buf, Total(p, Sending(p)))

\* The types of the variables.
MuxState == [pc : {"turn", "wait", "push"}, current : Nat, noWorkCount : Nat,
             frag : Fragment \cup {NoFrag}]
RxState  == [pc : {"pop", "push", "isOpen", "tryPop", "restore"}, port : Ports \cup {NoPort},
             frame : Seq(Buf)]
TrailState == [open : Nat, gap : BOOLEAN, torn : SUBSET Nat]
MuxTypes ==
    /\ prod \in [Ports -> [pushed : Nat, notify : BOOLEAN]]
    /\ inq \in [Ports -> Seq(Seq(Buf))]
    /\ work \in [Ports -> [bc : Seq(Buf), fragNo : Nat]]
    /\ mux \in MuxState
    /\ mux.pc = "push" => mux.frag \in Fragment
    /\ link \in Seq(Fragment) /\ lost \in Nat
    /\ trail \in [Ports -> TrailState]
    /\ asm \in [Ports -> Assembly]
    /\ rx \in RxState
    /\ outq \in [Ports -> Seq(Seq(Buf))] /\ last \in [Ports -> Nat]

Carried ==
    /\ MuxTypes /\ InHand
    /\ AllValid(link) /\ Linked(link, asm, Places, trail) /\ InOrder(link, Places)
    /\ \A p \in Ports :
          /\ Supply(p) /\ Begun(trail[p].torn, p, asm[p]) /\ Latest(link, asm, Places, p)
          /\ Arrived(trail[p].torn, Handed(p), last[p], link, asm, Places, p)

-----------------------------------------------------------------------------
(* Chains and their sizes.                                                 *)

\* A set of numbers that is not empty has a least one.
LEMMA Least ==
    ASSUME NEW S, S \subseteq Nat, S # {}
    PROVE  \E i \in S : \A j \in S : i <= j
<1>1. PICK i \in S : \A j \in S : ~(<<j, i>> \in OpToRel(<, Nat))
  BY NatLessThanWellFounded, WFMin
<1>2. \A a, b \in Nat : a < b => <<a, b>> \in OpToRel(<, Nat)
  BY Zenon DEF OpToRel
<1>3. \A j \in S : j \in Nat /\ i \in Nat /\ ~(j < i)
  BY <1>1, <1>2, Zenon
<1> QED BY <1>3

\* What the definition of Size() asks of a function on 0..n.
Sums(bc, n, g) == g = [k \in 0..n |-> IF k = 0 THEN 0 ELSE g[k - 1] + bc[k].size]

\* There is one.
LEMMA SumsExist ==
    ASSUME NEW bc, NEW n \in Nat
    PROVE  \E g : Sums(bc, n, g)
<1> DEFINE S == {m \in Nat : ~ \E g : Sums(bc, m, g)}
<1> SUFFICES ASSUME S # {} PROVE FALSE
  OBVIOUS
<1>1. PICK m \in S : \A j \in S : m <= j
  BY Least
<1>2. m \in Nat /\ ~ \E g : Sums(bc, m, g)
  OBVIOUS
<1>3. CASE m = 0
  <2> DEFINE g == [k \in 0..0 |-> 0]
  <2>1. Sums(bc, 0, g)
    BY DEF Sums
  <2> QED BY <1>2, <1>3, <2>1
<1>4. CASE m # 0
  <2>1. m - 1 \in Nat /\ ~(m <= m - 1)
    BY <1>2, <1>4
  <2>2. PICK h : Sums(bc, m - 1, h)
    BY <1>1, <2>1
  <2> DEFINE g == [k \in 0..m |-> IF k = m THEN h[m - 1] + bc[m].size ELSE h[k]]
  <2>3. \A k \in 0..m : g[k] = IF k = 0 THEN 0 ELSE g[k - 1] + bc[k].size
    <3> TAKE k \in 0..m
    <3>1. \A l \in 0..(m - 1) : h[l] = IF l = 0 THEN 0 ELSE h[l - 1] + bc[l].size
      BY <2>2 DEF Sums
    <3>2. CASE k = m
      BY <1>2, <1>4, <3>2
    <3>3. CASE k # m
      <4>1. k \in 0..(m - 1) /\ (k # 0 => k - 1 \in 0..m /\ k - 1 # m)
        BY <1>2, <3>3
      <4> QED BY <3>1, <3>3, <4>1
    <3> QED BY <3>2, <3>3
  <2>4. DOMAIN g = 0..m /\ g = [k \in 0..m |-> g[k]]
    OBVIOUS
  <2> HIDE DEF g
  <2>5. Sums(bc, m, g)
    BY <2>3, <2>4 DEF Sums
  <2> QED BY <1>2, <2>5
<1> QED BY <1>3, <1>4

\* It counts.
LEMMA SumsNat ==
    ASSUME NEW bc, NEW n \in Nat, NEW g, Sums(bc, n, g), \A k \in 1..n : bc[k].size \in Nat
    PROVE  /\ \A k \in 0..n : g[k] \in Nat
           /\ g[0] = 0 /\ (n >= 1 => g[1] = bc[1].size)
<1>0. \A k \in 0..n : g[k] = IF k = 0 THEN 0 ELSE g[k - 1] + bc[k].size
  BY DEF Sums
<1>1. \A k \in 0..n : g[k] \in Nat
  <2> DEFINE S == {k \in 0..n : g[k] \notin Nat}
  <2> SUFFICES ASSUME S # {} PROVE FALSE
    OBVIOUS
  <2>1. S \subseteq Nat
    OBVIOUS
  <2>2. PICK k \in S : \A j \in S : k <= j
    <3> HIDE DEF S
    <3> QED BY <2>1, Least
  <2>3. k \in 0..n /\ k # 0
    BY <1>0
  <2>4. k - 1 \in 0..n /\ ~(k <= k - 1) /\ k \in 1..n
    BY <2>3
  <2>5. g[k - 1] \in Nat
    BY <2>2, <2>4
  <2> QED BY <1>0, <2>3, <2>4, <2>5
<1>2. g[0] = 0
  BY <1>0
<1>3. ASSUME n >= 1 PROVE g[1] = bc[1].size
  <2>1. 1 \in 0..n /\ 1 \in 1..n /\ 1 - 1 = 0
    BY <1>3
  <2>2. g[1] = g[0] + bc[1].size /\ bc[1].size \in Nat
    BY <1>0, <2>1
  <2> QED BY <1>2, <2>2
<1> QED BY <1>1, <1>2, <1>3

\* Size() of the first n buffers is a number, that of one buffer its own.
LEMMA SizeNat ==
    ASSUME NEW bc, NEW n \in Nat, \A k \in 1..n : bc[k].size \in Nat
    PROVE  Size(bc, n) \in Nat /\ (n = 1 => Size(bc, n) = bc[1].size)
<1> DEFINE g == CHOOSE h : Sums(bc, n, h)
<1>1. Size(bc, n) = g[n]
  BY DEF Size, Sums
<1>2. Sums(bc, n, g)
  BY SumsExist
<1> HIDE DEF g
<1>3. /\ \A k \in 0..n : g[k] \in Nat
      /\ (n >= 1 => g[1] = bc[1].size)
  BY <1>2, SumsNat
<1>4. n \in 0..n /\ (n = 1 => n >= 1)
  OBVIOUS
<1> QED BY <1>1, <1>3, <1>4

\* A fragment has a buffer at least: sendFrag() does not throw.
LEMMA FragLenBound ==
    ASSUME NEW bc \in Seq(Buf), bc # <<>>, \A k \in 1..Len(bc) : bc[k].size <= Mtu
    PROVE  FragLen(bc) \in 1..Len(bc)
<1>0. /\ Len(bc) \in Nat \ {0} /\ Mtu \in Nat
      /\ \A k \in 1..Len(bc) : bc[k].size \in Nat
  <2>1. Len(bc) \in Nat \ {0} /\ Mtu \in Nat
    BY EmptySeq, ChainAssumption
  <2>2. \A k \in 1..Len(bc) : bc[k] \in Buf
    BY ElementOfSeq
  <2>3. \A x \in Buf : x.size \in Nat
    BY DEF Buf
  <2> QED BY <2>1, <2>2, <2>3
<1>1. \A n \in 0..Len(bc) : Size(bc, n) \in Nat /\ (n = 1 => Size(bc, n) = bc[1].size)
  <2> TAKE n \in 0..Len(bc)
  <2>1. n \in Nat /\ \A k \in 1..n : bc[k].size \in Nat
    BY <1>0
  <2> QED BY <2>1, SizeNat
<1>2. CASE Size(bc, Len(bc)) <= Mtu
  BY <1>0, <1>2 DEF FragLen
<1>3. CASE ~(Size(bc, Len(bc)) <= Mtu)
  <2> DEFINE S == {j \in 1..(Len(bc) - 1) : Size(bc, j + 1) > Mtu}
  <2>1. Len(bc) # 1
    BY <1>0, <1>1, <1>3
  <2>2. Len(bc) - 1 \in S
    <3>0. \A l \in Nat \ {0} : l # 1 => l - 1 \in 1..(l - 1) /\ (l - 1) + 1 = l
      OBVIOUS
    <3>1. Len(bc) - 1 \in 1..(Len(bc) - 1) /\ (Len(bc) - 1) + 1 = Len(bc)
      BY <1>0, <2>1, <3>0, Zenon
    <3>2. Size(bc, Len(bc)) \in Nat
      BY <1>0, <1>1
    <3>3. Size(bc, Len(bc)) > Mtu
      BY <1>0, <1>3, <3>2
    <3> QED BY <3>1, <3>3
  <2>3. PICK j \in S : \A i \in S : j <= i
    <3>1. S \subseteq Nat
      OBVIOUS
    <3> HIDE DEF S
    <3> QED BY <2>2, <3>1, Least
  <2>4. j \in 1..(Len(bc) - 1) /\ Size(bc, j + 1) > Mtu
    OBVIOUS
  <2>5. Size(bc, j) <= Mtu
    <3>1. CASE j = 1
      BY <1>0, <1>1, <3>1
    <3>2. CASE j # 1
      <4>1. j - 1 \in 1..(Len(bc) - 1) /\ (j - 1) + 1 = j /\ ~(j <= j - 1) /\ j \in 0..Len(bc)
        BY <1>0, <2>4, <3>2
      <4>2. ~(Size(bc, j) > Mtu) /\ Size(bc, j) \in Nat
        BY <1>1, <2>3, <4>1
      <4> QED BY <1>0, <4>2
    <3> QED BY <3>1, <3>2
  <2>6. FragLen(bc) = CHOOSE i \in 1..(Len(bc) - 1) : Size(bc, i) <= Mtu /\ Size(bc, i + 1) > Mtu
    BY <1>3 DEF FragLen
  <2>7. FragLen(bc) \in 1..(Len(bc) - 1)
    BY <2>4, <2>5, <2>6
  <2> QED BY <1>0, <2>7
<1> QED BY <1>2, <1>3

\* A frame is a chain of at least one buffer, each of which knows its place.
LEMMA ChainFacts ==
    ASSUME NEW p \in Ports, NEW n \in Nat
    PROVE  /\ Chain(p, n) \in Seq(Buf) /\ Total(p, n) \in Nat \ {0}
           /\ \A i \in 1..Total(p, n) :
                 /\ Chain(p, n)[i].port = p /\ Chain(p, n)[i].frame = n
                 /\ Chain(p, n)[i].buf = i /\ Chain(p, n)[i].size <= Mtu
<1> DEFINE c == Chains[((p + n) % Len(Chains)) + 1]
<1>1. c \in Seq(0..Mtu) /\ c # <<>> /\ Mtu \in Nat
  <2>1. Len(Chains) \in Nat \ {0} /\ DOMAIN Chains = 1..Len(Chains)
    BY ChainAssumption, EmptySeq, LenProperties
  <2>2. p + n \in Nat
    BY MuxAssumption DEF Ports
  <2>3. (p + n) % Len(Chains) \in 0..(Len(Chains) - 1)
    BY <2>1, <2>2
  <2>4. ((p + n) % Len(Chains)) + 1 \in 1..Len(Chains)
    BY <2>1, <2>3
  <2> QED BY <2>1, <2>4, ChainAssumption, ElementOfSeq
<1> HIDE DEF c
<1>2. Len(c) \in Nat \ {0} /\ DOMAIN c = 1..Len(c) /\ \A i \in 1..Len(c) : c[i] \in 0..Mtu
  BY <1>1, EmptySeq, LenProperties, ElementOfSeq
<1>3. Chain(p, n) = [i \in 1..Len(c) |-> [port |-> p, frame |-> n, buf |-> i, size |-> c[i]]]
  BY <1>2 DEF Chain, c
<1>4. \A i \in 1..Len(c) : [port |-> p, frame |-> n, buf |-> i, size |-> c[i]] \in Buf
  BY <1>1, <1>2 DEF Buf
<1>5. Chain(p, n) \in Seq(Buf) /\ Len(Chain(p, n)) = Len(c)
  BY <1>2, <1>3, <1>4
<1> QED BY <1>1, <1>2, <1>3, <1>5 DEF Total

-----------------------------------------------------------------------------
(* Fragment numbers.                                                       *)

\* Counting on from a remainder.
LEMMA ModNext ==
    ASSUME NEW m \in Nat, m > 1, NEW a \in Nat
    PROVE  /\ a % m \in 0..(m - 1)
           /\ ((a % m) + 1) % m = (a + 1) % m
           /\ ((a % m) + 1) % m # a % m
<1> DEFINE r == a % m
           q == a \div m
<1>1. r \in 0..(m - 1) /\ q \in Int /\ a = m * q + r
  OBVIOUS
<1> HIDE DEF r, q
<1>2. \A b \in Int, x \in Int, y \in 0..(m - 1) : b = m * x + y => b % m = y
  OBVIOUS
<1>3. CASE r + 1 = m
  <2>1. a + 1 \in Int /\ q + 1 \in Int /\ 0 \in 0..(m - 1) /\ r + 1 \in Int /\ 1 \in Int
    BY <1>1
  <2>2. a + 1 = m * (q + 1) + 0 /\ r + 1 = m * 1 + 0
    <3>1. m * (q + 1) = m * q + m /\ m * 1 = m /\ m * q \in Int
      BY <1>1
    <3> QED BY <1>1, <1>3, <3>1
  <2>3. (a + 1) % m = 0 /\ (r + 1) % m = 0
    BY <1>2, <2>1, <2>2
  <2>4. r # 0
    BY <1>1, <1>3
  <2> QED BY <1>1, <2>3, <2>4 DEF r
<1>4. CASE r + 1 # m
  <2>1. a + 1 \in Int /\ r + 1 \in 0..(m - 1) /\ r + 1 \in Int /\ 0 \in Int
    BY <1>1, <1>4
  <2>2. a + 1 = m * q + (r + 1) /\ r + 1 = m * 0 + (r + 1)
    <3>1. m * q \in Int /\ m * 0 = 0
      BY <1>1
    <3> QED BY <1>1, <3>1
  <2>3. (a + 1) % m = r + 1 /\ (r + 1) % m = r + 1
    BY <1>1, <1>2, <2>1, <2>2
  <2> QED BY <1>1, <2>3 DEF r
<1> QED BY <1>3, <1>4

\* Numbers that follow each other differ, and those of an assembly count along.
LEMMA Numbers ==
    /\ \A k \in 0..(FragMod - 1) : (k + 1) % FragMod # k /\ (k + 1) % FragMod \in 0..(FragMod - 1)
    /\ \A k \in Nat : ((k % FragMod) + 1) % FragMod = (k + 1) % FragMod /\ k % FragMod \in 0..(FragMod - 1)
    /\ 0 % FragMod = 0
<1>1. FragMod \in Nat /\ FragMod > 1
  BY MuxAssumption
<1>2. \A k \in 0..(FragMod - 1) : k \in Nat /\ k % FragMod = k
  BY <1>1
<1>3. \A k \in Nat : /\ k % FragMod \in 0..(FragMod - 1)
                     /\ ((k % FragMod) + 1) % FragMod = (k + 1) % FragMod
                     /\ ((k % FragMod) + 1) % FragMod # k % FragMod
  BY <1>1, ModNext
<1>4. \A k \in Nat : k + 1 \in Nat
  OBVIOUS
<1>5. 0 % FragMod = 0
  BY <1>1
<1> QED BY <1>2, <1>3, <1>4, <1>5, Zenon

-----------------------------------------------------------------------------
(* What happens to the fragments under way: one is appended by sendFrag(), *)
(* the last one is lost, the first one is taken off by the receiver.       *)

\* The elements of the sequences that these make.
LEMMA FlightAppend ==
    ASSUME NEW f \in Seq(Fragment), NEW g \in Fragment
    PROVE  /\ Append(f, g) \in Seq(Fragment)
           /\ Len(f) \in Nat /\ Len(Append(f, g)) = Len(f) + 1
           /\ \A i \in 1..Len(f) : Append(f, g)[i] = f[i]
           /\ Append(f, g)[Len(f) + 1] = g
           /\ \A i \in 1..Len(f) : f[i] \in Fragment /\ f[i].dest \in Ports
           /\ g.dest \in Ports
<1>1. \A x \in Fragment : x.dest \in Ports
  BY DEF Fragment
<1>2. \A i \in 1..Len(f) : f[i] \in Fragment
  BY ElementOfSeq
<1> QED BY <1>1, <1>2, AppendProperties, LenProperties

\* The indices of a sequence that is one longer.
LEMMA OneMore ==
    ASSUME NEW n \in Nat
    PROVE  /\ \A i \in 1..(n + 1) : i \in 1..n \/ i = n + 1
           /\ \A i \in 1..n : i \in 1..(n + 1) /\ i # n + 1 /\ i < n + 1 /\ ~(n + 1 < i)
           /\ n + 1 \in 1..(n + 1) /\ (n + 1) - 1 = n
           /\ \A i \in 1..n : \A j \in 1..n : \A k \in (i + 1)..(j - 1) : k \in 1..n
           /\ \A i \in 1..n : \A k \in 1..(i - 1) : k \in 1..n
           /\ \A i \in 1..n : \A k \in (i + 1)..n : k \in 1..n /\ k \in (i + 1)..(n + 1)
           /\ \A i \in 1..n : n + 1 \in (i + 1)..(n + 1)
OBVIOUS

\* What shows, shows however many frames are torn.
LEMMA StepMore ==
    ASSUME NEW T, NEW U, T \subseteq U, NEW c, NEW d, Step(T, c, d)
    PROVE  Step(U, c, d)
BY DEF Step

\* What a fragment that is not lost, and one that is, leave in the trail.
LEMMA Trails ==
    ASSUME NEW t \in TrailState, NEW g, Frame(g) \in Nat
    PROVE  /\ Arrives(t, g) \in TrailState /\ Arrives(t, g).torn = t.torn
           /\ ~Arrives(t, g).gap /\ Arrives(t, g).open = IF g.eof THEN 0 ELSE Frame(g)
           /\ Missing(t) \in TrailState /\ Missing(t).gap /\ Missing(t).open = t.open
           /\ t.torn \subseteq Missing(t).torn /\ (t.gap => t.open \in Missing(t).torn)
<1>0. t = [open |-> t.open, gap |-> t.gap, torn |-> t.torn]
  BY DEF TrailState
<1>1. Arrives(t, g) = [open |-> IF g.eof THEN 0 ELSE Frame(g), gap |-> FALSE, torn |-> t.torn]
  <2>1. Arrives(t, g) = [t EXCEPT !.open = IF g.eof THEN 0 ELSE Frame(g), !.gap = FALSE]
    BY DEF Arrives, Frame
  <2> QED BY <1>0, <2>1, Zenon
<1>2. Missing(t) = [open |-> t.open, gap |-> TRUE,
                    torn |-> IF t.gap THEN t.torn \union {t.open} ELSE t.torn]
  <2>1. Missing(t) = [t EXCEPT !.gap = TRUE,
                               !.torn = IF t.gap THEN t.torn \union {t.open} ELSE t.torn]
    BY DEF Missing
  <2> QED BY <1>0, <2>1, Zenon
<1>3. t.open \in Nat /\ t.torn \in SUBSET Nat
  BY DEF TrailState
<1>4. Arrives(t, g) \in TrailState
  BY <1>1, <1>3 DEF TrailState
<1>5. Missing(t) \in TrailState
  BY <1>2, <1>3 DEF TrailState
<1> QED BY <1>1, <1>2, <1>4, <1>5

\* Where a fragment ends there is a frame to begin or another number to come.
LEMMA LossShows ==
    ASSUME NEW g \in Fragment
    PROVE  Cur(g).e = 0 \/ Cur(g).k # At(g).k
<1>1. g.no \in 0..(FragMod - 1)
  BY DEF Fragment
<1>2. (g.no + 1) % FragMod # g.no
  BY <1>1, Numbers
<1> QED BY <1>2 DEF Cur, At

\* The fragment that is due is not lost, or it is: the gap shows, or a second one
\* tears the frame.
LEMMA DueNext ==
    ASSUME NEW g \in Fragment, Frame(g) \in Nat, NEW t \in TrailState, NEW c, Due(t, c, At(g))
    PROVE  Step(t.torn, c, At(g)) /\ Due(Missing(t), c, Cur(g))
<1>1. Step(t.torn, c, At(g))
  BY DEF Due, Step
<1>2. Due(Missing(t), c, Cur(g))
  BY LossShows, Trails DEF Due
<1> QED BY <1>1, <1>2

\* sendFrag() goes on where the sender was.
LEMMA LinkedAppend ==
    ASSUME NEW f \in Seq(Fragment), NEW g \in Fragment, NEW a, NEW w, NEW v, NEW t, NEW s,
           Linked(f, a, w, t), Frame(g) \in Nat, w[g.dest] = At(g), v[g.dest] = Cur(g),
           t[g.dest] \in TrailState, s[g.dest] = Arrives(t[g.dest], g),
           \A p \in Ports : p # g.dest => v[p] = w[p] /\ s[p] = t[p]
    PROVE  Linked(Append(f, g), a, v, s)
<1> DEFINE F == Append(f, g)
           m == Len(f)
<1>0. /\ m \in Nat /\ Len(F) = m + 1 /\ F[m + 1] = g /\ g.dest \in Ports
      /\ \A i \in 1..m : F[i] = f[i] /\ f[i].dest \in Ports
  BY FlightAppend
<1> HIDE DEF F, m
<1>00. Len(f) = m
  BY DEF m
<1>t. /\ \A p \in Ports : s[p].torn = t[p].torn
      /\ ~s[g.dest].gap /\ s[g.dest].open = IF g.eof THEN 0 ELSE Frame(g)
  <2>1. PICK x : x = t[g.dest]
    OBVIOUS
  <2>2. /\ Arrives(x, g).torn = x.torn
        /\ ~Arrives(x, g).gap /\ Arrives(x, g).open = IF g.eof THEN 0 ELSE Frame(g)
    BY <2>1, Trails
  <2> QED BY <2>1, <2>2
<1>1. ASSUME NEW i \in 1..(m + 1), NEW j \in 1..(m + 1), Adj(F, i, j)
      PROVE  Step(s[F[i].dest].torn, Cur(F[i]), At(F[j]))
  <2>1. i < j /\ F[i].dest = F[j].dest /\ \A k \in (i + 1)..(j - 1) : F[k].dest # F[i].dest
    BY <1>1 DEF Adj
  <2>2. i \in 1..m
    BY <1>0, <2>1
  <2>0. F[i] = f[i] /\ f[i].dest \in Ports /\ s[f[i].dest].torn = t[f[i].dest].torn
    BY <1>0, <1>t, <2>2
  <2>3. CASE j \in 1..m
    <3>1. Adj(f, i, j)
      <4>1. \A k \in (i + 1)..(j - 1) : k \in 1..m
        BY <1>0, <2>2, <2>3, OneMore
      <4> QED BY <1>0, <2>1, <2>2, <2>3, <4>1 DEF Adj
    <3>2. Step(t[f[i].dest].torn, Cur(f[i]), At(f[j]))
      BY <1>00, <2>2, <2>3, <3>1 DEF Linked
    <3> QED BY <1>0, <2>0, <2>3, <3>2
  <2>4. CASE j = m + 1
    <3>0. j - 1 = m /\ \A k \in (i + 1)..m : k \in 1..m
      BY <1>0, <2>2, <2>4
    <3>1. IsLast(f, i)
      BY <1>0, <1>00, <2>1, <2>2, <3>0 DEF IsLast
    <3>2. Due(t[f[i].dest], Cur(f[i]), w[f[i].dest])
      BY <1>00, <2>2, <3>1 DEF Linked
    <3>3. f[i].dest = g.dest
      BY <1>0, <2>0, <2>1, <2>4
    <3>4. Step(t[g.dest].torn, Cur(f[i]), At(g))
      BY <3>2, <3>3, DueNext
    <3> QED BY <1>0, <2>0, <2>4, <3>3, <3>4
  <2> QED BY <1>0, <2>3, <2>4, OneMore
<1>2. ASSUME NEW j \in 1..(m + 1), IsFirst(F, j), a[F[j].dest].bufs # <<>>
      PROVE  Step(s[F[j].dest].torn, CurA(a[F[j].dest]), At(F[j]))
  <2>1. \A k \in 1..(j - 1) : F[k].dest # F[j].dest
    BY <1>2 DEF IsFirst
  <2>2. CASE j \in 1..m
    <3>0. \A k \in 1..(j - 1) : k \in 1..m
      BY <1>0, <2>2
    <3>1. IsFirst(f, j)
      BY <1>0, <2>1, <2>2, <3>0 DEF IsFirst
    <3>2. F[j] = f[j] /\ s[f[j].dest].torn = t[f[j].dest].torn
      BY <1>0, <1>t, <2>2
    <3> QED BY <1>00, <1>2, <2>2, <3>1, <3>2 DEF Linked
  <2>3. CASE j = m + 1
    <3>0. j - 1 = m
      BY <1>0, <2>3
    <3>1. Absent(f, g.dest)
      BY <1>0, <1>00, <2>1, <2>3, <3>0 DEF Absent
    <3>2. Due(t[g.dest], CurA(a[g.dest]), At(g))
      BY <1>0, <1>2, <2>3, <3>1 DEF Linked
    <3>3. Step(t[g.dest].torn, CurA(a[g.dest]), At(g))
      BY <3>2, DueNext
    <3> QED BY <1>0, <1>t, <2>3, <3>3
  <2> QED BY <1>0, <2>2, <2>3, OneMore
<1>3. ASSUME NEW i \in 1..(m + 1), IsLast(F, i)
      PROVE  Due(s[F[i].dest], Cur(F[i]), v[F[i].dest])
  <2>1. \A k \in (i + 1)..(m + 1) : F[k].dest # F[i].dest
    BY <1>0, <1>3 DEF IsLast
  <2>2. CASE i \in 1..m
    <3>1. \A k \in (i + 1)..m : k \in 1..m /\ k \in (i + 1)..(m + 1)
      BY <1>0, <2>2
    <3>2. IsLast(f, i)
      BY <1>0, <1>00, <2>1, <2>2, <3>1 DEF IsLast
    <3>3. m + 1 \in (i + 1)..(m + 1)
      BY <1>0, <2>2
    <3>4. f[i].dest # g.dest /\ f[i].dest \in Ports /\ F[i] = f[i]
      BY <1>0, <2>1, <2>2, <3>3
    <3>5. Due(t[f[i].dest], Cur(f[i]), w[f[i].dest])
      BY <1>00, <2>2, <3>2 DEF Linked
    <3> QED BY <3>4, <3>5
  <2>3. CASE i = m + 1
    <3>1. F[i] = g
      BY <1>0, <2>3
    <3>2. Due(s[g.dest], Cur(g), Cur(g))
      BY <1>t DEF Due, Cur
    <3> QED BY <3>1, <3>2
  <2> QED BY <1>0, <2>2, <2>3, OneMore
<1>4. ASSUME NEW p \in Ports, Absent(F, p), a[p].bufs # <<>>
      PROVE  Due(s[p], CurA(a[p]), v[p])
  <2>1. \A k \in 1..(m + 1) : F[k].dest # p
    BY <1>0, <1>4 DEF Absent
  <2>2. Absent(f, p) /\ p # g.dest
    BY <1>0, <1>00, <2>1, OneMore DEF Absent
  <2> QED BY <1>4, <2>2 DEF Linked
<1> QED BY <1>0, <1>1, <1>2, <1>3, <1>4 DEF Linked, F

\* A fragment is lost: the sender goes on, and what is behind remembers it.
LEMMA LinkedLost ==
    ASSUME NEW f \in Seq(Fragment), NEW g \in Fragment, NEW a, NEW w, NEW v, NEW t, NEW s,
           Linked(f, a, w, t), Frame(g) \in Nat, w[g.dest] = At(g), v[g.dest] = Cur(g),
           t[g.dest] \in TrailState, s[g.dest] = Missing(t[g.dest]),
           \A p \in Ports : p # g.dest => v[p] = w[p] /\ s[p] = t[p]
    PROVE  Linked(f, a, v, s)
<1>0. g.dest \in Ports /\ \A i \in 1..Len(f) : f[i].dest \in Ports
  BY FlightAppend
<1>1. \A p \in Ports : t[p].torn \subseteq s[p].torn
  <2>1. t[g.dest].torn \subseteq s[g.dest].torn
    BY Trails
  <2> QED BY <2>1
<1>2. \A p \in Ports : \A c : Due(t[p], c, w[p]) => Due(s[p], c, v[p])
  <2>1. \A c : Due(t[g.dest], c, At(g)) => Due(s[g.dest], c, Cur(g))
    BY DueNext
  <2> QED BY <2>1
<1>3. \A i, j \in 1..Len(f) : Adj(f, i, j) => Step(s[f[i].dest].torn, Cur(f[i]), At(f[j]))
  BY <1>0, <1>1, StepMore DEF Linked
<1>4. \A j \in 1..Len(f) : IsFirst(f, j) /\ a[f[j].dest].bufs # <<>> =>
          Step(s[f[j].dest].torn, CurA(a[f[j].dest]), At(f[j]))
  BY <1>0, <1>1, StepMore DEF Linked
<1>5. \A i \in 1..Len(f) : IsLast(f, i) => Due(s[f[i].dest], Cur(f[i]), v[f[i].dest])
  BY <1>0, <1>2 DEF Linked
<1>6. \A p \in Ports : Absent(f, p) /\ a[p].bufs # <<>> => Due(s[p], CurA(a[p]), v[p])
  BY <1>2 DEF Linked
<1> QED BY <1>3, <1>4, <1>5, <1>6 DEF Linked

\* The elements of a sequence of fragments without the first one.
LEMMA FlightTail ==
    ASSUME NEW f \in Seq(Fragment), f # <<>>
    PROVE  /\ Tail(f) \in Seq(Fragment) /\ Head(f) \in Fragment /\ Head(f) = f[1]
           /\ Len(Tail(f)) \in Nat /\ Len(f) = Len(Tail(f)) + 1
           /\ \A i \in 1..Len(Tail(f)) : Tail(f)[i] = f[i + 1]
           /\ \A i \in 1..Len(f) : f[i] \in Fragment /\ f[i].dest \in Ports
<1>1. \A x \in Fragment : x.dest \in Ports
  BY DEF Fragment
<1>2. \A i \in 1..Len(f) : f[i] \in Fragment
  BY ElementOfSeq
<1>3. Len(f) \in Nat \ {0}
  BY EmptySeq
<1>4. /\ Head(f) \in Fragment /\ Tail(f) \in Seq(Fragment) /\ Len(Tail(f)) = Len(f) - 1
      /\ \A i \in 1..Len(Tail(f)) : Tail(f)[i] = f[i + 1]
  BY HeadTailProperties
<1>5. Head(f) = f[1]
  BY <1>3
<1>6. Len(Tail(f)) \in Nat /\ Len(f) = Len(Tail(f)) + 1
  BY <1>3, <1>4
<1> QED BY <1>1, <1>2, <1>4, <1>5, <1>6

\* The receiver takes the first fragment g off: what it has of the port then, if
\* anything, ends where g does, or is torn.
LEMMA LinkedTake ==
    ASSUME NEW f \in Seq(Fragment), f # <<>>, NEW a, NEW c, NEW w, NEW t,
           Linked(f, a, w, t),
           c[f[1].dest].bufs # <<>> => \/ CurA(c[f[1].dest]) = Cur(f[1])
                                       \/ CurA(c[f[1].dest]).n \in t[f[1].dest].torn,
           \A p \in Ports : p # f[1].dest => c[p] = a[p]
    PROVE  Linked(Tail(f), c, w, t)
<1> DEFINE T == Tail(f)
           m == Len(T)
           g == f[1]
<1>0. /\ m \in Nat /\ Len(f) = m + 1 /\ \A i \in 1..m : T[i] = f[i + 1]
      /\ \A i \in 1..(m + 1) : f[i].dest \in Ports
  BY FlightTail
<1> HIDE DEF T, m
<1>00. Len(T) = m
  BY DEF m
<1>1. \A i \in 1..m : i + 1 \in 1..(m + 1) /\ (i + 1) - 1 = i
  BY <1>0
<1>2. 1 \in 1..(m + 1) /\ g.dest \in Ports
  BY <1>0
<1>3. ASSUME NEW i \in 1..m, NEW j \in 1..m, Adj(T, i, j)
      PROVE  Step(t[T[i].dest].torn, Cur(T[i]), At(T[j]))
  <2>1. \A k \in (i + 2)..j : k - 1 \in (i + 1)..(j - 1) /\ k - 1 \in 1..m /\ (k - 1) + 1 = k
    BY <1>0
  <2>2. \A k \in (i + 2)..j : f[k] = T[k - 1]
    BY <1>0, <2>1
  <2>3. Adj(f, i + 1, j + 1)
    <3>1. (i + 1) + 1 = i + 2 /\ (j + 1) - 1 = j /\ i + 1 < j + 1
      BY <1>0, <1>3 DEF Adj
    <3>2. \A k \in (i + 2)..j : f[k].dest # f[i + 1].dest
      BY <1>0, <1>3, <2>1, <2>2 DEF Adj
    <3> QED BY <1>0, <1>3, <3>1, <3>2 DEF Adj
  <2>4. Step(t[f[i + 1].dest].torn, Cur(f[i + 1]), At(f[j + 1]))
    BY <1>0, <1>1, <2>3 DEF Linked
  <2> QED BY <1>0, <2>4
<1>4. ASSUME NEW j \in 1..m, IsFirst(T, j), c[T[j].dest].bufs # <<>>
      PROVE  Step(t[T[j].dest].torn, CurA(c[T[j].dest]), At(T[j]))
  <2>0. \A k \in 2..j : k - 1 \in 1..(j - 1) /\ k - 1 \in 1..m /\ (k - 1) + 1 = k
    BY <1>0
  <2>1. \A k \in 2..j : f[k].dest # f[j + 1].dest
    <3>1. \A k \in 2..j : f[k] = T[k - 1]
      BY <1>0, <2>0
    <3> QED BY <1>0, <1>4, <2>0, <3>1 DEF IsFirst
  <2>2. CASE T[j].dest = g.dest
    <3>0. 1 + 1 = 2 /\ (j + 1) - 1 = j /\ 1 < j + 1
      BY <1>0
    <3>1. Adj(f, 1, j + 1)
      BY <1>0, <2>1, <2>2, <3>0 DEF Adj
    <3>2. Step(t[g.dest].torn, Cur(f[1]), At(f[j + 1]))
      BY <1>0, <1>1, <1>2, <3>1 DEF Linked
    <3>3. CurA(c[g.dest]) = Cur(f[1]) \/ CurA(c[g.dest]).n \in t[g.dest].torn
      BY <1>4, <2>2
    <3>4. Step(t[g.dest].torn, CurA(c[g.dest]), At(f[j + 1]))
      BY <3>2, <3>3 DEF Step
    <3> QED BY <1>0, <2>2, <3>4
  <2>3. CASE T[j].dest # g.dest
    <3>0. (j + 1) - 1 = j /\ \A k \in 1..j : k = 1 \/ k \in 2..j
      BY <1>0
    <3>1. IsFirst(f, j + 1)
      BY <1>0, <2>1, <2>3, <3>0 DEF IsFirst
    <3>2. c[T[j].dest] = a[T[j].dest]
      BY <1>0, <1>1, <2>3
    <3>3. Step(t[f[j + 1].dest].torn, CurA(a[f[j + 1].dest]), At(f[j + 1]))
      BY <1>0, <1>1, <1>4, <3>1, <3>2 DEF Linked
    <3> QED BY <1>0, <3>2, <3>3
  <2> QED BY <2>2, <2>3
<1>5. ASSUME NEW i \in 1..m, IsLast(T, i)
      PROVE  Due(t[T[i].dest], Cur(T[i]), w[T[i].dest])
  <2>0. \A k \in (i + 2)..(m + 1) : k - 1 \in (i + 1)..m /\ k - 1 \in 1..m /\ (k - 1) + 1 = k
    BY <1>0
  <2>1. (i + 1) + 1 = i + 2
    BY <1>0
  <2>2. \A k \in (i + 2)..(m + 1) : f[k].dest # f[i + 1].dest
    <3>1. \A k \in (i + 2)..(m + 1) : f[k] = T[k - 1]
      BY <1>0, <2>0
    <3> QED BY <1>0, <1>00, <1>5, <2>0, <3>1 DEF IsLast
  <2>3. IsLast(f, i + 1)
    BY <1>0, <2>1, <2>2 DEF IsLast
  <2>4. Due(t[f[i + 1].dest], Cur(f[i + 1]), w[f[i + 1].dest])
    BY <1>0, <1>1, <2>3 DEF Linked
  <2> QED BY <1>0, <2>4
<1>6. ASSUME NEW p \in Ports, Absent(T, p), c[p].bufs # <<>>
      PROVE  Due(t[p], CurA(c[p]), w[p])
  <2>0. \A k \in 2..(m + 1) : k - 1 \in 1..m /\ (k - 1) + 1 = k
    BY <1>0
  <2>1. \A k \in 2..(m + 1) : f[k].dest # p
    <3>1. \A k \in 2..(m + 1) : f[k] = T[k - 1]
      BY <1>0, <2>0
    <3> QED BY <1>00, <1>6, <2>0, <3>1 DEF Absent
  <2>2. CASE p = g.dest
    <3>1. IsLast(f, 1)
      <4>1. 1 + 1 = 2
        OBVIOUS
      <4> QED BY <1>0, <2>1, <2>2, <4>1 DEF IsLast
    <3>2. Due(t[p], Cur(f[1]), w[p])
      BY <1>0, <1>2, <2>2, <3>1 DEF Linked
    <3>3. CurA(c[p]) = Cur(f[1]) \/ CurA(c[p]).n \in t[p].torn
      BY <1>6, <2>2
    <3> QED BY <3>2, <3>3 DEF Due
  <2>3. CASE p # g.dest
    <3>0. \A k \in 1..(m + 1) : k = 1 \/ k \in 2..(m + 1)
      BY <1>0
    <3>1. Absent(f, p)
      BY <1>0, <2>1, <2>3, <3>0 DEF Absent
    <3> QED BY <1>6, <2>3, <3>1 DEF Linked
  <2> QED BY <2>2, <2>3
<1> QED BY <1>00, <1>3, <1>4, <1>5, <1>6 DEF Linked, T

\* The frame of a fragment, and that of the place where it ends.
LEMMA ValidFrame ==
    ASSUME NEW g, Valid(g)
    PROVE  /\ Frame(g) \in Nat \ {0} /\ Cur(g).n \in Nat /\ At(g).n = Frame(g)
           /\ Cur(g).n = IF g.eof THEN Frame(g) + 1 ELSE Frame(g)
<1>1. Frame(g) \in Nat \ {0}
  BY DEF Valid
<1>2. Cur(g).n = IF g.eof THEN Frame(g) + 1 ELSE Frame(g)
  BY DEF Cur
<1> QED BY <1>1, <1>2 DEF At

\* The order of the fragments when one is appended.
LEMMA InOrderAppend ==
    ASSUME NEW f \in Seq(Fragment), NEW g \in Fragment, NEW w, NEW v,
           AllValid(f), Valid(g),
           InOrder(f, w), w[g.dest].n = Frame(g), v[g.dest].n = Cur(g).n,
           \A p \in Ports : p # g.dest => v[p] = w[p]
    PROVE  InOrder(Append(f, g), v)
<1> DEFINE F == Append(f, g)
           m == Len(f)
<1>0. /\ m \in Nat /\ Len(F) = m + 1 /\ F[m + 1] = g /\ g.dest \in Ports
      /\ \A i \in 1..m : F[i] = f[i] /\ f[i].dest \in Ports
  BY FlightAppend
<1>1. Frame(g) \in Nat /\ Cur(g).n \in Nat /\ Frame(g) <= Cur(g).n
  BY ValidFrame
<1>2. \A i \in 1..m : Cur(f[i]).n \in Nat
  BY ValidFrame DEF AllValid
<1> HIDE DEF F, m
<1>00. Len(f) = m
  BY DEF m
<1>3. \A i \in 1..m : f[i].dest = g.dest => Cur(f[i]).n <= Frame(g)
  BY <1>00 DEF InOrder
<1>4. ASSUME NEW i \in 1..(m + 1), NEW j \in 1..(m + 1), i < j, F[i].dest = F[j].dest
      PROVE  Cur(F[i]).n <= Frame(F[j])
  <2>1. i \in 1..m
    BY <1>0, <1>4
  <2>2. CASE j \in 1..m
    BY <1>0, <1>00, <1>4, <2>1, <2>2 DEF InOrder
  <2>3. CASE j = m + 1
    BY <1>0, <1>3, <1>4, <2>1, <2>3
  <2> QED BY <1>0, <2>2, <2>3, OneMore
<1>5. ASSUME NEW i \in 1..(m + 1) PROVE Cur(F[i]).n <= v[F[i].dest].n
  <2>1. CASE i = m + 1
    BY <1>0, <1>1, <2>1
  <2>2. CASE i \in 1..m /\ f[i].dest = g.dest
    <3>1. Cur(f[i]).n <= Frame(g) /\ Cur(f[i]).n \in Nat
      BY <1>2, <1>3, <2>2, <1>00
    <3>2. Cur(f[i]).n <= Cur(g).n
      BY <1>1, <3>1
    <3> QED BY <1>0, <2>2, <3>2
  <2>3. CASE i \in 1..m /\ f[i].dest # g.dest
    BY <1>0, <1>00, <2>3 DEF InOrder
  <2> QED BY <1>0, <2>1, <2>2, <2>3, OneMore
<1> QED BY <1>0, <1>4, <1>5 DEF InOrder, F

\* When one is lost, and when the first one is taken off.
LEMMA InOrderLost ==
    ASSUME NEW f \in Seq(Fragment), NEW g, NEW w, NEW v, AllValid(f), Valid(g), InOrder(f, w),
           w[g.dest].n = Frame(g), v[g.dest].n = Cur(g).n,
           \A p \in Ports : p # g.dest => v[p] = w[p]
    PROVE  InOrder(f, v)
<1>1. Frame(g) \in Nat /\ Cur(g).n \in Nat /\ Frame(g) <= Cur(g).n
  BY ValidFrame
<1>2. ASSUME NEW i \in 1..Len(f) PROVE Cur(f[i]).n <= v[f[i].dest].n
  <2>1. Cur(f[i]).n \in Nat /\ Cur(f[i]).n <= w[f[i].dest].n /\ f[i].dest \in Ports
    <3>1. f[i] \in Fragment
      BY ElementOfSeq
    <3> QED BY <3>1, ValidFrame DEF AllValid, InOrder, Fragment
  <2>2. CASE f[i].dest = g.dest
    <3>1. Cur(f[i]).n <= Frame(g)
      BY <2>1, <2>2
    <3>2. Cur(f[i]).n <= Cur(g).n
      BY <1>1, <2>1, <3>1
    <3> QED BY <2>2, <3>2
  <2>3. CASE f[i].dest # g.dest
    BY <2>1, <2>3
  <2> QED BY <2>2, <2>3
<1> QED BY <1>2 DEF InOrder

LEMMA InOrderTake ==
    ASSUME NEW f \in Seq(Fragment), f # <<>>, NEW w, InOrder(f, w)
    PROVE  InOrder(Tail(f), w)
<1>1. /\ Len(Tail(f)) \in Nat /\ Len(f) = Len(Tail(f)) + 1
      /\ \A i \in 1..Len(Tail(f)) : Tail(f)[i] = f[i + 1]
  BY FlightTail
<1>2. \A i \in 1..Len(Tail(f)) : i + 1 \in 1..Len(f)
  BY <1>1
<1>3. \A i, j \in 1..Len(Tail(f)) : i < j => i + 1 < j + 1
  BY <1>1
<1> QED BY <1>1, <1>2, <1>3 DEF InOrder

\* What is behind everything stays so when a fragment is appended ...
LEMMA BehindAppend ==
    ASSUME NEW f \in Seq(Fragment), NEW g \in Fragment, Valid(g), NEW a, NEW w, NEW v,
           w[g.dest].n = Frame(g), v[g.dest].n = Cur(g).n,
           \A q \in Ports : q # g.dest => v[q] = w[q],
           NEW p \in Ports, NEW n \in Int, Behind(f, a, w, p, n)
    PROVE  Behind(Append(f, g), a, v, p, n)
<1> DEFINE F == Append(f, g)
           m == Len(f)
<1>0. /\ m \in Nat /\ Len(F) = m + 1 /\ F[m + 1] = g /\ g.dest \in Ports
      /\ \A i \in 1..m : F[i] = f[i] /\ f[i].dest \in Ports
  BY FlightAppend
<1>1. Frame(g) \in Nat /\ Cur(g).n \in Nat /\ Frame(g) <= Cur(g).n
  BY ValidFrame
<1> HIDE DEF F, m
<1>00. Len(f) = m
  BY DEF m
<1>2. g.dest = p => n < Frame(g)
  BY DEF Behind
<1>3. \A j \in 1..(m + 1) : F[j].dest = p => n < Frame(F[j])
  BY <1>0, <1>00, <1>2, OneMore DEF Behind
<1>4. n < v[p].n
  <2>1. CASE g.dest = p
    <3>1. n < Cur(g).n
      BY <1>1, <1>2, <2>1
    <3> QED BY <2>1, <3>1
  <2>2. CASE g.dest # p
    BY <2>2 DEF Behind
  <2> QED BY <2>1, <2>2
<1> QED BY <1>0, <1>3, <1>4 DEF Behind, F

\* ... when one is lost ...
LEMMA BehindLost ==
    ASSUME NEW f, NEW g, Valid(g), NEW a, NEW w, NEW v,
           w[g.dest].n = Frame(g), v[g.dest].n = Cur(g).n,
           \A q \in Ports : q # g.dest => v[q] = w[q],
           NEW p \in Ports, NEW n \in Int, Behind(f, a, w, p, n)
    PROVE  Behind(f, a, v, p, n)
<1>1. Frame(g) \in Nat /\ Cur(g).n \in Nat /\ Frame(g) <= Cur(g).n
  BY ValidFrame
<1>2. n < v[p].n
  <2>1. CASE g.dest = p
    <3>1. n < Frame(g)
      BY <2>1 DEF Behind
    <3>2. n < Cur(g).n
      BY <1>1, <3>1
    <3> QED BY <2>1, <3>2
  <2>2. CASE g.dest # p
    BY <2>2 DEF Behind
  <2> QED BY <2>1, <2>2
<1> QED BY <1>2 DEF Behind

\* ... and when the first one is taken off, and makes an assembly of its frame, or
\* continues or ends the one that there is.
LEMMA BehindTake ==
    ASSUME NEW f \in Seq(Fragment), f # <<>>, NEW a, NEW c, NEW w,
           c[f[1].dest].bufs # <<>> =>
               \/ c[f[1].dest].bufs[1].frame = Frame(f[1])
               \/ /\ a[f[1].dest].bufs # <<>>
                  /\ c[f[1].dest].bufs[1].frame = a[f[1].dest].bufs[1].frame,
           \A q \in Ports : q # f[1].dest => c[q] = a[q],
           NEW p \in Ports, NEW n, Behind(f, a, w, p, n)
    PROVE  Behind(Tail(f), c, w, p, n)
<1>1. /\ Len(Tail(f)) \in Nat /\ Len(f) = Len(Tail(f)) + 1
      /\ \A i \in 1..Len(Tail(f)) : Tail(f)[i] = f[i + 1]
  BY FlightTail
<1>2. \A i \in 1..Len(Tail(f)) : i + 1 \in 1..Len(f)
  BY <1>1
<1>3. 1 \in 1..Len(f)
  BY <1>1
<1>4. c[p].bufs # <<>> => n < c[p].bufs[1].frame
  <2>1. CASE p = f[1].dest
    BY <1>3, <2>1 DEF Behind
  <2>2. CASE p # f[1].dest
    BY <2>2 DEF Behind
  <2> QED BY <2>1, <2>2
<1>5. \A j \in 1..Len(Tail(f)) : Tail(f)[j].dest = p => n < Frame(Tail(f)[j])
  BY <1>1, <1>2 DEF Behind
<1> QED BY <1>4, <1>5 DEF Behind

-----------------------------------------------------------------------------
(* What happens to the frames that have arrived.                           *)

\* What is good is so however many frames are torn.
LEMMA GoodMore ==
    ASSUME NEW T, NEW U, T \subseteq U, NEW p
    PROVE  /\ \A x : Good(T, p, x) => Good(U, p, x)
           /\ \A a : Begun(T, p, a) => Begun(U, p, a)
<1>1. \A x : Torn(T, p, x) => Torn(U, p, x)
  BY DEF Torn
<1>2. \A x : Good(T, p, x) => Good(U, p, x)
  BY <1>1 DEF Good
<1>3. \A a : Begun(T, p, a) => Begun(U, p, a)
  BY <1>1 DEF Begun
<1> QED BY <1>2, <1>3

\* They stay where they are.
LEMMA ArrivedStay ==
    ASSUME NEW T, NEW U, T \subseteq U,
           NEW h, NEW m \in Nat, NEW f, NEW a, NEW w, NEW g, NEW c, NEW v, NEW p,
           Arrived(T, h, m, f, a, w, p),
           \A n \in Nat : Behind(f, a, w, p, n) => Behind(g, c, v, p, n)
    PROVE  Arrived(U, h, m, g, c, v, p)
<1>1. \A i \in 1..Len(h) : Good(U, p, h[i]) /\ h[i][1].frame \in Nat
  BY GoodMore DEF Arrived, Good
<1> QED BY <1>1 DEF Arrived

\* Another one arrives.
LEMMA ArrivedAppend ==
    ASSUME NEW T, NEW h \in Seq(Seq(Buf)), NEW m \in Nat, NEW f, NEW a, NEW w, NEW p \in Ports,
           NEW x \in Seq(Buf), NEW n \in Nat, n = x[1].frame, Good(T, p, x),
           Arrived(T, h, m, f, a, w, p), m < n, \A i \in 1..Len(h) : h[i][1].frame < n,
           Behind(f, a, w, p, n)
    PROVE  Arrived(T, h \o <<x>>, m, f, a, w, p)
<1> DEFINE H == h \o <<x>>
<1>1. /\ Len(h) \in Nat /\ Len(H) = Len(h) + 1 /\ H[Len(h) + 1] = x
      /\ \A i \in 1..Len(h) : H[i] = h[i]
  <2>1. H = Append(h, x)
    BY AppendIsConcat
  <2> HIDE DEF H
  <2> QED BY <2>1, AppendProperties, LenProperties
<1> HIDE DEF H
<1>2. ASSUME NEW i \in 1..(Len(h) + 1)
      PROVE  /\ Good(T, p, H[i])
             /\ m < H[i][1].frame /\ Behind(f, a, w, p, H[i][1].frame)
  <2>1. CASE i \in 1..Len(h)
    <3>1. H[i] = h[i]
      BY <1>1, <2>1
    <3> QED BY <2>1, <3>1 DEF Arrived
  <2>2. CASE i = Len(h) + 1
    <3>1. H[i] = x /\ H[i][1].frame = n
      BY <1>1, <2>2
    <3> QED BY <3>1, Zenon
  <2> QED BY <1>1, <2>1, <2>2, OneMore
<1>3. ASSUME NEW i \in 1..(Len(h) + 1), NEW j \in 1..(Len(h) + 1), i < j
      PROVE  H[i][1].frame < H[j][1].frame
  <2>0. i \in 1..Len(h)
    BY <1>1, <1>3, SMT
  <2>1. i \in 1..Len(h) /\ H[i] = h[i]
    BY <1>1, <2>0
  <2>2. CASE j \in 1..Len(h)
    BY <1>1, <1>3, <2>1, <2>2 DEF Arrived
  <2>3. CASE j = Len(h) + 1
    BY <1>1, <2>1, <2>3
  <2> QED BY <1>1, <2>2, <2>3, OneMore
<1> QED BY <1>1, <1>2, <1>3 DEF Arrived, H

\* The first one leaves: it is read, and is then the last one read, or thrown away.
LEMMA ArrivedTail ==
    ASSUME NEW T, NEW h \in Seq(Seq(Buf)), h # <<>>, NEW m \in Nat, NEW k, NEW f, NEW a, NEW w, NEW p,
           Arrived(T, h, m, f, a, w, p), k = m \/ k = h[1][1].frame
    PROVE  Arrived(T, Tail(h), k, f, a, w, p)
<1>1. /\ Len(Tail(h)) \in Nat /\ Len(h) = Len(Tail(h)) + 1
      /\ \A i \in 1..Len(Tail(h)) : Tail(h)[i] = h[i + 1]
  <2>1. Len(h) \in Nat \ {0}
    BY EmptySeq
  <2> QED BY <2>1, HeadTailProperties
<1>2. \A i \in 1..Len(Tail(h)) : i + 1 \in 1..Len(h) /\ 1 < i + 1
  BY <1>1
<1>3. 1 \in 1..Len(h)
  BY <1>1
<1>4. \A i, j \in 1..Len(Tail(h)) : i < j => i + 1 < j + 1
  BY <1>1
<1>5. Behind(f, a, w, p, k)
  BY <1>3 DEF Arrived
<1>6. \A i \in 1..Len(Tail(h)) : k < h[i + 1][1].frame
  BY <1>2, <1>3 DEF Arrived
<1> QED BY <1>1, <1>2, <1>4, <1>5, <1>6 DEF Arrived

-----------------------------------------------------------------------------
(* Cutting a frame into fragments, and joining them.                       *)

\* Buffers a to b of frame n of port p, which fit into fragments.
IsPiece(c, p, n, a, b) ==
    /\ c \in Seq(Buf) /\ c # <<>> /\ Len(c) = b - a + 1
    /\ c[1] = Chain(p, n)[a] /\ c[1].frame = n /\ c[1].buf = a
    /\ \A i \in 1..(b - a + 1) : c[i].port = p /\ c[i].size <= Mtu

\* Part of a frame.
LEMMA PieceFacts ==
    ASSUME NEW p \in Ports, NEW n \in Nat, NEW a \in 1..Total(p, n), NEW b \in a..Total(p, n)
    PROVE  IsPiece(Piece(p, n, a, b), p, n, a, b)
<1> DEFINE s == Chain(p, n)
           T == Total(p, n)
           c == Piece(p, n, a, b)
<1>1. /\ T \in Nat \ {0}
      /\ \A i \in 1..T : /\ s[i] \in Buf /\ s[i].port = p /\ s[i].frame = n /\ s[i].buf = i
                       /\ s[i].size <= Mtu
  <2>1. s \in Seq(Buf) /\ T \in Nat \ {0}
    BY ChainFacts
  <2>2. \A i \in 1..T : s[i] \in Buf
    BY <2>1, ElementOfSeq DEF Total
  <2> QED BY <2>1, <2>2, ChainFacts
<1> HIDE DEF s, T
<1>2. T = Total(p, n) /\ c = SubSeq(s, a, b)
  BY DEF T, s, Piece
<1>3. a \in Nat \ {0} /\ b \in Nat /\ a <= b /\ b <= T
  BY <1>1, <1>2
<1>4. \A i \in a..b : i \in 1..T
  BY <1>1, <1>3
<1>5. /\ c \in Seq(Buf) /\ Len(c) = IF a <= b THEN b - a + 1 ELSE 0
      /\ \A i \in 1..(b - a + 1) : c[i] = s[a + i - 1]
  <2>1. \A i \in a..b : s[i] \in Buf
    BY <1>1, <1>4
  <2>2. a \in Int /\ b \in Int
    BY <1>3
  <2> HIDE DEF c
  <2> QED BY <1>2, <2>1, <2>2, SubSeqProperties
<1> HIDE DEF c
<1>6. Len(c) = b - a + 1 /\ b - a + 1 \in Nat \ {0}
  BY <1>3, <1>5
<1>7. 1 \in 1..(b - a + 1) /\ a + 1 - 1 = a /\ a \in 1..T
  BY <1>1, <1>3
<1>8. \A i \in 1..(b - a + 1) : a + i - 1 \in 1..T
  BY <1>1, <1>3
<1>9. c # <<>>
  <2>1. Len(<<>>) = 0
    BY EmptySeq
  <2> QED BY <1>6, <2>1
<1>10. c[1] = s[a]
  BY <1>5, <1>7
<1>11. c[1].frame = n /\ c[1].buf = a
  BY <1>1, <1>7, <1>10
<1>12. \A i \in 1..(b - a + 1) : c[i].port = p /\ c[i].size <= Mtu
  <2> TAKE i \in 1..(b - a + 1)
  <2>1. PICK k : k = a + i - 1
    OBVIOUS
  <2>2. c[i] = s[k] /\ k \in 1..T
    BY <1>5, <1>8, <2>1
  <2> QED BY <1>1, <2>2
<1> QED BY <1>5, <1>6, <1>9, <1>10, <1>11, <1>12 DEF c, s, IsPiece

\* Cutting it.
LEMMA CutPiece ==
    ASSUME NEW p \in Ports, NEW n \in Nat, NEW a \in 1..Total(p, n), NEW b \in a..Total(p, n),
           NEW k \in 1..(b - a + 1)
    PROVE  /\ SubSeq(Piece(p, n, a, b), 1, k) = Piece(p, n, a, a + k - 1)
           /\ SubSeq(Piece(p, n, a, b), k + 1, b - a + 1)
                 = IF k = b - a + 1 THEN <<>> ELSE Piece(p, n, a + k, b)
<1> DEFINE s == Chain(p, n)
           T == Total(p, n)
<1>1. s \in Seq(Buf) /\ T \in Nat \ {0} /\ Len(s) = T
  BY ChainFacts DEF Total
<1> HIDE DEF s, T
<1>2. T = Total(p, n) /\ \A x, y : Piece(p, n, x, y) = SubSeq(s, x, y)
  BY DEF T, s, Piece
<1>3. a \in 1..Len(s) /\ b \in 1..Len(s) /\ 1 \in 1..(b - a + 1) /\ b - a + 1 \in 1..(b - a + 1)
  BY <1>1, <1>2
<1>4. SubSeq(SubSeq(s, a, b), 1, k) = SubSeq(s, a + 1 - 1, a + k - 1)
  BY <1>1, <1>3, SubSeqOfSubSeq
<1>5. a + 1 - 1 = a
  BY <1>1, <1>2
<1>6. CASE k = b - a + 1
  <2>1. k + 1 \in Int /\ b - a + 1 \in Int /\ b - a + 1 < k + 1
    BY <1>1, <1>2, <1>6
  <2> QED BY <1>2, <1>4, <1>5, <1>6, <2>1, SubSeqEmpty
<1>7. CASE k # b - a + 1
  <2>1. k + 1 \in 1..(b - a + 1) /\ a + (k + 1) - 1 = a + k /\ a + (b - a + 1) - 1 = b
    BY <1>1, <1>2, <1>7
  <2>2. SubSeq(SubSeq(s, a, b), k + 1, b - a + 1) = SubSeq(s, a + (k + 1) - 1, a + (b - a + 1) - 1)
    BY <1>1, <1>3, <2>1, SubSeqOfSubSeq
  <2>3. SubSeq(SubSeq(s, a, b), k + 1, b - a + 1) = SubSeq(s, a + k, b)
    BY <2>1, <2>2
  <2> QED BY <1>2, <1>4, <1>5, <1>7, <2>3
<1> QED BY <1>6, <1>7

\* Joining what was cut.
LEMMA JoinPiece ==
    ASSUME NEW p \in Ports, NEW n \in Nat, NEW k \in 1..Total(p, n), NEW b \in k..Total(p, n)
    PROVE  /\ Piece(p, n, 1, k) \o Piece(p, n, k + 1, b) = Piece(p, n, 1, b)
           /\ Piece(p, n, 1, Total(p, n)) = Chain(p, n)
<1> DEFINE s == Chain(p, n)
           T == Total(p, n)
<1>1. s \in Seq(Buf) /\ T \in Nat \ {0} /\ Len(s) = T
  BY ChainFacts DEF Total
<1> HIDE DEF s, T
<1>2. T = Total(p, n) /\ \A x, y : Piece(p, n, x, y) = SubSeq(s, x, y)
  BY DEF T, s, Piece
<1>3. 1 \in 1..(Len(s) + 1) /\ k \in (1 - 1)..Len(s) /\ b \in k..Len(s)
  BY <1>1, <1>2
<1>4. SubSeq(s, 1, k) \o SubSeq(s, k + 1, b) = SubSeq(s, 1, b)
  BY <1>1, <1>3, ConcatAdjacentSubSeq
<1>5. SubSeq(s, 1, Len(s)) = s
  BY <1>1, SubSeqFull
<1> QED BY <1>1, <1>2, <1>4, <1>5 DEF s

\* g is a fragment that begins with buffer a of frame n, with number no, and r is
\* what is left of the frame behind it.
Sent(g, r, p, n, a, no) ==
    /\ Valid(g) /\ At(g) = [n |-> n, e |-> a - 1, k |-> no % FragMod]
    /\ r \in Seq(Buf)
    /\ r # <<>> => /\ r[1].buf \in 2..Total(p, n) /\ r = Piece(p, n, r[1].buf, Total(p, n))
                   /\ Cur(g) = [n |-> n, e |-> r[1].buf - 1, k |-> (no + 1) % FragMod]
    /\ r = <<>> => Cur(g) = [n |-> n + 1, e |-> 0, k |-> 0]

\* Where a piece of j buffers ends that begins with buffer a of t.
LEMMA EndOfPiece ==
    \A t \in Nat \ {0} : \A x \in 1..t : \A y \in 1..(t - x + 1) :
        /\ x + y - 1 \in x..t /\ x + y - 1 \in Nat /\ (x + y - 1 = t <=> y = t - x + 1)
        /\ x \in Nat \ {0} /\ x + y = (x + y - 1) + 1
OBVIOUS

\* The fragment that sendFrag() takes off the rest of a frame, and what it leaves.
LEMMA SentFragment ==
    ASSUME NEW p \in Ports, NEW n \in Nat \ {0}, NEW a \in 1..Total(p, n), NEW no \in Nat,
           no = 0 <=> a = 1, NEW bc, bc = Piece(p, n, a, Total(p, n)),
           NEW j, j = FragLen(bc),
           NEW g, g = [dest |-> p, no |-> no % FragMod, sof |-> no = 0, eof |-> j = Len(bc),
                       bufs |-> SubSeq(bc, 1, j)],
           NEW r, r = SubSeq(bc, j + 1, Len(bc))
    PROVE  Sent(g, r, p, n, a, no)
<1>1. PICK T : T = Total(p, n)
  OBVIOUS
<1>2. T \in Nat \ {0} /\ a \in 1..T /\ T \in a..T
  BY <1>1, ChainFacts
<1>3. /\ bc \in Seq(Buf) /\ bc # <<>> /\ Len(bc) = T - a + 1
      /\ \A i \in 1..(T - a + 1) : bc[i].size <= Mtu
  BY <1>1, <1>2, PieceFacts DEF IsPiece
<1>4. j \in 1..(T - a + 1)
  BY <1>3, FragLenBound
<1>5. /\ SubSeq(bc, 1, j) = Piece(p, n, a, a + j - 1)
      /\ r = IF j = T - a + 1 THEN <<>> ELSE Piece(p, n, a + j, T)
  <2>1. /\ n \in Nat /\ a \in 1..Total(p, n) /\ T \in a..Total(p, n) /\ bc = Piece(p, n, a, T)
        /\ r = SubSeq(bc, j + 1, T - a + 1)
    BY <1>1, <1>2, <1>3
  <2>2. /\ SubSeq(Piece(p, n, a, T), 1, j) = Piece(p, n, a, a + j - 1)
        /\ SubSeq(Piece(p, n, a, T), j + 1, T - a + 1)
              = IF j = T - a + 1 THEN <<>> ELSE Piece(p, n, a + j, T)
    BY <1>4, <2>1, CutPiece, Zenon
  <2> QED BY <2>1, <2>2, Zenon
<1>6. PICK e : e = a + j - 1
  OBVIOUS
<1>7. e \in a..T /\ e \in Nat /\ (e = T <=> j = T - a + 1) /\ a \in Nat \ {0} /\ a + j = e + 1
  <2>1. /\ a + j - 1 \in a..T /\ a + j - 1 \in Nat /\ (a + j - 1 = T <=> j = T - a + 1)
        /\ a \in Nat \ {0} /\ a + j = (a + j - 1) + 1
    BY <1>2, <1>4, EndOfPiece, SMTT(30)
  <2> QED BY <1>6, <2>1, Zenon
<1>8. /\ g.bufs = Piece(p, n, a, e) /\ g.bufs \in Seq(Buf) /\ Len(g.bufs) = e - a + 1
      /\ g.bufs[1].frame = n /\ g.bufs[1].buf = a
  <2>1. n \in Nat /\ a \in 1..Total(p, n) /\ e \in a..Total(p, n)
    BY <1>1, <1>7
  <2>2. g.bufs = Piece(p, n, a, e)
    BY <1>5, <1>6
  <2>3. IsPiece(Piece(p, n, a, e), p, n, a, e)
    BY <2>1, PieceFacts, Zenon
  <2> QED BY <2>2, <2>3 DEF IsPiece
<1>9. /\ no % FragMod \in 0..(FragMod - 1) /\ (no = 0 => no % FragMod = 0)
      /\ ((no % FragMod) + 1) % FragMod = (no + 1) % FragMod
  BY Numbers
<1>10. /\ g.dest = p /\ g.no = no % FragMod /\ g.sof = (no = 0) /\ g.eof = (e = T)
  BY <1>3, <1>7
<1>11. Frame(g) = n /\ First(g) = a /\ End(g) = e
  <2>1. a + (e - a + 1) - 1 = e
    BY <1>7
  <2> QED BY <1>8, <2>1 DEF Frame, First, End
<1>12. g \in Fragment
  BY <1>8, <1>9 DEF Fragment
<1>13. Valid(g)
  <2>1. a \in 1..T /\ e \in a..T
    BY <1>2, <1>7
  <2> QED BY <1>1, <1>8, <1>9, <1>10, <1>11, <1>12, <2>1 DEF Valid
<1>14. At(g) = [n |-> n, e |-> a - 1, k |-> no % FragMod]
  BY <1>10, <1>11 DEF At
<1>15. CASE e = T
  <2>1. r = <<>> /\ g.eof
    BY <1>5, <1>7, <1>10, <1>15
  <2>2. Cur(g) = [n |-> n + 1, e |-> 0, k |-> 0]
    BY <1>11, <2>1 DEF Cur
  <2>3. r \in Seq(Buf)
    BY <2>1, EmptySeq
  <2> QED BY <1>13, <1>14, <2>1, <2>2, <2>3 DEF Sent
<1>16. CASE e # T
  <2>0. e + 1 \in 1..T /\ T \in (e + 1)..T /\ (e + 1) - 1 = e /\ e + 1 \in 2..T
    BY <1>2, <1>7, <1>16
  <2>1. r = Piece(p, n, e + 1, T) /\ ~g.eof
    BY <1>5, <1>7, <1>10, <1>16
  <2>2. r \in Seq(Buf) /\ r # <<>> /\ r[1].buf = e + 1
    <3>1. n \in Nat /\ e + 1 \in 1..Total(p, n) /\ T \in (e + 1)..Total(p, n)
      BY <1>1, <2>0
    <3>2. IsPiece(Piece(p, n, e + 1, T), p, n, e + 1, T)
      BY <3>1, PieceFacts, Zenon
    <3> QED BY <2>1, <3>2 DEF IsPiece
  <2>3. Cur(g) = [n |-> n, e |-> e, k |-> (no + 1) % FragMod]
    BY <1>9, <1>10, <1>11, <2>1 DEF Cur
  <2> QED BY <1>1, <1>13, <1>14, <2>0, <2>1, <2>2, <2>3 DEF Sent
<1> QED BY <1>15, <1>16

\* What pushDownstream() makes of an assembly and the next fragment.
Made(T, a, g, r) ==
    /\ r \in Assembly
    /\ r.bufs # <<>> =>
          /\ r.bufs[1].frame = Frame(g) \/ (a.bufs # <<>> /\ r.bufs[1].frame = a.bufs[1].frame)
          /\ g.eof => Good(T, g.dest, r.bufs)
          /\ ~g.eof => /\ Begun(T, g.dest, r)
                       /\ CurA(r) = Cur(g) \/ CurA(r).n \in T

\* A whole piece of a frame and another fragment, or what is torn already, together.
LEMMA JoinTorn ==
    ASSUME NEW p \in Ports, NEW T, NEW x \in Seq(Buf), x # <<>>, x[1].frame \in T,
           x[1].frame \in Nat, NEW y \in Seq(Buf), \A j \in 1..Len(y) : y[j].port = p,
           \/ /\ Len(x) \in 1..(Total(p, x[1].frame) - 1)
              /\ x = Piece(p, x[1].frame, 1, Len(x))
           \/ Torn(T, p, x)
    PROVE  (x \o y) # <<>> /\ (x \o y)[1] = x[1] /\ Torn(T, p, x \o y)
<1>1. PICK n, l, k, z : n = x[1].frame /\ l = Len(x) /\ k = Len(y) /\ z = x \o y
  OBVIOUS
<1>2. l \in Nat \ {0} /\ k \in Nat /\ 1 \in 1..l
  <2>1. l \in Nat \ {0} /\ k \in Nat
    BY <1>1, EmptySeq, LenProperties
  <2> QED BY <2>1
<1>3. /\ z \in Seq(Buf) /\ Len(z) = l + k
      /\ \A i \in 1..(l + k) : z[i] = IF i <= l THEN x[i] ELSE y[i - l]
  BY <1>1, ConcatProperties
<1>4. x[1] = Chain(p, n)[1] /\ \A j \in 1..l : x[j].port = p
  <2>1. CASE Torn(T, p, x)
    BY <1>1, <2>1 DEF Torn
  <2>2. CASE l \in 1..(Total(p, n) - 1) /\ x = Piece(p, n, 1, l)
    <3>1. Total(p, n) \in Nat \ {0} /\ n \in Nat
      BY <1>1, ChainFacts
    <3>2. 1 \in 1..Total(p, n) /\ l \in 1..Total(p, n) /\ l - 1 + 1 = l
      BY <1>2, <2>2, <3>1
    <3>3. IsPiece(Piece(p, n, 1, l), p, n, 1, l)
      BY <3>1, <3>2, PieceFacts, Zenon
    <3> QED BY <2>2, <3>2, <3>3 DEF IsPiece
  <2> QED BY <1>1, <2>1, <2>2
<1>5. z[1] = x[1] /\ z # <<>>
  <2>1. 1 \in 1..(l + k) /\ 1 <= l /\ l + k # 0
    BY <1>2
  <2> QED BY <1>3, <2>1, EmptySeq
<1>6. ASSUME NEW j \in 1..(l + k) PROVE z[j].port = p
  <2>1. CASE j <= l
    <3>1. j \in 1..l /\ z[j] = x[j]
      BY <1>2, <1>3, <2>1
    <3> QED BY <1>4, <3>1
  <2>2. CASE ~(j <= l)
    <3>1. PICK i : i = j - l
      OBVIOUS
    <3>2. i \in 1..k /\ z[j] = y[i]
      BY <1>2, <1>3, <2>2, <3>1
    <3> QED BY <1>1, <3>2
  <2> QED BY <2>1, <2>2
<1>7. Torn(T, p, z)
  BY <1>1, <1>3, <1>4, <1>5, <1>6 DEF Torn
<1> QED BY <1>1, <1>5, <1>7

LEMMA Assembled ==
    ASSUME NEW g, Valid(g), NEW T, NEW a \in Assembly, Begun(T, g.dest, a),
           a.bufs # <<>> => Step(T, CurA(a), At(g)),
           NEW r, r = Assemble(a, g)
    PROVE  Made(T, a, g, r)
<1>1. PICK p, n, e, b, L :
          p = g.dest /\ n = Frame(g) /\ b = First(g) /\ e = End(g) /\ L = Total(p, n)
  OBVIOUS
<1>2. /\ p \in Ports /\ n \in Nat \ {0} /\ g.no \in 0..(FragMod - 1)
      /\ b \in 1..L /\ e \in b..L /\ g.bufs = Piece(p, n, b, e) /\ g.bufs \in Seq(Buf)
      /\ g.sof <=> b = 1
      /\ g.sof => g.no = 0
      /\ g.eof <=> e = L
  BY <1>1 DEF Valid, Fragment
<1>3. L \in Nat \ {0} /\ e \in 1..L /\ e \in Nat \ {0} /\ 1 \in 1..L
  <2>1. L \in Nat \ {0}
    BY <1>1, <1>2, ChainFacts
  <2> QED BY <1>2, <2>1
<1>4. /\ Piece(p, n, 1, e) \in Seq(Buf) /\ Piece(p, n, 1, e) # <<>>
      /\ Len(Piece(p, n, 1, e)) = e
      /\ Piece(p, n, 1, e)[1].frame = n
  <2>1. e - 1 + 1 = e
    BY <1>3
  <2>2. n \in Nat /\ 1 \in 1..Total(p, n) /\ e \in 1..Total(p, n)
    BY <1>1, <1>2, <1>3
  <2>3. IsPiece(Piece(p, n, 1, e), p, n, 1, e)
    BY <1>2, <2>2, PieceFacts, Zenon
  <2> QED BY <2>1, <2>3 DEF IsPiece
\* it is enough that the assembly is the frame up to the end of the fragment
<1>5. ASSUME r \in Assembly, r.bufs = Piece(p, n, 1, e), (r.fragNo + 1) % FragMod = (g.no + 1) % FragMod
      PROVE  Made(T, a, g, r)
  <2>1. r.bufs[1].frame = n /\ Len(r.bufs) = e
    BY <1>4, <1>5
  <2>2. ASSUME g.eof PROVE Good(T, p, r.bufs)
    <3>1. L \in 1..L /\ n \in Nat
      BY <1>2, <1>3
    <3>2. r.bufs = Chain(p, n)
      BY <1>1, <1>2, <1>3, <1>5, <2>2, <3>1, JoinPiece
    <3> QED BY <2>1, <3>1, <3>2 DEF Good
  <2>3. ASSUME ~g.eof PROVE Begun(T, p, r)
    <3>1. e \in 1..(L - 1)
      BY <1>2, <1>3, <2>3
    <3> QED BY <1>1, <1>2, <1>5, <2>1, <3>1 DEF Begun
  <2>4. ASSUME ~g.eof PROVE CurA(r) = Cur(g)
    BY <1>1, <1>5, <2>1, <2>4 DEF CurA, Cur
  <2> QED BY <1>1, <1>5, <2>1, <2>2, <2>3, <2>4 DEF Made
<1>6. CASE g.sof
  <2>1. r = [bufs |-> g.bufs, fragNo |-> 0]
    BY <1>6 DEF Assemble
  <2>2. r \in Assembly
    BY <1>2, <2>1 DEF Assembly
  <2>3. r.bufs = Piece(p, n, 1, e) /\ (r.fragNo + 1) % FragMod = (g.no + 1) % FragMod
    BY <1>2, <1>6, <2>1
  <2> QED BY <1>5, <2>2, <2>3
<1>7. CASE /\ ~g.sof /\ a.bufs # <<>> /\ (a.fragNo + 1) % FragMod = g.no
           /\ a.bufs[1].frame \notin T
  <2>1. r = [bufs |-> a.bufs \o g.bufs, fragNo |-> a.fragNo + 1]
    BY <1>7 DEF Assemble
  <2>2. CurA(a) = At(g)
    <3>1. CurA(a).k = g.no /\ At(g).k = g.no /\ At(g).e = b - 1
      BY <1>1, <1>7 DEF CurA, At
    <3>2. b - 1 # 0
      BY <1>2, <1>3, <1>7
    <3>3. CurA(a).n \notin T /\ CurA(a).e = Len(a.bufs) /\ Len(a.bufs) # 0
      BY <1>7, EmptySeq DEF CurA, Assembly
    <3> QED BY <1>7, <3>1, <3>2, <3>3 DEF Step
  <2>3. a.bufs[1].frame = n /\ Len(a.bufs) = b - 1
    <3>1. CurA(a).n = a.bufs[1].frame /\ CurA(a).e = Len(a.bufs)
      BY DEF CurA
    <3>2. At(g).n = n /\ At(g).e = b - 1
      BY <1>1 DEF At
    <3> QED BY <2>2, <3>1, <3>2
  <2>4. b - 1 \in 1..L /\ a.bufs = Piece(p, n, 1, b - 1) /\ (b - 1) + 1 = b /\ e \in (b - 1)..L
    <3>1. a.bufs = Piece(p, n, 1, b - 1)
      BY <1>1, <1>7, <2>3 DEF Begun, Torn
    <3>2. b # 1
      BY <1>2, <1>7
    <3> QED BY <1>2, <1>3, <3>1, <3>2
  <2>5. a.bufs \o g.bufs = Piece(p, n, 1, e)
    <3>1. n \in Nat /\ b - 1 \in 1..Total(p, n) /\ e \in (b - 1)..Total(p, n)
      BY <1>1, <1>2, <2>4
    <3>2. Piece(p, n, 1, b - 1) \o Piece(p, n, (b - 1) + 1, e) = Piece(p, n, 1, e)
      BY <1>2, <3>1, JoinPiece, ZenonT(40)
    <3> QED BY <1>2, <2>4, <3>2, Zenon
  <2>6. a.fragNo \in Nat /\ a.fragNo + 1 \in Nat
    BY DEF Assembly
  <2>7. r \in Assembly
    BY <1>4, <2>1, <2>5, <2>6 DEF Assembly
  <2>8. (r.fragNo + 1) % FragMod = (g.no + 1) % FragMod
    <3>1. r.fragNo = a.fragNo + 1
      BY <2>1
    <3>2. (((a.fragNo + 1) % FragMod) + 1) % FragMod = ((a.fragNo + 1) + 1) % FragMod
      BY <2>6, Numbers, Zenon
    <3> QED BY <1>7, <3>1, <3>2, Zenon
  <2> QED BY <1>5, <2>1, <2>5, <2>7, <2>8
<1>8. CASE /\ ~g.sof /\ a.bufs # <<>> /\ (a.fragNo + 1) % FragMod = g.no
           /\ a.bufs[1].frame \in T
  <2>1. r = [bufs |-> a.bufs \o g.bufs, fragNo |-> a.fragNo + 1]
    BY <1>8 DEF Assemble
  <2>2. a.bufs \in Seq(Buf) /\ a.fragNo \in Nat /\ a.bufs[1].frame \in Nat \ {0}
    BY <1>8 DEF Assembly, Begun
  <2>3. \A j \in 1..Len(g.bufs) : g.bufs[j].port = p
    <3>1. n \in Nat /\ b \in 1..Total(p, n) /\ e \in b..Total(p, n)
      BY <1>1, <1>2
    <3>2. IsPiece(Piece(p, n, b, e), p, n, b, e)
      BY <1>2, <3>1, PieceFacts, Zenon
    <3>3. Len(g.bufs) = e - b + 1 /\ \A j \in 1..(e - b + 1) : g.bufs[j].port = p
      BY <1>2, <3>2 DEF IsPiece
    <3> QED BY <3>3
  <2>4. PICK x, y : x = a.bufs /\ y = g.bufs
    OBVIOUS
  <2>5. x \o y # <<>> /\ (x \o y)[1] = x[1] /\ Torn(T, p, x \o y)
    <3>1. \/ /\ Len(x) \in 1..(Total(p, x[1].frame) - 1)
             /\ x = Piece(p, x[1].frame, 1, Len(x))
          \/ Torn(T, p, x)
      BY <1>1, <1>8, <2>4 DEF Begun
    <3>2. /\ p \in Ports /\ x \in Seq(Buf) /\ x # <<>> /\ x[1].frame \in T /\ x[1].frame \in Nat
          /\ y \in Seq(Buf) /\ \A j \in 1..Len(y) : y[j].port = p
      BY <1>2, <1>8, <2>2, <2>3, <2>4
    <3> QED BY <3>1, <3>2, JoinTorn
  <2>6. r \in Assembly
    <3>1. x \o y \in Seq(Buf) /\ a.fragNo + 1 \in Nat
      BY <1>2, <2>2, <2>4, ConcatProperties
    <3> QED BY <2>1, <2>4, <3>1 DEF Assembly
  <2>7. r.bufs = x \o y
    <3>1. PICK z : z = a.bufs \o g.bufs
      OBVIOUS
    <3>2. r = [bufs |-> z, fragNo |-> a.fragNo + 1]
      BY <2>1, <3>1
    <3>3. r.bufs = z
      BY <3>2
    <3> QED BY <2>4, <3>1, <3>3, Zenon
  <2>8. Good(T, p, r.bufs) /\ Begun(T, p, r) /\ CurA(r).n \in T
    BY <1>8, <2>2, <2>4, <2>5, <2>7 DEF Good, Begun, CurA
  <2> QED BY <1>1, <1>8, <2>4, <2>5, <2>6, <2>7, <2>8 DEF Made
<1>9. CASE ~g.sof /\ ~(a.bufs # <<>> /\ (a.fragNo + 1) % FragMod = g.no)
  <2>1. r = NoAssembly
    BY <1>9 DEF Assemble
  <2> QED BY <2>1, EmptySeq DEF NoAssembly, Assembly, Made
<1> QED BY <1>6, <1>7, <1>8, <1>9

-----------------------------------------------------------------------------
(* The steps.                                                              *)

\* The first element leaves a sequence to which something may be appended.
LEMMA ConcatTail ==
    ASSUME NEW S, NEW h \in Seq(S), h # <<>>, NEW x \in Seq(S)
    PROVE  /\ h \o x \in Seq(S) /\ h \o x # <<>> /\ (h \o x)[1] = h[1]
           /\ Head(h) = h[1] /\ Tail(h) \in Seq(S) /\ Tail(h \o x) = Tail(h) \o x
<1>1. Len(h) \in Nat \ {0} /\ Len(x) \in Nat
  BY EmptySeq, LenProperties
<1>2. /\ h \o x \in Seq(S) /\ Len(h \o x) = Len(h) + Len(x)
      /\ \A i \in 1..(Len(h) + Len(x)) : (h \o x)[i] = IF i <= Len(h) THEN h[i] ELSE x[i - Len(h)]
  BY ConcatProperties
<1>3. h \o x # <<>> /\ (h \o x)[1] = h[1]
  <2>1. Len(<<>>) = 0
    BY EmptySeq
  <2>2. 1 \in 1..(Len(h) + Len(x)) /\ 1 <= Len(h) /\ Len(h) + Len(x) # 0
    BY <1>1
  <2> QED BY <1>2, <2>1, <2>2
<1>4. Tail(h) \in Seq(S) /\ Len(Tail(h)) = Len(h) - 1 /\ \A i \in 1..Len(Tail(h)) : Tail(h)[i] = h[i + 1]
  BY HeadTailProperties
<1>5. /\ Tail(h \o x) \in Seq(S) /\ Len(Tail(h \o x)) = Len(h) + Len(x) - 1
      /\ \A i \in 1..Len(Tail(h \o x)) : Tail(h \o x)[i] = (h \o x)[i + 1]
  BY <1>2, <1>3, HeadTailProperties
<1>6. PICK n, k : n = Len(h) /\ k = Len(x)
  OBVIOUS
<1>7. /\ Tail(h) \o x \in Seq(S) /\ Len(Tail(h) \o x) = (n - 1) + k
      /\ \A i \in 1..((n - 1) + k) : (Tail(h) \o x)[i] = IF i <= n - 1 THEN Tail(h)[i] ELSE x[i - (n - 1)]
  BY <1>4, <1>6, ConcatProperties
<1>8. n + k - 1 = (n - 1) + k
  BY <1>1, <1>6
<1>9. ASSUME NEW i \in 1..(n + k - 1) PROVE Tail(h \o x)[i] = (Tail(h) \o x)[i]
  <2>1. i + 1 \in 1..(n + k) /\ i \in 1..((n - 1) + k)
    BY <1>1, <1>6
  <2>2. Tail(h \o x)[i] = (h \o x)[i + 1]
    BY <1>5, <1>6
  <2>3. CASE i <= n - 1
    <3>1. i + 1 <= n /\ i \in 1..(n - 1)
      BY <1>1, <1>6, <2>3
    <3>2. (h \o x)[i + 1] = h[i + 1]
      BY <1>2, <1>6, <2>1, <3>1
    <3>3. (Tail(h) \o x)[i] = h[i + 1]
      BY <1>4, <1>6, <1>7, <2>1, <2>3, <3>1
    <3> QED BY <2>2, <3>2, <3>3
  <2>4. CASE ~(i <= n - 1)
    <3>1. ~(i + 1 <= n) /\ (i + 1) - n = i - (n - 1)
      BY <1>1, <1>6, <2>4
    <3>2. (h \o x)[i + 1] = x[(i + 1) - n]
      BY <1>2, <1>6, <2>1, <3>1
    <3>3. (Tail(h) \o x)[i] = x[i - (n - 1)]
      BY <1>7, <2>1, <2>4
    <3> QED BY <2>2, <3>1, <3>2, <3>3
  <2> QED BY <2>3, <2>4
<1>10. Tail(h \o x) = Tail(h) \o x
  <2>1. Len(Tail(h \o x)) = n + k - 1 /\ Len(Tail(h) \o x) = n + k - 1
    BY <1>5, <1>6, <1>7, <1>8
  <2>2. \A i \in 1..Len(Tail(h \o x)) : Tail(h \o x)[i] = (Tail(h) \o x)[i]
    BY <1>9, <2>1
  <2> QED BY <1>5, <1>7, <2>1, <2>2, SeqEqual
<1> QED BY <1>1, <1>2, <1>3, <1>4, <1>10

\* The types of what has arrived.
LEMMA HandedTypes ==
    ASSUME MuxTypes, NEW p \in Ports
    PROVE  /\ Handed(p) \in Seq(Seq(Buf))
           /\ ~(rx.pc = "push" /\ rx.port = p) => Handed(p) = outq[p]
<1>1. outq[p] \in Seq(Seq(Buf)) /\ rx.frame \in Seq(Buf)
  BY DEF MuxTypes, RxState
<1>2. outq[p] \o <<>> = outq[p]
  BY <1>1, ConcatEmptySeq
<1>3. outq[p] \o <<rx.frame>> \in Seq(Seq(Buf))
  <2>1. Append(outq[p], rx.frame) = outq[p] \o <<rx.frame>>
    BY <1>1, AppendIsConcat
  <2>2. Append(outq[p], rx.frame) \in Seq(Seq(Buf))
    BY <1>1, AppendProperties
  <2> QED BY <2>1, <2>2
<1> QED BY <1>1, <1>2, <1>3 DEF Handed

\* Places are numbers.
LEMMA PlacesTyped ==
    ASSUME MuxTypes, InHand, NEW p \in Ports
    PROVE  Sending(p) \in Int /\ Places[p].n \in Int
<1>1. prod[p].pushed \in Nat /\ inq[p] \in Seq(Seq(Buf))
  BY DEF MuxTypes
<1>2. Len(inq[p]) \in Nat
  BY <1>1, LenProperties
<1>3. Sending(p) \in Int
  BY <1>1, <1>2 DEF Sending
<1>4. CurW(p).n = Sending(p) \/ CurW(p).n = Sending(p) + 1
  BY DEF CurW
<1>5. mux.pc = "push" => At(mux.frag).n \in Int
  BY ValidFrame DEF InHand
<1> QED BY <1>3, <1>4, <1>5 DEF Places

\* A step of the others leaves the sender where it is.
LEMMA PlacesSame ==
    ASSUME Carried, \A p \in Ports : Sending(p)' = Sending(p),
           work' = work, (mux'.pc = "push") = (mux.pc = "push"), mux'.frag = mux.frag
    PROVE  UNCHANGED Places /\ InHand'
<1>1. \A p \in Ports : CurW(p)' = CurW(p)
  BY DEF CurW
<1>2. UNCHANGED Places
  BY <1>1 DEF Places
<1>3. mux.pc = "push" => Valid(mux.frag) /\ Cur(mux.frag) = CurW(mux.frag.dest)
  BY DEF Carried, InHand
<1>4. mux.pc = "push" => mux.frag.dest \in Ports
  BY <1>3 DEF Valid, Fragment
<1> QED BY <1>1, <1>2, <1>3, <1>4 DEF InHand

LEMMA SenderSame ==
    ASSUME Carried, UNCHANGED sender
    PROVE  UNCHANGED Places /\ InHand' /\ \A p \in Ports : Supply(p)'
<1>1. UNCHANGED <<prod, inq, work, mux>>
  BY DEF sender
<1>2. \A p \in Ports : Sending(p)' = Sending(p)
  BY <1>1 DEF Sending
<1>3. \A p \in Ports : Supply(p)' = Supply(p)
  BY <1>1, <1>2 DEF Supply
<1>4. \A p \in Ports : Supply(p)
  BY DEF Carried
<1> QED BY <1>1, <1>2, <1>3, <1>4, PlacesSame

\* A step that moves no fragment.
LEMMA Unmoved ==
    ASSUME Carried, MuxTypes', InHand', UNCHANGED <<link, asm, trail, Places>>,
           \A p \in Ports : Supply(p)',
           \A p \in Ports :
               Arrived(trail[p].torn, Handed(p)', last'[p], link, asm, Places, p)
    PROVE  Carried'
<1>1. AllValid(link) /\ Linked(link, asm, Places, trail) /\ InOrder(link, Places)
  BY DEF Carried
<1>2. \A p \in Ports : Begun(trail[p].torn, p, asm[p]) /\ Latest(link, asm, Places, p)
  BY DEF Carried
<1>3. \A p \in Ports :
          Arrived(trail'[p].torn, Handed(p)', last'[p], link', asm', Places', p)
  OBVIOUS
<1>4. AllValid(link') /\ Linked(link', asm', Places', trail') /\ InOrder(link', Places')
  BY <1>1
<1>5. \A p \in Ports : Begun(trail'[p].torn, p, asm'[p]) /\ Latest(link, asm, Places, p)'
  BY <1>2 DEF Latest
<1> QED BY <1>3, <1>4, <1>5 DEF Carried

\* Where a pop succeeds there is a frame.
LEMMA SlotsTaken ==
    ASSUME MuxTypes, NEW q \in Ports
    PROVE  /\ Cardinality(Short(q)) \in Nat /\ Len(outq[q]) \in Nat
           /\ (Slots(q) > 0 => outq[q] # <<>>)
<1>1. Short(q) \subseteq Users /\ IsFiniteSet(Users)
  BY UserAssumption DEF Short
<1>2. Cardinality(Short(q)) \in Nat
  BY <1>1, FS_Subset, FS_CardinalityType
<1>3. outq[q] \in Seq(Seq(Buf))
  BY DEF MuxTypes
<1>4. Len(outq[q]) \in Nat /\ (outq[q] = <<>> => Len(outq[q]) = 0)
  BY <1>3, EmptySeq, LenProperties
<1>5. ASSUME Slots(q) > 0 PROVE Len(outq[q]) # 0
  BY <1>2, <1>4, <1>5 DEF Slots
<1> QED BY <1>2, <1>4, <1>5

\* A program takes the first frame out of the queue of port q, to read it or not.
LEMMA CarriedPop ==
    ASSUME Carried, NEW q \in Ports, outq[q] # <<>>, outq' = [outq EXCEPT ![q] = Tail(@)],
           last' = last \/ last' = [last EXCEPT ![q] = Head(outq[q])[1].frame],
           UNCHANGED <<sender, link, fate, asm>>, rx' \in RxState,
           (rx'.pc = "push") = (rx.pc = "push"), rx'.port = rx.port, rx'.frame = rx.frame
    PROVE  Carried'
<1>0. MuxTypes
  BY DEF Carried
<1>1. /\ outq \in [Ports -> Seq(Seq(Buf))] /\ last \in [Ports -> Nat] /\ rx.frame \in Seq(Buf)
      /\ outq[q] \in Seq(Seq(Buf))
  BY <1>0 DEF MuxTypes, RxState
<1>2. UNCHANGED <<link, asm, trail, Places>> /\ InHand' /\ \A p \in Ports : Supply(p)'
  BY SenderSame DEF fate
<1>3. PICK x : x = IF rx.pc = "push" /\ rx.port = q THEN <<rx.frame>> ELSE <<>>
  OBVIOUS
<1>4. x \in Seq(Seq(Buf))
  BY <1>1, <1>3
<1>5. /\ outq[q] \o x \in Seq(Seq(Buf)) /\ outq[q] \o x # <<>> /\ (outq[q] \o x)[1] = outq[q][1]
      /\ Head(outq[q]) = outq[q][1] /\ Tail(outq[q]) \in Seq(Seq(Buf))
      /\ Tail(outq[q] \o x) = Tail(outq[q]) \o x
  <2>1. PICK h, S : h = outq[q] /\ S = Seq(Buf)
    OBVIOUS
  <2>2. h \in Seq(S) /\ h # <<>> /\ x \in Seq(S)
    BY <1>1, <1>4, <2>1
  <2>3. /\ h \o x \in Seq(S) /\ h \o x # <<>> /\ (h \o x)[1] = h[1]
        /\ Head(h) = h[1] /\ Tail(h) \in Seq(S) /\ Tail(h \o x) = Tail(h) \o x
    BY <2>2, ConcatTail
  <2> QED BY <2>1, <2>3
<1>6. /\ outq'[q] = Tail(outq[q])
      /\ \A p \in Ports : p # q => outq'[p] = outq[p] /\ last'[p] = last[p]
      /\ last'[q] = last[q] \/ last'[q] = outq[q][1][1].frame
  BY <1>1, <1>5
<1>7. Handed(q) = outq[q] \o x /\ Handed(q)' = Tail(Handed(q))
  BY <1>3, <1>5, <1>6 DEF Handed
<1>8. Arrived(trail[q].torn, Handed(q), last[q], link, asm, Places, q) /\ last[q] \in Nat
  BY <1>1 DEF Carried
<1>9. Arrived(trail[q].torn, Handed(q)', last'[q], link, asm, Places, q)
  <2>1. last'[q] = last[q] \/ last'[q] = Handed(q)[1][1].frame
    BY <1>5, <1>6, <1>7
  <2>2. Handed(q) \in Seq(Seq(Buf)) /\ Handed(q) # <<>>
    BY <1>5, <1>7
  <2>3. Arrived(trail[q].torn, Tail(Handed(q)), last'[q], link, asm, Places, q)
    BY <1>8, <2>1, <2>2, ArrivedTail
  <2> QED BY <1>7, <2>3
<1>10. ASSUME NEW p \in Ports
       PROVE  Arrived(trail[p].torn, Handed(p)', last'[p], link, asm, Places, p)
  <2>1. CASE p = q
    BY <1>9, <2>1
  <2>2. CASE p # q
    <3>1. Handed(p)' = Handed(p) /\ last'[p] = last[p]
      BY <1>6, <2>2 DEF Handed
    <3> QED BY <3>1 DEF Carried
  <2> QED BY <2>1, <2>2
<1>11. MuxTypes'
  <2>1. last'[q] \in Nat
    <3>1. Handed(q)[1][1].frame \in Nat
      <4>1. Len(Handed(q)) \in Nat \ {0}
        BY <1>5, <1>7, EmptySeq
      <4>2. 1 \in 1..Len(Handed(q))
        BY <4>1
      <4> QED BY <1>8, <4>2 DEF Arrived, Good
    <3> QED BY <1>5, <1>6, <1>7, <1>8, <3>1
  <2>2. outq' \in [Ports -> Seq(Seq(Buf))]
    BY <1>1, <1>5
  <2>3. last' \in [Ports -> Nat]
    BY <1>1, <2>1
  <2> QED BY <1>0, <2>2, <2>3 DEF MuxTypes, sender, fate
<1> QED BY <1>2, <1>10, <1>11, Unmoved

\* Frames stay where they are, and so does everything else that is on its way.
LEMMA CarriedStill ==
    ASSUME Carried, UNCHANGED <<sender, link, fate, asm, last>>,
           rx' \in RxState, outq' \in [Ports -> Seq(Seq(Buf))],
           \A p \in Ports : Handed(p)' = Handed(p)
    PROVE  Carried'
<1>1. MuxTypes'
  BY DEF Carried, MuxTypes, sender, fate
<1>2. \A p \in Ports : Arrived(trail[p].torn, Handed(p)', last'[p], link, asm, Places, p)
  BY DEF Carried
<1>3. UNCHANGED <<link, asm, trail, Places>> /\ InHand' /\ \A p \in Ports : Supply(p)'
  BY SenderSame DEF fate
<1> QED BY <1>1, <1>2, <1>3, Unmoved

\* Programs open, read and close.
LEMMA CarriedUser ==
    ASSUME Carried, NEW u \in Users,
           \/ Read(u) \/ ReadFails(u) \/ ReadRestore(u) \/ Close(u) \/ Drain(u)
           \/ \E p \in Ports : Open(u, p)
    PROVE  Carried'
<1>1. MuxTypes
  BY DEF Carried
<1>2. UNCHANGED <<sender, link, fate, receiver>>
  BY DEF Read, ReadFails, ReadRestore, Close, Drain, CloseTryPop, CloseIsOpen, CloseRestore, Open
<1>3. UNCHANGED <<asm, rx>> /\ rx \in RxState /\ outq \in [Ports -> Seq(Seq(Buf))] /\ last \in [Ports -> Nat]
  BY <1>1, <1>2 DEF receiver, MuxTypes
<1>4. CASE UNCHANGED <<outq, last>>
  <2>1. \A p \in Ports : Handed(p)' = Handed(p)
    BY <1>3, <1>4 DEF Handed
  <2> QED BY <1>2, <1>3, <1>4, <2>1, CarriedStill
<1>5. ASSUME NEW q, Slots(q) > 0, outq' = [outq EXCEPT ![q] = Tail(@)],
             last' = last \/ last' = [last EXCEPT ![q] = Head(outq[q])[1].frame]
      PROVE  Carried'
  <2>1. CASE q \notin Ports
    <3>1. outq' = outq /\ last' = last
      BY <1>3, <1>5, <2>1
    <3> QED BY <1>4, <3>1
  <2>2. CASE q \in Ports
    <3>1. outq[q] # <<>>
      BY <1>1, <1>5, <2>2, SlotsTaken
    <3> QED BY <1>2, <1>3, <1>5, <2>2, <3>1, CarriedPop
  <2> QED BY <2>1, <2>2
<1>6. CASE Read(u)
  <2>1. PICK q : q = user[u].port
    OBVIOUS
  <2>2. /\ Slots(q) > 0 /\ outq' = [outq EXCEPT ![q] = Tail(@)]
        /\ last' = [last EXCEPT ![q] = Head(outq[q])[1].frame]
    BY <1>6, <2>1 DEF Read
  <2> QED BY <1>5, <2>2
<1>7. CASE CloseTryPop(u)
  <2>1. PICK q : q = user[u].port
    OBVIOUS
  <2>2. CASE ~(Slots(q) > 0)
    BY <1>4, <1>7, <2>1, <2>2 DEF CloseTryPop
  <2>3. CASE Slots(q) > 0
    <3>1. outq' = [outq EXCEPT ![q] = Tail(@)] /\ last' = last
      BY <1>7, <2>1, <2>3 DEF CloseTryPop
    <3> QED BY <1>5, <2>3, <3>1
  <2> QED BY <2>2, <2>3
<1>8. CASE \/ ReadFails(u) \/ ReadRestore(u) \/ Close(u) \/ CloseIsOpen(u) \/ CloseRestore(u)
           \/ \E p \in Ports : Open(u, p)
  BY <1>4, <1>8 DEF ReadFails, ReadRestore, Close, CloseIsOpen, CloseRestore, Open
<1> QED BY <1>6, <1>7, <1>8 DEF Drain

\* The receiver pushes a frame into the queue and drains it.
LEMMA CarriedDrain ==
    ASSUME Carried, DemuxPush \/ DemuxIsOpen \/ DemuxTryPop \/ DemuxRestore
    PROVE  Carried'
<1>1. MuxTypes
  BY DEF Carried
<1>2. UNCHANGED <<sender, link, fate, asm, last>>
  BY DEF DemuxPush, DemuxIsOpen, DemuxTryPop, DemuxRestore, ports
<1>3. PICK q : q = rx.port
  OBVIOUS
<1>4. /\ rx \in RxState /\ outq \in [Ports -> Seq(Seq(Buf))] /\ rx.frame \in Seq(Buf)
      /\ \A p \in Ports : outq[p] \in Seq(Seq(Buf))
  BY <1>1 DEF MuxTypes, RxState
<1>5. /\ RxIdle.pc = "pop" /\ RxIdle \in RxState
      /\ \A c \in {"pop", "isOpen", "tryPop", "restore"} :
            LET r == [rx EXCEPT !.pc = c]
            IN  r \in RxState /\ r.pc = c /\ r.port = q /\ r.frame = rx.frame
  BY <1>3, <1>4, EmptySeq DEF RxIdle, RxState
<1>6. CASE DemuxPush
  <2>1. /\ rx.pc = "push" /\ outq' = [outq EXCEPT ![q] = Append(@, rx.frame)]
        /\ rx' = [rx EXCEPT !.pc = "isOpen", !.frame = <<>>]
    BY <1>3, <1>6 DEF DemuxPush
  <2>2. rx'.pc = "isOpen" /\ rx' \in RxState
    BY <1>4, <2>1, EmptySeq DEF RxState
  <2>3. outq' \in [Ports -> Seq(Seq(Buf))]
    <3>1. \A p \in Ports : Append(outq[p], rx.frame) \in Seq(Seq(Buf))
      BY <1>4, AppendProperties
    <3> QED BY <1>4, <2>1, <3>1
  <2>4. ASSUME NEW p \in Ports PROVE Handed(p)' = Handed(p)
    <3>1. Handed(p)' = outq'[p]
      <4>1. outq'[p] \o <<>> = outq'[p]
        BY <2>3, ConcatEmptySeq
      <4> QED BY <2>2, <4>1 DEF Handed
    <3>2. CASE p = q
      <4>1. outq'[p] = Append(outq[p], rx.frame)
        BY <1>4, <2>1, <3>2
      <4>2. Handed(p) = outq[p] \o <<rx.frame>>
        BY <1>3, <2>1, <3>2 DEF Handed
      <4> QED BY <1>4, <3>1, <4>1, <4>2, AppendIsConcat
    <3>3. CASE p # q
      <4>1. outq'[p] = outq[p]
        BY <1>4, <2>1, <3>3
      <4>2. Handed(p) = outq[p]
        BY <1>1, <1>3, <3>3, HandedTypes
      <4> QED BY <3>1, <4>1, <4>2
    <3> QED BY <3>2, <3>3
  <2> QED BY <1>2, <2>2, <2>3, <2>4, CarriedStill
<1>7. CASE rx.pc # "push" /\ rx'.pc # "push" /\ UNCHANGED outq /\ rx' \in RxState
  <2>1. \A p \in Ports : Handed(p)' = Handed(p)
    BY <1>7 DEF Handed
  <2> QED BY <1>2, <1>4, <1>7, <2>1, CarriedStill
<1>8. CASE DemuxIsOpen
  <2>1. rx.pc = "isOpen" /\ (rx' = RxIdle \/ rx' = [rx EXCEPT !.pc = "tryPop"]) /\ UNCHANGED outq
    BY <1>8 DEF DemuxIsOpen, ports
  <2> QED BY <1>5, <1>7, <2>1
<1>9. CASE DemuxRestore
  <2>1. rx.pc = "restore" /\ rx' = RxIdle /\ UNCHANGED outq
    BY <1>9 DEF DemuxRestore, ports
  <2> QED BY <1>5, <1>7, <2>1
<1>10. CASE DemuxTryPop
  <2>1. rx.pc = "tryPop"
    BY <1>10 DEF DemuxTryPop
  <2>2. CASE ~(Slots(q) > 0)
    <3>1. rx' = [rx EXCEPT !.pc = "restore"] /\ UNCHANGED outq
      BY <1>3, <1>10, <2>2 DEF DemuxTryPop
    <3> QED BY <1>5, <1>7, <2>1, <3>1
  <2>3. CASE Slots(q) > 0
    <3>1. outq' = [outq EXCEPT ![q] = Tail(@)] /\ rx' = [rx EXCEPT !.pc = "isOpen"]
      BY <1>3, <1>10, <2>3 DEF DemuxTryPop
    <3>2. rx'.pc = "isOpen" /\ rx' \in RxState /\ rx'.port = rx.port /\ rx'.frame = rx.frame
      BY <1>3, <1>5, <3>1
    <3>3. CASE q \notin Ports
      <4>1. outq' = outq
        BY <1>4, <3>1, <3>3
      <4> QED BY <1>7, <2>1, <3>2, <4>1
    <3>4. CASE q \in Ports
      <4>1. outq[q] # <<>>
        BY <1>1, <2>3, <3>4, SlotsTaken
      <4>2. (rx'.pc = "push") = (rx.pc = "push")
        BY <2>1, <3>2
      <4> QED BY <1>2, <3>1, <3>2, <3>4, <4>1, <4>2, CarriedPop
    <3> QED BY <3>3, <3>4
  <2> QED BY <2>2, <2>3
<1> QED BY <1>6, <1>8, <1>9, <1>10

\* A frame is pushed into a port, the event set is notified, the muxer sleeps.
LEMMA CarriedIdle ==
    ASSUME Carried, Wait \/ \E p \in Ports : Push(p) \/ Notify(p)
    PROVE  Carried'
<1>1. MuxTypes
  BY DEF Carried
<1>2. UNCHANGED <<link, fate, receiver, ports, work>>
  BY DEF Wait, Push, Notify
<1>3. mux \in MuxState
  BY <1>1 DEF MuxTypes
<1>4. /\ mux' \in MuxState
      /\ (mux'.pc = "push") = (mux.pc = "push") /\ mux'.frag = mux.frag
  <2>1. CASE Wait
    <3>1. mux.pc = "turn" /\ (mux' = [mux EXCEPT !.noWorkCount = 0] \/ mux' = [mux EXCEPT !.pc = "wait"])
      BY <2>1 DEF Wait
    <3> QED BY <1>3, <3>1 DEF MuxState
  <2>2. ASSUME NEW p \in Ports, Notify(p)
        PROVE  <1>4!:
    <3>1. mux' = [mux EXCEPT !.pc = IF @ = "wait" THEN "turn" ELSE @]
      BY <2>2 DEF Notify
    <3> QED BY <1>3, <3>1 DEF MuxState
  <2>3. ASSUME NEW p \in Ports, Push(p) PROVE mux' = mux
    BY <2>3 DEF Push
  <2> QED BY <1>3, <2>1, <2>2, <2>3
<1>5. UNCHANGED <<link, asm, trail>> /\ \A p \in Ports : Handed(p)' = Handed(p)
  BY <1>2 DEF receiver, ports, fate, Handed
<1>6. \A p \in Ports : Arrived(trail[p].torn, Handed(p)', last'[p], link, asm, Places, p)
  BY <1>2, <1>5 DEF Carried, ports
<1>7. CASE Wait
  <2>1. UNCHANGED <<prod, inq, work>>
    BY <1>7 DEF Wait
  <2>2. MuxTypes'
    BY <1>1, <1>2, <1>4, <2>1 DEF MuxTypes, receiver, ports, fate
  <2>3. \A p \in Ports : Sending(p)' = Sending(p)
    BY <2>1 DEF Sending
  <2>4. UNCHANGED Places /\ InHand'
    BY <1>4, <2>1, <2>3, PlacesSame
  <2>5. \A p \in Ports : Supply(p)'
    BY <2>1, <2>3 DEF Carried, Supply
  <2> QED BY <1>5, <1>6, <2>2, <2>4, <2>5, Unmoved
<1>8. ASSUME NEW q \in Ports, Notify(q) PROVE Carried'
  <2>1. UNCHANGED <<inq, work>> /\ prod' = [prod EXCEPT ![q].notify = FALSE]
    BY <1>8 DEF Notify
  <2>2. \A p \in Ports : prod'[p].pushed = prod[p].pushed
    BY <1>1, <2>1 DEF MuxTypes
  <2>3. prod' \in [Ports -> [pushed : Nat, notify : BOOLEAN]]
    BY <1>1, <2>1 DEF MuxTypes
  <2>4. \A p \in Ports : Sending(p)' = Sending(p)
    BY <2>1, <2>2 DEF Sending
  <2>5. UNCHANGED Places /\ InHand'
    BY <1>4, <2>1, <2>4, PlacesSame
  <2>6. \A p \in Ports : Supply(p)'
    BY <2>1, <2>2, <2>4 DEF Carried, Supply
  <2>7. MuxTypes'
    BY <1>1, <1>2, <1>4, <2>1, <2>3 DEF MuxTypes, receiver, ports, fate
  <2> QED BY <1>5, <1>6, <2>5, <2>6, <2>7, Unmoved
<1>9. ASSUME NEW q \in Ports, Push(q) PROVE Carried'
  <2>0. prod \in [Ports -> [pushed : Nat, notify : BOOLEAN]] /\ inq \in [Ports -> Seq(Seq(Buf))]
    BY <1>1 DEF MuxTypes
  <2>1. PICK n, b : n = prod[q].pushed + 1 /\ b = Chain(q, n)
    OBVIOUS
  <2>2. /\ inq' = [inq EXCEPT ![q] = Append(@, b)]
        /\ prod' = [prod EXCEPT ![q] = [pushed |-> n, notify |-> TRUE]]
    BY <1>9, <2>1 DEF Push
  <2>3. n \in Nat /\ prod[q].pushed \in Nat /\ b \in Seq(Buf) /\ inq[q] \in Seq(Seq(Buf))
    <3>1. prod[q].pushed \in Nat /\ inq[q] \in Seq(Seq(Buf))
      BY <2>0
    <3>2. n \in Nat
      BY <2>1, <3>1
    <3> QED BY <2>1, <3>1, <3>2, ChainFacts
  <2>4. /\ inq'[q] = Append(inq[q], b) /\ prod'[q].pushed = n
        /\ \A p \in Ports : p # q => inq'[p] = inq[p] /\ prod'[p].pushed = prod[p].pushed
    BY <2>0, <2>2
  <2>5. /\ inq'[q] \in Seq(Seq(Buf)) /\ Len(inq[q]) \in Nat /\ Len(inq'[q]) = Len(inq[q]) + 1
        /\ \A i \in 1..Len(inq[q]) : inq'[q][i] = inq[q][i]
        /\ inq'[q][Len(inq[q]) + 1] = b
    BY <2>3, <2>4, AppendProperties, LenProperties
  <2>6. prod' \in [Ports -> [pushed : Nat, notify : BOOLEAN]] /\ inq' \in [Ports -> Seq(Seq(Buf))]
    <3>1. Append(inq[q], b) \in Seq(Seq(Buf))
      BY <2>3, AppendProperties
    <3> QED BY <2>0, <2>2, <2>3, <3>1
  <2>7. Sending(q)' = Sending(q) /\ \A p \in Ports : p # q => Sending(p)' = Sending(p)
    <3>1. (prod[q].pushed + 1) - (Len(inq[q]) + 1) = prod[q].pushed - Len(inq[q])
      <4>1. \A x, y \in Nat : (x + 1) - (y + 1) = x - y
        OBVIOUS
      <4>2. prod[q].pushed \in Nat /\ Len(inq[q]) \in Nat
        BY <2>3, <2>5
      <4> QED BY <4>1, <4>2, Zenon
    <3> QED BY <2>1, <2>4, <2>5, <3>1 DEF Sending
  <2>8. UNCHANGED Places /\ InHand'
    BY <1>2, <1>4, <2>7, PlacesSame
  <2>9. Supply(q)'
    <3>0. Supply(q)
      BY DEF Carried
    <3>1. Len(inq'[q]) \in 0..prod'[q].pushed
      BY <2>1, <2>3, <2>4, <2>5, <3>0 DEF Supply
    <3>2. ASSUME NEW i \in 1..Len(inq'[q]) PROVE inq'[q][i] = Chain(q, Sending(q)' + i)
      <4>1. CASE i \in 1..Len(inq[q])
        BY <2>5, <2>7, <3>0, <4>1 DEF Supply
      <4>2. CASE i = Len(inq[q]) + 1
        <5>1. Sending(q) + (Len(inq[q]) + 1) = n
          <6>1. \A x, y \in Nat : (x - y) + (y + 1) = x + 1
            OBVIOUS
          <6>2. prod[q].pushed \in Nat /\ Len(inq[q]) \in Nat
            BY <2>3, <2>5
          <6>3. (prod[q].pushed - Len(inq[q])) + (Len(inq[q]) + 1) = prod[q].pushed + 1
            BY <6>1, <6>2, Zenon
          <6> QED BY <2>1, <6>3 DEF Sending
        <5> QED BY <2>1, <2>5, <2>7, <4>2, <5>1
      <4> QED BY <2>5, <4>1, <4>2, OneMore
    <3>3. work'[q].bc # <<>> =>
              /\ Sending(q)' \in Nat \ {0} /\ work'[q].fragNo \in Nat \ {0}
              /\ work'[q].bc[1].buf \in 2..Total(q, Sending(q)')
              /\ work'[q].bc = Piece(q, Sending(q)', work'[q].bc[1].buf, Total(q, Sending(q)'))
      BY <1>2, <2>7, <3>0 DEF Supply
    <3> QED BY <3>1, <3>2, <3>3 DEF Supply
  <2>10. ASSUME NEW p \in Ports, p # q PROVE Supply(p)'
    <3>1. Supply(p) /\ inq'[p] = inq[p] /\ prod'[p].pushed = prod[p].pushed /\ Sending(p)' = Sending(p)
      BY <2>4, <2>7, <2>10 DEF Carried
    <3> QED BY <1>2, <3>1 DEF Supply
  <2>11. MuxTypes'
    BY <1>1, <1>2, <1>4, <2>6 DEF MuxTypes, receiver, ports, fate
  <2> QED BY <1>5, <1>6, <2>8, <2>9, <2>10, <2>11, Unmoved
<1> QED BY <1>7, <1>8, <1>9

\* sendFrag() for a port whose place in the stream is known.
LEMMA CarriedSend ==
    ASSUME Carried, mux.pc = "turn", NEW p \in Ports, NEW x, sendFrag(p, x),
           NEW n \in Nat \ {0}, NEW a \in 1..Total(p, n), x.fragNo \in Nat,
           x.fragNo = 0 <=> a = 1, x.bc = Piece(p, n, a, Total(p, n)),
           Places[p] = [n |-> n, e |-> a - 1, k |-> x.fragNo % FragMod],
           UNCHANGED <<prod, link, fate, receiver, ports>>,
           inq' \in [Ports -> Seq(Seq(Buf))], \A q \in Ports : q # p => inq'[q] = inq[q],
           Sending(p)' = n, Len(inq'[p]) \in 0..prod[p].pushed,
           \A i \in 1..Len(inq'[p]) : inq'[p][i] = Chain(p, n + i)
    PROVE  Carried'
<1>0. MuxTypes
  BY DEF Carried
<1>1. PICK no, bc, j, g, r :
          /\ no = x.fragNo /\ bc = x.bc /\ j = FragLen(bc)
          /\ g = [dest |-> p, no |-> no % FragMod, sof |-> no = 0, eof |-> j = Len(bc),
                  bufs |-> SubSeq(bc, 1, j)]
          /\ r = SubSeq(bc, j + 1, Len(bc))
  OBVIOUS
<1>2. /\ Valid(g) /\ At(g) = [n |-> n, e |-> a - 1, k |-> no % FragMod]
      /\ r \in Seq(Buf)
      /\ r # <<>> => /\ r[1].buf \in 2..Total(p, n) /\ r = Piece(p, n, r[1].buf, Total(p, n))
                     /\ Cur(g) = [n |-> n, e |-> r[1].buf - 1, k |-> (no + 1) % FragMod]
      /\ r = <<>> => Cur(g) = [n |-> n + 1, e |-> 0, k |-> 0]
  <2>1. no \in Nat /\ (no = 0 <=> a = 1) /\ bc = Piece(p, n, a, Total(p, n))
    BY <1>1
  <2>2. Sent(g, r, p, n, a, no)
    BY <1>1, <2>1, SentFragment, Zenon
  <2> QED BY <2>2 DEF Sent
<1>3. g \in Fragment /\ g.dest = p
  BY <1>1, <1>2 DEF Valid
<1>4. /\ work' = [work EXCEPT ![p] = [bc |-> r, fragNo |-> no + 1]]
      /\ mux' = [pc |-> "push", current |-> p, noWorkCount |-> 0, frag |-> g]
  BY <1>1 DEF sendFrag
<1>5. work' \in [Ports -> [bc : Seq(Buf), fragNo : Nat]] /\ p \in Nat /\ no \in Nat
  <2>1. work \in [Ports -> [bc : Seq(Buf), fragNo : Nat]]
    BY <1>0 DEF MuxTypes
  <2>2. no \in Nat /\ no + 1 \in Nat
    BY <1>1
  <2>3. p \in Nat
    BY MuxAssumption DEF Ports
  <2>4. [bc |-> r, fragNo |-> no + 1] \in [bc : Seq(Buf), fragNo : Nat]
    BY <1>2, <2>2
  <2> QED BY <1>4, <2>1, <2>2, <2>3, <2>4
<1>6. MuxTypes'
  <2>1. mux' \in MuxState /\ mux'.frag \in Fragment
    BY <1>3, <1>4, <1>5 DEF MuxState
  <2> QED BY <1>0, <1>5, <2>1 DEF MuxTypes, receiver, ports, fate
<1>7. work'[p].bc = r /\ work'[p].fragNo = no + 1 /\ \A q \in Ports : q # p => work'[q] = work[q]
  BY <1>0, <1>4 DEF MuxTypes
<1>8. \A q \in Ports : q # p => Sending(q)' = Sending(q)
  BY DEF Sending
<1>9. CurW(p)' = Cur(g) /\ \A q \in Ports : q # p => CurW(q)' = CurW(q)
  <2>1. \A q \in Ports : q # p => CurW(q)' = CurW(q)
    BY <1>7, <1>8 DEF CurW
  <2> QED BY <1>2, <1>7, <2>1 DEF CurW
<1>10. mux'.pc = "push" /\ mux'.frag = g
  BY <1>4
<1>11. UNCHANGED Places /\ InHand'
  <2>1. \A q \in Ports : Places[q] = CurW(q)
    BY DEF Places
  <2>2. Places[p] = At(g)
    BY <1>1, <1>2
  <2>3. \A q \in Ports : (IF mux'.pc = "push" /\ mux'.frag.dest = q THEN At(mux'.frag)
                          ELSE CurW(q)') = Places[q]
    BY <1>3, <1>9, <1>10, <2>1, <2>2
  <2>4. UNCHANGED Places
    BY <2>3 DEF Places
  <2> QED BY <1>2, <1>3, <1>9, <1>10, <2>4 DEF InHand
<1>12. \A q \in Ports : Supply(q)'
  <2>1. Supply(p)'
    <3>1. Len(inq'[p]) \in 0..prod'[p].pushed
      OBVIOUS
    <3>2. \A i \in 1..Len(inq'[p]) : inq'[p][i] = Chain(p, Sending(p)' + i)
      OBVIOUS
    <3>3. no + 1 \in Nat \ {0}
      BY <1>5
    <3>4. work'[p].bc # <<>> =>
              /\ Sending(p)' \in Nat \ {0} /\ work'[p].fragNo \in Nat \ {0}
              /\ work'[p].bc[1].buf \in 2..Total(p, Sending(p)')
              /\ work'[p].bc = Piece(p, Sending(p)', work'[p].bc[1].buf, Total(p, Sending(p)'))
      BY <1>2, <1>7, <3>3
    <3> QED BY <3>1, <3>2, <3>4 DEF Supply
  <2>2. ASSUME NEW q \in Ports, q # p PROVE Supply(q)'
    <3>1. Supply(q) /\ inq'[q] = inq[q] /\ work'[q] = work[q] /\ Sending(q)' = Sending(q)
      BY <1>7, <1>8, <2>2 DEF Carried
    <3> QED BY <3>1 DEF Supply
  <2> QED BY <2>1, <2>2
<1>13. UNCHANGED <<link, asm, trail>>
  BY DEF receiver, fate
<1>14. ASSUME NEW q \in Ports
       PROVE  Arrived(trail[q].torn, Handed(q)', last'[q], link, asm, Places, q)
  <2>1. Handed(q)' = Handed(q) /\ last'[q] = last[q]
    BY DEF Handed, receiver, ports
  <2> QED BY <2>1 DEF Carried
<1> QED BY <1>6, <1>11, <1>12, <1>13, <1>14, Unmoved

\* A port has its turn.
LEMMA CarriedTurn ==
    ASSUME Carried, Turn
    PROVE  Carried'
<1>0. MuxTypes
  BY DEF Carried
<1>1. PICK p : p = (mux.current + 1) % NumWork
  OBVIOUS
<1>2. p \in Ports /\ p \in Nat
  <2>1. mux.current \in Nat /\ NumWork \in Nat \ {0}
    BY <1>0, MuxAssumption DEF MuxTypes, MuxState
  <2>2. mux.current + 1 \in Nat
    BY <2>1
  <2>3. p \in 0..(NumWork - 1)
    BY <1>1, <2>1, <2>2
  <2> QED BY <2>1, <2>3 DEF Ports
<1>3. mux.pc = "turn" /\ UNCHANGED <<prod, link, fate, receiver, ports>>
  BY DEF Turn
<1>4. /\ Supply(p) /\ Places[p] = CurW(p) /\ Sending(p) \in Int
      /\ inq \in [Ports -> Seq(Seq(Buf))] /\ inq[p] \in Seq(Seq(Buf)) /\ prod[p].pushed \in Nat
      /\ Len(inq[p]) \in Nat
  <2>1. inq[p] \in Seq(Seq(Buf))
    BY <1>0, <1>2 DEF MuxTypes
  <2>2. Places[p] = CurW(p)
    BY <1>2, <1>3 DEF Places
  <2> QED BY <1>0, <1>2, <2>1, <2>2, PlacesTyped, LenProperties DEF Carried, MuxTypes
<1>5. CASE work[p].bc # <<>> /\ sendFrag(p, work[p]) /\ UNCHANGED inq
  <2>1. PICK n, a : n = Sending(p) /\ a = work[p].bc[1].buf
    OBVIOUS
  <2>2. /\ n \in Nat \ {0} /\ work[p].fragNo \in Nat \ {0} /\ a \in 2..Total(p, n)
        /\ work[p].bc = Piece(p, n, a, Total(p, n))
    BY <1>4, <1>5, <2>1 DEF Supply
  <2>3. Total(p, n) \in Nat
    BY <1>2, <2>2, ChainFacts
  <2>4. a \in 1..Total(p, n) /\ a # 1
    BY <2>2, <2>3
  <2>5. Places[p] = [n |-> n, e |-> a - 1, k |-> work[p].fragNo % FragMod]
    BY <1>4, <1>5, <2>1 DEF CurW
  <2>6. Sending(p)' = n
    BY <1>3, <1>5, <2>1 DEF Sending
  <2>7. Len(inq'[p]) \in 0..prod[p].pushed /\ \A i \in 1..Len(inq'[p]) : inq'[p][i] = Chain(p, n + i)
    BY <1>4, <1>5, <2>1 DEF Supply
  <2>8. inq' \in [Ports -> Seq(Seq(Buf))] /\ \A q \in Ports : q # p => inq'[q] = inq[q]
    BY <1>4, <1>5
  <2>9. work[p].fragNo \in Nat /\ (work[p].fragNo = 0 <=> a = 1)
    BY <2>2, <2>4
  <2> QED BY <1>2, <1>3, <1>5, <2>2, <2>4, <2>5, <2>6, <2>7, <2>8, <2>9, CarriedSend
<1>6. CASE /\ work[p].bc = <<>> /\ inq[p] # <<>> /\ inq' = [inq EXCEPT ![p] = Tail(@)]
           /\ sendFrag(p, [bc |-> Head(inq[p]), fragNo |-> 0])
  <2>1. PICK n, x : n = Sending(p) + 1 /\ x = [bc |-> Head(inq[p]), fragNo |-> 0]
    OBVIOUS
  <2>2. /\ Len(inq[p]) \in Nat \ {0} /\ Head(inq[p]) = inq[p][1] /\ inq'[p] = Tail(inq[p])
        /\ Tail(inq[p]) \in Seq(Seq(Buf)) /\ Len(inq'[p]) = Len(inq[p]) - 1
        /\ \A i \in 1..(Len(inq[p]) - 1) : inq'[p][i] = inq[p][i + 1]
    <3>1. Len(inq[p]) \in Nat \ {0}
      BY <1>4, <1>6, EmptySeq
    <3>2. inq'[p] = Tail(inq[p])
      BY <1>2, <1>4, <1>6
    <3>3. /\ Tail(inq[p]) \in Seq(Seq(Buf)) /\ Len(Tail(inq[p])) = Len(inq[p]) - 1
          /\ \A i \in 1..Len(Tail(inq[p])) : Tail(inq[p])[i] = inq[p][i + 1]
      BY <1>4, <1>6, HeadTailProperties
    <3>4. Head(inq[p]) = inq[p][1]
      BY <1>4, <3>1
    <3> QED BY <3>1, <3>2, <3>3, <3>4
  <2>3. PICK l : l = Len(inq[p])
    OBVIOUS
  <2>4. /\ l \in Nat \ {0} /\ l \in 0..prod[p].pushed /\ Sending(p) = prod[p].pushed - l
        /\ \A i \in 1..l : inq[p][i] = Chain(p, Sending(p) + i)
    BY <1>4, <2>2, <2>3 DEF Supply, Sending
  <2>5. n \in Nat \ {0} /\ 1 \in 1..l
    BY <1>4, <2>1, <2>4
  <2>6. x.bc = Chain(p, n)
    BY <2>1, <2>2, <2>4, <2>5
  <2>7. Total(p, n) \in Nat \ {0} /\ 1 \in 1..Total(p, n) /\ Total(p, n) \in 1..Total(p, n)
    <3>1. Total(p, n) \in Nat \ {0}
      BY <1>2, <2>5, ChainFacts
    <3> QED BY <3>1
  <2>8. x.bc = Piece(p, n, 1, Total(p, n))
    BY <1>2, <2>5, <2>6, <2>7, JoinPiece
  <2>9. Places[p] = [n |-> n, e |-> 1 - 1, k |-> x.fragNo % FragMod]
    BY <1>4, <1>6, <2>1, Numbers DEF CurW
  <2>10. Sending(p)' = n /\ Len(inq'[p]) \in 0..prod[p].pushed
    <3>1. prod[p].pushed - (l - 1) = n /\ l - 1 \in 0..prod[p].pushed
      BY <1>4, <2>1, <2>4
    <3> QED BY <1>3, <2>2, <2>3, <3>1 DEF Sending
  <2>11. ASSUME NEW i \in 1..Len(inq'[p]) PROVE inq'[p][i] = Chain(p, n + i)
    <3>0. i \in 1..(l - 1)
      BY <2>2, <2>3
    <3>1. i \in 1..(l - 1) /\ i + 1 \in 1..l /\ Sending(p) + (i + 1) = n + i
      <4>1. \A y \in Int : \A k \in Nat : y + (k + 1) = (y + 1) + k
        OBVIOUS
      <4>2. i \in Nat /\ i + 1 \in 1..l
        BY <2>4, <3>0
      <4> QED BY <1>4, <2>1, <3>0, <4>1, <4>2, Zenon
    <3>2. inq'[p][i] = inq[p][i + 1]
      BY <2>2, <2>3, <3>1
    <3>3. inq[p][i + 1] = Chain(p, Sending(p) + (i + 1))
      BY <2>4, <3>1
    <3> QED BY <3>1, <3>2, <3>3
  <2>12. inq' \in [Ports -> Seq(Seq(Buf))] /\ \A q \in Ports : q # p => inq'[q] = inq[q]
    BY <1>4, <1>6, <2>2
  <2>13. sendFrag(p, x) /\ x.fragNo \in Nat /\ (x.fragNo = 0 <=> 1 = 1)
    BY <1>6, <2>1
  <2> QED BY <1>2, <1>3, <2>5, <2>7, <2>8, <2>9, <2>10, <2>11, <2>12, <2>13, CarriedSend
<1>7. CASE UNCHANGED <<inq, work>> /\ mux' = [mux EXCEPT !.current = p, !.noWorkCount = @ + 1]
  <2>1. mux' \in MuxState /\ mux'.pc = "turn" /\ mux'.frag = mux.frag
    <3>1. mux \in MuxState
      BY <1>0 DEF MuxTypes
    <3>2. mux.noWorkCount + 1 \in Nat
      BY <3>1 DEF MuxState
    <3> QED BY <1>2, <1>3, <1>7, <3>1, <3>2 DEF MuxState
  <2>2. MuxTypes'
    BY <1>0, <1>3, <1>7, <2>1 DEF MuxTypes, receiver, ports, fate
  <2>3. UNCHANGED <<link, asm, trail, work>> /\ \A q \in Ports : Handed(q)' = Handed(q)
    BY <1>3, <1>7 DEF Handed, receiver, ports, fate
  <2>4. \A q \in Ports : Arrived(trail[q].torn, Handed(q)', last'[q], link, asm, Places, q)
    BY <1>3, <2>3 DEF Carried, ports
  <2>5. \A q \in Ports : Sending(q)' = Sending(q)
    BY <1>3, <1>7 DEF Sending
  <2>6. UNCHANGED Places /\ InHand'
    BY <1>3, <2>1, <2>3, <2>5, PlacesSame
  <2>7. \A q \in Ports : Supply(q)'
    BY <1>3, <1>7, <2>5 DEF Carried, Supply
  <2> QED BY <2>2, <2>3, <2>4, <2>6, <2>7, Unmoved
<1>8. \/ work[p].bc # <<>> /\ sendFrag(p, work[p]) /\ UNCHANGED inq
      \/ /\ work[p].bc = <<>> /\ inq[p] # <<>> /\ inq' = [inq EXCEPT ![p] = Tail(@)]
         /\ sendFrag(p, [bc |-> Head(inq[p]), fragNo |-> 0])
      \/ UNCHANGED <<inq, work>> /\ mux' = [mux EXCEPT !.current = p, !.noWorkCount = @ + 1]
  BY <1>1 DEF Turn
<1> QED BY <1>5, <1>6, <1>7, <1>8

\* The push upstream, which succeeds, or the fragment is lost.
LEMMA CarriedPushUp ==
    ASSUME Carried, PushUp
    PROVE  Carried'
<1>0. MuxTypes /\ InHand
  BY DEF Carried
<1>1. /\ mux.pc = "push" /\ mux' = [mux EXCEPT !.pc = "turn", !.frag = NoFrag]
      /\ UNCHANGED <<prod, inq, work, plan, receiver, ports>>
  BY DEF PushUp
<1>2. PICK g, q, w, v : g = mux.frag /\ q = g.dest /\ w = Places /\ v = Places'
  OBVIOUS
<1>3. /\ Valid(g) /\ Cur(g) = CurW(q) /\ g \in Fragment /\ q \in Ports
      /\ Frame(g) \in Nat /\ Cur(g).n \in Nat /\ At(g).n = Frame(g)
  <2>1. Valid(g) /\ Cur(g) = CurW(q)
    BY <1>0, <1>1, <1>2 DEF InHand
  <2> QED BY <1>2, <2>1, ValidFrame DEF Valid, Fragment
<1>4. mux' \in MuxState /\ mux'.pc = "turn"
  BY <1>0, <1>1 DEF MuxTypes, MuxState
<1>5. /\ \A p \in Ports : Sending(p)' = Sending(p) /\ CurW(p)' = CurW(p)
      /\ \A p \in Ports : Supply(p)'
  <2>1. \A p \in Ports : Sending(p)' = Sending(p)
    BY <1>1 DEF Sending
  <2>2. \A p \in Ports : CurW(p)' = CurW(p)
    BY <1>1, <2>1 DEF CurW
  <2> QED BY <1>1, <2>1, <2>2 DEF Carried, Supply
<1>6. /\ w[q] = At(g) /\ v[q] = Cur(g) /\ \A p \in Ports : p # q => v[p] = w[p]
      /\ w[g.dest].n = Frame(g) /\ v[g.dest].n = Cur(g).n
  <2>1. w[q] = At(g) /\ \A p \in Ports : p # q => w[p] = CurW(p)
    BY <1>1, <1>2, <1>3 DEF Places
  <2>2. \A p \in Ports : v[p] = CurW(p)
    BY <1>2, <1>4, <1>5 DEF Places
  <2> QED BY <1>2, <1>3, <2>1, <2>2
<1>7. InHand'
  BY <1>4 DEF InHand
<1>8. /\ asm' = asm /\ \A p \in Ports : Handed(p)' = Handed(p) /\ last'[p] = last[p] /\ last[p] \in Nat
  BY <1>0, <1>1 DEF Handed, receiver, ports, MuxTypes
<1>9. /\ AllValid(link) /\ Linked(link, asm, w, trail) /\ InOrder(link, w) /\ link \in Seq(Fragment)
      /\ trail \in [Ports -> TrailState] /\ trail[q] \in TrailState
      /\ \A p \in Ports :
            /\ Begun(trail[p].torn, p, asm[p])
            /\ Latest(link, asm, w, p)
            /\ Arrived(trail[p].torn, Handed(p), last[p], link, asm, w, p)
  BY <1>0, <1>2, <1>3 DEF Carried, MuxTypes
\* it is enough that all goes on with the fragments f and the trails t
<1>10. ASSUME NEW t, NEW f, t = trail', f = link', f \in Seq(Fragment), lost' \in Nat,
              t \in [Ports -> TrailState], \A p \in Ports : trail[p].torn \subseteq t[p].torn,
              AllValid(f), Linked(f, asm, v, t), InOrder(f, v),
              \A p \in Ports : \A n \in Int : Behind(link, asm, w, p, n) => Behind(f, asm, v, p, n)
       PROVE  Carried'
  <2>1. MuxTypes'
    BY <1>0, <1>1, <1>4, <1>10 DEF MuxTypes, receiver, ports
  <2>2. ASSUME NEW p \in Ports
        PROVE  /\ Begun(t[p].torn, p, asm[p]) /\ Latest(f, asm, v, p)
               /\ Arrived(t[p].torn, Handed(p)', last'[p], f, asm, v, p)
    <3>1. Begun(t[p].torn, p, asm[p])
      BY <1>9, <1>10, GoodMore
    <3>2. asm[p].bufs # <<>> => asm[p].bufs[1].frame - 1 \in Int
      BY <1>9 DEF Begun
    <3>3. Latest(f, asm, v, p)
      BY <1>9, <1>10, <3>2 DEF Latest
    <3>4. \A n \in Nat : Behind(link, asm, w, p, n) => Behind(f, asm, v, p, n)
      BY <1>10
    <3>5. Arrived(t[p].torn, Handed(p), last[p], f, asm, v, p)
      BY <1>8, <1>9, <1>10, <3>4, ArrivedStay
    <3> QED BY <1>8, <3>1, <3>3, <3>5
  <2>3. \A p \in Ports : /\ Begun(trail'[p].torn, p, asm'[p]) /\ Latest(link, asm, Places, p)'
                         /\ Arrived(trail'[p].torn, Handed(p)', last'[p], link', asm', Places', p)
    BY <1>2, <1>8, <1>10, <2>2 DEF Latest
  <2>4. AllValid(link') /\ Linked(link', asm', Places', trail') /\ InOrder(link', Places')
    BY <1>2, <1>8, <1>10
  <2> QED BY <1>5, <1>7, <2>1, <2>3, <2>4 DEF Carried
<1>11. CASE link' = Append(link, g) /\ trail' = [trail EXCEPT ![q] = Arrives(@, g)] /\ UNCHANGED lost
  <2>1. PICK f, t : f = link' /\ t = trail'
    OBVIOUS
  <2>2. /\ t[q] = Arrives(trail[q], g) /\ \A p \in Ports : p # q => t[p] = trail[p]
        /\ t \in [Ports -> TrailState] /\ t[q].torn = trail[q].torn
    <3>1. Arrives(trail[q], g) \in TrailState /\ Arrives(trail[q], g).torn = trail[q].torn
      BY <1>3, <1>9, Trails
    <3>2. t = [trail EXCEPT ![q] = Arrives(trail[q], g)]
      BY <1>11, <2>1
    <3> QED BY <1>3, <1>9, <3>1, <3>2
  <2>3. f = Append(link, g) /\ f \in Seq(Fragment) /\ lost' \in Nat
    BY <1>0, <1>3, <1>9, <1>11, <2>1, AppendProperties DEF MuxTypes
  <2>4. AllValid(f)
    <3>1. /\ Len(link) \in Nat /\ Len(f) = Len(link) + 1
          /\ \A i \in 1..Len(link) : f[i] = link[i]
          /\ f[Len(link) + 1] = g
      BY <1>3, <1>9, <2>3, FlightAppend
    <3> QED BY <1>3, <1>9, <3>1, OneMore DEF AllValid
  <2>5. Linked(f, asm, v, t)
    <3>1. /\ Linked(link, asm, w, trail) /\ w[g.dest] = At(g) /\ v[g.dest] = Cur(g)
          /\ trail[g.dest] \in TrailState /\ t[g.dest] = Arrives(trail[g.dest], g)
          /\ \A p \in Ports : p # g.dest => v[p] = w[p] /\ t[p] = trail[p]
      BY <1>2, <1>6, <1>9, <2>2
    <3>2. Linked(Append(link, g), asm, v, t)
      BY <1>3, <1>9, <3>1, LinkedAppend
    <3> QED BY <2>3, <3>2
  <2>6. InOrder(f, v)
    BY <1>2, <1>3, <1>6, <1>9, <2>3, InOrderAppend
  <2>7. ASSUME NEW p \in Ports, NEW n \in Int, Behind(link, asm, w, p, n) PROVE Behind(f, asm, v, p, n)
    BY <1>2, <1>3, <1>6, <1>9, <2>3, <2>7, BehindAppend
  <2>8. \A p \in Ports : trail[p].torn \subseteq t[p].torn
    BY <2>2
  <2> QED BY <1>10, <2>1, <2>2, <2>3, <2>4, <2>5, <2>6, <2>7, <2>8
<1>12. CASE link' = link /\ trail' = [trail EXCEPT ![q] = Missing(@)] /\ lost' = lost + 1
  <2>1. PICK f, t : f = link' /\ t = trail'
    OBVIOUS
  <2>2. /\ t[q] = Missing(trail[q]) /\ \A p \in Ports : p # q => t[p] = trail[p]
        /\ t \in [Ports -> TrailState] /\ trail[q].torn \subseteq t[q].torn
    <3>1. Missing(trail[q]) \in TrailState /\ trail[q].torn \subseteq Missing(trail[q]).torn
      BY <1>3, <1>9, Trails
    <3>2. t = [trail EXCEPT ![q] = Missing(trail[q])]
      BY <1>12, <2>1
    <3> QED BY <1>3, <1>9, <3>1, <3>2
  <2>3. f = link /\ f \in Seq(Fragment) /\ lost' \in Nat /\ AllValid(f)
    BY <1>0, <1>9, <1>12, <2>1 DEF MuxTypes
  <2>4. Linked(f, asm, v, t)
    BY <1>2, <1>3, <1>6, <1>9, <2>2, <2>3, LinkedLost
  <2>5. InOrder(f, v)
    <3>1. \A p \in Ports : p # g.dest => v[p] = w[p]
      BY <1>2, <1>6
    <3>2. InOrder(link, v)
      BY <1>3, <1>6, <1>9, <3>1, InOrderLost
    <3> QED BY <2>3, <3>2
  <2>6. ASSUME NEW p \in Ports, NEW n \in Int, Behind(link, asm, w, p, n) PROVE Behind(f, asm, v, p, n)
    BY <1>2, <1>3, <1>6, <1>9, <2>3, <2>6, BehindLost
  <2>7. \A p \in Ports : trail[p].torn \subseteq t[p].torn
    BY <2>2
  <2> QED BY <1>10, <2>1, <2>2, <2>3, <2>4, <2>5, <2>6, <2>7
<1>13. \/ link' = Append(link, g) /\ trail' = [trail EXCEPT ![q] = Arrives(@, g)] /\ UNCHANGED lost
       \/ link' = link /\ trail' = [trail EXCEPT ![q] = Missing(@)] /\ lost' = lost + 1
  BY <1>2 DEF PushUp
<1> QED BY <1>11, <1>12, <1>13

\* The demultiplexer takes a fragment out of the link.
LEMMA CarriedDemux ==
    ASSUME Carried, Demux
    PROVE  Carried'
<1>0. MuxTypes
  BY DEF Carried
<1>1. /\ rx.pc = "pop" /\ link # <<>> /\ link' = Tail(link)
      /\ UNCHANGED <<sender, fate, ports>>
  BY DEF Demux
<1>2. PICK f, w : f = link /\ w = Places
  OBVIOUS
<1>3. PICK g, a, q, T : g = f[1] /\ q = g.dest /\ a = Assemble(asm[q], g) /\ T = trail[q].torn
  OBVIOUS
<1>4. /\ f \in Seq(Fragment) /\ f # <<>> /\ g = Head(link) /\ link' = Tail(f)
      /\ Tail(f) \in Seq(Fragment)
      /\ Len(f) \in Nat \ {0} /\ 1 \in 1..Len(f) /\ g \in Fragment /\ q \in Ports
      /\ Len(Tail(f)) \in Nat /\ Len(f) = Len(Tail(f)) + 1
      /\ \A i \in 1..Len(Tail(f)) : Tail(f)[i] = f[i + 1] /\ i + 1 \in 1..Len(f) /\ 1 < i + 1
  <2>0. f \in Seq(Fragment) /\ f # <<>> /\ link' = Tail(f)
    BY <1>0, <1>1, <1>2 DEF MuxTypes
  <2>1. /\ Tail(f) \in Seq(Fragment) /\ Head(f) \in Fragment /\ Head(f) = f[1]
        /\ Len(Tail(f)) \in Nat /\ Len(f) = Len(Tail(f)) + 1
        /\ \A i \in 1..Len(Tail(f)) : Tail(f)[i] = f[i + 1]
        /\ \A i \in 1..Len(f) : f[i] \in Fragment /\ f[i].dest \in Ports
    BY <2>0, FlightTail
  <2>2. /\ Len(f) \in Nat \ {0} /\ 1 \in 1..Len(f)
        /\ \A i \in 1..Len(Tail(f)) : i + 1 \in 1..Len(f) /\ 1 < i + 1
    BY <2>1
  <2> QED BY <1>2, <1>3, <2>0, <2>1, <2>2
<1>5. /\ AllValid(f) /\ Linked(f, asm, w, trail) /\ InOrder(f, w) /\ Valid(g)
      /\ asm \in [Ports -> Assembly] /\ Begun(T, q, asm[q]) /\ Latest(f, asm, w, q)
  <2>1. AllValid(f) /\ Linked(f, asm, w, trail) /\ InOrder(f, w)
    BY <1>2 DEF Carried
  <2>2. Valid(g)
    BY <1>3, <1>4, <2>1 DEF AllValid
  <2>3. Begun(T, q, asm[q]) /\ Latest(f, asm, w, q)
    BY <1>2, <1>3, <1>4 DEF Carried
  <2> QED BY <1>0, <2>1, <2>2, <2>3 DEF MuxTypes
<1>6. /\ Frame(g) \in Nat \ {0} /\ Cur(g).n \in Nat
      /\ Cur(g).n = IF g.eof THEN Frame(g) + 1 ELSE Frame(g)
  BY <1>5, ValidFrame
<1>7. asm[q].bufs # <<>> => Step(T, CurA(asm[q]), At(g))
  <2>1. IsFirst(f, 1)
    BY DEF IsFirst
  <2> QED BY <1>3, <1>4, <1>5, <2>1 DEF Linked
<1>8. Made(T, asm[q], g, a)
  <2>1. asm[q] \in Assembly
    BY <1>4, <1>5
  <2> QED BY <1>3, <1>5, <1>7, <2>1, Assembled
<1>9. PICK whole, b : whole = (g.eof /\ a.bufs # <<>>) /\ b = IF whole THEN NoAssembly ELSE a
  OBVIOUS
<1>10. /\ asm' = [asm EXCEPT ![q] = b]
       /\ rx' = IF whole /\ isOpen(q) THEN [pc |-> "push", port |-> q, frame |-> a.bufs] ELSE rx
  BY <1>3, <1>4, <1>9 DEF Demux
<1>11. /\ b \in Assembly /\ Begun(T, q, b)
       /\ b.bufs # <<>> =>
             /\ CurA(b) = Cur(g) \/ CurA(b).n \in T
             /\ \/ b.bufs[1].frame = Frame(g)
                \/ asm[q].bufs # <<>> /\ b.bufs[1].frame = asm[q].bufs[1].frame
  <2>1. CASE whole
    <3>1. b = NoAssembly
      BY <1>9, <2>1
    <3>2. b.bufs = <<>> /\ b \in Assembly
      BY <3>1, EmptySeq DEF NoAssembly, Assembly
    <3> QED BY <3>2 DEF Begun
  <2>2. CASE ~whole
    <3>1. b = a /\ (a.bufs # <<>> => ~g.eof)
      BY <1>9, <2>2
    <3>2. a.bufs = <<>> => Begun(T, q, a)
      BY DEF Begun
    <3> QED BY <1>3, <1>8, <3>1, <3>2 DEF Made
  <2> QED BY <2>1, <2>2
<1>12. asm'[q] = b /\ \A p \in Ports : p # q => asm'[p] = asm[p]
  BY <1>4, <1>5, <1>10
<1>13. asm' \in [Ports -> Assembly]
  BY <1>5, <1>10, <1>11
<1>14. a.bufs \in Seq(Buf)
  BY <1>8 DEF Made, Assembly
<1>15. MuxTypes'
  <2>1. rx' \in RxState
    BY <1>0, <1>4, <1>10, <1>14 DEF MuxTypes, RxState
  <2> QED BY <1>0, <1>1, <1>4, <1>13, <2>1 DEF MuxTypes, sender, fate, ports
<1>16. Places' = w /\ InHand' /\ \A p \in Ports : Supply(p)'
  BY <1>1, <1>2, SenderSame
<1>17. \A p \in Ports : trail'[p].torn = trail[p].torn /\ last'[p] = last[p]
  BY <1>1 DEF fate, ports
<1>18. \A p \in Ports : Begun(trail[p].torn, p, asm'[p])
  BY <1>3, <1>11, <1>12 DEF Carried
<1>19. AllValid(Tail(f))
  BY <1>4, <1>5 DEF AllValid
<1>20. Linked(Tail(f), asm', w, trail)
  <2>1. asm'[f[1].dest].bufs # <<>> => \/ CurA(asm'[f[1].dest]) = Cur(f[1])
                                       \/ CurA(asm'[f[1].dest]).n \in trail[f[1].dest].torn
    BY <1>3, <1>11, <1>12
  <2>2. \A p \in Ports : p # f[1].dest => asm'[p] = asm[p]
    BY <1>3, <1>12
  <2> QED BY <1>4, <1>5, <2>1, <2>2, LinkedTake
<1>21. InOrder(Tail(f), w)
  BY <1>4, <1>5, InOrderTake
<1>22. ASSUME NEW p \in Ports, NEW n, Behind(f, asm, w, p, n)
       PROVE  Behind(Tail(f), asm', w, p, n)
  <2>1. asm'[f[1].dest].bufs # <<>> =>
            \/ asm'[f[1].dest].bufs[1].frame = Frame(f[1])
            \/ /\ asm[f[1].dest].bufs # <<>>
               /\ asm'[f[1].dest].bufs[1].frame = asm[f[1].dest].bufs[1].frame
    BY <1>3, <1>11, <1>12
  <2>2. \A y \in Ports : y # f[1].dest => asm'[y] = asm[y]
    BY <1>3, <1>12
  <2> QED BY <1>4, <1>22, <2>1, <2>2, BehindTake
\* what comes after g is of its frame or a later one
<1>23. /\ \A j \in 1..Len(Tail(f)) : Tail(f)[j].dest = q =>
              Cur(g).n <= Frame(Tail(f)[j]) /\ Frame(Tail(f)[j]) \in Nat
       /\ Cur(g).n <= w[q].n /\ w[q].n \in Int
  <2>1. ASSUME NEW j \in 1..Len(Tail(f)), Tail(f)[j].dest = q
        PROVE  Cur(g).n <= Frame(Tail(f)[j]) /\ Frame(Tail(f)[j]) \in Nat
    <3>1. Tail(f)[j] = f[j + 1] /\ j + 1 \in 1..Len(f) /\ 1 < j + 1
      BY <1>4
    <3>2. Cur(f[1]).n <= Frame(f[j + 1])
      BY <1>3, <1>4, <1>5, <2>1, <3>1 DEF InOrder
    <3>3. Valid(f[j + 1])
      BY <1>5, <3>1 DEF AllValid
    <3>4. Frame(f[j + 1]) \in Nat
      BY <3>3, ValidFrame
    <3> QED BY <1>3, <3>1, <3>2, <3>4
  <2>2. Cur(g).n <= w[q].n
    BY <1>3, <1>4, <1>5 DEF InOrder
  <2>3. w[q].n \in Int
    <3>1. InHand
      BY DEF Carried
    <3> QED BY <1>0, <1>2, <1>4, <3>1, PlacesTyped
  <2> QED BY <2>1, <2>2, <2>3
<1>24. ASSUME NEW p \in Ports PROVE Latest(Tail(f), asm', w, p)
  <2>1. CASE p # q \/ b.bufs = <<>>
    <3>1. CASE p # q
      <4>1. asm'[p] = asm[p] /\ Latest(f, asm, w, p)
        BY <1>2, <1>12, <3>1 DEF Carried
      <4> QED BY <1>22, <4>1 DEF Latest
    <3>2. CASE p = q /\ b.bufs = <<>>
      BY <1>12, <3>2 DEF Latest
    <3> QED BY <2>1, <3>1, <3>2
  <2>2. CASE p = q /\ b.bufs # <<>> /\ b.bufs[1].frame = Frame(g)
    <3>1. PICK n : n = Frame(g)
      OBVIOUS
    <3>2. n \in Nat /\ n <= Cur(g).n
      BY <1>6, <3>1
    <3>3. \A j \in 1..Len(Tail(f)) : Tail(f)[j].dest = q => n - 1 < Frame(Tail(f)[j])
      <4>1. \A x \in Nat : Cur(g).n <= x => n - 1 < x
        BY <1>6, <3>2
      <4> QED BY <1>23, <4>1
    <3>4. n - 1 < w[q].n
      BY <1>6, <1>23, <3>2
    <3>5. asm'[q].bufs[1].frame = n /\ n - 1 < n
      BY <1>12, <2>2, <3>1, <3>2
    <3>6. Behind(Tail(f), asm', w, q, n - 1)
      BY <3>3, <3>4, <3>5 DEF Behind
    <3> QED BY <2>2, <3>5, <3>6 DEF Latest
  <2>3. CASE /\ p = q /\ b.bufs # <<>> /\ asm[q].bufs # <<>>
             /\ b.bufs[1].frame = asm[q].bufs[1].frame
    <3>1. Behind(f, asm, w, q, asm[q].bufs[1].frame - 1)
      BY <1>5, <2>3 DEF Latest
    <3>2. Behind(Tail(f), asm', w, q, asm[q].bufs[1].frame - 1)
      BY <1>4, <1>22, <3>1
    <3> QED BY <1>12, <2>3, <3>2 DEF Latest
  <2> QED BY <1>11, <2>1, <2>2, <2>3
<1>25. ASSUME NEW p \in Ports
       PROVE  /\ Arrived(trail[p].torn, outq[p], last[p], f, asm, w, p)
              /\ Arrived(trail[p].torn, outq[p], last[p], Tail(f), asm', w, p)
              /\ last[p] \in Nat /\ outq[p] \in Seq(Seq(Buf))
  <2>1. Handed(p) = outq[p] /\ last[p] \in Nat /\ outq[p] \in Seq(Seq(Buf))
    BY <1>0, <1>1, HandedTypes DEF MuxTypes
  <2>2. Arrived(trail[p].torn, outq[p], last[p], f, asm, w, p)
    BY <1>2, <2>1 DEF Carried
  <2>3. \A n \in Nat : Behind(f, asm, w, p, n) => Behind(Tail(f), asm', w, p, n)
    BY <1>22
  <2>4. Arrived(trail[p].torn, outq[p], last[p], Tail(f), asm', w, p)
    BY <2>1, <2>2, <2>3, ArrivedStay
  <2> QED BY <2>1, <2>2, <2>4
\* the frame that is complete
<1>26. ASSUME whole, isOpen(q)
       PROVE  Arrived(T, outq[q] \o <<a.bufs>>, last[q], Tail(f), asm', w, q)
  <2>1. PICK n : n = a.bufs[1].frame
    OBVIOUS
  <2>2. g.eof /\ a.bufs # <<>> /\ asm'[q].bufs = <<>>
    <3>1. whole
      BY <1>26
    <3>2. g.eof /\ a.bufs # <<>> /\ b = NoAssembly
      BY <1>9, <3>1
    <3> QED BY <1>12, <3>2 DEF NoAssembly
  <2>3. /\ Good(T, q, a.bufs) /\ n \in Nat
        /\ n = Frame(g) \/ (asm[q].bufs # <<>> /\ n = asm[q].bufs[1].frame)
    BY <1>3, <1>8, <2>1, <2>2 DEF Made, Good
  <2>4. n < Cur(g).n
    <3>1. Cur(g).n = Frame(g) + 1
      BY <1>6, <2>2
    <3>2. CASE n = Frame(g)
      BY <1>6, <3>1, <3>2
    <3>3. CASE asm[q].bufs # <<>> /\ n = asm[q].bufs[1].frame
      <4>1. Behind(f, asm, w, q, n - 1)
        BY <1>5, <3>3 DEF Latest
      <4>2. n - 1 < Frame(g)
        BY <1>3, <1>4, <4>1 DEF Behind
      <4> QED BY <1>6, <2>3, <3>1, <4>2
    <3> QED BY <2>3, <3>2, <3>3
  <2>5. Behind(Tail(f), asm', w, q, n)
    <3>1. \A j \in 1..Len(Tail(f)) : Tail(f)[j].dest = q => n < Frame(Tail(f)[j])
      BY <1>6, <1>23, <2>3, <2>4
    <3>2. n < w[q].n
      BY <1>6, <1>23, <2>3, <2>4
    <3> QED BY <2>2, <3>1, <3>2 DEF Behind
  <2>6. ASSUME NEW m, Behind(f, asm, w, q, m) PROVE m < n
    <3>1. m < Frame(g)
      BY <1>3, <1>4, <2>6 DEF Behind
    <3>2. asm[q].bufs # <<>> => m < asm[q].bufs[1].frame
      BY <2>6 DEF Behind
    <3> QED BY <2>3, <3>1, <3>2
  <2>7. last[q] < n /\ \A i \in 1..Len(outq[q]) : outq[q][i][1].frame < n
    <3>1. /\ Behind(f, asm, w, q, last[q])
          /\ \A i \in 1..Len(outq[q]) : Behind(f, asm, w, q, outq[q][i][1].frame)
      BY <1>4, <1>25 DEF Arrived
    <3> QED BY <2>6, <3>1
  <2>8. /\ outq[q] \in Seq(Seq(Buf)) /\ last[q] \in Nat
        /\ Arrived(T, outq[q], last[q], Tail(f), asm', w, q)
    BY <1>3, <1>4, <1>25
  <2> QED BY <1>4, <1>14, <2>1, <2>3, <2>5, <2>7, <2>8, ArrivedAppend
<1>27. ASSUME NEW p \in Ports
       PROVE  Arrived(trail[p].torn, Handed(p)', last'[p], Tail(f), asm', w, p)
  <2>1. CASE whole /\ isOpen(q) /\ p = q
    <3>1. rx' = [pc |-> "push", port |-> q, frame |-> a.bufs]
      BY <1>10, <2>1
    <3>2. Handed(p)' = outq[q] \o <<a.bufs>>
      BY <1>1, <2>1, <3>1 DEF Handed, ports
    <3> QED BY <1>3, <1>17, <1>26, <2>1, <3>2
  <2>2. CASE ~(whole /\ isOpen(q) /\ p = q)
    <3>1. ~(rx'.pc = "push" /\ rx'.port = p)
      <4>1. CASE whole /\ isOpen(q)
        BY <1>10, <2>2, <4>1
      <4>2. CASE ~(whole /\ isOpen(q))
        BY <1>1, <1>10, <4>2
      <4> QED BY <4>1, <4>2
    <3>2. Handed(p)' = outq[p]
      <4>1. outq'[p] \o <<>> = outq[p]
        BY <1>1, <1>25, ConcatEmptySeq DEF ports
      <4> QED BY <3>1, <4>1 DEF Handed
    <3> QED BY <1>17, <1>25, <3>2
  <2> QED BY <2>1, <2>2
<1>28. AllValid(link') /\ Linked(link', asm', Places', trail') /\ InOrder(link', Places')
  BY <1>1, <1>4, <1>16, <1>19, <1>20, <1>21 DEF fate
<1>29. ASSUME NEW p \in Ports
       PROVE  /\ Supply(p)' /\ Begun(trail'[p].torn, p, asm'[p])
              /\ Latest(link', asm', Places', p)
              /\ Arrived(trail'[p].torn, Handed(p)', last'[p], link', asm', Places', p)
  BY <1>4, <1>16, <1>17, <1>18, <1>24, <1>27
<1>30. \A p \in Ports : /\ Supply(p)' /\ Begun(trail[p].torn, p, asm[p])'
                        /\ Latest(link, asm, Places, p)'
                        /\ Arrived(trail[p].torn, Handed(p), last[p], link, asm, Places, p)'
  BY <1>29
<1> QED BY <1>15, <1>16, <1>28, <1>30 DEF Carried

\* At first nothing is under way.
LEMMA CarriedInit == Init => Carried
<1> SUFFICES ASSUME Init PROVE Carried
  OBVIOUS
<1>1. /\ \A p \in Ports : /\ prod[p].pushed = 0 /\ inq[p] = <<>> /\ work[p].bc = <<>>
                          /\ asm[p].bufs = <<>> /\ outq[p] = <<>> /\ last[p] = 0
      /\ mux.pc = "turn" /\ link = <<>> /\ lost = 0 /\ rx = RxIdle
  BY DEF Init, NoAssembly
<1>2. \A S : <<>> \in Seq(S) /\ Len(<<>>) = 0
  BY EmptySeq
<1>3. MuxTypes
  <2>1. mux \in MuxState /\ mux.pc = "turn"
    BY DEF Init, MuxState
  <2>2. /\ prod \in [Ports -> [pushed : Nat, notify : BOOLEAN]]
        /\ inq \in [Ports -> Seq(Seq(Buf))]
        /\ work \in [Ports -> [bc : Seq(Buf), fragNo : Nat]]
        /\ outq \in [Ports -> Seq(Seq(Buf))] /\ last \in [Ports -> Nat]
    BY <1>2 DEF Init
  <2>3. asm \in [Ports -> Assembly]
    BY <1>2 DEF Init, NoAssembly, Assembly
  <2>4. rx \in RxState
    BY <1>2 DEF Init, RxIdle, RxState
  <2>5. link \in Seq(Fragment) /\ lost \in Nat
    BY <1>1, <1>2
  <2>6. trail \in [Ports -> TrailState]
    BY DEF Init, TrailState
  <2> QED BY <2>1, <2>2, <2>3, <2>4, <2>5, <2>6 DEF MuxTypes
<1>4. \A p \in Ports : Handed(p) = <<>>
  BY <1>1, <1>3, HandedTypes DEF RxIdle
<1>5. \A i \in 1..Len(<<>>) : FALSE
  BY <1>2
<1>6. ASSUME NEW p \in Ports
      PROVE  /\ Supply(p) /\ Begun(trail[p].torn, p, asm[p]) /\ Latest(link, asm, Places, p)
             /\ Places[p].n = 1
  <2>1. Sending(p) = 0
    BY <1>1, <1>2 DEF Sending
  <2>2. Places[p].n = 1
    BY <1>1, <2>1 DEF Places, CurW
  <2>3. Supply(p)
    BY <1>1, <1>2, <1>5 DEF Supply
  <2> QED BY <1>1, <2>2, <2>3 DEF Begun, Latest
<1>7. AllValid(link) /\ Linked(link, asm, Places, trail) /\ InOrder(link, Places) /\ InHand
  BY <1>1, <1>5 DEF AllValid, Linked, InOrder, InHand
<1>8. ASSUME NEW p \in Ports
      PROVE  Arrived(trail[p].torn, Handed(p), last[p], link, asm, Places, p)
  <2>1. Behind(<<>>, asm, Places, p, 0)
    BY <1>1, <1>5, <1>6 DEF Behind
  <2> QED BY <1>1, <1>4, <1>5, <2>1 DEF Arrived
<1> QED BY <1>3, <1>6, <1>7, <1>8 DEF Carried

\* Carried is kept by every step.
LEMMA CarriedStep == Carried /\ [Next]_vars => Carried'
<1> SUFFICES ASSUME Carried, [Next]_vars PROVE Carried'
  OBVIOUS
<1>1. CASE UNCHANGED vars
  <2>1. UNCHANGED <<sender, link, fate, asm, last>> /\ rx' = rx /\ outq' = outq
    BY <1>1 DEF vars, receiver, ports
  <2>2. \A p \in Ports : Handed(p)' = Handed(p)
    BY <2>1 DEF Handed
  <2>3. rx' \in RxState /\ outq' \in [Ports -> Seq(Seq(Buf))]
    BY <2>1 DEF Carried, MuxTypes
  <2> QED BY <2>1, <2>2, <2>3, CarriedStill
<1>2. CASE MuxStep
  BY <1>2, CarriedIdle, CarriedTurn, CarriedPushUp DEF MuxStep
<1>3. CASE DemuxStep
  BY <1>3, CarriedDemux, CarriedDrain DEF DemuxStep
<1>4. CASE \E p \in Ports : Push(p) \/ Notify(p) \/ \E u \in Users : Open(u, p)
  <2>1. PICK p \in Ports : Push(p) \/ Notify(p) \/ \E u \in Users : Open(u, p)
    BY <1>4
  <2>2. CASE Push(p) \/ Notify(p)
    BY <2>2, CarriedIdle
  <2>3. CASE \E u \in Users : Open(u, p)
    BY <2>3, CarriedUser
  <2> QED BY <2>1, <2>2, <2>3
<1>5. CASE \E u \in Users : Read(u) \/ ReadFails(u) \/ ReadRestore(u) \/ Close(u) \/ Drain(u)
  BY <1>5, CarriedUser
<1> QED BY <1>1, <1>2, <1>3, <1>4, <1>5 DEF Next

LEMMA CarriedAlways == Spec => []Carried
<1>1. Init => Carried
  BY CarriedInit
<1>2. Carried /\ [Next]_vars => Carried'
  BY CarriedStep
<1> QED BY <1>1, <1>2, PTL DEF Spec

\* What has arrived is what FramesWhole says of it.
LEMMA CarriedWhole == Carried => FramesWhole
<1> SUFFICES ASSUME Carried, NEW p \in Ports, NEW i \in DOMAIN Handed(p)
             PROVE  /\ Handed(p)[i][1].frame >
                           IF i = 1 THEN last[p] ELSE Handed(p)[i - 1][1].frame
                    /\ \/ Handed(p)[i] = Chain(p, Handed(p)[i][1].frame)
                       \/ /\ Handed(p)[i][1].frame \in trail[p].torn
                          /\ Handed(p)[i][1] = Chain(p, Handed(p)[i][1].frame)[1]
                          /\ \A j \in DOMAIN Handed(p)[i] : Handed(p)[i][j].port = p
  BY DEF FramesWhole
<1>1. PICK h, T : h = Handed(p) /\ T = trail[p].torn
  OBVIOUS
<1>2. /\ h \in Seq(Seq(Buf)) /\ last[p] \in Nat
      /\ Arrived(T, h, last[p], link, asm, Places, p)
  BY <1>1, HandedTypes DEF Carried, MuxTypes
<1>3. Len(h) \in Nat /\ DOMAIN h = 1..Len(h) /\ i \in 1..Len(h)
  BY <1>1, <1>2, LenProperties
<1>4. PICK x : x = h[i]
  OBVIOUS
<1>5. x \in Seq(Buf) /\ DOMAIN x = 1..Len(x)
  BY <1>2, <1>3, <1>4, LenProperties, ElementOfSeq
<1>6. Good(T, p, x) /\ last[p] < x[1].frame /\ x[1].frame \in Nat
  BY <1>2, <1>3, <1>4 DEF Arrived, Good
<1>7. x[1].frame > IF i = 1 THEN last[p] ELSE h[i - 1][1].frame
  <2>1. CASE i = 1
    BY <1>2, <1>6, <2>1
  <2>2. CASE i # 1
    <3>1. i - 1 \in 1..Len(h) /\ i - 1 < i
      BY <1>3, <2>2
    <3>2. h[i - 1][1].frame < x[1].frame /\ Good(T, p, h[i - 1])
      BY <1>2, <1>3, <1>4, <3>1 DEF Arrived
    <3>3. h[i - 1][1].frame \in Nat
      BY <3>2 DEF Good
    <3> QED BY <1>6, <2>2, <3>2, <3>3
  <2> QED BY <2>1, <2>2
<1>8. \/ x = Chain(p, x[1].frame)
      \/ /\ x[1].frame \in T /\ x[1] = Chain(p, x[1].frame)[1]
         /\ \A j \in DOMAIN x : x[j].port = p
  BY <1>5, <1>6 DEF Good, Torn
<1> QED BY <1>1, <1>4, <1>7, <1>8

\* For any number of ports and programs, any frames whose buffers fit into a
\* fragment, any depth of the queues and any modulus of the fragment numbers, and
\* whatever fragments RSSI loses: the frames that pushDownstream() hands to a port
\* are in the order in which CTDestPort2::push() took them, and each is the frame that
\* its first buffer begins, whole, unless two or more fragments of that frame or
\* those that follow were lost in a row.
THEOREM FramesArrive == Spec => []FramesWhole
BY CarriedAlways, CarriedWhole, PTL

-----------------------------------------------------------------------------
(* What stays in the queue of a port that nobody has open.  A port is busy as long  *)
(* as somebody has it open or drains it.                                            *)

Active  == {"in", "retry", "isOpen", "tryPop"}
Busy(p) ==
    \/ \E u \in Users : user[u].pc \in Active /\ user[u].port = p
    \/ rx.pc \in {"isOpen", "tryPop"} /\ rx.port = p

\* The frames in the queue of port p or on their way into it.
OnItsWay(p) == IF rx.pc = "push" /\ rx.port = p THEN 1 ELSE 0
Few(p)      == Len(outq[p]) + OnItsWay(p) <= Cardinality(Openers(p))

Kept ==
    /\ user = [u \in Users |-> [pc |-> user[u].pc, port |-> user[u].port]]
    /\ \A u \in Users : user[u].pc # "out" => user[u].port \in Doors[u]
    /\ rx.pc = "push" => rx.port \in Ports
    /\ \A p \in Ports : Busy(p) \/ Few(p)

LEMMA BusyMeans ==
    ASSUME NEW p
    PROVE  Busy(p) <=> isOpen(p) \/ Drains(p)
<1>1. \A u \in Users : user[u].pc \in Active <=> \/ user[u].pc \in {"in", "retry"}
                                                 \/ user[u].pc \in {"isOpen", "tryPop"}
  BY DEF Active
<1> QED BY <1>1 DEF Busy, isOpen, Drains

\* Those who fail to pop a frame of port p are among those who may use it.
LEMMA ShortFew ==
    ASSUME Kept, MuxTypes, NEW p \in Ports
    PROVE  /\ IsFiniteSet(Openers(p)) /\ Cardinality(Openers(p)) \in Nat
           /\ Cardinality(Short(p)) \in Nat
           /\ Cardinality(Short(p)) <= Cardinality(Openers(p))
           /\ \A u \in Openers(p) :
                 u \notin Short(p) => Cardinality(Short(p)) <= Cardinality(Openers(p)) - 1
           /\ Len(outq[p]) \in Nat
<1>1. Openers(p) \subseteq Users /\ IsFiniteSet(Users)
  BY UserAssumption DEF Openers
<1>2. IsFiniteSet(Openers(p))
  BY <1>1, FS_Subset
<1>3. Cardinality(Openers(p)) \in Nat
  BY <1>2, FS_CardinalityType
<1>4. Short(p) \subseteq Openers(p)
  BY DEF Kept, Short, Openers
<1>5. Cardinality(Short(p)) \in Nat /\ Cardinality(Short(p)) <= Cardinality(Openers(p))
  BY <1>2, <1>4, FS_Subset, FS_CardinalityType
<1>6. ASSUME NEW u \in Openers(p), u \notin Short(p)
      PROVE  Cardinality(Short(p)) <= Cardinality(Openers(p)) - 1
  <2>1. Short(p) \subseteq Openers(p) \ {u}
    BY <1>4, <1>6
  <2>2. IsFiniteSet(Openers(p) \ {u})
        /\ Cardinality(Openers(p) \ {u}) = Cardinality(Openers(p)) - 1
    BY <1>2, <1>6, FS_RemoveElement
  <2>3. Cardinality(Short(p)) <= Cardinality(Openers(p) \ {u})
    BY <2>1, <2>2, FS_Subset
  <2> QED BY <2>2, <2>3
<1>7. Len(outq[p]) \in Nat
  BY SlotsTaken
<1> QED BY <1>2, <1>3, <1>5, <1>6, <1>7

\* The counter of a queue.
LEMMA SlotsInt ==
    ASSUME MuxTypes, NEW p \in Ports
    PROVE  Slots(p) > 0 \/ Slots(p) <= 0
<1>1. Cardinality(Short(p)) \in Nat /\ Len(outq[p]) \in Nat
  BY SlotsTaken
<1>2. Slots(p) \in Int
  BY <1>1 DEF Slots
<1> QED BY <1>2

\* A closing program that finds no frame left few.
LEMMA CloserLeavesFew ==
    ASSUME Kept, MuxTypes, NEW u \in Users, NEW p \in Ports, user[u].pc = "tryPop",
           user[u].port = p, Slots(p) <= 0
    PROVE  Few(p)
<1>1. PICK s, n, l, r : /\ s = Cardinality(Short(p)) /\ n = Cardinality(Openers(p))
                        /\ l = Len(outq[p])
                        /\ r = IF rx.pc = "restore" /\ rx.port = p THEN 1 ELSE 0
  OBVIOUS
<1>2. u \in Openers(p) /\ u \notin Short(p)
  BY DEF Kept, Openers, Short
<1>3. s \in Nat /\ n \in Nat /\ l \in Nat /\ s <= n - 1
  BY <1>1, <1>2, ShortFew
<1>4. r \in {0, 1} /\ OnItsWay(p) \in {0, 1} /\ (r = 1 => OnItsWay(p) = 0)
  BY <1>1 DEF OnItsWay
<1>5. l - s - r <= 0
  BY <1>1 DEF Slots
<1>6. l + OnItsWay(p) <= n
  BY <1>3, <1>4, <1>5
<1> QED BY <1>1, <1>6 DEF Few

\* So has the demultiplexer.
LEMMA DemuxLeavesFew ==
    ASSUME Kept, MuxTypes, NEW p \in Ports, rx.pc = "tryPop", Slots(p) <= 0
    PROVE  Len(outq[p]) <= Cardinality(Openers(p))
<1>1. PICK s, n, l : /\ s = Cardinality(Short(p)) /\ n = Cardinality(Openers(p))
                     /\ l = Len(outq[p])
  OBVIOUS
<1>2. s \in Nat /\ n \in Nat /\ l \in Nat /\ s <= n
  BY <1>1, ShortFew
<1>3. l - s - 0 <= 0
  BY <1>1 DEF Slots
<1> QED BY <1>1, <1>2, <1>3

\* A queue does not grow when a frame is popped.
LEMMA PopLess ==
    ASSUME MuxTypes, NEW q, Slots(q) > 0, outq' = [outq EXCEPT ![q] = Tail(@)]
    PROVE  \A p \in Ports : Len(outq'[p]) <= Len(outq[p]) /\ Len(outq'[p]) \in Nat
<1> SUFFICES ASSUME NEW p \in Ports
             PROVE  Len(outq'[p]) <= Len(outq[p]) /\ Len(outq'[p]) \in Nat
  OBVIOUS
<1>1. outq \in [Ports -> Seq(Seq(Buf))] /\ outq[p] \in Seq(Seq(Buf)) /\ Len(outq[p]) \in Nat
  BY DEF MuxTypes
<1>2. CASE p = q
  <2>1. outq[q] # <<>>
    BY <1>2, SlotsTaken
  <2>2. outq'[p] = Tail(outq[p])
    BY <1>1, <1>2
  <2>3. Len(Tail(outq[p])) = Len(outq[p]) - 1 /\ Len(Tail(outq[p])) \in Nat
    BY <1>1, <1>2, <2>1, HeadTailProperties, LenProperties
  <2> QED BY <1>1, <2>2, <2>3
<1>3. CASE p # q
  <2>1. outq'[p] = outq[p]
    BY <1>1, <1>3
  <2> QED BY <1>1, <2>1
<1> QED BY <1>2, <1>3

\* Program u goes on.
LEMMA UserGoesOn ==
    ASSUME Kept, NEW u \in Users, NEW c, NEW q, SetUser(u, c, q), c # "out" => q \in Doors[u]
    PROVE  /\ user' = [v \in Users |-> [pc |-> user'[v].pc, port |-> user'[v].port]]
           /\ \A v \in Users : user'[v].pc # "out" => user'[v].port \in Doors[v]
           /\ user'[u].pc = c /\ user'[u].port = q
           /\ \A v \in Users : v # u => user'[v] = user[v]
<1>1. user' = [v \in Users |-> IF v = u THEN [pc |-> c, port |-> q] ELSE user[v]]
  BY DEF Kept, SetUser
<1>2. \A v \in Users : user[v] = [pc |-> user[v].pc, port |-> user[v].port]
  BY DEF Kept
<1>3. user'[u] = [pc |-> c, port |-> q] /\ \A v \in Users : v # u => user'[v] = user[v]
  BY <1>1
<1>4. ASSUME NEW v \in Users PROVE user'[v] = [pc |-> user'[v].pc, port |-> user'[v].port]
  BY <1>2, <1>3
<1>5. user' = [v \in Users |-> [pc |-> user'[v].pc, port |-> user'[v].port]]
  BY <1>1, <1>4, Zenon
<1>6. \A v \in Users : user'[v].pc # "out" => user'[v].port \in Doors[v]
  BY <1>3 DEF Kept
<1> QED BY <1>3, <1>5, <1>6

\* Programs open, read, close and drain.
LEMMA KeptUser ==
    ASSUME Kept, MuxTypes, NEW u \in Users,
           \/ Read(u) \/ ReadFails(u) \/ ReadRestore(u) \/ Close(u) \/ Drain(u)
           \/ \E p \in Ports : Open(u, p)
    PROVE  Kept'
<1>1. rx' = rx
  BY DEF Read, ReadFails, ReadRestore, Close, Drain, CloseTryPop, CloseIsOpen, CloseRestore,
         Open, receiver
<1>2. \A p \in Ports : Len(outq[p]) \in Nat /\ Cardinality(Openers(p)) \in Nat
  BY ShortFew
\* it is enough that every port stays busy or has few frames
<1>3. ASSUME user' = [v \in Users |-> [pc |-> user'[v].pc, port |-> user'[v].port]],
             \A v \in Users : user'[v].pc # "out" => user'[v].port \in Doors[v],
             \A p \in Ports : Len(outq'[p]) <= Len(outq[p]) /\ Len(outq'[p]) \in Nat,
             \A p \in Ports : Busy(p) => Busy(p)' \/ Few(p)'
      PROVE  Kept'
  <2>1. ASSUME NEW p \in Ports PROVE Busy(p)' \/ Few(p)'
    <3>1. CASE Few(p)
      <4>1. OnItsWay(p)' = OnItsWay(p) /\ OnItsWay(p) \in {0, 1}
        BY <1>1 DEF OnItsWay
      <4>2. PICK n : n = Cardinality(Openers(p))
        OBVIOUS
      <4>3. Len(outq[p]) + OnItsWay(p) <= n /\ n \in Nat
        BY <1>2, <3>1, <4>2 DEF Few
      <4>4. Len(outq'[p]) + OnItsWay(p) <= n
        BY <1>2, <1>3, <4>1, <4>3
      <4>5. Openers(p)' = Openers(p)
        BY DEF Openers
      <4> QED BY <4>1, <4>2, <4>4, <4>5 DEF Few
    <3>2. CASE Busy(p)
      BY <1>3, <3>2
    <3> QED BY <3>1, <3>2 DEF Kept
  <2>2. rx'.pc = "push" => rx'.port \in Ports
    BY <1>1 DEF Kept
  <2> QED BY <1>3, <2>1, <2>2 DEF Kept
<1>4. \A p \in Ports : outq' = outq => Len(outq'[p]) <= Len(outq[p]) /\ Len(outq'[p]) \in Nat
  BY <1>2
\* u goes on and stays as active as it was
<1>5. ASSUME NEW c, NEW q, SetUser(u, c, q), c # "out" => q \in Doors[u],
             user[u].pc \in Active => c \in Active /\ q = user[u].port,
             \A p \in Ports : Len(outq'[p]) <= Len(outq[p]) /\ Len(outq'[p]) \in Nat
      PROVE  Kept'
  <2>1. /\ user' = [v \in Users |-> [pc |-> user'[v].pc, port |-> user'[v].port]]
        /\ \A v \in Users : user'[v].pc # "out" => user'[v].port \in Doors[v]
        /\ user'[u].pc = c /\ user'[u].port = q
        /\ \A v \in Users : v # u => user'[v] = user[v]
    BY <1>5, UserGoesOn
  <2>2. ASSUME NEW p \in Ports, Busy(p) PROVE Busy(p)'
    <3>1. ASSUME NEW v \in Users, user[v].pc \in Active, user[v].port = p PROVE Busy(p)'
      <4>1. user'[v].pc \in Active /\ user'[v].port = p
        BY <1>5, <2>1, <3>1
      <4> QED BY <4>1 DEF Busy
    <3> QED BY <1>1, <2>2, <3>1 DEF Busy
  <2> QED BY <1>3, <1>5, <2>1, <2>2
\* u becomes inactive, but its port has few frames or somebody else is active there
<1>6. ASSUME NEW c, NEW q, SetUser(u, c, q), c # "out" => q \in Doors[u], outq' = outq,
             NEW x, x = user[u].port,
             x \in Ports => \/ Few(x)
                            \/ \E v \in Users : v # u /\ user[v].pc \in Active /\ user[v].port = x
      PROVE  Kept'
  <2>1. /\ user' = [v \in Users |-> [pc |-> user'[v].pc, port |-> user'[v].port]]
        /\ \A v \in Users : user'[v].pc # "out" => user'[v].port \in Doors[v]
        /\ \A v \in Users : v # u => user'[v] = user[v]
    BY <1>6, UserGoesOn
  <2>2. \A p \in Ports : Few(p)' <=> Few(p)
    BY <1>1, <1>6 DEF Few, OnItsWay, Openers
  <2>3. ASSUME NEW p \in Ports, Busy(p) PROVE Busy(p)' \/ Few(p)'
    <3>1. ASSUME NEW v \in Users, v # u, user[v].pc \in Active, user[v].port = p PROVE Busy(p)'
      BY <2>1, <3>1 DEF Busy
    <3>2. CASE rx.pc \in {"isOpen", "tryPop"} /\ rx.port = p
      BY <1>1, <3>2 DEF Busy
    <3>3. CASE user[u].pc \in Active /\ user[u].port = p
      BY <1>6, <2>2, <3>1, <3>3
    <3> QED BY <2>3, <3>1, <3>2, <3>3 DEF Busy
  <2> QED BY <1>3, <1>4, <1>6, <2>1, <2>3
<1>7. user[u].pc # "out" => user[u].port \in Doors[u]
  BY DEF Kept
<1>8. CASE Read(u)
  <2>1. Slots(user[u].port) > 0 /\ outq' = [outq EXCEPT ![user[u].port] = Tail(@)] /\ user' = user
    BY <1>8 DEF Read
  <2>2. \A p \in Ports : Len(outq'[p]) <= Len(outq[p]) /\ Len(outq'[p]) \in Nat
    BY <2>1, PopLess
  <2>3. \A p \in Ports : Busy(p)' <=> Busy(p)
    BY <1>1, <2>1 DEF Busy
  <2> QED BY <1>3, <2>1, <2>2, <2>3 DEF Kept
<1>9. CASE ReadFails(u) \/ ReadRestore(u) \/ Close(u)
  <2>1. PICK c, q : /\ SetUser(u, c, q) /\ q = user[u].port /\ outq' = outq
                    /\ user[u].pc \in {"in", "retry"} /\ c \in {"retry", "in", "tryPop"}
    BY <1>9 DEF ReadFails, ReadRestore, Close
  <2>2. q \in Doors[u]
    BY <1>7, <2>1
  <2>3. c \in Active
    BY <2>1 DEF Active
  <2> QED BY <1>4, <1>5, <2>1, <2>2, <2>3
<1>10. CASE \E p \in Ports : Open(u, p)
  <2>1. PICK q \in Ports : Open(u, q)
    BY <1>10
  <2>2. SetUser(u, "in", q) /\ user[u].pc = "out" /\ q \in Doors[u] /\ outq' = outq
    BY <2>1 DEF Open
  <2>3. user[u].pc \notin Active
    BY <2>2 DEF Active
  <2> QED BY <1>4, <1>5, <2>2, <2>3
<1>11. CASE CloseTryPop(u)
  <2>1. PICK q : q = user[u].port
    OBVIOUS
  <2>2. user[u].pc = "tryPop" /\ q \in Doors[u] /\ "isOpen" \in Active
    BY <1>7, <1>11, <2>1 DEF CloseTryPop, Active
  <2>3. CASE Slots(q) > 0
    <3>1. SetUser(u, "isOpen", q) /\ outq' = [outq EXCEPT ![q] = Tail(@)]
      BY <1>11, <2>1, <2>3 DEF CloseTryPop
    <3>2. \A p \in Ports : Len(outq'[p]) <= Len(outq[p]) /\ Len(outq'[p]) \in Nat
      BY <2>3, <3>1, PopLess
    <3> QED BY <1>5, <2>1, <2>2, <3>1, <3>2
  <2>4. CASE ~(Slots(q) > 0)
    <3>1. SetUser(u, "restore", q) /\ outq' = outq
      BY <1>11, <2>1, <2>4 DEF CloseTryPop
    <3>2. q \in Ports => Slots(q) <= 0
      BY <2>4, SlotsInt
    <3>3. q \in Ports => Few(q)
      BY <2>1, <2>2, <3>2, CloserLeavesFew
    <3> QED BY <1>6, <2>1, <2>2, <3>1, <3>3
  <2> QED BY <2>3, <2>4
<1>12. CASE CloseIsOpen(u)
  <2>1. PICK q : q = user[u].port
    OBVIOUS
  <2>2. user[u].pc = "isOpen" /\ q \in Doors[u] /\ outq' = outq /\ "tryPop" \in Active
    BY <1>7, <1>12, <2>1 DEF CloseIsOpen, Active
  <2>3. CASE isOpen(q)
    <3>1. SetUser(u, "out", NoPort)
      BY <1>12, <2>1, <2>3 DEF CloseIsOpen
    <3>2. \E v \in Users : v # u /\ user[v].pc \in Active /\ user[v].port = q
      BY <2>2, <2>3 DEF isOpen, Active
    <3> QED BY <1>6, <2>1, <2>2, <3>1, <3>2
  <2>4. CASE ~isOpen(q)
    <3>1. SetUser(u, "tryPop", q)
      BY <1>12, <2>1, <2>4 DEF CloseIsOpen
    <3> QED BY <1>4, <1>5, <2>1, <2>2, <3>1
  <2> QED BY <2>3, <2>4
<1>13. CASE CloseRestore(u)
  <2>1. SetUser(u, "out", NoPort) /\ user[u].pc = "restore" /\ outq' = outq
    BY <1>13 DEF CloseRestore
  <2>2. user[u].pc \notin Active
    BY <2>1 DEF Active
  <2> QED BY <1>4, <1>5, <2>1, <2>2
<1> QED BY <1>8, <1>9, <1>10, <1>11, <1>12, <1>13 DEF Drain

\* The demultiplexer pops fragments, pushes frames and drains.
LEMMA KeptDemux ==
    ASSUME Kept, MuxTypes, DemuxStep
    PROVE  Kept'
<1>1. user' = user
  BY DEF DemuxStep, Demux, DemuxPush, DemuxIsOpen, DemuxTryPop, DemuxRestore, ports
<1>2. \A p : /\ Openers(p)' = Openers(p)
             /\ (\E u \in Users : user[u].pc \in Active /\ user[u].port = p) => Busy(p)'
             /\ isOpen(p)' <=> isOpen(p)
             /\ isOpen(p) => Busy(p)'
  <2>1. \A p : (\E u \in Users : user[u].pc \in Active /\ user[u].port = p) => Busy(p)'
    BY <1>1 DEF Busy
  <2>2. \A p : isOpen(p) => \E u \in Users : user[u].pc \in Active /\ user[u].port = p
    BY DEF isOpen, Active
  <2>3. \A p : isOpen(p)' <=> isOpen(p)
    BY <1>1 DEF isOpen
  <2> QED BY <2>1, <2>2, <2>3 DEF Openers
<1>3. PICK q : q = rx.port
  OBVIOUS
<1>4. rx'.pc = "push" => rx'.port \in Ports
  <2>1. CASE Demux
    <3>1. link \in Seq(Fragment) /\ link # <<>>
      BY <2>1 DEF Demux, MuxTypes
    <3>2. Head(link).dest \in Ports
      BY <3>1, FlightTail DEF Fragment
    <3> QED BY <2>1, <3>2 DEF Demux
  <2>2. CASE DemuxPush \/ DemuxIsOpen \/ DemuxTryPop \/ DemuxRestore
    <3>1. rx \in RxState
      BY DEF MuxTypes
    <3>2. ASSUME DemuxPush PROVE rx'.pc # "push"
      BY <3>1, <3>2 DEF DemuxPush, RxState
    <3>3. ASSUME DemuxIsOpen PROVE rx'.pc # "push"
      BY <3>1, <3>3 DEF DemuxIsOpen, RxIdle, RxState
    <3>4. ASSUME DemuxTryPop PROVE rx'.pc # "push"
      BY <3>1, <3>4 DEF DemuxTryPop, RxState
    <3>5. ASSUME DemuxRestore PROVE rx'.pc # "push"
      BY <3>5 DEF DemuxRestore, RxIdle
    <3> QED BY <2>2, <3>2, <3>3, <3>4, <3>5
  <2> QED BY <2>1, <2>2 DEF DemuxStep
<1> SUFFICES \A p \in Ports : Busy(p)' \/ Few(p)'
  BY <1>1, <1>4 DEF Kept
<1>5. SUFFICES ASSUME NEW p \in Ports PROVE Busy(p)' \/ Few(p)'
  OBVIOUS
<1>6. /\ Busy(p) \/ Few(p)
      /\ outq \in [Ports -> Seq(Seq(Buf))] /\ Len(outq[p]) \in Nat
      /\ Cardinality(Openers(p)) \in Nat
      /\ rx = [pc |-> rx.pc, port |-> q, frame |-> rx.frame]
  BY <1>3, ShortFew DEF Kept, MuxTypes, RxState
\* the demultiplexer has nothing to do with port p
<1>7. ASSUME outq'[p] = outq[p], rx.pc = "pop" \/ rx.pc = "restore" \/ q # p,
             rx'.pc \notin {"push", "isOpen", "tryPop"} \/ rx'.port # p
      PROVE  Busy(p)' \/ Few(p)'
  <2>1. OnItsWay(p)' = 0 /\ OnItsWay(p) = 0
    BY <1>3, <1>7 DEF OnItsWay
  <2>2. Few(p) => Few(p)'
    BY <1>2, <1>7, <2>1 DEF Few
  <2>3. Busy(p) => Busy(p)'
    BY <1>2, <1>3, <1>7 DEF Busy
  <2> QED BY <1>6, <2>2, <2>3
<1>8. CASE Demux
  <2>1. rx.pc = "pop" /\ outq' = outq
    BY <1>8 DEF Demux, ports
  <2>2. PICK g, a : /\ rx' = rx \/ (rx' = [pc |-> "push", port |-> g.dest, frame |-> a.bufs]
                                    /\ isOpen(g.dest))
    BY <1>8 DEF Demux
  <2>3. CASE rx' = rx
    BY <1>7, <2>1, <2>3
  <2>4. CASE rx' = [pc |-> "push", port |-> g.dest, frame |-> a.bufs] /\ isOpen(g.dest)
    <3>1. CASE g.dest = p
      BY <1>2, <2>4, <3>1
    <3>2. CASE g.dest # p
      BY <1>7, <2>1, <2>4, <3>2
    <3> QED BY <3>1, <3>2
  <2> QED BY <2>2, <2>3, <2>4
<1>9. CASE DemuxPush
  <2>1. /\ rx.pc = "push" /\ outq' = [outq EXCEPT ![q] = Append(@, rx.frame)]
        /\ rx' = [rx EXCEPT !.pc = "isOpen", !.frame = <<>>]
    BY <1>3, <1>9 DEF DemuxPush
  <2>2. rx'.pc = "isOpen" /\ rx'.port = q
    <3>1. rx \in RxState
      BY DEF MuxTypes
    <3> QED BY <1>3, <2>1, <3>1 DEF RxState
  <2>3. CASE p = q
    BY <2>2, <2>3 DEF Busy
  <2>4. CASE p # q
    <3>1. outq'[p] = outq[p]
      BY <1>6, <2>1, <2>4
    <3> QED BY <1>7, <2>2, <2>4, <3>1
  <2> QED BY <2>3, <2>4
<1>10. CASE DemuxIsOpen
  <2>1. rx.pc = "isOpen" /\ outq' = outq
    BY <1>10 DEF DemuxIsOpen, ports
  <2>2. CASE isOpen(q)
    <3>1. rx' = RxIdle
      BY <1>3, <1>10, <2>2 DEF DemuxIsOpen
    <3>2. CASE p = q
      BY <1>2, <2>2, <3>2
    <3>3. CASE p # q
      BY <1>7, <2>1, <3>1, <3>3 DEF RxIdle
    <3> QED BY <3>2, <3>3
  <2>3. CASE ~isOpen(q)
    <3>1. rx' = [rx EXCEPT !.pc = "tryPop"]
      BY <1>3, <1>10, <2>3 DEF DemuxIsOpen
    <3>2. rx' = [pc |-> "tryPop", port |-> q, frame |-> rx.frame]
      BY <1>6, <3>1
    <3>3. CASE p = q
      BY <3>2, <3>3 DEF Busy
    <3>4. CASE p # q
      BY <1>7, <2>1, <3>2, <3>4
    <3> QED BY <3>3, <3>4
  <2> QED BY <2>2, <2>3
<1>11. CASE DemuxTryPop
  <2>1. rx.pc = "tryPop"
    BY <1>11 DEF DemuxTryPop
  <2>2. CASE Slots(q) > 0
    <3>1. outq' = [outq EXCEPT ![q] = Tail(@)] /\ rx' = [rx EXCEPT !.pc = "isOpen"]
      BY <1>3, <1>11, <2>2 DEF DemuxTryPop
    <3>2. rx' = [pc |-> "isOpen", port |-> q, frame |-> rx.frame]
      BY <1>6, <3>1
    <3>3. CASE p = q
      BY <3>2, <3>3 DEF Busy
    <3>4. CASE p # q
      <4>1. outq'[p] = outq[p]
        BY <1>6, <3>1, <3>4
      <4> QED BY <1>7, <3>2, <3>4, <4>1
    <3> QED BY <3>3, <3>4
  <2>3. CASE ~(Slots(q) > 0)
    <3>1. outq' = outq /\ rx' = [rx EXCEPT !.pc = "restore"]
      BY <1>3, <1>11, <2>3 DEF DemuxTryPop
    <3>2. rx' = [pc |-> "restore", port |-> q, frame |-> rx.frame]
      BY <1>6, <3>1
    <3>3. CASE p = q
      <4>1. Slots(p) <= 0
        BY <2>3, <3>3, SlotsInt
      <4>2. Len(outq[p]) <= Cardinality(Openers(p))
        BY <2>1, <4>1, DemuxLeavesFew
      <4>3. OnItsWay(p)' = 0
        BY <3>2 DEF OnItsWay
      <4> QED BY <1>2, <1>6, <3>1, <4>2, <4>3 DEF Few
    <3>4. CASE p # q
      BY <1>7, <3>1, <3>2, <3>4
    <3> QED BY <3>3, <3>4
  <2> QED BY <2>2, <2>3
<1>12. CASE DemuxRestore
  <2>1. rx.pc = "restore" /\ outq' = outq /\ rx' = RxIdle
    BY <1>12 DEF DemuxRestore, ports
  <2> QED BY <1>7, <2>1 DEF RxIdle
<1> QED BY <1>8, <1>9, <1>10, <1>11, <1>12 DEF DemuxStep

\* Kept is kept by every step.
LEMMA KeptStep == Kept /\ MuxTypes /\ [Next]_vars => Kept'
<1> SUFFICES ASSUME Kept, MuxTypes, [Next]_vars PROVE Kept'
  OBVIOUS
<1>1. ASSUME UNCHANGED <<rx, outq, user>> PROVE Kept'
  BY <1>1 DEF Kept, Busy, Few, OnItsWay, Openers
<1>2. CASE MuxStep \/ \E p \in Ports : Push(p) \/ Notify(p)
  BY <1>1, <1>2 DEF MuxStep, Wait, Turn, PushUp, Push, Notify, receiver, ports
<1>3. CASE DemuxStep
  BY <1>3, KeptDemux
<1>4. CASE \E p \in Ports : \E u \in Users : Open(u, p)
  BY <1>4, KeptUser
<1>5. CASE \E u \in Users : Read(u) \/ ReadFails(u) \/ ReadRestore(u) \/ Close(u) \/ Drain(u)
  BY <1>5, KeptUser
<1>6. CASE UNCHANGED vars
  BY <1>1, <1>6 DEF vars, receiver, ports
<1> QED BY <1>2, <1>3, <1>4, <1>5, <1>6 DEF Next

LEMMA KeptInit == Init => Kept
<1> SUFFICES ASSUME Init PROVE Kept
  OBVIOUS
<1>1. user = [u \in Users |-> [pc |-> "out", port |-> NoPort]]
  BY DEF Init
<1>2. ASSUME NEW p \in Ports PROVE Few(p)
  <2>1. Carried /\ outq[p] = <<>> /\ rx.pc = "pop"
    BY CarriedInit DEF Init, RxIdle
  <2>2. Cardinality(Openers(p)) \in Nat
    <3>1. Openers(p) \subseteq Users /\ IsFiniteSet(Users)
      BY UserAssumption DEF Openers
    <3> QED BY <3>1, FS_Subset, FS_CardinalityType
  <2>3. Len(outq[p]) = 0 /\ OnItsWay(p) = 0
    BY <2>1, EmptySeq DEF OnItsWay
  <2> QED BY <2>2, <2>3 DEF Few
<1>3. \A u \in Users : user[u] = [pc |-> "out", port |-> NoPort]
  BY <1>1
<1>4. user = [u \in Users |-> [pc |-> user[u].pc, port |-> user[u].port]]
  BY <1>1, <1>3
<1>5. rx.pc # "push"
  BY DEF Init, RxIdle
<1> QED BY <1>2, <1>3, <1>4, <1>5 DEF Kept

LEMMA KeptAlways == Spec => [](Kept /\ MuxTypes)
<1>1. Init => Kept
  BY KeptInit
<1>2. Carried => MuxTypes
  BY DEF Carried
<1>3. Kept /\ MuxTypes /\ [Next]_vars => Kept'
  BY KeptStep
<1> QED BY <1>1, <1>2, <1>3, CarriedAlways, PTL DEF Spec

\* For any number of ports, programs and frames: in the queue of a port that nobody
\* has open and that neither pushDownstream() of CPortImpl nor a CloseManager drains
\* any more there are at most as many frames as there are programs that use the port,
\* whichever pops of the one have made those of the others fail.
THEOREM PortsDrained == Spec => []FewLeft
<1>1. ASSUME Kept PROVE FewLeft
  <2>1. ASSUME NEW p \in Ports, ~isOpen(p), ~Drains(p)
        PROVE  Len(outq[p]) + (IF rx.pc = "push" /\ rx.port = p THEN 1 ELSE 0)
                   <= Cardinality(Openers(p))
    <3>1. Few(p)
      BY <1>1, <2>1, BusyMeans DEF Kept
    <3> QED BY <3>1 DEF Few, OnItsWay
  <2> QED BY <2>1 DEF FewLeft
<1> QED BY <1>1, KeptAlways, PTL

\* The output queues have room for a frame of every program that uses the port.
Roomy == \A p \in Ports : Cardinality(Openers(p)) <= OutDepth

\* Then pushDownstream() of CPortImpl never waits for room in the queue of a port that
\* nobody has open and nobody drains: frames that nobody reads do not stall RSSI.
THEOREM NeverClogged == Roomy => (Spec => []Unclogged)
<1> SUFFICES ASSUME Roomy PROVE Spec => []Unclogged
  OBVIOUS
<1>1. ASSUME Kept, MuxTypes PROVE Unclogged
  <2> SUFFICES ASSUME rx.pc = "push", Len(outq[rx.port]) >= OutDepth
               PROVE  isOpen(rx.port) \/ Drains(rx.port)
    BY DEF Unclogged
  <2>1. PICK p : p = rx.port
    OBVIOUS
  <2>2. p \in Ports
    BY <1>1, <2>1 DEF Kept
  <2>3. CASE Busy(p)
    BY <2>1, <2>3, BusyMeans
  <2>4. CASE Few(p)
    <3>1. PICK l, n : l = Len(outq[p]) /\ n = Cardinality(Openers(p))
      OBVIOUS
    <3>2. l \in Nat /\ n \in Nat
      BY <1>1, <2>2, <3>1, ShortFew
    <3>3. l + 1 <= n /\ n <= OutDepth /\ l >= OutDepth /\ OutDepth \in Nat
      BY <2>1, <2>2, <2>4, <3>1, UserAssumption DEF Few, OnItsWay, Roomy
    <3> QED BY <3>2, <3>3
  <2> QED BY <1>1, <2>2, <2>3, <2>4 DEF Kept
<1> QED BY <1>1, KeptAlways, PTL
=============================================================================
