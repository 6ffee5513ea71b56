------------------------------ MODULE SrpProofs ------------------------------
(***************************************************************************)
(* Proofs about Srp, for every size of a word, of a message and of the     *)
(* memory, for every set of calls and whatever is lost: the shape of the   *)
(* state (Typed, an inductive invariant), which needs no more than the     *)
(* assumptions of Srp, and on the way to it which bytes the two merges of  *)
(* writeBlk_unlocked() put into a message (PayloadComposed).               *)
(***************************************************************************)
EXTENDS Srp, SequenceTheorems, TLAPS

BlockType == [off : Nat, n : Nat, s : Nat, m1 : SUBSET Bit, mn : SUBSET Bit]

\* A block that can be sent.
Good(b) == b \in BlockType /\ b.n >= 1 /\ b.off + b.n <= Size

\* The block that is at hand, and the readbacks it needs.
Cur == Block(todo)
AsyncRead(p) == IF p.part = "first" THEN FirstRead(Cur) ELSE LastRead(Cur)
AsyncMsg(p)  == ReadMsg("async", p.tid, AsyncRead(p))
SyncRead(b)  == IF needFirst(b) THEN FirstRead(b) ELSE LastRead(b)

\* todo is what is left of the call.
Left ==
    pc # "idle" =>
        /\ k >= 1 /\ todo \in BlockType /\ todo.n >= 1
        /\ todo.off = call.off + todo.s /\ todo.s + todo.n = call.n
        /\ todo.m1 = (IF todo.s = 0 THEN call.m1 ELSE {}) /\ todo.mn = call.mn
        /\ todo.s > 0 => headbytes(todo) = 0

\* The request at hand is one that the block needs.
Requested ==
    pc \in {"send", "await"} =>
        /\ xact \in [use : {"read", "readback", "write"}, msg : Msg]
        /\ xact.use = "read" =>
               call.kind = "read" /\ xact.msg = ReadMsg("sync", xact.msg.tid, Cur)
        /\ xact.use = "readback" =>
               /\ call.kind = "write" /\ (needFirst(Cur) \/ needLast(Cur)) /\ ~two(Cur)
               /\ xact.msg = ReadMsg("sync", xact.msg.tid, SyncRead(Cur))
        /\ xact.use = "write" =>
               /\ call.kind = "write" /\ xact.msg = WriteMsg(xact.msg.tid, Cur, xact.msg.data)
               /\ Len(xact.msg.data) <= Size
        /\ pc = "await" => xact.msg.kind # "pwr"

\* Readbacks are pending only while the block waits for them.
Pending ==
    /\ pc \notin {"postLast", "wait"} => pend = {}
    /\ pc \in {"postLast", "wait"} =>
           /\ call.kind = "write" /\ two(Cur)
           /\ \A p \in pend : p.words = NWords(AsyncRead(p).n)

\* A part is read back, unless it is still under way or failed.
Back(part) == ~failed /\ \A p \in pend : p.part # part

Lengths ==
    /\ pc \in {"postLast", "wait"} /\ Back("first") => Len(got["first"]) = NWords(FirstRead(Cur).n) * W
    /\ pc = "wait" /\ Back("last") => Len(got["last"]) = NWords(LastRead(Cur).n) * W

\* Messages stay inside the memory, and answers are whole words.
Inside ==
    /\ \A i \in DOMAIN req : /\ req[i].kind = "rd" => req[i].off + req[i].len <= Size
                             /\ Len(req[i].data) <= Size
    /\ DOMAIN rsp = Door
    /\ \A d \in Door : \A i \in DOMAIN rsp[d] : Len(rsp[d][i].data) = rsp[d][i].words * W

Typed == /\ TypeOK /\ k <= MaxCalls
         /\ Left /\ Requested /\ Pending /\ Lengths /\ Inside

-----------------------------------------------------------------------------
(* Arithmetic.                                                              *)

\* The constants are numbers.
LEMMA Constants ==
    /\ W \in Nat /\ W >= 1 /\ Extra \in Nat /\ MaxWords \in Nat /\ MaxWords >= 1
    /\ MaxWords >= 1 + Extra /\ RetryCnt \in Nat /\ TidMod \in Nat /\ TidMod >= 2
    /\ Size \in Nat /\ MaxCalls \in Nat /\ NetDepth \in Nat
BY SizeAssumption

\* Quotient and remainder.
LEMMA DivMod ==
    ASSUME NEW x \in Nat
    PROVE  /\ x \div W \in Nat /\ x % W \in 0..W-1
           /\ x = W * (x \div W) + (x % W)
           /\ Down(x) \in Nat /\ Down(x) + (x % W) = x
<1>1. W \in Nat /\ W >= 1
  BY Constants
<1>2. x \div W \in Nat /\ x % W \in 0..W-1 /\ x = W * (x \div W) + (x % W)
  BY <1>1
<1>3. W * (x \div W) \in Nat
  BY <1>1, <1>2
<1> QED BY <1>1, <1>2, <1>3 DEF Down

\* Multiples of a word that are less than a word apart are the same.
LEMMA Multiples ==
    ASSUME NEW a \in Int, NEW b \in Int, W * a < W * b + W
    PROVE  a <= b /\ W * a <= W * b
<1>1. W \in Nat /\ W >= 1
  BY Constants
<1>2. SUFFICES ASSUME a >= b + 1 PROVE FALSE
  <2>1. a <= b => W * a <= W * b
    BY <1>1
  <2> QED BY <1>2, <2>1
<1>3. W * a >= W * (b + 1)
  BY <1>1, <1>2
<1>4. W * (b + 1) = W * b + W
  BY <1>1
<1> QED BY <1>1, <1>3, <1>4

\* The words that n bytes need.
LEMMA Words ==
    ASSUME NEW n \in Nat
    PROVE  /\ NWords(n) \in Nat /\ NWords(n) * W \in Nat /\ W * NWords(n) = NWords(n) * W
           /\ n <= NWords(n) * W /\ NWords(n) * W <= n + W - 1
           /\ n >= 1 => NWords(n) >= 1
           /\ NWords(n) <= n
<1>1. W \in Nat /\ W >= 1
  BY Constants
<1>2. n + W - 1 \in Nat
  BY <1>1
<1> DEFINE q == (n + W - 1) \div W
           r == (n + W - 1) % W
<1>3. q \in Nat /\ r \in 0..W-1 /\ n + W - 1 = W * q + r
  BY <1>2, DivMod
<1>4. NWords(n) = q
  BY DEF NWords
<1>5. q * W = W * q /\ q * W \in Nat
  BY <1>1, <1>3
<1> HIDE DEF q, r
<1>6. n <= q * W /\ q * W <= n + W - 1
  BY <1>1, <1>3, <1>5
<1>7. n >= 1 => q >= 1
  <2>1. q = 0 => q * W = 0
    BY <1>1
  <2> QED BY <1>3, <1>6, <2>1
<1>8. q <= n
  <2>1. n + W - 1 < W * n + W
    <3>1. n <= W * n
      BY <1>1
    <3>2. W * n \in Nat
      BY <1>1
    <3> QED BY <1>1, <3>1, <3>2
  <2>2. W * q < W * n + W
    BY <1>1, <1>5, <1>6, <2>1
  <2> QED BY <1>3, <2>2, Multiples
<1> QED BY <1>3, <1>4, <1>5, <1>6, <1>7, <1>8

\* There is one number of words between two others.
LEMMA WordsUnique ==
    ASSUME NEW n \in Nat, NEW q \in Nat, n <= W * q, W * q <= n + W - 1
    PROVE  NWords(n) = q
<1>1. W \in Nat /\ W >= 1
  BY Constants
<1>2. /\ NWords(n) \in Nat /\ W * NWords(n) = NWords(n) * W /\ NWords(n) * W \in Nat
      /\ n <= NWords(n) * W /\ NWords(n) * W <= n + W - 1
  BY Words
<1>3. W * q \in Nat
  BY <1>1
<1>4. W * NWords(n) < W * q + W /\ W * q < W * NWords(n) + W
  BY <1>1, <1>2, <1>3
<1>5. NWords(n) <= q /\ q <= NWords(n)
  BY <1>2, <1>4, Multiples
<1> QED BY <1>2, <1>5

\* Whole words need themselves.
LEMMA WordsOfWords ==
    ASSUME NEW q \in Nat
    PROVE  NWords(q * W) = q /\ q * W \in Nat
<1>1. W \in Nat /\ W >= 1
  BY Constants
<1>2. q * W \in Nat /\ W * q = q * W
  BY <1>1
<1> QED BY <1>1, <1>2, WordsUnique

\* The remainder is the distance to a multiple below.
LEMMA Remainder ==
    ASSUME NEW x \in Nat, NEW q \in Nat, NEW r \in 0..W-1, x = W * q + r
    PROVE  x % W = r /\ x \div W = q /\ Down(x) = W * q
<1>1. W \in Nat /\ W >= 1
  BY Constants
<1>2. x \div W \in Nat /\ x % W \in 0..W-1 /\ x = W * (x \div W) + (x % W)
  BY DivMod
<1>3. W * q \in Nat /\ W * (x \div W) \in Nat
  BY <1>1, <1>2
<1>4. W * q < W * (x \div W) + W /\ W * (x \div W) < W * q + W
  BY <1>1, <1>2, <1>3
<1>5. x \div W = q
  BY <1>2, <1>4, Multiples
<1> QED BY <1>1, <1>2, <1>3, <1>5 DEF Down

-----------------------------------------------------------------------------
(* Blocks and messages.                                                     *)

\* Where a block begins within its first word.
LEMMA Heads ==
    ASSUME mode \in Modes, NEW b, b.off \in Nat, b.n \in Nat
    PROVE  /\ headbytes(b) \in 0..W-1 /\ totbytes(b) = headbytes(b) + b.n /\ totbytes(b) \in Nat
           /\ mode.byteRes => headbytes(b) = 0
           /\ ~mode.byteRes => headbytes(b) = b.off % W /\ Down(b.off) + headbytes(b) = b.off
           /\ Down(b.off) \in Nat
<1>1. W \in Nat /\ W >= 1
  BY Constants
<1>2. b.off % W \in 0..W-1 /\ Down(b.off) \in Nat /\ Down(b.off) + (b.off % W) = b.off
  BY DivMod
<1>3. headbytes(b) = IF mode.byteRes THEN 0 ELSE b.off % W
  BY DEF headbytes
<1>4. headbytes(b) \in 0..W-1
  BY <1>1, <1>2, <1>3
<1>5. totbytes(b) = headbytes(b) + b.n
  BY DEF totbytes
<1> QED BY <1>1, <1>2, <1>3, <1>4, <1>5

\* Where the words of a block begin, and how many bytes they have.
start(a)  == IF mode.byteRes THEN a.off ELSE Down(a.off)
length(a) == IF mode.byteRes THEN a.n ELSE NWords(totbytes(a)) * W

\* The words a block touches are inside the memory.
LEMMA InsideMemory ==
    ASSUME mode \in Modes, NEW a, a.off \in Nat, a.n \in Nat, a.n >= 1, a.off + a.n <= Size
    PROVE  /\ start(a) \in Addr /\ start(a) + headbytes(a) = a.off
           /\ length(a) \in 1..Size /\ start(a) + length(a) <= Size
           /\ totbytes(a) >= 1 /\ totbytes(a) <= length(a) /\ length(a) <= totbytes(a) + W - 1
           /\ NWords(length(a)) = NWords(totbytes(a))
           /\ ~mode.byteRes => length(a) = NWords(totbytes(a)) * W
           /\ mode.byteRes => length(a) = totbytes(a)
<1>1. W \in Nat /\ W >= 1 /\ Size \in Nat
  BY Constants
<1>2. /\ headbytes(a) \in 0..W-1 /\ totbytes(a) = headbytes(a) + a.n /\ totbytes(a) \in Nat
      /\ mode.byteRes => headbytes(a) = 0
      /\ ~mode.byteRes => headbytes(a) = a.off % W /\ Down(a.off) + headbytes(a) = a.off
      /\ Down(a.off) \in Nat
  BY Heads
<1>3. totbytes(a) >= 1
  BY <1>1, <1>2
<1>4. CASE mode.byteRes
  BY <1>1, <1>2, <1>3, <1>4 DEF start, length, Addr
<1>5. CASE ~mode.byteRes
  <2>1. PICK q \in Nat : q = NWords(totbytes(a))
    BY <1>2, Words
  <2>2. q * W \in Nat /\ W * q = q * W /\ totbytes(a) <= q * W /\ q * W <= totbytes(a) + W - 1
    BY <1>2, <2>1, Words
  <2>3. PICK d \in Nat : Down(a.off) = W * d
    BY DivMod DEF Down
  <2>4. PICK z \in Nat : Size = W * z
    <3>1. Size % W = 0
      BY CallAssumption
    <3>2. Size \div W \in Nat /\ Size = W * (Size \div W) + (Size % W)
      BY <1>1, DivMod
    <3> QED BY <1>1, <3>1, <3>2
  <2>5. W * (d + q) = W * d + W * q /\ d + q \in Nat
    BY <1>1
  <2>6. W * d \in Nat
    BY <1>1
  <2>7. W * (d + q) < W * z + W
    <3>1. PICK x \in Nat, y \in Nat, h \in Nat : x = W * d /\ y = q * W /\ h = headbytes(a)
      BY <1>1, <1>2, <2>2, <2>6
    <3>2. x + h = a.off /\ y <= h + a.n + W - 1 /\ a.off + a.n <= W * z
      BY <1>2, <1>5, <2>2, <2>3, <2>4, <3>1
    <3>3. W * z \in Nat /\ x + y < W * z + W
      BY <1>1, <3>2
    <3>4. W * q = y
      BY <2>2, <3>1
    <3> QED BY <2>5, <3>1, <3>3, <3>4
  <2>8. W * (d + q) <= W * z
    BY <2>5, <2>7, Multiples
  <2>9. start(a) = W * d /\ length(a) = q * W
    BY <1>5, <2>1, <2>3 DEF start, length
  <2>10. NWords(q * W) = q
    BY WordsOfWords
  <2>11. start(a) + length(a) <= Size
    BY <2>2, <2>4, <2>5, <2>6, <2>8, <2>9
  <2>12. start(a) + headbytes(a) = a.off /\ length(a) >= 1 /\ start(a) >= 0
    BY <1>2, <1>3, <1>5, <2>2, <2>3, <2>6, <2>9
  <2>13. start(a) \in Addr /\ length(a) \in 1..Size
    BY <1>1, <2>2, <2>6, <2>9, <2>11, <2>12 DEF Addr
  <2> QED BY <1>3, <1>5, <2>1, <2>2, <2>9, <2>10, <2>11, <2>12, <2>13
<1> QED BY <1>4, <1>5

\* The first block of t.
LEMMA FirstBlock ==
    ASSUME mode \in Modes, NEW t, Good(t)
    PROVE  LET b == Block(t)
           IN  /\ Good(b) /\ b.off = t.off /\ b.s = t.s /\ b.m1 = t.m1 /\ b.n <= t.n
               /\ headbytes(b) = headbytes(t)
               /\ Whole(t) => b = t
               /\ ~Whole(t) => /\ b.n < t.n /\ b.mn = {} /\ totbytes(b) = MaxWords * W
                               /\ NWords(totbytes(b)) = MaxWords
<1> DEFINE b == Block(t)
<1>1. W \in Nat /\ W >= 1 /\ Size \in Nat /\ MaxWords \in Nat /\ MaxWords >= 1
  BY Constants
<1>2. CASE Whole(t)
  <2>1. b = t
    BY <1>2 DEF Block
  <2> QED BY <1>2, <2>1 DEF Good, BlockType
<1>3. CASE ~Whole(t)
  <2>1. t \in BlockType /\ t.n >= 1 /\ t.off + t.n <= Size /\ t.off \in Nat /\ t.n \in Nat
    BY DEF Good, BlockType
  <2>2. headbytes(t) \in 0..W-1 /\ totbytes(t) = headbytes(t) + t.n /\ totbytes(t) \in Nat
    BY <2>1, Heads
  <2>3. MaxWords * W \in Nat /\ NWords(MaxWords * W) = MaxWords
    BY <1>1, WordsOfWords
  <2>4. MaxWords * W >= W
    BY <1>1
  <2>5. b = [t EXCEPT !.n = MaxWords * W - headbytes(t), !.mn = {}]
    BY <1>3 DEF Block
  <2>6. b.n = MaxWords * W - headbytes(t) /\ b.off = t.off /\ b.s = t.s /\ b.m1 = t.m1 /\ b.mn = {}
    BY <2>1, <2>5 DEF BlockType
  <2>7. MaxWords * W < totbytes(t)
    <3>1. SUFFICES ASSUME totbytes(t) <= MaxWords * W PROVE FALSE
      BY <2>2, <2>3
    <3>2. /\ NWords(totbytes(t)) \in Nat /\ W * NWords(totbytes(t)) = NWords(totbytes(t)) * W
          /\ NWords(totbytes(t)) * W <= totbytes(t) + W - 1 /\ NWords(totbytes(t)) * W \in Nat
      BY <2>2, Words
    <3>3. W * MaxWords = MaxWords * W
      BY <1>1
    <3>4. W * NWords(totbytes(t)) < W * MaxWords + W
      BY <1>1, <2>2, <2>3, <3>1, <3>2, <3>3
    <3>5. NWords(totbytes(t)) <= MaxWords
      BY <1>1, <3>2, <3>4, Multiples
    <3> QED BY <1>3, <3>5 DEF Whole
  <2>8. b.n \in Nat /\ b.n >= 1 /\ b.n < t.n
    BY <1>1, <2>1, <2>2, <2>3, <2>4, <2>6, <2>7
  <2>9. b \in BlockType
    BY <2>1, <2>5, <2>6, <2>8 DEF BlockType
  <2>10. headbytes(b) = headbytes(t)
    BY <2>6 DEF headbytes
  <2>11. totbytes(b) = MaxWords * W
    BY <2>2, <2>3, <2>6, <2>10 DEF totbytes
  <2>12. Good(b) /\ b.n <= t.n
    <3>1. b.off + b.n <= Size /\ b.n <= t.n
      BY <1>1, <2>1, <2>6, <2>8
    <3> QED BY <2>8, <2>9, <3>1 DEF Good
  <2> HIDE DEF b
  <2>13. /\ Good(b) /\ b.off = t.off /\ b.s = t.s /\ b.m1 = t.m1 /\ b.n <= t.n
         /\ headbytes(b) = headbytes(t) /\ b.n < t.n /\ b.mn = {} /\ totbytes(b) = MaxWords * W
         /\ NWords(totbytes(b)) = MaxWords
    BY <2>3, <2>6, <2>8, <2>10, <2>11, <2>12
  <2> QED BY <1>3, <2>13 DEF b
<1> QED BY <1>2, <1>3

\* What is left of t begins with a word.
LEMMA RestBlock ==
    ASSUME mode \in Modes, NEW t, Good(t), ~Whole(t)
    PROVE  LET r == Rest(t)
               n == Block(t).n
           IN  /\ Good(r) /\ r.off = t.off + n /\ r.n = t.n - n /\ r.s = t.s + n
               /\ r.m1 = {} /\ r.mn = t.mn /\ r.s > 0 /\ r.n < t.n
               /\ headbytes(r) = 0
<1> DEFINE r == Rest(t)
           n == Block(t).n
<1>1. W \in Nat /\ W >= 1 /\ Size \in Nat /\ MaxWords \in Nat /\ MaxWords >= 1
  BY Constants
<1>2. t \in BlockType /\ t.n >= 1 /\ t.off + t.n <= Size /\ t.off \in Nat /\ t.n \in Nat /\ t.s \in Nat
  BY DEF Good, BlockType
<1>3. /\ Block(t).off = t.off /\ n < t.n /\ n \in Nat /\ n >= 1
      /\ headbytes(Block(t)) = headbytes(t) /\ totbytes(Block(t)) = MaxWords * W
  BY FirstBlock DEF Good, BlockType
<1>4. headbytes(t) + n = MaxWords * W
  BY <1>3 DEF totbytes
<1>5. r = [t EXCEPT !.off = t.off + n, !.n = t.n - n, !.s = t.s + n, !.m1 = {}]
  BY <1>2 DEF Rest, BlockType
<1> HIDE DEF n
<1>6. /\ r.off = t.off + n /\ r.n = t.n - n /\ r.s = t.s + n
      /\ r.m1 = {} /\ r.mn = t.mn /\ r \in BlockType
  <2>1. t.off + n \in Nat /\ t.n - n \in Nat /\ t.s + n \in Nat
    BY <1>2, <1>3
  <2> HIDE DEF r
  <2>2. /\ r.off = t.off + n /\ r.n = t.n - n /\ r.s = t.s + n /\ r.m1 = {} /\ r.mn = t.mn
    BY <1>2, <1>5 DEF BlockType
  <2>3. r \in BlockType
    BY <1>2, <1>5, <2>1 DEF BlockType
  <2> QED BY <2>2, <2>3
<1>7. headbytes(r) = 0
  <2>1. CASE mode.byteRes
    BY <2>1 DEF headbytes
  <2>2. CASE ~mode.byteRes
    <3>1. Down(t.off) + headbytes(t) = t.off /\ headbytes(t) \in 0..W-1 /\ Down(t.off) \in Nat
      BY <1>2, <2>2, Heads
    <3>2. PICK d \in Nat : Down(t.off) = W * d
      BY <1>2, DivMod DEF Down
    <3>3. W * (d + MaxWords) = W * d + MaxWords * W /\ d + MaxWords \in Nat /\ W * d \in Nat /\ MaxWords * W \in Nat
      BY <1>1
    <3>4. t.off + n = W * (d + MaxWords) + 0
      BY <1>1, <1>2, <1>3, <1>4, <3>1, <3>2, <3>3
    <3>5. (t.off + n) % W = 0
      <4>1. 0 \in 0..W-1 /\ t.off + n \in Nat
        BY <1>1, <3>3, <3>4
      <4> QED BY <3>3, <3>4, <4>1, Remainder
    <3> QED BY <1>6, <2>2, <3>5 DEF headbytes
  <2> QED BY <2>1, <2>2
<1> QED BY <1>1, <1>2, <1>3, <1>6, <1>7 DEF Good, n

\* What is read back for a block: a range that is one message and inside the memory.
IsRead(a) ==
    /\ a.off \in Nat /\ a.n \in Nat /\ a.n >= 1 /\ a.off + a.n <= Size
    /\ \A d, t : ReadMsg(d, t, a) = [door |-> d, kind |-> "rd", tid |-> t, data |-> <<>>,
                                     off |-> a.off, len |-> a.n]

\* A range of whole words, or of bytes if the device reads bytes, is such a range.
LEMMA ReadsWords ==
    ASSUME mode \in Modes, NEW a, a.off \in Nat, a.n \in Nat, a.n >= 1, a.off + a.n <= Size,
           ~mode.byteRes => a.off = Down(a.off) /\ \E q \in Nat : a.n = q * W
    PROVE  IsRead(a)
<1>1. CASE mode.byteRes
  BY <1>1 DEF IsRead, ReadMsg
<1>2. CASE ~mode.byteRes
  <2>1. PICK q \in Nat : a.n = q * W
    BY <1>2
  <2>2. totbytes(a) = headbytes(a) + a.n /\ headbytes(a) \in 0..W-1 /\ Down(a.off) + headbytes(a) = a.off
        /\ Down(a.off) \in Nat
    BY <1>2, Heads
  <2>3. totbytes(a) = a.n
    BY <1>2, <2>2
  <2>4. NWords(totbytes(a)) * W = a.n
    BY <2>1, <2>3, WordsOfWords
  <2> QED BY <1>2, <2>4 DEF IsRead, ReadMsg
<1> QED BY <1>1, <1>2

\* The down-rounded address of a word is itself.
LEMMA DownDown == ASSUME NEW x \in Nat PROVE Down(Down(x)) = Down(x)
<1>1. W \in Nat /\ W >= 1
  BY Constants
<1>2. x \div W \in Nat /\ Down(x) = W * (x \div W) + 0 /\ Down(x) \in Nat
  BY <1>1, DivMod DEF Down
<1> QED BY <1>1, <1>2, Remainder DEF Down

\* The readback of the first word, or of all.
LEMMA FirstReads ==
    ASSUME mode \in Modes, NEW b, Good(b)
    PROVE  /\ IsRead(FirstRead(b)) /\ FirstRead(b).off = start(b)
           /\ FirstRead(b).n <= length(b)
           /\ ~lastbyte_in_firstwords(b) => FirstRead(b).n = IF mode.byteRes THEN 1 ELSE W
           /\ lastbyte_in_firstwords(b) => FirstRead(b).n = length(b)
<1> DEFINE f == FirstRead(b)
<1>1. W \in Nat /\ W >= 1 /\ Size \in Nat
  BY Constants
<1>2. b.off \in Nat /\ b.n \in Nat /\ b.n >= 1 /\ b.off + b.n <= Size
  BY DEF Good, BlockType
<1>3. /\ start(b) \in Addr /\ length(b) \in 1..Size /\ start(b) + length(b) <= Size
      /\ totbytes(b) >= 1 /\ totbytes(b) <= length(b)
      /\ ~mode.byteRes => length(b) = NWords(totbytes(b)) * W
      /\ mode.byteRes => length(b) = totbytes(b)
  BY <1>2, InsideMemory
<1>4. totbytes(b) \in Nat
  BY <1>2, Heads
<1>5. f.off = start(b)
  BY DEF FirstRead, start
<1>6. f.n = IF lastbyte_in_firstwords(b) THEN length(b) ELSE IF mode.byteRes THEN 1 ELSE W
  BY <1>3 DEF FirstRead
<1>7. NWords(totbytes(b)) \in Nat /\ NWords(totbytes(b)) >= 1
  BY <1>3, <1>4, Words
<1> HIDE DEF f
<1>8. f.n \in Nat /\ f.n >= 1 /\ f.n <= length(b) /\ (~mode.byteRes => \E q \in Nat : f.n = q * W)
  <2>1. CASE lastbyte_in_firstwords(b)
    BY <1>3, <1>6, <1>7, <2>1
  <2>2. CASE ~lastbyte_in_firstwords(b) /\ mode.byteRes
    BY <1>3, <1>6, <2>2
  <2>3. CASE ~lastbyte_in_firstwords(b) /\ ~mode.byteRes
    <3>1. f.n = 1 * W /\ 1 \in Nat /\ f.n = W
      BY <1>1, <1>6, <2>3
    <3>2. NWords(totbytes(b)) * W >= W
      BY <1>1, <1>7
    <3> QED BY <1>1, <1>3, <2>3, <3>1, <3>2
  <2> QED BY <2>1, <2>2, <2>3
<1>9. f.off \in Nat /\ f.off + f.n <= Size
  BY <1>1, <1>3, <1>5, <1>8 DEF Addr
<1>10. ~mode.byteRes => f.off = Down(f.off)
  BY <1>2, <1>5, DownDown DEF start
<1>11. IsRead(f)
  BY <1>8, <1>9, <1>10, ReadsWords
<1> QED BY <1>5, <1>6, <1>8, <1>11 DEF f

\* The readback of the last word ends where the block does, at the word.
LEMMA LastReads ==
    ASSUME mode \in Modes, NEW b, Good(b)
    PROVE  /\ IsRead(LastRead(b)) /\ LastRead(b).n = IF mode.byteRes THEN 1 ELSE W
           /\ mode.byteRes => LastRead(b).off = b.off + b.n - 1
           /\ ~mode.byteRes => LastRead(b).off = start(b) + Down(totbytes(b) - 1)
           /\ ~mode.byteRes => LastRead(b).off + W = start(b) + length(b)
           /\ ~mode.byteRes => LastRead(b).off + ((totbytes(b) - 1) % W) = b.off + b.n - 1
<1> DEFINE l == LastRead(b)
<1>1. W \in Nat /\ W >= 1 /\ Size \in Nat
  BY Constants
<1>2. b.off \in Nat /\ b.n \in Nat /\ b.n >= 1 /\ b.off + b.n <= Size
  BY DEF Good, BlockType
<1>3. /\ start(b) \in Addr /\ length(b) \in 1..Size /\ start(b) + length(b) <= Size
      /\ start(b) + headbytes(b) = b.off
      /\ totbytes(b) >= 1 /\ totbytes(b) <= length(b) /\ length(b) <= totbytes(b) + W - 1
      /\ ~mode.byteRes => length(b) = NWords(totbytes(b)) * W
  BY <1>2, InsideMemory
<1>4. totbytes(b) \in Nat /\ totbytes(b) = headbytes(b) + b.n /\ headbytes(b) \in 0..W-1
  BY <1>2, Heads
<1>5. CASE mode.byteRes
  <2>1. l.off = b.off + b.n - 1 /\ l.n = 1
    BY <1>5 DEF LastRead
  <2> HIDE DEF l
  <2>2. l.off \in Nat /\ l.n \in Nat /\ l.n >= 1 /\ l.off + l.n <= Size
    BY <1>1, <1>2, <2>1
  <2>3. IsRead(l)
    BY <1>5, <2>2, ReadsWords
  <2> QED BY <1>5, <2>1, <2>3 DEF l
<1>6. CASE ~mode.byteRes
  <2>1. l.off = Down(b.off + b.n - 1) /\ l.n = W
    BY <1>6 DEF LastRead
  <2> HIDE DEF l
  <2>2. PICK d \in Nat : start(b) = W * d
    BY <1>2, <1>6, DivMod DEF start, Down
  <2>3. PICK t \in Nat : t = totbytes(b) - 1
    BY <1>3, <1>4
  <2>4. PICK q \in Nat, r \in 0..W-1 : t = W * q + r /\ r = t % W /\ Down(t) = W * q
    BY DivMod DEF Down
  <2>5. W * (d + q) = W * d + W * q /\ W * d \in Nat /\ W * q \in Nat /\ d + q \in Nat
    BY <1>1
  <2>6. b.off + b.n - 1 = W * (d + q) + r /\ b.off + b.n - 1 \in Nat
    BY <1>1, <1>2, <1>3, <1>4, <2>2, <2>3, <2>4, <2>5
  <2>7. l.off = W * d + W * q
    BY <1>1, <2>1, <2>5, <2>6, Remainder
  <2>8. PICK z \in Nat : z = NWords(totbytes(b))
    BY <1>4, Words
  <2>9. W * q + W = length(b)
    <3>1. length(b) = W * z /\ W * z \in Nat
      BY <1>1, <1>3, <1>6, <2>8
    <3>2. W * (q + 1) = W * q + W /\ q + 1 \in Nat
      BY <1>1
    <3>3. W * (q + 1) < W * z + W /\ W * z < W * (q + 1) + W
      BY <1>1, <1>3, <1>4, <2>3, <2>4, <2>5, <3>1, <3>2
    <3>4. W * (q + 1) <= W * z /\ W * z <= W * (q + 1)
      BY <3>2, <3>3, Multiples
    <3> QED BY <1>1, <2>5, <3>1, <3>2, <3>4
  <2>10. /\ l.off \in Nat /\ l.n \in Nat /\ l.n >= 1 /\ l.off + l.n <= Size
         /\ l.off + W = start(b) + length(b) /\ l.off + r = b.off + b.n - 1
    BY <1>1, <1>2, <1>3, <2>1, <2>2, <2>5, <2>6, <2>7, <2>9
  <2>11. l.off = Down(l.off)
    BY <2>1, <2>6, DownDown
  <2>12. \E x \in Nat : l.n = x * W
    BY <1>1, <2>1
  <2>13. IsRead(l)
    BY <2>10, <2>11, <2>12, ReadsWords
  <2>14. l.off = start(b) + Down(totbytes(b) - 1) /\ r = (totbytes(b) - 1) % W
    BY <2>2, <2>3, <2>4, <2>7
  <2> QED BY <1>6, <2>1, <2>10, <2>13, <2>14 DEF l
<1> QED BY <1>5, <1>6

-----------------------------------------------------------------------------
(* What a write sends.                                                      *)

\* A function on 1..n is a sequence.
LEMMA FunSeq ==
    ASSUME NEW S, NEW n \in Nat, NEW f \in [1..n -> S]
    PROVE  f \in Seq(S) /\ Len(f) = n /\ DOMAIN f = 1..n
<1>1. f \in Seq(S)
  BY SeqDef
<1>2. DOMAIN f = 1..n
  OBVIOUS
<1>3. Len(f) \in Nat /\ DOMAIN f = 1..Len(f)
  BY <1>1, LenProperties
<1> QED BY <1>1, <1>2, <1>3

\* Three sequences, one after the other.
LEMMA ThreeParts ==
    ASSUME NEW S, NEW s1 \in Seq(S), NEW s2 \in Seq(S), NEW s3 \in Seq(S), NEW p, p = s1 \o s2 \o s3
    PROVE  /\ p \in Seq(S) /\ Len(p) = Len(s1) + Len(s2) + Len(s3)
           /\ \A i \in 1..Len(s1) : p[i] = s1[i]
           /\ \A i \in 1..Len(s2) : p[Len(s1) + i] = s2[i]
           /\ \A i \in 1..Len(s3) : p[Len(s1) + Len(s2) + i] = s3[i]
<1>1. Len(s1) \in Nat /\ Len(s2) \in Nat /\ Len(s3) \in Nat
  BY LenProperties
<1>2. PICK q : q = s1 \o s2
  OBVIOUS
<1>3. /\ q \in Seq(S) /\ Len(q) = Len(s1) + Len(s2)
      /\ \A i \in 1..(Len(s1) + Len(s2)) : q[i] = IF i <= Len(s1) THEN s1[i] ELSE s2[i - Len(s1)]
  BY <1>2, ConcatProperties
<1>4. /\ p \in Seq(S) /\ Len(p) = Len(q) + Len(s3)
      /\ \A i \in 1..(Len(q) + Len(s3)) : p[i] = IF i <= Len(q) THEN q[i] ELSE s3[i - Len(q)]
  BY <1>2, <1>3, ConcatProperties
<1>5. \A i \in 1..Len(s1) : p[i] = s1[i]
  BY <1>1, <1>3, <1>4
<1>6. ASSUME NEW i \in 1..Len(s2) PROVE p[Len(s1) + i] = s2[i]
  <2>1. /\ Len(s1) + i \in 1..(Len(s1) + Len(s2)) /\ Len(s1) + i <= Len(q) /\ ~(Len(s1) + i <= Len(s1))
        /\ (Len(s1) + i) - Len(s1) = i /\ Len(s1) + i \in 1..(Len(q) + Len(s3))
    BY <1>1, <1>3
  <2> QED BY <1>3, <1>4, <2>1
<1>7. ASSUME NEW i \in 1..Len(s3) PROVE p[Len(s1) + Len(s2) + i] = s3[i]
  <2>1. /\ Len(q) + i \in 1..(Len(q) + Len(s3)) /\ ~(Len(q) + i <= Len(q)) /\ (Len(q) + i) - Len(q) = i
    BY <1>1, <1>3
  <2> QED BY <1>3, <1>4, <2>1
<1> QED BY <1>3, <1>4, <1>5, <1>6, <1>7

\* n elements of a sequence, after the first m.
Slice(s, m, n) == SubSeq(s, m + 1, m + n)

\* A slice that is empty or ends where the sequence does.
LEMMA Part ==
    ASSUME NEW S, NEW s \in Seq(S), NEW m \in Nat, NEW n \in Int, n <= 0 \/ n <= Len(s) - m
    PROVE  /\ Slice(s, m, n) \in Seq(S)
           /\ n >= 0 => Len(Slice(s, m, n)) = n
           /\ n <= 0 => Slice(s, m, n) = <<>> /\ Len(Slice(s, m, n)) = 0
           /\ \A i \in 1..n : Slice(s, m, n)[i] = s[m + i]
<1>1. Len(s) \in Nat
  BY LenProperties
<1>2. CASE n >= 1
  <2>1. m + 1 \in 1..Len(s)+1 /\ m + n \in (m + 1) - 1 .. Len(s) /\ (m + n) - (m + 1) + 1 = n
    BY <1>1, <1>2
  <2>2. /\ SubSeq(s, m + 1, m + n) \in Seq(S) /\ Len(SubSeq(s, m + 1, m + n)) = n
        /\ \A i \in 1..n : SubSeq(s, m + 1, m + n)[i] = s[(m + 1) + i - 1]
    BY <2>1, SubSeqProperties
  <2>3. \A i \in 1..n : (m + 1) + i - 1 = m + i
    OBVIOUS
  <2> QED BY <1>2, <2>2, <2>3 DEF Slice
<1>3. CASE n <= 0
  <2>1. m + 1 > m + n
    BY <1>3
  <2>2. Slice(s, m, n) = <<>>
    BY <2>1 DEF Slice
  <2> QED BY <1>3, <2>2, EmptySeq
<1> QED BY <1>2, <1>3

\* Bit x of byte j of the words of block b is to be written.
Mine(b, j, x) ==
    /\ j \in headbytes(b) + 1 .. headbytes(b) + b.n
    /\ ~(j = headbytes(b) + 1 /\ x \in b.m1) /\ ~(j = headbytes(b) + b.n /\ x \in b.mn)

\* Byte j with its new bits, if it was o.
Mixed(b, j, o) ==
    [x \in Bit |-> IF Mine(b, j, x) THEN <<k, b.s + j - headbytes(b) - 1>> ELSE o[x]]

\* p is block b, merged into its words as they were.
Composed(b, p, old) ==
    /\ p \in Seq(Byte) /\ Len(p) = length(b)
    /\ \A j \in 1..length(b) : p[j] = Mixed(b, j, old[j])

\* What was read back for block b is what its words were.
Supplied(b, first, last, old) ==
    /\ first \in Seq(Byte) /\ last \in Seq(Byte) /\ old \in [1..length(b) -> Byte]
    /\ needFirst(b) => /\ FirstRead(b).n <= Len(first)
                       /\ \A j \in 1..FirstRead(b).n : first[j] = old[j]
    /\ (needLast(b) /\ ~needFirst(b)) \/ two(b) =>
           /\ LastRead(b).n <= Len(last)
           /\ \A j \in 1..LastRead(b).n : last[j] = old[LastRead(b).off - start(b) + j]

\* The source of a block.
LEMMA Sources ==
    ASSUME k \in 0..MaxCalls, NEW b, Good(b)
    PROVE  /\ Source(b) \in Seq(Byte) /\ Len(Source(b)) = b.n
           /\ \A i \in 1..b.n : /\ Source(b)[i] = [x \in Bit |-> <<k, b.s + i - 1>>]
                                /\ Source(b)[i] \in Byte
<1>1. b.n \in Nat /\ b.s \in Nat
  BY DEF Good, BlockType
<1>2. \A i \in 1..b.n : [x \in Bit |-> <<k, b.s + i - 1>>] \in Byte
  <2>1. \A i \in 1..b.n : b.s + i - 1 \in Nat
    BY <1>1
  <2> QED BY <2>1 DEF Byte
<1>3. \A i \in 1..b.n : Source(b)[i] = [x \in Bit |-> <<k, b.s + i - 1>>]
  BY DEF Source
<1>4. Source(b) \in [1..b.n -> Byte]
  BY <1>2 DEF Source
<1> QED BY <1>1, <1>2, <1>3, <1>4, FunSeq

\* Merging keeps the type.
LEMMA MergeByte ==
    ASSUME NEW o \in Byte, NEW w \in Byte, NEW m
    PROVE  Merge(o, w, m) \in Byte
BY DEF Merge, Byte

\* Which byte of the block, if any, byte j of its words gets.
LEMMA Mixing ==
    ASSUME mode \in Modes, k \in 0..MaxCalls, NEW b, Good(b), NEW j \in Nat, NEW o \in Byte
    PROVE  LET h == headbytes(b)
           IN  /\ Mixed(b, j, o) \in Byte
               /\ j = h + 1 /\ b.n = 1 => Mixed(b, j, o) = Merge(o, Source(b)[1], b.m1 \union b.mn)
               /\ j = h + 1 /\ b.n > 1 => Mixed(b, j, o) = Merge(o, Source(b)[1], b.m1)
               /\ j = h + b.n /\ b.n > 1 => Mixed(b, j, o) = Merge(o, Source(b)[b.n], b.mn)
               /\ j \in h + 1 .. h + b.n /\ (j = h + 1 => b.m1 = {}) /\ (j = h + b.n => b.mn = {}) =>
                      Mixed(b, j, o) = Source(b)[j - h]
               /\ j <= h \/ j > h + b.n => Mixed(b, j, o) = o
<1> DEFINE h == headbytes(b)
<1>1. b.n \in Nat /\ b.n >= 1 /\ b.s \in Nat /\ b.off \in Nat
  BY DEF Good, BlockType
<1>2. h \in Nat
  BY <1>1, Heads, Constants
<1> HIDE DEF h
<1>3. \A i \in 1..b.n : Source(b)[i] = [x \in Bit |-> <<k, b.s + i - 1>>] /\ Source(b)[i] \in Byte
  BY Sources
<1>4. Mixed(b, j, o) =
        [x \in Bit |-> IF /\ j \in h + 1 .. h + b.n
                          /\ ~(j = h + 1 /\ x \in b.m1) /\ ~(j = h + b.n /\ x \in b.mn)
                       THEN <<k, b.s + j - h - 1>> ELSE o[x]]
  BY DEF Mixed, Mine, h
<1>5. j \in h + 1 .. h + b.n =>
        /\ j - h \in 1..b.n /\ b.s + j - h - 1 \in Nat
        /\ \A x \in Bit : Source(b)[j - h][x] = <<k, b.s + j - h - 1>>
  <2>1. j \in h + 1 .. h + b.n =>
          j - h \in 1..b.n /\ b.s + j - h - 1 \in Nat /\ b.s + (j - h) - 1 = b.s + j - h - 1
    BY <1>1, <1>2
  <2> QED BY <1>3, <2>1
<1>6. Mixed(b, j, o) \in Byte
  BY <1>4, <1>5 DEF Byte
<1>7. \A m : j \in h + 1 .. h + b.n =>
                Merge(o, Source(b)[j - h], m) = [x \in Bit |-> IF x \in m THEN o[x] ELSE <<k, b.s + j - h - 1>>]
  BY <1>5 DEF Merge
<1>8. ASSUME j = h + 1, b.n = 1 PROVE Mixed(b, j, o) = Merge(o, Source(b)[1], b.m1 \union b.mn)
  <2>1. j \in h + 1 .. h + b.n /\ j = h + b.n /\ j - h = 1
    BY <1>1, <1>2, <1>8
  <2> QED BY <1>4, <1>7, <1>8, <2>1
<1>9. ASSUME j = h + 1, b.n > 1 PROVE Mixed(b, j, o) = Merge(o, Source(b)[1], b.m1)
  <2>1. j \in h + 1 .. h + b.n /\ j # h + b.n /\ j - h = 1
    BY <1>1, <1>2, <1>9
  <2> QED BY <1>4, <1>7, <1>9, <2>1
<1>10. ASSUME j = h + b.n, b.n > 1 PROVE Mixed(b, j, o) = Merge(o, Source(b)[b.n], b.mn)
  <2>1. j \in h + 1 .. h + b.n /\ j # h + 1 /\ j - h = b.n
    BY <1>1, <1>2, <1>10
  <2> QED BY <1>4, <1>7, <1>10, <2>1
<1>11. ASSUME j \in h + 1 .. h + b.n, j = h + 1 => b.m1 = {}, j = h + b.n => b.mn = {}
       PROVE  Mixed(b, j, o) = Source(b)[j - h]
  <2>1. Mixed(b, j, o) = [x \in Bit |-> <<k, b.s + j - h - 1>>]
    BY <1>4, <1>11
  <2>2. Source(b)[j - h] = [x \in Bit |-> <<k, b.s + (j - h) - 1>>]
    BY <1>3, <1>5, <1>11
  <2>3. b.s + (j - h) - 1 = b.s + j - h - 1
    BY <1>1, <1>2
  <2> QED BY <2>1, <2>2, <2>3
<1>12. ASSUME j <= h \/ j > h + b.n PROVE Mixed(b, j, o) = o
  <2>1. ~(j \in h + 1 .. h + b.n)
    BY <1>1, <1>2, <1>12
  <2>2. Mixed(b, j, o) = [x \in Bit |-> o[x]]
    BY <1>4, <2>1
  <2> QED BY <2>2 DEF Byte
<1> QED BY <1>6, <1>8, <1>9, <1>10, <1>11, <1>12 DEF h

\* The parts of what is sent.
Part1(b, first)       == IF merge_first(b) THEN SubSeq(first_words(b, first), 1, firstlen(b)) ELSE <<>>
skip(b)               == IF merge_first(b) THEN firstlen(b) - headbytes(b) ELSE 0
Part2(b)              == SubSeq(Source(b), skip(b) + 1, skip(b) + toput(b))
Part3(b, first, last) == IF merge_last(b) THEN last_word(b, first, last) ELSE <<>>

\* The parts follow each other.
LEMMA Parts ==
    ASSUME NEW b, NEW first, NEW last
    PROVE  payload(b, first, last) = Part1(b, first) \o Part2(b) \o Part3(b, first, last)
BY DEF payload, Part1, Part2, Part3, skip

\* The numbers of a block.
LEMMA BlockNumbers ==
    ASSUME mode \in Modes, NEW b, Good(b)
    PROVE  /\ W \in Nat /\ W >= 1 /\ Extra \in Nat
           /\ b.off \in Nat /\ b.n \in Nat /\ b.n >= 1 /\ b.s \in Nat
           /\ headbytes(b) \in Nat /\ headbytes(b) < W /\ (mode.byteRes => headbytes(b) = 0)
           /\ totbytes(b) = headbytes(b) + b.n /\ totbytes(b) \in Nat
           /\ length(b) \in Nat /\ totbytes(b) <= length(b)
           /\ FirstRead(b).n \in Nat /\ FirstRead(b).n >= 1 /\ FirstRead(b).n <= length(b)
<1>1. W \in Nat /\ W >= 1 /\ Extra \in Nat /\ Size \in Nat
  BY Constants
<1>2. b.off \in Nat /\ b.n \in Nat /\ b.n >= 1 /\ b.s \in Nat /\ b.off + b.n <= Size
  BY DEF Good, BlockType
<1>3. /\ headbytes(b) \in 0..W-1 /\ (mode.byteRes => headbytes(b) = 0)
      /\ totbytes(b) = headbytes(b) + b.n /\ totbytes(b) \in Nat
  BY <1>2, Heads
<1>4. length(b) \in 1..Size /\ totbytes(b) <= length(b)
  BY <1>2, InsideMemory
<1>5. FirstRead(b).n \in Nat /\ FirstRead(b).n >= 1 /\ FirstRead(b).n <= length(b)
  BY FirstReads DEF IsRead
<1> QED BY <1>1, <1>2, <1>3, <1>4, <1>5

\* The words that were read back, with the bytes of the source; n is remaining.
LEMMA FirstWords ==
    ASSUME mode \in Modes, k \in 0..MaxCalls, NEW b, Good(b), NEW first \in Seq(Byte),
           NEW n \in Int, n = remaining(b), n <= b.n - 1, inside(b) => b.n > 1 /\ n <= b.n - 2
    PROVE  LET h == headbytes(b)
               f == first_words(b, first)
           IN  /\ f \in Seq(Byte) /\ Len(f) = Len(first)
               /\ \A j \in 1..Len(first) :
                      /\ j = h + 1 => f[j] = Merge(first[j], Source(b)[1], msk1(b))
                      /\ inside(b) /\ j = totbytes(b) => f[j] = Merge(first[j], Source(b)[b.n], b.mn)
                      /\ j \in h + 2 .. h + 1 + n => f[j] = Source(b)[j - h]
                      /\ j <= h \/ (j > h + 1 + n /\ j # h + 1 /\ ~(inside(b) /\ j = totbytes(b))) =>
                             f[j] = first[j]
<1> DEFINE h == headbytes(b)
           f == first_words(b, first)
<1>1. /\ b.n \in Nat /\ b.n >= 1 /\ h \in Nat /\ totbytes(b) = h + b.n /\ totbytes(b) \in Nat
  BY BlockNumbers
<1>2. Len(first) \in Nat /\ DOMAIN first = 1..Len(first)
  BY LenProperties
<1>3. \A i \in 1..b.n : Source(b)[i] \in Byte
  BY Sources
<1>4. f = [j \in 1..Len(first) |->
            CASE j = h + 1                    -> Merge(first[j], Source(b)[1], msk1(b))
              [] inside(b) /\ j = totbytes(b) -> Merge(first[j], Source(b)[b.n], b.mn)
              [] j \in h + 2 .. h + 1 + n     -> Source(b)[j - h]
              [] OTHER                        -> first[j]]
  BY <1>2 DEF first_words
<1> HIDE DEF f, h
<1>5. \A j \in 1..Len(first) :
          /\ j = h + 1 => ~(inside(b) /\ j = totbytes(b)) /\ j \notin h + 2 .. h + 1 + n
          /\ inside(b) /\ j = totbytes(b) => j # h + 1 /\ j \notin h + 2 .. h + 1 + n
          /\ j \in h + 2 .. h + 1 + n => j # h + 1 /\ ~(inside(b) /\ j = totbytes(b)) /\ j - h \in 1..b.n
          /\ j <= h \/ (j > h + 1 + n /\ j # h + 1 /\ ~(inside(b) /\ j = totbytes(b))) =>
                 j # h + 1 /\ ~(inside(b) /\ j = totbytes(b)) /\ j \notin h + 2 .. h + 1 + n
  BY <1>1, <1>2
<1>6. ASSUME NEW j \in 1..Len(first)
      PROVE  /\ j = h + 1 => f[j] = Merge(first[j], Source(b)[1], msk1(b))
             /\ inside(b) /\ j = totbytes(b) => f[j] = Merge(first[j], Source(b)[b.n], b.mn)
             /\ j \in h + 2 .. h + 1 + n => f[j] = Source(b)[j - h]
             /\ j <= h \/ (j > h + 1 + n /\ j # h + 1 /\ ~(inside(b) /\ j = totbytes(b))) =>
                    f[j] = first[j]
  <2>1. f[j] = CASE j = h + 1                    -> Merge(first[j], Source(b)[1], msk1(b))
                 [] inside(b) /\ j = totbytes(b) -> Merge(first[j], Source(b)[b.n], b.mn)
                 [] j \in h + 2 .. h + 1 + n     -> Source(b)[j - h]
                 [] OTHER                        -> first[j]
    BY <1>4
  <2>2. /\ j = h + 1 => f[j] = Merge(first[j], Source(b)[1], msk1(b))
        /\ inside(b) /\ j = totbytes(b) => f[j] = Merge(first[j], Source(b)[b.n], b.mn)
        /\ j \in h + 2 .. h + 1 + n => f[j] = Source(b)[j - h]
        /\ j # h + 1 /\ ~(inside(b) /\ j = totbytes(b)) /\ j \notin h + 2 .. h + 1 + n => f[j] = first[j]
    BY <1>5, <2>1
  <2> QED BY <1>5, <2>2
<1>7. \A j \in 1..Len(first) : f[j] \in Byte
  <2>1. ASSUME NEW j \in 1..Len(first) PROVE f[j] \in Byte
    <3>1. first[j] \in Byte /\ Source(b)[1] \in Byte /\ Source(b)[b.n] \in Byte
      BY <1>1, <1>2, <1>3, ElementOfSeq
    <3>2. \A m : Merge(first[j], Source(b)[1], m) \in Byte /\ Merge(first[j], Source(b)[b.n], m) \in Byte
      BY <3>1, MergeByte
    <3>3. j \in h + 2 .. h + 1 + n => Source(b)[j - h] \in Byte
      BY <1>3, <1>5
    <3>4. \/ j = h + 1 \/ (inside(b) /\ j = totbytes(b)) \/ j \in h + 2 .. h + 1 + n
          \/ j <= h \/ (j > h + 1 + n /\ j # h + 1 /\ ~(inside(b) /\ j = totbytes(b)))
      BY <1>1, <1>2
    <3> QED BY <1>6, <3>1, <3>2, <3>3, <3>4
  <2> QED BY <2>1
<1>8. f \in [1..Len(first) -> Byte]
  BY <1>4, <1>7
<1>9. f \in Seq(Byte) /\ Len(f) = Len(first)
  BY <1>2, <1>8, FunSeq
<1> QED BY <1>6, <1>9 DEF f, h

\* f is a word whose first l bytes and, but for its mask, the next one are the end of block b;
\* the others are those of o.
IsEnd(f, b, l, n, o) ==
    f = [j \in 1..n |-> CASE j <= l    -> Source(b)[b.n - l + j - 1]
                          [] j = l + 1 -> Merge(o[j], Source(b)[b.n], b.mn)
                          [] OTHER     -> o[j]]

\* The last word, with the bytes of the source; l is last_byte.
LEMMA LastWord ==
    ASSUME k \in 0..MaxCalls, NEW b, Good(b), NEW l \in Nat, l <= b.n - 1, NEW n \in Nat,
           NEW o, \A j \in 1..n : o[j] \in Byte, NEW f, IsEnd(f, b, l, n, o)
    PROVE  /\ f \in Seq(Byte) /\ Len(f) = n
           /\ \A j \in 1..n : /\ j <= l => f[j] = Source(b)[b.n - l + j - 1]
                              /\ j = l + 1 => f[j] = Merge(o[j], Source(b)[b.n], b.mn)
                              /\ j > l + 1 => f[j] = o[j]
<1>1. b.n \in Nat /\ b.n >= 1
  BY DEF Good, BlockType
<1>2. \A i \in 1..b.n : Source(b)[i] \in Byte
  BY Sources
<1>3. ASSUME NEW j \in 1..n
      PROVE  /\ j <= l => f[j] = Source(b)[b.n - l + j - 1]
             /\ j = l + 1 => f[j] = Merge(o[j], Source(b)[b.n], b.mn)
             /\ j > l + 1 => f[j] = o[j]
             /\ f[j] \in Byte
  <2>1. f[j] = CASE j <= l    -> Source(b)[b.n - l + j - 1]
                 [] j = l + 1 -> Merge(o[j], Source(b)[b.n], b.mn)
                 [] OTHER     -> o[j]
    BY DEF IsEnd
  <2>2. /\ j <= l => j # l + 1 /\ b.n - l + j - 1 \in 1..b.n
        /\ j = l + 1 => ~(j <= l)
        /\ j > l + 1 => ~(j <= l) /\ j # l + 1
        /\ j <= l \/ j = l + 1 \/ j > l + 1
    BY <1>1
  <2>3. /\ j <= l => f[j] = Source(b)[b.n - l + j - 1]
        /\ j = l + 1 => f[j] = Merge(o[j], Source(b)[b.n], b.mn)
        /\ j > l + 1 => f[j] = o[j]
    BY <2>1, <2>2
  <2>4. Merge(o[j], Source(b)[b.n], b.mn) \in Byte
    BY <1>1, <1>2, MergeByte
  <2> QED BY <1>2, <2>2, <2>3, <2>4
<1>4. f \in [1..n -> Byte]
  BY <1>3 DEF IsEnd
<1> QED BY <1>3, <1>4, FunSeq

\* Where the last word is, when it is read back by itself.
LEMMA LastPlace ==
    ASSUME mode \in Modes, NEW b, Good(b), ~lastbyte_in_firstwords(b)
    PROVE  LET l  == last_byte(b)
               lo == totbytes(b) - 1 - l
           IN  /\ l \in Nat /\ lo \in Nat /\ LastRead(b).off - start(b) = lo
               /\ LastRead(b).n = IF mode.byteRes THEN 1 ELSE W
               /\ l < LastRead(b).n /\ length(b) = lo + LastRead(b).n
               /\ ~mode.byteRes => lo = Down(totbytes(b) - 1)
<1>1. W \in Nat /\ W >= 1 /\ Size \in Nat
  BY Constants
<1>2. b.off \in Nat /\ b.n \in Nat /\ b.n >= 1 /\ b.off + b.n <= Size
  BY DEF Good, BlockType
<1>3. /\ start(b) \in Nat /\ length(b) \in Nat /\ start(b) + headbytes(b) = b.off
      /\ totbytes(b) >= 1 /\ (mode.byteRes => length(b) = totbytes(b))
  BY <1>1, <1>2, InsideMemory DEF Addr
<1>4. totbytes(b) \in Nat /\ totbytes(b) = headbytes(b) + b.n /\ headbytes(b) \in 0..W-1
  BY <1>2, Heads
<1>5. /\ IsRead(LastRead(b)) /\ LastRead(b).n = IF mode.byteRes THEN 1 ELSE W
      /\ mode.byteRes => LastRead(b).off = b.off + b.n - 1
      /\ ~mode.byteRes => LastRead(b).off = start(b) + Down(totbytes(b) - 1)
      /\ ~mode.byteRes => LastRead(b).off + W = start(b) + length(b)
  BY LastReads
<1>6. LastRead(b).off \in Nat
  BY <1>5 DEF IsRead
<1>7. CASE mode.byteRes
  <2>1. last_byte(b) = 0
    BY <1>7 DEF last_byte
  <2> QED BY <1>2, <1>3, <1>4, <1>5, <1>6, <1>7, <2>1
<1>8. CASE ~mode.byteRes
  <2>1. last_byte(b) = (totbytes(b) - 1) % W
    BY <1>8 DEF last_byte
  <2>2. totbytes(b) - 1 \in Nat
    BY <1>3, <1>4
  <2>3. /\ last_byte(b) \in 0..W-1 /\ Down(totbytes(b) - 1) \in Nat
        /\ Down(totbytes(b) - 1) + last_byte(b) = totbytes(b) - 1
    BY <2>1, <2>2, DivMod
  <2> QED BY <1>1, <1>3, <1>4, <1>5, <1>6, <1>8, <2>3
<1> QED BY <1>7, <1>8

\* A block that ends with a word.
LEMMA Even ==
    ASSUME mode \in Modes, NEW b, Good(b), mode.byteRes \/ totbytes(b) % W = 0
    PROVE  length(b) = totbytes(b)
<1>1. W \in Nat /\ W >= 1 /\ Size \in Nat
  BY Constants
<1>2. b.off \in Nat /\ b.n \in Nat /\ b.n >= 1 /\ b.off + b.n <= Size
  BY DEF Good, BlockType
<1>3. totbytes(b) \in Nat
  BY <1>2, Heads
<1>4. CASE mode.byteRes
  BY <1>2, <1>4, InsideMemory
<1>5. CASE ~mode.byteRes
  <2>1. PICK q \in Nat : totbytes(b) = W * q + 0
    BY <1>3, <1>5, DivMod
  <2>2. totbytes(b) = q * W
    BY <1>1, <2>1
  <2>3. NWords(totbytes(b)) = q
    BY <2>2, WordsOfWords
  <2> QED BY <1>5, <2>2, <2>3 DEF length
<1> QED BY <1>4, <1>5

\* s is what has to be sent from byte a on, n bytes.
Fits(b, s, a, n, old) ==
    s \in Seq(Byte) /\ Len(s) = n /\ \A i \in 1..n : s[i] = Mixed(b, a + i, old[a + i])

\* Nothing fits everywhere.
LEMMA NothingFits == ASSUME NEW b, NEW a, NEW old PROVE Fits(b, <<>>, a, 0, old)
<1>1. <<>> \in Seq(Byte) /\ Len(<<>>) = 0
  BY EmptySeq
<1>2. 1..0 = {}
  OBVIOUS
<1> QED BY <1>1, <1>2 DEF Fits

\* Parts that fit make up the block.
LEMMA Compose ==
    ASSUME NEW b, NEW old, NEW a \in Nat, NEW c \in Nat, NEW d \in Nat, NEW s1, NEW s2, NEW s3,
           Fits(b, s1, 0, a, old), Fits(b, s2, a, c, old), Fits(b, s3, a + c, d, old),
           length(b) = a + c + d
    PROVE  Composed(b, s1 \o s2 \o s3, old)
<1>1. PICK p : p = s1 \o s2 \o s3
  OBVIOUS
<1>2. /\ s1 \in Seq(Byte) /\ Len(s1) = a /\ \A i \in 1..a : s1[i] = Mixed(b, 0 + i, old[0 + i])
      /\ s2 \in Seq(Byte) /\ Len(s2) = c /\ \A i \in 1..c : s2[i] = Mixed(b, a + i, old[a + i])
      /\ s3 \in Seq(Byte) /\ Len(s3) = d /\ \A i \in 1..d : s3[i] = Mixed(b, a + c + i, old[a + c + i])
  BY DEF Fits
<1>3. /\ p \in Seq(Byte) /\ Len(p) = Len(s1) + Len(s2) + Len(s3)
      /\ \A i \in 1..Len(s1) : p[i] = s1[i]
      /\ \A i \in 1..Len(s2) : p[Len(s1) + i] = s2[i]
      /\ \A i \in 1..Len(s3) : p[Len(s1) + Len(s2) + i] = s3[i]
  <2>1. s1 \in Seq(Byte) /\ s2 \in Seq(Byte) /\ s3 \in Seq(Byte)
    BY <1>2
  <2> QED BY <1>1, <2>1, ThreeParts
<1>4. /\ p \in Seq(Byte) /\ Len(p) = a + c + d
      /\ \A i \in 1..a : p[i] = s1[i]
      /\ \A i \in 1..c : p[a + i] = s2[i]
      /\ \A i \in 1..d : p[a + c + i] = s3[i]
  BY <1>2, <1>3, Zenon
<1>5. ASSUME NEW j \in 1..length(b) PROVE p[j] = Mixed(b, j, old[j])
  <2>1. CASE j <= a
    <3>1. j \in 1..a /\ 0 + j = j
      BY <2>1
    <3> QED BY <1>2, <1>4, <3>1
  <2>2. CASE j > a /\ j <= a + c
    <3>1. PICK i \in 1..c : j = a + i
      <4>1. j - a \in 1..c /\ j = a + (j - a)
        BY <2>2
      <4> QED BY <4>1
    <3> QED BY <1>2, <1>4, <3>1, Zenon
  <2>3. CASE j > a + c
    <3>1. PICK i \in 1..d : j = a + c + i
      <4>1. j - (a + c) \in 1..d /\ j = a + c + (j - (a + c))
        BY <2>3
      <4> QED BY <4>1
    <3> QED BY <1>2, <1>4, <3>1, Zenon
  <2> QED BY <2>1, <2>2, <2>3
<1> QED BY <1>1, <1>4, <1>5 DEF Composed

\* The words at the beginning fit, when the rest of them is taken from the source
\* as far as the block goes and from what was read back after that.
LEMMA FirstFits ==
    ASSUME mode \in Modes, k \in 0..MaxCalls, NEW b, Good(b), NEW first, NEW last, NEW old,
           Supplied(b, first, last, old), needFirst(b),
           NEW F \in Nat, F = firstlen(b), F <= FirstRead(b).n,
           NEW r \in Int, r = remaining(b),
           b.n = 1 => r = 0,
           inside(b) => b.n > 1 /\ r = b.n - 2,
           b.n > 1 /\ ~inside(b) =>
               /\ r <= b.n - 1 /\ F <= headbytes(b) + 1 + r
               /\ F <= totbytes(b) /\ (F = totbytes(b) => b.mn = {})
    PROVE  Fits(b, Part1(b, first), 0, F, old)
<1> DEFINE h == headbytes(b)
           f == first_words(b, first)
<1>1. /\ W \in Nat /\ W >= 1 /\ b.n \in Nat /\ b.n >= 1 /\ h \in Nat /\ h < W
      /\ totbytes(b) = h + b.n /\ length(b) \in Nat
      /\ FirstRead(b).n \in Nat /\ FirstRead(b).n <= length(b)
  BY BlockNumbers
<1>2. /\ first \in Seq(Byte) /\ FirstRead(b).n <= Len(first) /\ old \in [1..length(b) -> Byte]
      /\ \A j \in 1..FirstRead(b).n : first[j] = old[j]
  BY DEF Supplied
<1>3. Len(first) \in Nat
  BY <1>2, LenProperties
<1>4. /\ f \in Seq(Byte) /\ Len(f) = Len(first)
      /\ \A j \in 1..Len(first) :
             /\ j = h + 1 => f[j] = Merge(first[j], Source(b)[1], msk1(b))
             /\ inside(b) /\ j = totbytes(b) => f[j] = Merge(first[j], Source(b)[b.n], b.mn)
             /\ j \in h + 2 .. h + 1 + r => f[j] = Source(b)[j - h]
             /\ j <= h \/ (j > h + 1 + r /\ j # h + 1 /\ ~(inside(b) /\ j = totbytes(b))) =>
                    f[j] = first[j]
  <2>1. r <= b.n - 1 /\ (inside(b) => b.n > 1 /\ r <= b.n - 2)
    BY <1>1
  <2> QED BY <1>2, <2>1, FirstWords
<1>5. Part1(b, first) = Slice(f, 0, F)
  BY DEF Part1, merge_first, Slice
<1> HIDE DEF f, h
<1>6. Part1(b, first) \in Seq(Byte) /\ Len(Part1(b, first)) = F /\ \A i \in 1..F : Part1(b, first)[i] = f[0 + i]
  <2>1. F <= Len(f) - 0 /\ F \in Int /\ F >= 0
    BY <1>1, <1>2, <1>3, <1>4
  <2> QED BY <1>4, <1>5, <2>1, Part
<1>7. b.n = 1 => msk1(b) = b.m1 \union b.mn
  <2>1. CASE needLast(b)
    BY <2>1 DEF msk1, overlap, both
  <2>2. CASE ~needLast(b)
    <3>1. b.mn = {}
      BY <2>2 DEF needLast
    <3> QED BY <2>2, <3>1 DEF msk1, overlap, both
  <2> QED BY <2>1, <2>2
<1>8. b.n > 1 => msk1(b) = b.m1
  <2>1. b.n > 1 => b.n # 1
    BY <1>1
  <2> QED BY <2>1 DEF msk1, overlap
<1>9. ASSUME NEW i \in 1..F PROVE Part1(b, first)[i] = Mixed(b, 0 + i, old[0 + i])
  <2>1. i \in Nat /\ i \in 1..Len(first) /\ i \in 1..length(b) /\ i \in 1..FirstRead(b).n /\ 0 + i = i
    BY <1>1, <1>2, <1>3
  <2>2. old[i] \in Byte /\ first[i] = old[i]
    BY <1>2, <2>1
  <2>3. Part1(b, first)[i] = f[i]
    BY <1>6, <2>1
  <2>4. CASE i <= h
    <3>1. Mixed(b, i, old[i]) = old[i]
      BY <2>1, <2>2, <2>4, Mixing DEF h
    <3> QED BY <1>4, <2>1, <2>2, <2>3, <2>4, <3>1
  <2>5. CASE i = h + 1
    <3>1. f[i] = Merge(old[i], Source(b)[1], msk1(b))
      BY <1>4, <2>1, <2>2, <2>5
    <3>2. b.n = 1 \/ b.n > 1
      BY <1>1
    <3>3. b.n = 1 => Mixed(b, i, old[i]) = Merge(old[i], Source(b)[1], b.m1 \union b.mn)
      BY <2>1, <2>2, <2>5, Mixing DEF h
    <3>4. b.n > 1 => Mixed(b, i, old[i]) = Merge(old[i], Source(b)[1], b.m1)
      BY <2>1, <2>2, <2>5, Mixing DEF h
    <3> QED BY <1>7, <1>8, <2>1, <2>3, <3>1, <3>2, <3>3, <3>4
  <2>6. CASE i > h + 1 /\ i <= h + 1 + r
    <3>1. i \in h + 2 .. h + 1 + r /\ i \in h + 1 .. h + b.n /\ i # h + 1 /\ (i = h + b.n => b.mn = {})
      <4>1. i > h + 1 /\ i <= h + 1 + r /\ i <= F /\ i \in Nat /\ h \in Nat
        BY <1>1, <2>1, <2>6
      <4>2. i \in h + 2 .. h + 1 + r /\ i # h + 1
        BY <4>1
      <4>3. r <= b.n - 1 /\ b.n \in Nat
        BY <1>1
      <4>4. i \in h + 1 .. h + b.n
        BY <4>1, <4>3
      <4>5. ASSUME i = h + b.n PROVE b.mn = {}
        <5>1. r = b.n - 1
          BY <4>1, <4>3, <4>5
        <5>2. b.n > 1 /\ ~inside(b)
          BY <4>1, <4>3, <4>5, <5>1
        <5> QED BY <1>1, <4>1, <4>5, <5>2
      <4> QED BY <4>2, <4>4, <4>5
    <3>2. Mixed(b, i, old[i]) = Source(b)[i - h]
      BY <2>1, <2>2, <3>1, Mixing DEF h
    <3> QED BY <1>4, <2>1, <2>3, <3>1, <3>2
  <2>7. CASE i > h + 1 /\ i > h + 1 + r /\ inside(b) /\ i = totbytes(b)
    <3>1. Mixed(b, i, old[i]) = Merge(old[i], Source(b)[b.n], b.mn)
      BY <1>1, <2>1, <2>2, <2>7, Mixing DEF h
    <3> QED BY <1>4, <2>1, <2>2, <2>3, <2>7, <3>1
  <2>8. CASE i > h + 1 /\ i > h + 1 + r /\ ~(inside(b) /\ i = totbytes(b))
    <3>1. i > h + b.n
      <4>1. i \in Nat /\ i <= F
        OBVIOUS
      <4>2. CASE b.n = 1
        BY <1>1, <2>8, <4>1, <4>2
      <4>3. CASE inside(b)
        <5>1. r = b.n - 2 /\ i # h + b.n
          BY <1>1, <2>8, <4>3
        <5> QED BY <1>1, <2>8, <4>1, <5>1
      <4>4. CASE b.n > 1 /\ ~inside(b)
        <5>1. F <= h + 1 + r
          BY <4>4 DEF h
        <5> QED BY <1>1, <2>8, <4>1, <5>1
      <4> QED BY <1>1, <4>2, <4>3, <4>4
    <3>2. Mixed(b, i, old[i]) = old[i]
      BY <2>1, <2>2, <3>1, Mixing DEF h
    <3>3. i # h + 1
      BY <1>1, <2>1, <2>8
    <3> QED BY <1>4, <2>1, <2>2, <2>3, <2>8, <3>2, <3>3
  <2> QED BY <1>1, <2>1, <2>4, <2>5, <2>6, <2>7, <2>8
<1> QED BY <1>6, <1>9 DEF Fits

\* A part of the source.
IsPart(p, s, m, n) == p \in Seq(Byte) /\ Len(p) = n /\ \A i \in 1..n : p[i] = s[m + i]

\* It has the bytes it should.
LEMMA SourcePart ==
    ASSUME NEW s \in Seq(Byte), NEW m \in Nat, NEW n \in Nat, m + n <= Len(s)
    PROVE  IsPart(Slice(s, m, n), s, m, n)
<1>1. Len(s) \in Nat
  BY LenProperties
<1>2. n \in Int /\ n >= 0 /\ n <= Len(s) - m
  BY <1>1
<1> QED BY <1>2, Part DEF IsPart

\* A byte that no mask protects ...
Plain(b, j) ==
    /\ j \in Nat /\ j \in headbytes(b) + 1 .. headbytes(b) + b.n
    /\ j = headbytes(b) + 1 => b.m1 = {}
    /\ j = headbytes(b) + b.n => b.mn = {}

\* ... is the byte of the source.
LEMMA PlainMixed ==
    ASSUME mode \in Modes, k \in 0..MaxCalls, NEW b, Good(b), NEW j, Plain(b, j), NEW o \in Byte
    PROVE  Mixed(b, j, o) = Source(b)[j - headbytes(b)]
BY Mixing DEF Plain

\* The bytes that are sent as they are fit: they follow m bytes of the source.
LEMMA MiddleFits ==
    ASSUME mode \in Modes, k \in 0..MaxCalls, NEW b, Good(b), NEW first, NEW last, NEW old,
           Supplied(b, first, last, old),
           NEW m \in Nat, m = skip(b), NEW n \in Nat, n = toput(b), m + n <= b.n,
           m = 0 => b.m1 = {}, m + n = b.n => b.mn = {}, NEW a \in Nat, a = headbytes(b) + m
    PROVE  Fits(b, Part2(b), a, n, old)
<1>1. PICK h \in Nat : h = headbytes(b)
  BY BlockNumbers
<1>2. PICK z \in Nat, len \in Nat : z = b.n /\ len = length(b) /\ h + z <= len
  BY <1>1, BlockNumbers
<1>3. old \in [1..len -> Byte]
  BY <1>2 DEF Supplied
<1>4. Source(b) \in Seq(Byte) /\ Len(Source(b)) = b.n
  BY Sources
<1>5. Part2(b) = Slice(Source(b), m, n)
  BY DEF Part2, Slice
<1>6. /\ Part2(b) \in Seq(Byte) /\ Len(Part2(b)) = n
      /\ \A i \in 1..n : Part2(b)[i] = Source(b)[m + i]
  <2>1. PICK s \in Seq(Byte) : s = Source(b)
    BY <1>4
  <2>2. n \in Nat /\ m + n <= Len(s)
    BY <1>4, <2>1
  <2>3. IsPart(Slice(s, m, n), s, m, n)
    BY <2>2, SourcePart
  <2> QED BY <1>5, <2>1, <2>3 DEF IsPart
<1>7. ASSUME NEW i \in 1..n PROVE Part2(b)[i] = Mixed(b, a + i, old[a + i])
  <2>1. PICK x \in Nat : x = a + i
    OBVIOUS
  <2>2. /\ x \in 1..len /\ m + i = x - h
        /\ x \in h + 1 .. h + z /\ (x = h + 1 => m = 0) /\ (x = h + z => m + n = z)
    BY <1>1, <1>2, <2>1
  <2>3. old[x] \in Byte
    BY <1>3, <2>2
  <2>4. Mixed(b, x, old[x]) = Source(b)[x - h]
    <3>1. Plain(b, x)
      BY <1>1, <1>2, <2>2 DEF Plain
    <3> QED BY <1>1, <2>3, <3>1, PlainMixed
  <2> QED BY <1>6, <2>1, <2>2, <2>4
<1> QED BY <1>6, <1>7 DEF Fits

\* The word at the end fits, given what it was; it begins after lo bytes.
LEMMA EndFits ==
    ASSUME mode \in Modes, k \in 0..MaxCalls, NEW b, Good(b), NEW first, NEW last, NEW old,
           Supplied(b, first, last, old),
           NEW l \in Nat, l <= b.n - 1, NEW n \in Nat, NEW o, NEW f, IsEnd(f, b, l, n, o),
           NEW lo \in Nat, lo = totbytes(b) - 1 - l, lo + n <= length(b),
           \A j \in 1..n : o[j] = old[lo + j],
           b.m1 = {} \/ lo > headbytes(b)
    PROVE  Fits(b, f, lo, n, old)
<1>1. PICK h \in Nat : h = headbytes(b)
  BY BlockNumbers
<1>2. PICK z \in Nat, len \in Nat : /\ z = b.n /\ len = length(b) /\ z >= 1 /\ totbytes(b) = h + z
                                    /\ lo = (h + z) - 1 - l /\ lo + n <= len /\ l <= z - 1
  BY <1>1, BlockNumbers
<1>3. old \in [1..len -> Byte]
  BY <1>2 DEF Supplied
<1>4. \A j \in 1..n : o[j] \in Byte
  <2>1. \A j \in 1..n : lo + j \in 1..len
    BY <1>2
  <2> QED BY <1>3, <2>1
<1>5. /\ f \in Seq(Byte) /\ Len(f) = n
      /\ \A j \in 1..n : /\ j <= l => f[j] = Source(b)[b.n - l + j - 1]
                         /\ j = l + 1 => f[j] = Merge(o[j], Source(b)[b.n], b.mn)
                         /\ j > l + 1 => f[j] = o[j]
  BY <1>4, LastWord
<1>6. ASSUME NEW j \in 1..n PROVE f[j] = Mixed(b, lo + j, old[lo + j])
  <2>1. PICK x \in Nat : x = lo + j /\ x \in 1..len
    BY <1>2
  <2>2. old[x] \in Byte /\ o[j] = old[x]
    BY <1>3, <2>1
  <2>3. CASE j <= l
    <3>1. z - l + j - 1 = x - h /\ x \in h + 1 .. h + z /\ x # h + z /\ (x = h + 1 => ~(lo > h))
      BY <1>2, <2>1, <2>3
    <3>2. x = h + 1 => b.m1 = {}
      BY <1>1, <3>1
    <3>3. Mixed(b, x, old[x]) = Source(b)[x - h]
      BY <1>1, <1>2, <2>2, <3>1, <3>2, Mixing
    <3>4. f[j] = Source(b)[z - l + j - 1]
      BY <1>2, <1>5, <2>3
    <3> QED BY <2>1, <3>1, <3>3, <3>4
  <2>4. CASE j = l + 1
    <3>1. x = h + z
      BY <1>2, <2>1, <2>4
    <3>2. f[j] = Merge(old[x], Source(b)[b.n], b.mn)
      BY <1>5, <2>2, <2>4
    <3>3. CASE z > 1
      <4>1. x = headbytes(b) + b.n /\ b.n > 1
        BY <1>1, <1>2, <3>1, <3>3
      <4>2. Mixed(b, x, old[x]) = Merge(old[x], Source(b)[b.n], b.mn)
        BY <2>2, <4>1, Mixing
      <4> QED BY <2>1, <3>2, <4>2
    <3>4. CASE z = 1
      <4>1. x = h + 1 /\ ~(lo > h)
        BY <1>2, <3>1, <3>4
      <4>2. b.m1 = {}
        BY <1>1, <4>1
      <4>3. b.m1 \union b.mn = b.mn
        BY <4>2
      <4>4. Mixed(b, x, old[x]) = Merge(old[x], Source(b)[1], b.m1 \union b.mn)
        <5>1. x = headbytes(b) + 1 /\ b.n = 1
          BY <1>1, <1>2, <3>4, <4>1
        <5> QED BY <2>2, <5>1, Mixing
      <4> QED BY <1>2, <2>1, <3>2, <3>4, <4>3, <4>4
    <3> QED BY <1>2, <3>3, <3>4
  <2>5. CASE j > l + 1
    <3>1. x > h + z
      BY <1>2, <2>1, <2>5
    <3>2. Mixed(b, x, old[x]) = old[x]
      BY <1>1, <1>2, <2>2, <3>1, Mixing
    <3> QED BY <1>5, <2>1, <2>2, <2>5, <3>2
  <2> QED BY <2>3, <2>4, <2>5
<1> QED BY <1>5, <1>6 DEF Fits

\* How many bytes the last word has, and what it was.
endlen(b)             == IF lastbyte_in_firstwords(b) /\ mode.byteRes THEN last_byte(b) + 1 ELSE LastRead(b).n
endold(b, first, last) ==
    IF lastbyte_in_firstwords(b) THEN SubSeq(first, Down(totbytes(b) - 1) + 1, Len(first)) ELSE last

\* A last word of its own is the end of the words of the block.
LEMMA EndPlace ==
    ASSUME mode \in Modes, NEW b, Good(b), merge_last(b)
    PROVE  LET l  == last_byte(b)
               lo == totbytes(b) - 1 - l
           IN  /\ l \in Nat /\ l <= b.n - 1 /\ lo \in Nat /\ endlen(b) \in Nat /\ endlen(b) >= l + 1
               /\ lo + endlen(b) = length(b)
               /\ needFirst(b) => lo > headbytes(b)
               /\ ~needFirst(b) => headbytes(b) = 0
               /\ two(b) => lo >= FirstRead(b).n
               /\ lastbyte_in_firstwords(b) => lo >= W /\ lo = Down(totbytes(b) - 1)
<1>1. W \in Nat /\ W >= 1 /\ Extra \in Nat
  BY Constants
<1>2. PICK h \in Nat, n \in Nat : /\ h = headbytes(b) /\ n = b.n /\ totbytes(b) = h + n /\ n >= 1 /\ h < W
                                  /\ (mode.byteRes => h = 0)
  BY BlockNumbers
<1>3. PICK t \in Nat : t = h + n - 1 /\ totbytes(b) - 1 = t
  BY <1>2
<1>4. PICK d \in Nat, r \in 0..W-1 : t = d + r /\ d = Down(t) /\ r = t % W
  BY <1>1, DivMod
<1>5. t >= W => d >= W
  <2>1. PICK q \in Nat : d = W * q
    BY <1>4, DivMod DEF Down
  <2>2. q = 0 => d = 0
    BY <1>1, <2>1
  <2>3. t >= W => q # 0
    BY <1>1, <1>4, <2>2
  <2>4. q >= 1 => W * q >= W
    BY <1>1
  <2> QED BY <2>1, <2>3, <2>4
<1>6. ~needFirst(b) => h = 0
  BY <1>2 DEF needFirst
<1>7. CASE lastbyte_in_firstwords(b)
  <2>1. n > 1 /\ totbytes(b) > W /\ needFirst(b) /\ ~two(b)
    <3>1. both(b) /\ b.n > 1 /\ ~two(b)
      BY <1>1, <1>2, <1>7 DEF lastbyte_in_firstwords, two
    <3>2. needFirst(b) /\ totbytes(b) > W
      BY <1>7, <3>1 DEF both, merge_last
    <3> QED BY <1>2, <3>1, <3>2
  <2>2. last_byte(b) = r
    BY <1>3, <1>4, <1>7 DEF last_byte
  <2>3. t >= W
    BY <1>1, <1>2, <1>3, <2>1
  <2>4. endlen(b) \in Nat /\ endlen(b) >= r + 1 /\ d + endlen(b) = length(b)
    <3>1. CASE mode.byteRes
      <4>1. length(b) = totbytes(b) /\ endlen(b) = r + 1
        BY <1>2, <1>7, <2>2, <3>1, Even DEF endlen
      <4> QED BY <1>1, <1>2, <1>3, <1>4, <4>1
    <3>2. CASE ~mode.byteRes
      <4>1. endlen(b) = W /\ LastRead(b).off = start(b) + Down(totbytes(b) - 1) /\ LastRead(b).off + W = start(b) + length(b)
        BY <3>2, LastReads DEF endlen
      <4>2. start(b) \in Nat /\ length(b) \in Nat
        BY InsideMemory, Constants DEF Good, BlockType, Addr
      <4>3. LastRead(b).off = start(b) + d
        BY <1>3, <1>4, <4>1
      <4>4. PICK st \in Nat, len \in Nat : st = start(b) /\ len = length(b)
        BY <4>2
      <4>5. st + d + W = st + len
        BY <4>1, <4>3, <4>4
      <4>6. d + W = len /\ W >= r + 1
        BY <1>1, <4>5
      <4> QED BY <1>1, <4>1, <4>4, <4>6
    <3> QED BY <3>1, <3>2
  <2>5. d > h /\ d >= W /\ r <= n - 1
    BY <1>1, <1>2, <1>3, <1>4, <1>5, <2>3
  <2>6. totbytes(b) - 1 - last_byte(b) = d
    BY <1>1, <1>3, <1>4, <2>2
  <2>7. d = Down(totbytes(b) - 1)
    BY <1>3, <1>4
  <2> QED BY <1>2, <1>7, <2>1, <2>2, <2>4, <2>5, <2>6, <2>7
<1>8. CASE ~lastbyte_in_firstwords(b)
  <2>1. PICK l \in Nat, lo \in Nat :
           /\ l = last_byte(b) /\ lo = totbytes(b) - 1 - l
           /\ l < LastRead(b).n /\ length(b) = lo + LastRead(b).n
           /\ LastRead(b).n = IF mode.byteRes THEN 1 ELSE W
           /\ ~mode.byteRes => lo = Down(totbytes(b) - 1)
    BY <1>8, LastPlace
  <2>2. endlen(b) = LastRead(b).n
    BY <1>8 DEF endlen
  <2>3. endlen(b) \in Nat /\ endlen(b) >= l + 1 /\ lo + endlen(b) = length(b) /\ lo = t - l
    BY <1>1, <1>3, <2>1, <2>2
  <2>4. CASE two(b)
    <3>1. needFirst(b) /\ n > 1 /\ h + n > W * (1 + Extra)
      BY <1>2, <2>4 DEF two, both
    <3>2. W * (1 + Extra) >= W
      BY <1>1
    <3>3. W * (1 + Extra) \in Nat
      BY <1>1
    <3>4. t >= W
      BY <1>1, <1>2, <1>3, <3>1, <3>2, <3>3
    <3>5. FirstRead(b).n = IF mode.byteRes THEN 1 ELSE W
      BY <1>8, FirstReads
    <3>6. CASE mode.byteRes
      <4>1. l = 0 /\ h = 0
        BY <1>2, <2>1, <3>6
      <4> QED BY <1>1, <1>2, <1>3, <1>8, <2>1, <2>3, <3>1, <3>4, <3>5, <3>6, <4>1
    <3>7. CASE ~mode.byteRes
      <4>1. lo = d
        BY <1>3, <1>4, <2>1, <3>7
      <4>2. lo >= W /\ lo > h /\ l <= n - 1
        BY <1>1, <1>2, <1>3, <1>5, <2>3, <3>4, <4>1
      <4> QED BY <1>2, <1>8, <2>1, <2>3, <3>1, <3>5, <3>7, <4>2
    <3> QED BY <3>6, <3>7
  <2>5. CASE ~two(b)
    <3>1. ~needFirst(b) /\ h = 0
      BY <1>6, <1>8, <2>5 DEF merge_last
    <3> QED BY <1>2, <1>3, <1>8, <2>1, <2>3, <2>5, <3>1
  <2> QED BY <2>4, <2>5
<1> QED BY <1>7, <1>8

\* What last_word computes.
LEMMA EndWord ==
    ASSUME NEW b, NEW first, NEW last
    PROVE  IsEnd(last_word(b, first, last), b, last_byte(b), endlen(b), endold(b, first, last))
BY DEF IsEnd, last_word, endlen, endold

\* What is read back for block b is long enough.
Enough(b, first, last) ==
    /\ first \in Seq(Byte) /\ last \in Seq(Byte)
    /\ needFirst(b) => FirstRead(b).n <= Len(first)
    /\ (needLast(b) /\ ~needFirst(b)) \/ two(b) => LastRead(b).n <= Len(last)

\* A last word that is not read back with the first one is read back.
LEMMA LastIsRead ==
    ASSUME NEW b, merge_last(b), ~lastbyte_in_firstwords(b)
    PROVE  (needLast(b) /\ ~needFirst(b)) \/ two(b)
BY DEF merge_last

\* What the last word was, taken from what was read back.
LEMMA EndWas ==
    ASSUME mode \in Modes, NEW b, Good(b), merge_last(b), NEW first, NEW last, Enough(b, first, last)
    PROVE  LET lo == totbytes(b) - 1 - last_byte(b)
           IN  \A j \in 1..endlen(b) :
                   /\ endold(b, first, last)[j] \in Byte
                   /\ lastbyte_in_firstwords(b) =>
                          /\ endold(b, first, last)[j] = first[lo + j]
                          /\ lo + j \in 1..FirstRead(b).n
                   /\ ~lastbyte_in_firstwords(b) =>
                          endold(b, first, last)[j] = last[j] /\ j \in 1..LastRead(b).n
<1>1. PICK lo \in Nat, e \in Nat, len \in Nat :
          /\ lo = totbytes(b) - 1 - last_byte(b) /\ e = endlen(b) /\ len = length(b) /\ lo + e = len
          /\ lastbyte_in_firstwords(b) => lo = Down(totbytes(b) - 1)
  <2>1. length(b) \in Nat
    BY BlockNumbers
  <2> QED BY <2>1, EndPlace
<1>2. first \in Seq(Byte) /\ last \in Seq(Byte) /\ Len(first) \in Nat /\ Len(last) \in Nat
  BY LenProperties DEF Enough
<1>3. CASE lastbyte_in_firstwords(b)
  <2>1. FirstRead(b).n = len /\ len <= Len(first)
    <3>1. needFirst(b)
      BY <1>3 DEF lastbyte_in_firstwords, both
    <3> QED BY <1>1, <1>3, <3>1, FirstReads DEF Enough
  <2>2. PICK m \in Nat : m = Len(first) - lo /\ lo + m = Len(first)
    <3>1. PICK z \in Nat : z = Len(first)
      BY <1>2
    <3>2. lo <= len /\ len <= z
      BY <1>1, <2>1, <3>1
    <3>3. z - lo \in Nat /\ lo + (z - lo) = z
      BY <3>2
    <3> QED BY <3>1, <3>3
  <2>3. endold(b, first, last) = Slice(first, lo, m)
    BY <1>1, <1>3, <2>2 DEF endold, Slice
  <2>4. \A j \in 1..m : Slice(first, lo, m)[j] = first[lo + j]
    <3>1. m \in Int /\ m <= Len(first) - lo
      BY <1>2, <2>2
    <3> QED BY <1>2, <3>1, Part, Zenon
  <2>5. \A j \in 1..e : j \in 1..m /\ lo + j \in 1..len /\ lo + j \in 1..Len(first)
    <3>1. PICK z \in Nat : z = Len(first)
      BY <1>2
    <3>2. lo + e = len /\ len <= z /\ lo + m = z
      BY <1>1, <2>1, <2>2, <3>1
    <3>3. \A j \in 1..e : j \in 1..m /\ lo + j \in 1..len /\ lo + j \in 1..z
      BY <3>2
    <3> QED BY <3>1, <3>3
  <2>6. \A j \in 1..e : first[lo + j] \in Byte
    BY <1>2, <2>5, ElementOfSeq
  <2> QED BY <1>1, <1>3, <2>1, <2>3, <2>4, <2>5, <2>6
<1>4. CASE ~lastbyte_in_firstwords(b)
  <2>1. LastRead(b).n = e /\ e <= Len(last)
    BY <1>1, <1>4, LastIsRead DEF Enough, endlen
  <2>2. \A j \in 1..e : j \in 1..Len(last)
    BY <1>2, <2>1
  <2>3. \A j \in 1..e : last[j] \in Byte
    BY <1>2, <2>2, ElementOfSeq
  <2> QED BY <1>1, <1>4, <2>1, <2>3 DEF endold
<1> QED BY <1>3, <1>4

\* The last word is as long as it should be.
LEMMA EndTyped ==
    ASSUME mode \in Modes, k \in 0..MaxCalls, NEW b, Good(b), merge_last(b), NEW first, NEW last,
           Enough(b, first, last)
    PROVE  last_word(b, first, last) \in Seq(Byte) /\ Len(last_word(b, first, last)) = endlen(b)
<1>1. PICK l \in Nat, n \in Nat : l = last_byte(b) /\ l <= b.n - 1 /\ n = endlen(b)
  BY EndPlace
<1>2. PICK o, f : o = endold(b, first, last) /\ f = last_word(b, first, last)
  OBVIOUS
<1>3. \A j \in 1..n : o[j] \in Byte
  BY <1>1, <1>2, EndWas
<1>4. IsEnd(f, b, l, n, o)
  BY <1>1, <1>2, EndWord
<1>5. f \in Seq(Byte) /\ Len(f) = n
  BY <1>1, <1>3, <1>4, LastWord
<1> QED BY <1>1, <1>2, <1>5

\* The first words, and how many bytes of the source are copied to them.
LEMMA Front ==
    ASSUME mode \in Modes, NEW b, Good(b)
    PROVE  /\ firstlen(b) \in Nat /\ firstlen(b) > headbytes(b) /\ firstlen(b) <= FirstRead(b).n
           /\ firstlen(b) <= W
           /\ FirstRead(b).n <= W => firstlen(b) = FirstRead(b).n
           /\ FirstRead(b).n >= W => firstlen(b) = W
           /\ remaining(b) \in Nat /\ remaining(b) <= b.n - 1
           /\ inside(b) => b.n > 1 /\ remaining(b) = b.n - 2
           /\ ~inside(b) => headbytes(b) + 1 + remaining(b) = Least(totbytes(b), FirstRead(b).n)
<1>1. PICK h \in Nat, n \in Nat, t \in Nat, fr \in Nat, len \in Nat :
          /\ h = headbytes(b) /\ n = b.n /\ t = totbytes(b) /\ fr = FirstRead(b).n /\ len = length(b)
          /\ t = h + n /\ n >= 1 /\ h < W /\ (mode.byteRes => h = 0) /\ fr >= 1 /\ t <= len
  BY BlockNumbers
<1>2. W \in Nat /\ W >= 1
  BY Constants
<1>3. lastbyte_in_firstwords(b) => fr = len /\ n > 1
  BY <1>1, FirstReads DEF lastbyte_in_firstwords
<1>4. ~lastbyte_in_firstwords(b) => fr = IF mode.byteRes THEN 1 ELSE W
  BY <1>1, FirstReads
<1>5. ~mode.byteRes => len >= W
  <2>1. ASSUME ~mode.byteRes PROVE len >= W
    <3>1. len = NWords(t) * W /\ NWords(t) \in Nat
      BY <1>1, <2>1, Words DEF length
    <3>2. NWords(t) = 0 => len = 0
      BY <1>2, <3>1
    <3>3. NWords(t) >= 1 => NWords(t) * W >= W
      BY <1>2, <3>1
    <3> QED BY <1>1, <1>2, <3>1, <3>2, <3>3
  <2> QED BY <2>1
<1>6. firstlen(b) = Least(fr, W)
  BY <1>1 DEF firstlen
<1>7. remaining(b) = Least(t, fr) - h - 1 - (IF inside(b) THEN 1 ELSE 0)
  BY <1>1 DEF remaining
<1>8. inside(b) => lastbyte_in_firstwords(b)
  BY DEF inside
<1>9. firstlen(b) \in Nat /\ firstlen(b) > h /\ firstlen(b) <= fr /\ firstlen(b) <= W
  BY <1>1, <1>2, <1>3, <1>4, <1>5, <1>6 DEF Least
<1>10. (fr <= W => firstlen(b) = fr) /\ (fr >= W => firstlen(b) = W)
  BY <1>1, <1>2, <1>6 DEF Least
<1>11. CASE lastbyte_in_firstwords(b)
  <2>1. Least(t, fr) = t
    BY <1>1, <1>3, <1>11 DEF Least
  <2> QED BY <1>1, <1>3, <1>7, <1>9, <1>10, <1>11, <2>1
<1>12. CASE ~lastbyte_in_firstwords(b)
  <2>1. ~inside(b) /\ remaining(b) = Least(t, fr) - h - 1
    BY <1>7, <1>8, <1>12, <1>1, <1>2 DEF Least
  <2>2. Least(t, fr) \in Nat /\ Least(t, fr) >= h + 1 /\ Least(t, fr) <= h + n
    BY <1>1, <1>2, <1>4, <1>12 DEF Least
  <2> QED BY <1>1, <1>9, <1>10, <2>1, <2>2
<1> QED BY <1>11, <1>12

\* The smaller one of two numbers.
LEMMA Smaller ==
    \A x, y \in Nat : (x <= y => Least(x, y) = x) /\ (y <= x => Least(x, y) = y)
BY DEF Least

\* The lengths of the first and of the last part.
len1(b) == IF merge_first(b) THEN firstlen(b) ELSE 0
len3(b) == IF merge_last(b) THEN endlen(b) ELSE 0

\* The bytes that are sent as they are, when the first words are merged ...
LEMMA PutFirst ==
    ASSUME mode \in Modes, NEW b, Good(b), needFirst(b), ~merge_last(b)
    PROVE  /\ inside(b) => toput(b) = 0
           /\ ~inside(b) => toput(b) = totbytes(b) - Least(totbytes(b), FirstRead(b).n)
<1>1. PICK h \in Nat, n \in Nat, t \in Nat, fr \in Nat :
          h = headbytes(b) /\ n = b.n /\ t = totbytes(b) /\ fr = FirstRead(b).n /\ t = h + n
  BY BlockNumbers
<1>2. PICK r \in Nat : /\ r = remaining(b) /\ (inside(b) => r = n - 2 /\ n > 1)
                       /\ ~inside(b) => h + 1 + r = Least(t, fr)
  BY <1>1, Front
<1>3. toput(b) = n - (1 + (IF inside(b) THEN 1 ELSE 0) + (IF r > 0 THEN r ELSE 0)) - 0
  BY <1>1, <1>2 DEF toput, merge_first
<1>4. (IF r > 0 THEN r ELSE 0) = r
  BY <1>2
<1>5. CASE inside(b)
  BY <1>1, <1>2, <1>3, <1>4, <1>5
<1>6. CASE ~inside(b)
  <2>1. toput(b) = n - (1 + r)
    BY <1>1, <1>2, <1>3, <1>4, <1>6
  <2> QED BY <1>1, <1>2, <1>6, <2>1
<1> QED BY <1>5, <1>6

\* ... when the last one is as well ...
LEMMA PutBoth ==
    ASSUME mode \in Modes, NEW b, Good(b), needFirst(b), merge_last(b)
    PROVE  /\ ~inside(b)
           /\ two(b) => toput(b) = totbytes(b) - 1 - last_byte(b) - FirstRead(b).n
           /\ ~two(b) => lastbyte_in_firstwords(b) /\ toput(b) = 0 - 1 - last_byte(b)
<1>1. PICK h \in Nat, n \in Nat, t \in Nat, fr \in Nat, len \in Nat :
          /\ h = headbytes(b) /\ n = b.n /\ t = totbytes(b) /\ fr = FirstRead(b).n /\ t = h + n
          /\ len = length(b) /\ t <= len
  BY BlockNumbers
<1>2. PICK l \in Nat, lo \in Nat : /\ l = last_byte(b) /\ lo = totbytes(b) - 1 - l /\ l <= n - 1
                                   /\ two(b) => lo >= fr
  BY <1>1, EndPlace
<1>3. two(b) \/ (lastbyte_in_firstwords(b) /\ totbytes(b) > W)
  BY DEF merge_last
<1>4. ~inside(b)
  <2>1. totbytes(b) <= W => ~(totbytes(b) > W)
    BY <1>1, Constants
  <2>2. two(b) => ~lastbyte_in_firstwords(b)
    <3>1. W * (1 + Extra) \in Nat
      BY Constants
    <3> QED BY <1>1, <3>1 DEF two, lastbyte_in_firstwords
  <2> QED BY <1>3, <2>1, <2>2 DEF inside
<1>5. PICK r \in Nat : r = remaining(b) /\ h + 1 + r = Least(t, fr)
  BY <1>1, <1>4, Front
<1>6. toput(b) = n - (1 + 0 + r) - (1 + l)
  <2>1. toput(b) = n - (1 + (IF inside(b) THEN 1 ELSE 0) + (IF r > 0 THEN r ELSE 0)) - (1 + l)
    BY <1>1, <1>2, <1>5 DEF toput, merge_first
  <2>2. (IF r > 0 THEN r ELSE 0) = r
    BY <1>5
  <2> QED BY <1>4, <2>1, <2>2
<1>7. ASSUME two(b) PROVE toput(b) = lo - fr
  <2>1. lo >= fr /\ lo = t - 1 - l
    BY <1>1, <1>2, <1>7
  <2>2. fr <= t
    BY <2>1
  <2>3. h + 1 + r = fr
    BY <1>5, <2>2, Smaller
  <2>4. t = h + n
    BY <1>1
  <2> QED BY <1>6, <2>1, <2>3, <2>4
<1>8. ASSUME ~two(b) PROVE lastbyte_in_firstwords(b) /\ toput(b) = 0 - 1 - l
  <2>1. lastbyte_in_firstwords(b) /\ fr = len
    BY <1>1, <1>3, <1>8, FirstReads
  <2>2. Least(t, fr) = t
    BY <1>1, <2>1 DEF Least
  <2> QED BY <1>1, <1>2, <1>5, <1>6, <2>1, <2>2
<1> QED BY <1>1, <1>2, <1>4, <1>7, <1>8

\* ... or when they are not.
LEMMA PutLast ==
    ASSUME mode \in Modes, NEW b, Good(b), ~needFirst(b)
    PROVE  /\ headbytes(b) = 0 /\ skip(b) = 0
           /\ merge_last(b) => toput(b) = totbytes(b) - 1 - last_byte(b)
           /\ ~merge_last(b) => toput(b) = b.n
<1>1. PICK n \in Nat : n = b.n /\ totbytes(b) = headbytes(b) + n /\ headbytes(b) \in Nat
  BY BlockNumbers
<1>2. headbytes(b) = 0
  BY <1>1 DEF needFirst
<1>3. toput(b) = n - 0 - (IF merge_last(b) THEN 1 + last_byte(b) ELSE 0)
  BY <1>1 DEF toput, merge_first
<1>4. merge_last(b) => last_byte(b) \in Nat
  BY EndPlace
<1> QED BY <1>1, <1>2, <1>3, <1>4 DEF skip, merge_first

\* What is sent is not longer than the words of the block.
LEMMA Total ==
    ASSUME mode \in Modes, NEW b, Good(b)
    PROVE  /\ len1(b) \in Nat /\ len3(b) \in Nat /\ skip(b) \in Nat /\ toput(b) \in Int
           /\ toput(b) <= 0 \/ toput(b) <= b.n - skip(b)
           /\ len1(b) + len3(b) <= length(b) /\ len1(b) + toput(b) + len3(b) <= length(b)
<1>1. PICK h \in Nat, n \in Nat, t \in Nat, fr \in Nat, len \in Nat :
          /\ h = headbytes(b) /\ n = b.n /\ t = totbytes(b) /\ fr = FirstRead(b).n /\ t = h + n
          /\ len = length(b) /\ t <= len /\ fr <= len
  BY BlockNumbers
<1>2. PICK F \in Nat : F = firstlen(b) /\ F > h /\ F <= fr /\ F <= W
  BY <1>1, Front
<1>3. W \in Nat
  BY Constants
<1>4. merge_last(b) => \E l \in Nat, lo \in Nat, e \in Nat :
          /\ l = last_byte(b) /\ lo = t - 1 - l /\ e = endlen(b) /\ e >= l + 1 /\ lo + e = len
          /\ (two(b) => lo >= fr) /\ (lastbyte_in_firstwords(b) => lo >= W)
  BY <1>1, EndPlace
<1>5. CASE ~needFirst(b) /\ ~merge_last(b)
  <2>1. len1(b) = 0 /\ len3(b) = 0 /\ skip(b) = 0 /\ toput(b) = n /\ h = 0
    BY <1>1, <1>5, PutLast DEF len1, len3, merge_first
  <2> QED BY <1>1, <2>1
<1>6. CASE ~needFirst(b) /\ merge_last(b)
  <2>1. PICK l \in Nat, lo \in Nat, e \in Nat : l = last_byte(b) /\ lo = t - 1 - l /\ e = endlen(b) /\ lo + e = len
    BY <1>4, <1>6
  <2>2. len1(b) = 0 /\ len3(b) = e /\ skip(b) = 0 /\ toput(b) = lo /\ h = 0
    BY <1>1, <1>6, <2>1, PutLast DEF len1, len3, merge_first
  <2> QED BY <1>1, <2>1, <2>2
<1>7. CASE needFirst(b) /\ ~merge_last(b)
  <2>1. len1(b) = F /\ len3(b) = 0 /\ skip(b) = F - h
    BY <1>1, <1>2, <1>7 DEF len1, len3, merge_first, skip
  <2>2. CASE inside(b)
    <3>1. toput(b) = 0
      BY <1>7, <2>2, PutFirst
    <3> QED BY <1>1, <1>2, <2>1, <3>1
  <2>3. CASE ~inside(b)
    <3>1. toput(b) = t - Least(t, fr)
      BY <1>1, <1>7, <2>3, PutFirst
    <3>2. CASE t <= fr
      <4>1. toput(b) = 0
        BY <1>1, <3>1, <3>2 DEF Least
      <4> QED BY <1>1, <1>2, <2>1, <4>1
    <3>3. CASE ~(t <= fr)
      <4>1. toput(b) = t - fr
        BY <1>1, <3>1, <3>3 DEF Least
      <4> QED BY <1>1, <1>2, <2>1, <3>3, <4>1
    <3> QED BY <3>2, <3>3
  <2> QED BY <2>2, <2>3
<1>8. CASE needFirst(b) /\ merge_last(b)
  <2>1. PICK l \in Nat, lo \in Nat, e \in Nat :
          /\ l = last_byte(b) /\ lo = t - 1 - l /\ e = endlen(b) /\ lo + e = len
          /\ (two(b) => lo >= fr) /\ (lastbyte_in_firstwords(b) => lo >= W)
    BY <1>4, <1>8
  <2>2. len1(b) = F /\ len3(b) = e /\ skip(b) = F - h
    BY <1>1, <1>2, <1>8, <2>1 DEF len1, len3, merge_first, skip
  <2>3. CASE two(b)
    <3>1. toput(b) = lo - fr
      BY <1>1, <1>8, <2>1, <2>3, PutBoth
    <3>2. lo >= fr
      BY <2>1, <2>3
    <3> QED BY <1>1, <1>2, <2>1, <2>2, <3>1, <3>2
  <2>4. CASE ~two(b)
    <3>1. toput(b) = 0 - 1 - l /\ lo >= W
      BY <1>1, <1>8, <2>1, <2>4, PutBoth
    <3> QED BY <1>1, <1>2, <1>3, <2>1, <2>2, <3>1
  <2> QED BY <2>3, <2>4
<1> QED BY <1>5, <1>6, <1>7, <1>8

\* What is sent for a block fits into the memory, whatever was read back.
LEMMA PayloadTyped ==
    ASSUME mode \in Modes, k \in 0..MaxCalls, NEW b, Good(b), NEW first, NEW last, Enough(b, first, last)
    PROVE  payload(b, first, last) \in Seq(Byte) /\ Len(payload(b, first, last)) <= Size
<1>1. PICK len \in Nat, n \in Nat, m \in Nat, tp \in Int, a \in Nat, c \in Nat :
          /\ len = length(b) /\ n = b.n /\ m = skip(b) /\ tp = toput(b) /\ a = len1(b) /\ c = len3(b)
          /\ (tp <= 0 \/ tp <= n - m) /\ a + c <= len /\ a + tp + c <= len /\ len <= Size
  <2>1. length(b) \in Nat /\ b.n \in Nat
    BY BlockNumbers
  <2>2. length(b) <= Size
    BY InsideMemory, Constants DEF Good, BlockType
  <2> QED BY <2>1, <2>2, Total
<1>2. Part1(b, first) \in Seq(Byte) /\ Len(Part1(b, first)) = a
  <2>1. CASE merge_first(b)
    <3>1. first \in Seq(Byte) /\ FirstRead(b).n <= Len(first) /\ Len(first) \in Nat
      BY <2>1, LenProperties DEF Enough, merge_first
    <3>2. PICK f : f = first_words(b, first)
      OBVIOUS
    <3>3. f \in Seq(Byte) /\ Len(f) = Len(first)
      BY <3>1, <3>2, Front, FirstWords
    <3>4. a = firstlen(b) /\ a <= FirstRead(b).n /\ FirstRead(b).n \in Nat
      BY <1>1, <2>1, Front, BlockNumbers DEF len1
    <3>5. Part1(b, first) = Slice(f, 0, a)
      BY <2>1, <3>2, <3>4 DEF Part1, Slice
    <3>6. a \in Int /\ a >= 0 /\ a <= Len(f) - 0
      BY <3>1, <3>3, <3>4
    <3>7. Slice(f, 0, a) \in Seq(Byte) /\ Len(Slice(f, 0, a)) = a
      BY <3>3, <3>6, Part
    <3> QED BY <3>5, <3>7
  <2>2. CASE ~merge_first(b)
    BY <1>1, <2>2, EmptySeq DEF Part1, len1
  <2> QED BY <2>1, <2>2
<1>3. Part3(b, first, last) \in Seq(Byte) /\ Len(Part3(b, first, last)) = c
  <2>1. CASE merge_last(b)
    BY <1>1, <2>1, EndTyped DEF Part3, len3
  <2>2. CASE ~merge_last(b)
    BY <1>1, <2>2, EmptySeq DEF Part3, len3
  <2> QED BY <2>1, <2>2
<1>4. /\ Part2(b) \in Seq(Byte)
      /\ Len(Part2(b)) = IF tp >= 0 THEN tp ELSE 0
  <2>1. Part2(b) = Slice(Source(b), m, tp)
    BY <1>1 DEF Part2, Slice
  <2>2. Source(b) \in Seq(Byte) /\ Len(Source(b)) = n
    BY <1>1, Sources
  <2>3. /\ Slice(Source(b), m, tp) \in Seq(Byte)
        /\ tp >= 0 => Len(Slice(Source(b), m, tp)) = tp
        /\ tp <= 0 => Len(Slice(Source(b), m, tp)) = 0
    <3>1. PICK s \in Seq(Byte) : s = Source(b) /\ Len(s) = n
      BY <2>2
    <3>2. tp <= 0 \/ tp <= Len(s) - m
      BY <1>1, <3>1
    <3>3. /\ Slice(s, m, tp) \in Seq(Byte)
          /\ tp >= 0 => Len(Slice(s, m, tp)) = tp
          /\ tp <= 0 => Len(Slice(s, m, tp)) = 0
      BY <3>2, Part
    <3> QED BY <3>1, <3>3
  <2> QED BY <2>1, <2>3
<1>5. PICK p : p = Part1(b, first) \o Part2(b) \o Part3(b, first, last)
  OBVIOUS
<1>6. p \in Seq(Byte) /\ Len(p) = Len(Part1(b, first)) + Len(Part2(b)) + Len(Part3(b, first, last))
  <2>1. PICK s1 \in Seq(Byte), s2 \in Seq(Byte), s3 \in Seq(Byte) :
            s1 = Part1(b, first) /\ s2 = Part2(b) /\ s3 = Part3(b, first, last)
    BY <1>2, <1>3, <1>4
  <2>2. p = s1 \o s2 \o s3
    BY <1>5, <2>1
  <2>3. p \in Seq(Byte) /\ Len(p) = Len(s1) + Len(s2) + Len(s3)
    BY <2>2, ThreeParts
  <2> QED BY <2>1, <2>3
<1>7. Len(p) <= Size
  <2>1. PICK x \in Nat : x = IF tp >= 0 THEN tp ELSE 0
    OBVIOUS
  <2>2. Len(p) = a + x + c
    BY <1>2, <1>3, <1>4, <1>6, <2>1
  <2>3. a + x + c <= len
    BY <1>1, <2>1
  <2> QED BY <1>1, <2>2, <2>3, Constants
<1> QED BY <1>5, <1>6, <1>7, Parts

\* What is supplied is long enough.
LEMMA SuppliedEnough ==
    ASSUME mode \in Modes, NEW b, Good(b), NEW first, NEW last, NEW old, Supplied(b, first, last, old)
    PROVE  Enough(b, first, last)
BY DEF Supplied, Enough

\* The last word fits, if it is one of its own.
LEMMA EndComposed ==
    ASSUME mode \in Modes, k \in 0..MaxCalls, NEW b, Good(b), NEW first, NEW last, NEW old,
           Supplied(b, first, last, old), merge_last(b)
    PROVE  Fits(b, Part3(b, first, last), totbytes(b) - 1 - last_byte(b), endlen(b), old)
<1>1. PICK l \in Nat, lo \in Nat, e \in Nat :
          /\ l = last_byte(b) /\ lo = totbytes(b) - 1 - l /\ e = endlen(b) /\ lo + e = length(b)
          /\ l <= b.n - 1 /\ (needFirst(b) => lo > headbytes(b))
  BY EndPlace
<1>2. Enough(b, first, last)
  BY SuppliedEnough
<1>3. PICK o : o = endold(b, first, last)
  OBVIOUS
<1>4. \A j \in 1..e : o[j] = old[lo + j]
  <2>1. CASE lastbyte_in_firstwords(b)
    <3>1. needFirst(b)
      BY <2>1 DEF lastbyte_in_firstwords, both
    <3>2. \A j \in 1..e : o[j] = first[lo + j] /\ lo + j \in 1..FirstRead(b).n
      BY <1>1, <1>2, <1>3, <2>1, EndWas
    <3> QED BY <3>1, <3>2 DEF Supplied
  <2>2. CASE ~lastbyte_in_firstwords(b)
    <3>1. \A j \in 1..e : o[j] = last[j] /\ j \in 1..LastRead(b).n
      BY <1>1, <1>2, <1>3, <2>2, EndWas
    <3>2. LastRead(b).off - start(b) = lo
      BY <1>1, <2>2, LastPlace
    <3>3. \A j \in 1..LastRead(b).n : last[j] = old[LastRead(b).off - start(b) + j]
      BY <2>2, LastIsRead DEF Supplied
    <3>4. \A j \in 1..LastRead(b).n : last[j] = old[lo + j]
      BY <3>2, <3>3
    <3> QED BY <3>1, <3>4
  <2> QED BY <2>1, <2>2
<1>5. b.m1 = {} \/ lo > headbytes(b)
  BY <1>1 DEF needFirst
<1>6. PICK f : f = last_word(b, first, last)
  OBVIOUS
<1>7. IsEnd(f, b, l, e, o)
  BY <1>1, <1>3, <1>6, EndWord
<1>8. lo + e <= length(b)
  BY <1>1
<1>9. Fits(b, f, lo, e, old)
  BY <1>1, <1>4, <1>5, <1>7, <1>8, EndFits
<1>10. Part3(b, first, last) = f
  BY <1>6 DEF Part3
<1> QED BY <1>1, <1>9, <1>10

\* Nothing is sent between the first words and the last one.
LEMMA NothingBetween ==
    ASSUME mode \in Modes, k \in 0..MaxCalls, NEW b, Good(b), toput(b) <= 0, NEW a, NEW old
    PROVE  Fits(b, Part2(b), a, 0, old)
<1>1. PICK m \in Nat, n \in Int : m = skip(b) /\ n = toput(b) /\ n <= 0
  BY Total
<1>2. Source(b) \in Seq(Byte)
  BY Sources
<1>3. Slice(Source(b), m, n) = <<>>
  BY <1>1, <1>2, Part
<1>4. Part2(b) = <<>>
  BY <1>1, <1>3 DEF Part2, Slice
<1> QED BY <1>4, NothingFits

\* One word is as long as what it holds needs.
LEMMA OneWord ==
    ASSUME mode \in Modes, NEW b, Good(b), ~mode.byteRes, totbytes(b) <= W
    PROVE  length(b) = W
<1>1. W \in Nat /\ W >= 1
  BY Constants
<1>2. PICK t \in Nat : t = totbytes(b) /\ t >= 1 /\ t <= W
  BY <1>1, BlockNumbers
<1>3. PICK z \in Nat : z = NWords(t) /\ z >= 1 /\ z * W <= t + W - 1 /\ length(b) = z * W
  BY <1>2, Words DEF length
<1>4. z >= 2 => z * W >= 2 * W
  BY <1>1
<1>5. z = 1
  <2>1. z * W < 2 * W
    BY <1>1, <1>2, <1>3
  <2>2. ~(z >= 2)
    BY <1>1, <1>3, <1>4, <2>1
  <2> QED BY <1>3, <2>2
<1> QED BY <1>1, <1>3, <1>5

\* The first words are merged, but no last one.
LEMMA FirstComposed ==
    ASSUME mode \in Modes, k \in 0..MaxCalls, NEW b, Good(b), NEW first, NEW last, NEW old,
           Supplied(b, first, last, old), needFirst(b), ~merge_last(b)
    PROVE  /\ Fits(b, Part1(b, first), 0, firstlen(b), old)
           /\ \E c \in Nat : Fits(b, Part2(b), firstlen(b), c, old) /\ firstlen(b) + c = length(b)
<1>1. PICK h \in Nat, n \in Nat, t \in Nat, fr \in Nat, len \in Nat :
          /\ h = headbytes(b) /\ n = b.n /\ t = totbytes(b) /\ fr = FirstRead(b).n /\ t = h + n
          /\ len = length(b) /\ t <= len /\ fr <= len /\ n >= 1 /\ h < W
          /\ (mode.byteRes => h = 0)
  BY BlockNumbers
<1>2. W \in Nat /\ W >= 1 /\ W * (1 + Extra) \in Nat
  BY Constants
<1>3. PICK F \in Nat, r \in Nat :
          /\ F = firstlen(b) /\ F > h /\ F <= fr /\ F <= W /\ (fr <= W => F = fr)
          /\ r = remaining(b) /\ r <= n - 1 /\ (inside(b) => n > 1 /\ r = n - 2)
          /\ ~inside(b) => h + 1 + r = Least(t, fr)
  BY <1>1, Front
<1>4. CASE inside(b)
  <2>1. fr = len /\ t <= W
    BY <1>1, <1>4, FirstReads DEF inside
  <2>2. len <= W
    <3>1. CASE mode.byteRes
      BY <1>1, <2>1, <3>1, Even
    <3>2. CASE ~mode.byteRes
      BY <1>1, <1>2, <2>1, <3>2, OneWord
    <3> QED BY <3>1, <3>2
  <2>3. F = len
    BY <1>3, <2>1, <2>2
  <2>4. toput(b) = 0
    BY <1>4, PutFirst
  <2>5. Fits(b, Part2(b), F, 0, old)
    BY <2>4, NothingBetween
  <2>6. Fits(b, Part1(b, first), 0, F, old)
    <3>1. b.n > 1 /\ r = b.n - 2 /\ b.n # 1
      BY <1>1, <1>3, <1>4
    <3>2. F <= FirstRead(b).n /\ F = firstlen(b) /\ r = remaining(b) /\ r \in Int
      BY <1>1, <1>3
    <3> QED BY <1>4, <3>1, <3>2, FirstFits
  <2>7. F + 0 = len
    BY <2>3
  <2> QED BY <1>1, <1>3, <2>5, <2>6, <2>7
<1>5. CASE ~inside(b) /\ n = 1
  <2>1. ~lastbyte_in_firstwords(b)
    BY <1>1, <1>5 DEF lastbyte_in_firstwords
  <2>2. fr = IF mode.byteRes THEN 1 ELSE W
    BY <1>1, <2>1, FirstReads
  <2>3. t <= fr /\ fr <= W /\ F = fr
    BY <1>1, <1>2, <1>3, <1>5, <2>2
  <2>4. Least(t, fr) = t
    BY <2>3, Smaller
  <2>5. r = 0
    BY <1>1, <1>3, <1>5, <2>4
  <2>6. toput(b) = 0
    <3>1. toput(b) = totbytes(b) - Least(totbytes(b), FirstRead(b).n)
      BY <1>5, PutFirst
    <3>2. toput(b) = t - Least(t, fr)
      BY <1>1, <3>1
    <3> QED BY <2>4, <3>2
  <2>7. len = F
    <3>1. CASE mode.byteRes
      <4>1. len = t
        BY <1>1, <3>1, Even
      <4> QED BY <1>1, <1>5, <2>2, <2>3, <3>1, <4>1
    <3>2. CASE ~mode.byteRes
      <4>1. t <= W
        BY <1>1, <1>2, <1>5
      <4> QED BY <1>1, <2>2, <2>3, <3>2, <4>1, OneWord
    <3> QED BY <3>1, <3>2
  <2>8. Fits(b, Part2(b), F, 0, old)
    BY <2>6, NothingBetween
  <2>9. Fits(b, Part1(b, first), 0, F, old)
    <3>1. b.n = 1 /\ ~(b.n > 1)
      BY <1>1, <1>5
    <3>2. F <= FirstRead(b).n /\ F = firstlen(b) /\ r = remaining(b) /\ r \in Int
      BY <1>1, <1>3
    <3> QED BY <1>5, <2>5, <3>1, <3>2, FirstFits
  <2>10. F + 0 = len
    BY <2>7
  <2> QED BY <1>1, <1>3, <2>8, <2>9, <2>10
<1>6. CASE ~inside(b) /\ n > 1
  <2>1. ~needLast(b) /\ ~lastbyte_in_firstwords(b)
    <3>1. totbytes(b) > W \/ totbytes(b) <= W
      BY <1>1, <1>2
    <3>2. ~lastbyte_in_firstwords(b)
      BY <1>6, <3>1 DEF merge_last, inside
    <3>3. t <= W * (1 + Extra) \/ t > W * (1 + Extra)
      BY <1>2
    <3>4. ~both(b)
      BY <1>1, <1>6, <3>2, <3>3 DEF merge_last, two, lastbyte_in_firstwords
    <3> QED BY <3>2, <3>4 DEF both
  <2>2. b.mn = {} /\ (mode.byteRes \/ totbytes(b) % W = 0)
    BY <2>1 DEF needLast
  <2>3. len = t
    BY <1>1, <2>2, Even
  <2>4. fr = IF mode.byteRes THEN 1 ELSE W
    BY <1>1, <2>1, FirstReads
  <2>5. fr <= t /\ fr <= W /\ F = fr
    BY <1>1, <1>2, <1>3, <2>3, <2>4
  <2>6. Least(t, fr) = fr /\ h + 1 + r = fr
    BY <1>3, <1>6, <2>5, Smaller
  <2>7. PICK c \in Nat : c = t - fr /\ F + c = len
    BY <2>3, <2>5
  <2>8. toput(b) = c
    BY <1>1, <1>6, <2>6, <2>7, PutFirst
  <2>9. PICK m \in Nat : m = F - h
    BY <1>3
  <2>10. m = skip(b) /\ m # 0 /\ F = headbytes(b) + m /\ m + c <= b.n
    <3>1. skip(b) = F - h
      BY <1>1, <1>3 DEF skip, merge_first
    <3> QED BY <1>1, <1>3, <2>5, <2>7, <2>9, <3>1
  <2>11. Fits(b, Part2(b), F, c, old)
    BY <2>2, <2>8, <2>10, MiddleFits
  <2>12. Fits(b, Part1(b, first), 0, F, old)
    <3>1. b.n # 1 /\ r <= b.n - 1 /\ F <= headbytes(b) + 1 + r /\ F <= totbytes(b)
      BY <1>1, <1>3, <1>6, <2>5, <2>6
    <3>2. F <= FirstRead(b).n /\ F = firstlen(b) /\ r = remaining(b) /\ r \in Int
      BY <1>1, <1>3
    <3> QED BY <1>6, <2>2, <3>1, <3>2, FirstFits
  <2> QED BY <1>1, <1>3, <2>7, <2>11, <2>12
<1>7. n = 1 \/ n > 1
  BY <1>1
<1> QED BY <1>4, <1>5, <1>6, <1>7

\* The words in between are lost if more than two of them are read back by one request.
Lost(b) == lastbyte_in_firstwords(b) /\ totbytes(b) > 2 * W

\* Both ends are merged.
LEMMA BothComposed ==
    ASSUME mode \in Modes, k \in 0..MaxCalls, NEW b, Good(b), NEW first, NEW last, NEW old,
           Supplied(b, first, last, old), needFirst(b), merge_last(b), ~Lost(b)
    PROVE  /\ Fits(b, Part1(b, first), 0, firstlen(b), old)
           /\ \E c \in Nat : /\ Fits(b, Part2(b), firstlen(b), c, old)
                             /\ firstlen(b) + c = totbytes(b) - 1 - last_byte(b)
<1>1. PICK h \in Nat, n \in Nat, t \in Nat, fr \in Nat, len \in Nat :
          /\ h = headbytes(b) /\ n = b.n /\ t = totbytes(b) /\ fr = FirstRead(b).n /\ t = h + n
          /\ len = length(b) /\ t <= len /\ fr <= len /\ n >= 1 /\ h < W
  BY BlockNumbers
<1>2. W \in Nat /\ W >= 1 /\ W * (1 + Extra) \in Nat
  BY Constants
<1>3. PICK l \in Nat, lo \in Nat :
          /\ l = last_byte(b) /\ lo = t - 1 - l /\ lo > h /\ (two(b) => lo >= fr)
          /\ lastbyte_in_firstwords(b) => lo >= W /\ lo = Down(t - 1)
  BY <1>1, EndPlace
<1>4. ~inside(b)
  BY PutBoth
<1>5. PICK F \in Nat, r \in Nat :
          /\ F = firstlen(b) /\ F > h /\ F <= fr /\ F <= W /\ (fr <= W => F = fr) /\ (fr >= W => F = W)
          /\ r = remaining(b) /\ r <= n - 1 /\ h + 1 + r = Least(t, fr)
  BY <1>1, <1>4, Front
<1>6. n > 1
  BY <1>1, <1>3
<1>7. ASSUME F <= h + 1 + r, F < t PROVE Fits(b, Part1(b, first), 0, F, old)
  <2>1. b.n # 1 /\ r <= b.n - 1 /\ F <= headbytes(b) + 1 + r /\ F <= totbytes(b) /\ F # totbytes(b)
    BY <1>1, <1>5, <1>6, <1>7
  <2>2. F <= FirstRead(b).n /\ F = firstlen(b) /\ r = remaining(b) /\ r \in Int
    BY <1>1, <1>5
  <2> QED BY <1>4, <2>1, <2>2, FirstFits
<1>8. CASE two(b)
  <2>1. ~lastbyte_in_firstwords(b)
    BY <1>1, <1>2, <1>8 DEF two, lastbyte_in_firstwords
  <2>2. fr = IF mode.byteRes THEN 1 ELSE W
    BY <1>1, <2>1, FirstReads
  <2>3. fr <= lo /\ lo < t /\ fr <= W /\ F = fr
    BY <1>2, <1>3, <1>5, <1>8, <2>2
  <2>4. h + 1 + r = fr
    BY <1>5, <2>3, Smaller
  <2>5. PICK c \in Nat : c = lo - fr /\ F + c = lo
    BY <2>3
  <2>6. toput(b) = c
    <3>1. toput(b) = totbytes(b) - 1 - last_byte(b) - FirstRead(b).n
      BY <1>8, PutBoth
    <3>2. toput(b) = lo - fr
      BY <1>1, <1>3, <3>1
    <3> QED BY <2>5, <3>2
  <2>7. PICK m \in Nat : m = F - h
    BY <1>5
  <2>8. m = skip(b) /\ m # 0 /\ F = headbytes(b) + m /\ m + c < b.n
    <3>1. skip(b) = F - h
      BY <1>1, <1>5 DEF skip, merge_first
    <3> QED BY <1>1, <1>3, <1>5, <2>5, <2>7, <3>1
  <2>9. m + c <= b.n /\ m + c # b.n
    BY <1>1, <2>8
  <2>10. Fits(b, Part2(b), F, c, old)
    BY <2>6, <2>8, <2>9, MiddleFits
  <2>11. Fits(b, Part1(b, first), 0, F, old)
    BY <1>7, <2>3, <2>4
  <2> QED BY <1>1, <1>3, <1>5, <2>5, <2>10, <2>11
<1>9. CASE ~two(b)
  <2>1. lastbyte_in_firstwords(b) /\ toput(b) = 0 - 1 - l
    BY <1>3, <1>9, PutBoth
  <2>2. fr = len /\ lo >= W /\ lo = Down(t - 1) /\ t <= 2 * W
    BY <1>1, <1>2, <1>3, <2>1, FirstReads DEF Lost
  <2>3. lo = W
    <3>1. PICK q \in Nat : lo = W * q
      <4>1. t - 1 \in Nat
        BY <1>1
      <4> QED BY <2>2, <4>1, DivMod DEF Down
    <3>2. q = 0 => lo = 0
      BY <1>2, <3>1
    <3>3. q >= 2 => W * q >= 2 * W
      BY <1>2
    <3>4. lo < 2 * W
      BY <1>2, <1>3, <2>2
    <3>5. q = 1
      BY <1>2, <2>2, <3>1, <3>2, <3>3, <3>4
    <3> QED BY <1>2, <3>1, <3>5
  <2>4. fr >= W /\ F = W /\ t <= fr /\ W < t
    BY <1>1, <1>2, <1>3, <1>5, <2>2, <2>3
  <2>5. h + 1 + r = t
    BY <1>5, <2>4, Smaller
  <2>6. Fits(b, Part1(b, first), 0, F, old)
    BY <1>2, <1>7, <2>4, <2>5
  <2>7. toput(b) <= 0
    BY <2>1
  <2>8. Fits(b, Part2(b), F, 0, old)
    BY <2>7, NothingBetween
  <2>9. F + 0 = lo
    BY <1>2, <2>3, <2>4
  <2> QED BY <1>1, <1>3, <1>5, <2>6, <2>8, <2>9
<1> QED BY <1>8, <1>9

\* Neither of the ends is merged, or only the last one is.
LEMMA NoneComposed ==
    ASSUME mode \in Modes, k \in 0..MaxCalls, NEW b, Good(b), NEW first, NEW last, NEW old,
           Supplied(b, first, last, old), ~needFirst(b)
    PROVE  /\ Part1(b, first) = <<>>
           /\ merge_last(b) => Fits(b, Part2(b), 0, totbytes(b) - 1 - last_byte(b), old)
           /\ ~merge_last(b) => Fits(b, Part2(b), 0, length(b), old)
<1>1. PICK n \in Nat : n = b.n /\ headbytes(b) = 0 /\ totbytes(b) = n /\ skip(b) = 0
  <2>1. headbytes(b) = 0 /\ skip(b) = 0
    BY PutLast
  <2>2. b.n \in Nat /\ totbytes(b) = headbytes(b) + b.n
    BY BlockNumbers
  <2> QED BY <2>1, <2>2
<1>2. b.m1 = {}
  BY DEF needFirst
<1>3. Part1(b, first) = <<>>
  BY DEF Part1, merge_first
<1>4. ASSUME NEW c \in Nat, c = toput(b), c <= n, c = n => b.mn = {}
      PROVE  Fits(b, Part2(b), 0, c, old)
  <2>1. PICK m \in Nat : m = 0
    OBVIOUS
  <2>2. m = skip(b) /\ m = headbytes(b) + m /\ m + c <= b.n /\ (m + c = b.n => b.mn = {})
    BY <1>1, <1>4, <2>1
  <2>3. Fits(b, Part2(b), m, c, old)
    BY <1>2, <1>4, <2>2, MiddleFits
  <2> QED BY <2>1, <2>3
<1>5. ASSUME merge_last(b) PROVE Fits(b, Part2(b), 0, totbytes(b) - 1 - last_byte(b), old)
  <2>1. PICK lo \in Nat : lo = totbytes(b) - 1 - last_byte(b) /\ last_byte(b) \in Nat
    BY <1>5, EndPlace
  <2>2. lo = toput(b) /\ lo < n
    BY <1>1, <1>5, <2>1, PutLast
  <2>3. lo <= n /\ lo # n
    BY <2>2
  <2> QED BY <1>4, <2>1, <2>2, <2>3
<1>6. ASSUME ~merge_last(b) PROVE Fits(b, Part2(b), 0, length(b), old)
  <2>1. ~needLast(b)
    BY <1>6 DEF merge_last
  <2>2. b.mn = {} /\ length(b) = totbytes(b)
    BY <2>1, Even DEF needLast
  <2>3. n = toput(b)
    BY <1>1, <1>6, PutLast
  <2> QED BY <1>1, <1>4, <2>2, <2>3
<1> QED BY <1>3, <1>5, <1>6

\* A block is sent whole, in its words as they were.
LEMMA PayloadComposed ==
    ASSUME mode \in Modes, k \in 0..MaxCalls, NEW b, Good(b), NEW first, NEW last, NEW old,
           Supplied(b, first, last, old), ~Lost(b)
    PROVE  Composed(b, payload(b, first, last), old)
<1>1. PICK len \in Nat : len = length(b)
  BY BlockNumbers
<1>2. PICK lo, e : lo = totbytes(b) - 1 - last_byte(b) /\ e = endlen(b)
  OBVIOUS
<1>3. merge_last(b) => lo \in Nat /\ e \in Nat /\ lo + e = len /\ Fits(b, Part3(b, first, last), lo, e, old)
  BY <1>1, <1>2, EndPlace, EndComposed
<1>4. ~merge_last(b) => \A a : Fits(b, Part3(b, first, last), a, 0, old)
  BY NothingFits DEF Part3
<1>5. ASSUME NEW a \in Nat, NEW c \in Nat, NEW d \in Nat,
             Fits(b, Part1(b, first), 0, a, old), Fits(b, Part2(b), a, c, old),
             Fits(b, Part3(b, first, last), a + c, d, old), a + c + d = len
      PROVE  Composed(b, payload(b, first, last), old)
  BY <1>1, <1>5, Compose, Parts
<1>6. CASE needFirst(b) /\ ~merge_last(b)
  <2>1. firstlen(b) \in Nat
    BY Front
  <2>2. PICK c \in Nat : Fits(b, Part2(b), firstlen(b), c, old) /\ firstlen(b) + c = len
    BY <1>1, <1>6, FirstComposed
  <2>3. Fits(b, Part1(b, first), 0, firstlen(b), old)
    BY <1>6, FirstComposed
  <2>4. firstlen(b) + c + 0 = len
    BY <2>1, <2>2
  <2> QED BY <1>4, <1>5, <1>6, <2>1, <2>2, <2>3, <2>4
<1>7. CASE needFirst(b) /\ merge_last(b)
  <2>1. firstlen(b) \in Nat
    BY Front
  <2>2. PICK c \in Nat : Fits(b, Part2(b), firstlen(b), c, old) /\ firstlen(b) + c = lo
    BY <1>2, <1>7, BothComposed
  <2>3. Fits(b, Part1(b, first), 0, firstlen(b), old)
    BY <1>7, BothComposed
  <2>4. e \in Nat /\ firstlen(b) + c + e = len /\ Fits(b, Part3(b, first, last), firstlen(b) + c, e, old)
    BY <1>3, <1>7, <2>2
  <2> QED BY <1>5, <2>1, <2>2, <2>3, <2>4
<1>8. CASE ~needFirst(b) /\ ~merge_last(b)
  <2>1. Part1(b, first) = <<>> /\ Fits(b, Part2(b), 0, len, old)
    BY <1>1, <1>8, NoneComposed
  <2>2. Fits(b, Part1(b, first), 0, 0, old)
    BY <2>1, NothingFits
  <2>3. 0 + len + 0 = len
    OBVIOUS
  <2> QED BY <1>4, <1>5, <1>8, <2>1, <2>2, <2>3
<1>9. CASE ~needFirst(b) /\ merge_last(b)
  <2>1. Part1(b, first) = <<>> /\ Fits(b, Part2(b), 0, lo, old)
    BY <1>2, <1>9, NoneComposed
  <2>2. Fits(b, Part1(b, first), 0, 0, old)
    BY <2>1, NothingFits
  <2>3. lo \in Nat /\ e \in Nat /\ 0 + lo + e = len /\ 0 + lo = lo
    BY <1>3, <1>9
  <2>4. Fits(b, Part3(b, first, last), 0 + lo, e, old)
    BY <1>3, <1>9, <2>3
  <2> QED BY <1>5, <2>1, <2>2, <2>3, <2>4
<1> QED BY <1>6, <1>7, <1>8, <1>9

-----------------------------------------------------------------------------
(* The shape of the state.                                                  *)

\* The configuration of the address does not change, nor does what it says of blocks.
LEMMA SameMode ==
    ASSUME mode' = mode, NEW b
    PROVE  /\ headbytes(b)' = headbytes(b) /\ totbytes(b)' = totbytes(b) /\ Whole(b)' = Whole(b)
           /\ Block(b)' = Block(b) /\ needFirst(b)' = needFirst(b) /\ needLast(b)' = needLast(b)
           /\ two(b)' = two(b) /\ FirstRead(b)' = FirstRead(b) /\ LastRead(b)' = LastRead(b)
           /\ SyncRead(b)' = SyncRead(b)
<1>1. headbytes(b)' = headbytes(b)
  BY DEF headbytes
<1>2. totbytes(b)' = totbytes(b)
  BY <1>1 DEF totbytes
<1>3. Whole(b)' = Whole(b)
  BY <1>2 DEF Whole
<1>4. Block(b)' = Block(b)
  BY <1>1, <1>3 DEF Block
<1>5. needFirst(b)' = needFirst(b) /\ needLast(b)' = needLast(b)
  BY <1>1, <1>2 DEF needFirst, needLast
<1>6. both(b)' = both(b)
  BY <1>5 DEF both
<1>7. two(b)' = two(b) /\ lastbyte_in_firstwords(b)' = lastbyte_in_firstwords(b)
  BY <1>2, <1>6 DEF two, lastbyte_in_firstwords
<1>8. FirstRead(b)' = FirstRead(b) /\ LastRead(b)' = LastRead(b)
  BY <1>2, <1>7 DEF FirstRead, LastRead
<1>9. SyncRead(b)' = SyncRead(b)
  BY <1>5, <1>8 DEF SyncRead
<1> QED BY <1>1, <1>2, <1>3, <1>4, <1>5, <1>7, <1>8, <1>9

\* The same for messages.
LEMMA SameMessages ==
    ASSUME mode' = mode, NEW d, NEW t, NEW b, NEW p
    PROVE  ReadMsg(d, t, b)' = ReadMsg(d, t, b) /\ WriteMsg(t, b, p)' = WriteMsg(t, b, p)
BY SameMode DEF ReadMsg, WriteMsg

\* The block at hand, as long as the call goes on with it.
LEMMA SameBlock ==
    ASSUME mode' = mode, todo' = todo
    PROVE  Cur' = Cur
BY SameMode DEF Cur

\* Reading and writing are requests of the right shape.
LEMMA MessagesTyped ==
    ASSUME mode \in Modes, NEW t \in 0..TidMod-1, NEW d \in Door
    PROVE  /\ \A a : IsRead(a) => /\ ReadMsg(d, t, a) \in Msg
                                  /\ ReadMsg(d, t, a).off + ReadMsg(d, t, a).len <= Size
           /\ \A b, p : Good(b) /\ p \in Seq(Byte) => WriteMsg(t, b, p) \in Msg
<1>1. Size \in Nat
  BY Constants
<1>2. ASSUME NEW a, IsRead(a)
      PROVE  /\ ReadMsg(d, t, a) \in Msg
             /\ ReadMsg(d, t, a).off + ReadMsg(d, t, a).len <= Size
  <2>1. ReadMsg(d, t, a) = [door |-> d, kind |-> "rd", tid |-> t, data |-> <<>>,
                            off |-> a.off, len |-> a.n]
    BY <1>2 DEF IsRead
  <2>2. a.off \in Addr /\ a.n \in 0..Size /\ a.off + a.n <= Size
    BY <1>1, <1>2 DEF IsRead, Addr
  <2>3. <<>> \in Seq(Byte)
    BY EmptySeq
  <2>4. [door |-> d, kind |-> "rd", tid |-> t, data |-> <<>>, off |-> a.off, len |-> a.n] \in Msg
    BY <2>2, <2>3 DEF Msg
  <2> QED BY <2>1, <2>2, <2>4
<1>3. ASSUME NEW b, NEW p, Good(b), p \in Seq(Byte) PROVE WriteMsg(t, b, p) \in Msg
  <2>1. start(b) \in Addr /\ length(b) \in 1..Size /\ b.n \in Nat
    BY <1>3, InsideMemory DEF Good, BlockType
  <2>2. totbytes(b) = headbytes(b) + b.n /\ (mode.byteRes => headbytes(b) = 0)
    BY <1>3, BlockNumbers
  <2>3. length(b) = IF mode.byteRes THEN totbytes(b) ELSE NWords(totbytes(b)) * W
    BY <2>1, <2>2 DEF length
  <2>4. WriteMsg(t, b, p) = [door |-> "sync", kind |-> IF mode.posted THEN "pwr" ELSE "wr",
                             tid |-> t, data |-> p, off |-> start(b), len |-> length(b)]
    BY <2>3 DEF WriteMsg, start
  <2>5. start(b) \in Addr /\ length(b) \in 0..Size /\ "sync" \in Door
    BY <1>1, <2>1 DEF Door
  <2>6. [door |-> "sync", kind |-> IF mode.posted THEN "pwr" ELSE "wr",
                             tid |-> t, data |-> p, off |-> start(b), len |-> length(b)] \in Msg
    BY <1>3, <2>5 DEF Msg
  <2> QED BY <2>4, <2>6
<1> QED BY <1>2, <1>3

\* Transaction ids.
LEMMA TidTyped ==
    ASSUME tid \in 0..TidMod-1, NEW n \in Nat
    PROVE  Tid(n) \in 0..TidMod-1
<1>1. \A x \in Nat : x % TidMod \in 0..TidMod-1
  BY Constants
<1>2. tid + n \in Nat
  BY Constants
<1> QED BY <1>1, <1>2 DEF Tid

\* A call that goes on has a block at hand.
LEMMA BlockAtHand ==
    ASSUME Typed, pc # "idle"
    PROVE  /\ mode \in Modes /\ k \in 1..MaxCalls /\ k \in 0..MaxCalls /\ call \in Calls
           /\ Good(todo) /\ Good(Cur) /\ call.n \in Nat /\ call.n >= 1 /\ call.off + call.n <= Size
           /\ call.off \in Nat
<1>1. mode \in Modes /\ hist \in Seq(Calls) /\ Len(hist) \in Nat /\ k <= MaxCalls
  BY LenProperties DEF Typed, TypeOK, k
<1>2. /\ k >= 1 /\ todo \in BlockType /\ todo.n >= 1
      /\ todo.off = call.off + todo.s /\ todo.s + todo.n = call.n
  BY DEF Typed, Left
<1>3. k \in 1..MaxCalls /\ k \in 0..MaxCalls
  BY <1>1, <1>2, Constants DEF k
<1>4. call \in Calls
  BY <1>1, <1>2, ElementOfSeq DEF call, k
<1>5. call.off + call.n <= Size /\ call.off \in Nat /\ call.n \in Nat
  BY <1>4, CallAssumption, Constants DEF Call, Addr
<1>6. todo.off + todo.n <= Size /\ call.n >= 1
  BY <1>2, <1>5, Constants DEF BlockType
<1>7. Good(todo)
  BY <1>2, <1>6 DEF Good
<1>8. Good(Cur)
  BY <1>1, <1>7, FirstBlock DEF Cur
<1> QED BY <1>1, <1>3, <1>4, <1>5, <1>6, <1>7, <1>8

Answers == [tid : 0..TidMod-1, words : 0..Size, data : Seq(Byte)]
Readback == [part : Ends, tid : 0..TidMod-1, words : 1..Size]

\* Typed, of the queues and of what is not a queue.
QueuesOK ==
    /\ req \in Seq(Msg) /\ Len(req) <= NetDepth
    /\ \A d \in Door : rsp[d] \in Seq(Answers)
    /\ Inside

Fields ==
    /\ mode \in Modes /\ mem \in [Addr -> Byte] /\ tid \in 0..TidMod-1
    /\ hist \in Seq(Calls) /\ Len(hist) <= MaxCalls
    /\ pc \in {"idle", "block", "postLast", "wait", "send", "await"}
    /\ xact = NoXact \/ xact \in [use : {"read", "readback", "write"}, msg : Msg]
    /\ attempt \in 0..RetryCnt /\ pend \subseteq Readback
    /\ got \in [Ends -> Seq(Byte)]
    /\ failed \in BOOLEAN /\ out \in Seq(Byte) /\ ok \in BOOLEAN

\* The parts are the whole.
LEMMA TypedParts ==
    Typed <=> QueuesOK /\ Fields /\ Left /\ Requested /\ Pending /\ Lengths
BY DEF Typed, TypeOK, QueuesOK, Fields, Answers, Readback, k

\* The same of the next state.
LEMMA TypedPartsNext ==
    (QueuesOK /\ Fields /\ Left /\ Requested /\ Pending /\ Lengths)' => Typed'
BY DEF Typed, TypeOK, QueuesOK, Fields, Answers, Readback, k

\* Initially all is well.
LEMMA TypedInit == Init => Typed
<1> SUFFICES ASSUME Init PROVE Typed
  OBVIOUS
<1>1. <<>> \in Seq(Msg) /\ <<>> \in Seq(Answers) /\ <<>> \in Seq(Calls) /\ <<>> \in Seq(Byte) /\ Len(<<>>) = 0
  BY EmptySeq
<1>2. req = <<>> /\ rsp = [d \in Door |-> <<>>] /\ hist = <<>> /\ out = <<>> /\ pc = "idle" /\ pend = {}
  BY DEF Init
<1>3. DOMAIN req = {}
  BY <1>2
<1>4. \A d \in Door : rsp[d] = <<>> /\ DOMAIN rsp[d] = {}
  BY <1>2
<1>5. Inside
  BY <1>2, <1>3, <1>4 DEF Inside
<1>6. QueuesOK
  BY <1>1, <1>2, <1>4, <1>5, Constants DEF QueuesOK
<1>7. mem \in [Addr -> Byte]
  <2>1. \A a \in Addr : [j \in Bit |-> <<0, a>>] \in Byte
    BY Constants DEF Byte, Addr
  <2> QED BY <2>1 DEF Init
<1>8. got \in [Ends -> Seq(Byte)]
  BY <1>1 DEF Init, NoGot
<1>9. Fields
  <2>1. hist \in Seq(Calls) /\ Len(hist) <= MaxCalls /\ out \in Seq(Byte) /\ pend \subseteq Readback
    BY <1>1, <1>2, Constants
  <2>2. 0 \in 0..TidMod-1 /\ 0 \in 0..RetryCnt
    BY Constants
  <2>3. tid = 0 /\ attempt = 0 /\ mode \in Modes /\ xact = NoXact
    BY DEF Init
  <2>4. failed \in BOOLEAN /\ ok \in BOOLEAN
    BY DEF Init
  <2> QED BY <1>2, <1>7, <1>8, <2>1, <2>2, <2>3, <2>4 DEF Fields
<1>10. Left /\ Requested /\ Pending /\ Lengths
  BY <1>2 DEF Left, Requested, Pending, Lengths
<1> QED BY <1>6, <1>9, <1>10, TypedParts

\* A call returns, when nothing is pending.
LEMMA ReturnTyped ==
    ASSUME Typed, pend = {}, NEW s \in BOOLEAN, Return(s),
           UNCHANGED <<mode, mem, hist, pend>>, tid' \in 0..TidMod-1, out' \in Seq(Byte)
    PROVE  Fields' /\ Left' /\ Requested' /\ Pending' /\ Lengths'
<1>1. Fields
  BY TypedParts
<1>2. /\ pc' = "idle" /\ ok' = s /\ todo' = NoBlock /\ xact' = NoXact /\ attempt' = 0
      /\ got' = NoGot /\ failed' = FALSE
  BY DEF Return
<1>3. got' \in [Ends -> Seq(Byte)]
  <2>1. <<>> \in Seq(Byte)
    BY EmptySeq
  <2> QED BY <1>2, <2>1 DEF NoGot
<1>4. failed' \in BOOLEAN /\ ok' \in BOOLEAN
  BY <1>2
<1>5. 0 \in 0..RetryCnt
  BY Constants
<1>6. NoXact' = NoXact
  BY DEF NoXact
<1>7. /\ mode' \in Modes /\ mem' \in [Addr -> Byte] /\ hist' \in Seq(Calls) /\ Len(hist') <= MaxCalls
      /\ pend' \subseteq Readback
  BY <1>1 DEF Fields
<1>8. Fields'
  BY <1>2, <1>3, <1>4, <1>5, <1>6, <1>7 DEF Fields
<1>9. pend' = {}
  OBVIOUS
<1>10. Left' /\ Requested' /\ Pending' /\ Lengths'
  BY <1>2, <1>9 DEF Left, Requested, Pending, Lengths
<1> QED BY <1>8, <1>10

\* A synchronous request is made for the block.
LEMMA RequestTyped ==
    ASSUME Typed, pc # "idle", pend = {}, NEW use \in {"read", "readback", "write"}, NEW msg \in Msg,
           NEW n \in Nat, Request(use, msg, n),
           UNCHANGED <<mode, mem, hist, todo, pend, got, failed, out, ok>>,
           use = "read" => call.kind = "read" /\ msg = ReadMsg("sync", msg.tid, Cur),
           use = "readback" => /\ call.kind = "write" /\ (needFirst(Cur) \/ needLast(Cur)) /\ ~two(Cur)
                               /\ msg = ReadMsg("sync", msg.tid, SyncRead(Cur)),
           use = "write" => /\ call.kind = "write" /\ msg = WriteMsg(msg.tid, Cur, msg.data)
                            /\ Len(msg.data) <= Size
    PROVE  Fields' /\ Left' /\ Requested' /\ Pending' /\ Lengths'
<1>1. Fields /\ Left
  BY TypedParts
<1>2. xact' = [use |-> use, msg |-> msg] /\ attempt' = 0 /\ pc' = "send" /\ tid' = Tid(n)
  BY DEF Request
<1>3. tid' \in 0..TidMod-1
  BY <1>1, <1>2, TidTyped DEF Fields
<1>4. 0 \in 0..RetryCnt
  BY Constants
<1>5. xact' \in [use : {"read", "readback", "write"}, msg : Msg]
  BY <1>2
<1>6. Fields'
  BY <1>1, <1>2, <1>3, <1>4, <1>5 DEF Fields
<1>7. Cur' = Cur /\ call' = call /\ k' = k /\ headbytes(todo)' = headbytes(todo)
  BY SameBlock, SameMode DEF call, k
<1>8. Left'
  BY <1>1, <1>7 DEF Left
<1>9. Requested'
  <2>1. xact'.use = use /\ xact'.msg = msg
    BY <1>2
  <2>2. /\ needFirst(Cur)' = needFirst(Cur) /\ needLast(Cur)' = needLast(Cur) /\ two(Cur)' = two(Cur)
        /\ ReadMsg("sync", xact.msg.tid, Cur)' = ReadMsg("sync", msg.tid, Cur)
        /\ ReadMsg("sync", xact.msg.tid, SyncRead(Cur))' = ReadMsg("sync", msg.tid, SyncRead(Cur))
        /\ WriteMsg(xact.msg.tid, Cur, xact.msg.data)' = WriteMsg(msg.tid, Cur, msg.data)
    BY <1>7, <2>1, SameMode, SameMessages
  <2>3. pc' # "await"
    BY <1>2
  <2> QED BY <1>5, <1>7, <2>1, <2>2, <2>3 DEF Requested
<1>10. Pending' /\ Lengths'
  BY <1>2 DEF Pending, Lengths
<1> QED BY <1>6, <1>8, <1>9, <1>10

\* A block is done, and the call returns or goes on with the next one.
LEMMA NextBlockTyped ==
    ASSUME Typed, pc # "idle", pend = {}, NextBlock,
           UNCHANGED <<mode, mem, tid, hist, pend>>, out' \in Seq(Byte)
    PROVE  Fields' /\ Left' /\ Requested' /\ Pending' /\ Lengths'
<1>1. Fields /\ Left
  BY TypedParts
<1>2. CASE Whole(todo)
  <2>1. Return(TRUE) /\ TRUE \in BOOLEAN /\ tid' \in 0..TidMod-1
    BY <1>1, <1>2 DEF NextBlock, Fields
  <2> QED BY <2>1, ReturnTyped
<1>3. CASE ~Whole(todo)
  <2>1. /\ todo' = Rest(todo) /\ pc' = "block" /\ xact' = NoXact /\ attempt' = 0 /\ got' = NoGot
        /\ failed' = FALSE /\ ok' = ok
    BY <1>3 DEF NextBlock
  <2>2. got' \in [Ends -> Seq(Byte)]
    <3>1. <<>> \in Seq(Byte)
      BY EmptySeq
    <3> QED BY <2>1, <3>1 DEF NoGot
  <2>3. failed' \in BOOLEAN /\ ok' \in BOOLEAN
    <3>1. ok \in BOOLEAN
      BY <1>1 DEF Fields
    <3> QED BY <2>1, <3>1
  <2>4. 0 \in 0..RetryCnt /\ NoXact' = NoXact
    BY Constants DEF NoXact
  <2>5. /\ mode' \in Modes /\ mem' \in [Addr -> Byte] /\ hist' \in Seq(Calls) /\ Len(hist') <= MaxCalls
        /\ pend' \subseteq Readback /\ tid' \in 0..TidMod-1
    BY <1>1 DEF Fields
  <2>6. Fields'
    BY <2>1, <2>2, <2>3, <2>4, <2>5 DEF Fields
  <2>7. /\ Good(todo) /\ mode \in Modes /\ call.off \in Nat /\ call.n \in Nat
    BY BlockAtHand
  <2>8. PICK n : n = Block(todo).n
    OBVIOUS
  <2>9. PICK t : t = Rest(todo)
    OBVIOUS
  <2>10. /\ Good(t) /\ t.off = todo.off + n /\ t.n = todo.n - n /\ t.s = todo.s + n
         /\ t.m1 = {} /\ t.mn = todo.mn /\ t.s > 0 /\ headbytes(t) = 0
    BY <1>3, <2>7, <2>8, <2>9, RestBlock
  <2>11. headbytes(todo)' = 0
    BY <2>1, <2>9, <2>10, SameMode
  <2>12. n \in Nat
    BY <2>7, <2>8, FirstBlock DEF Good, BlockType
  <2>13. call' = call /\ k' = k
    BY DEF call, k
  <2>14. /\ k >= 1 /\ todo.off = call.off + todo.s /\ todo.s + todo.n = call.n /\ todo.mn = call.mn
    BY <1>1 DEF Left
  <2>15. todo.off \in Nat /\ todo.s \in Nat /\ todo.n \in Nat
    BY <2>7 DEF Good, BlockType
  <2>16. t.off = call.off + t.s /\ t.s + t.n = call.n /\ t.s # 0
    BY <2>7, <2>10, <2>12, <2>14, <2>15
  <2>17. Left'
    BY <2>1, <2>9, <2>10, <2>11, <2>13, <2>14, <2>16 DEF Left, Good
  <2>18. Requested' /\ Pending' /\ Lengths'
    BY <2>1 DEF Requested, Pending, Lengths
  <2> QED BY <2>6, <2>17, <2>18
<1> QED BY <1>2, <1>3

\* A call begins.
LEMMA BeginTyped ==
    ASSUME Typed, NEW c \in Calls, Begin(c)
    PROVE  Fields' /\ Left' /\ Requested' /\ Pending' /\ Lengths'
<1>1. Fields /\ Pending /\ pc = "idle"
  BY TypedParts DEF Begin
<1>2. pend = {}
  BY <1>1 DEF Pending
<1>3. /\ Len(hist) < MaxCalls /\ hist' = Append(hist, c) /\ out' = <<>>
      /\ pc' = (IF c.n = 0 THEN "idle" ELSE "block") /\ ok' = (c.n = 0)
      /\ todo' = (IF c.n = 0 THEN NoBlock
                  ELSE [off |-> c.off, n |-> c.n, s |-> 0, m1 |-> c.m1, mn |-> c.mn])
      /\ UNCHANGED <<mode, mem, tid, xact, attempt, pend, got, failed>>
  BY DEF Begin, k
<1>4. /\ hist' \in Seq(Calls) /\ Len(hist') = Len(hist) + 1 /\ hist'[Len(hist')] = c
      /\ Len(hist') <= MaxCalls /\ Len(hist) \in Nat
  <2>1. hist \in Seq(Calls) /\ Len(hist) \in Nat
    BY <1>1, LenProperties DEF Fields
  <2>2. hist' \in Seq(Calls) /\ Len(hist') = Len(hist) + 1 /\ hist'[Len(hist) + 1] = c
    BY <1>3, <2>1, AppendProperties
  <2> QED BY <1>3, <2>1, <2>2, Constants
<1>5. out' \in Seq(Byte)
  BY <1>3, EmptySeq
<1>6. ok' \in BOOLEAN
  BY <1>3
<1>7. /\ mode' \in Modes /\ mem' \in [Addr -> Byte] /\ tid' \in 0..TidMod-1
      /\ xact' = NoXact \/ xact' \in [use : {"read", "readback", "write"}, msg : Msg]
      /\ attempt' \in 0..RetryCnt /\ pend' \subseteq Readback /\ got' \in [Ends -> Seq(Byte)]
  BY <1>1, <1>3 DEF Fields
<1>8. failed' \in BOOLEAN
  BY <1>1, <1>3 DEF Fields
<1>9. Fields'
  BY <1>3, <1>4, <1>5, <1>6, <1>7, <1>8 DEF Fields, NoXact
<1>10. call' = c /\ k' = Len(hist) + 1
  BY <1>4 DEF call, k
<1>11. c.off \in Nat /\ c.n \in Nat /\ c.m1 \in SUBSET Bit /\ c.mn \in SUBSET Bit
  <2>1. c \in Call
    BY CallAssumption
  <2> QED BY <2>1, Constants DEF Call, Addr
<1>12. Left'
  <2>1. CASE c.n = 0
    BY <1>3, <2>1 DEF Left
  <2>2. CASE c.n # 0
    <3>1. PICK t : t = [off |-> c.off, n |-> c.n, s |-> 0, m1 |-> c.m1, mn |-> c.mn]
      OBVIOUS
    <3>2. t \in BlockType /\ t.n >= 1 /\ t.off = c.off + t.s /\ t.s + t.n = c.n /\ t.s = 0
          /\ t.m1 = c.m1 /\ t.mn = c.mn
      BY <1>11, <2>2, <3>1 DEF BlockType
    <3>3. todo' = t
      BY <1>3, <2>2, <3>1
    <3>4. k' >= 1
      BY <1>4, <1>10
    <3>5. ~(t.s > 0)
      BY <3>2
    <3> QED BY <1>10, <3>2, <3>3, <3>4, <3>5 DEF Left
  <2> QED BY <2>1, <2>2
<1>13. Requested' /\ Pending' /\ Lengths'
  BY <1>2, <1>3 DEF Requested, Pending, Lengths
<1> QED BY <1>9, <1>12, <1>13

\* Nothing is pending but between the two readbacks and the write.
LEMMA NothingPending ==
    ASSUME Typed, pc \notin {"postLast", "wait"} PROVE pend = {}
BY TypedParts DEF Pending

\* A block of a read is asked for.
LEMMA ReadBlockTyped ==
    ASSUME Typed, ReadBlock PROVE Fields' /\ Left' /\ Requested' /\ Pending' /\ Lengths'
<1>1. /\ pc = "block" /\ call.kind = "read"
      /\ Request("read", ReadMsg("sync", Tid(1), Cur), 1)
      /\ UNCHANGED <<mode, mem, hist, todo, pend, got, failed, out, ok>>
  BY DEF ReadBlock, Cur
<1>2. pend = {}
  BY <1>1, NothingPending
<1>3. mode \in Modes /\ Good(Cur)
  BY <1>1, BlockAtHand
<1>4. Tid(1) \in 0..TidMod-1
  BY TidTyped DEF Typed, TypeOK
<1>5. PICK t \in 0..TidMod-1 : t = Tid(1)
  BY <1>4
<1>6. PICK m : m = ReadMsg("sync", t, Cur)
  OBVIOUS
<1>7. m \in Msg /\ m = ReadMsg("sync", m.tid, Cur)
  <2>1. m.tid = t
    BY <1>6 DEF ReadMsg
  <2>2. Size \in Nat
    BY Constants
  <2>3. start(Cur) \in Addr /\ length(Cur) \in 0..Size
    BY <1>3, <2>2, InsideMemory DEF Good, BlockType
  <2>4. totbytes(Cur) = headbytes(Cur) + Cur.n /\ (mode.byteRes => headbytes(Cur) = 0) /\ Cur.n \in Nat
    BY <1>3, BlockNumbers
  <2>5. m = [door |-> "sync", kind |-> "rd", tid |-> t, data |-> <<>>,
             off |-> start(Cur), len |-> length(Cur)]
    BY <1>6, <2>4 DEF ReadMsg, start, length
  <2>6. <<>> \in Seq(Byte) /\ "sync" \in Door
    BY EmptySeq DEF Door
  <2>7. m \in Msg
    BY <2>3, <2>5, <2>6 DEF Msg
  <2> QED BY <1>6, <2>1, <2>7
<1>8. Request("read", m, 1)
  BY <1>1, <1>5, <1>6
<1> QED BY <1>1, <1>2, <1>7, <1>8, RequestTyped

\* A write is asked for, given words that are long enough.
LEMMA RequestWriteTyped ==
    ASSUME Typed, pc # "idle", pend = {}, call.kind = "write", NEW first, NEW last,
           Enough(Cur, first, last), RequestWrite(first, last),
           UNCHANGED <<mode, mem, hist, todo, pend, got, failed, out, ok>>
    PROVE  Fields' /\ Left' /\ Requested' /\ Pending' /\ Lengths'
<1>1. mode \in Modes /\ Good(Cur) /\ k \in 0..MaxCalls
  BY BlockAtHand
<1>2. Tid(1) \in 0..TidMod-1
  BY TidTyped DEF Typed, TypeOK
<1>3. PICK t \in 0..TidMod-1 : t = Tid(1)
  BY <1>2
<1>10. PICK p : p = payload(Cur, first, last)
  OBVIOUS
<1>4. p \in Seq(Byte) /\ Len(p) <= Size
  BY <1>1, <1>10, PayloadTyped
<1>5. PICK m : m = WriteMsg(t, Cur, p)
  OBVIOUS
<1>6. m.tid = t /\ m.data = p
  BY <1>5 DEF WriteMsg
<1>7. m \in Msg
  <2>1. "sync" \in Door
    BY DEF Door
  <2> QED BY <1>1, <1>4, <1>5, <2>1, MessagesTyped
<1>8. Request("write", m, 2)
  BY <1>3, <1>5, <1>10 DEF RequestWrite, Cur
<1>9. m = WriteMsg(m.tid, Cur, m.data) /\ Len(m.data) <= Size
  BY <1>4, <1>5, <1>6
<1> QED BY <1>7, <1>8, <1>9, RequestTyped

\* A block of a write begins.
LEMMA WriteBlockTyped ==
    ASSUME Typed, WriteBlock PROVE Fields' /\ Left' /\ Requested' /\ Pending' /\ Lengths'
<1>1. /\ pc = "block" /\ call.kind = "write" /\ UNCHANGED <<mode, mem, hist, pend, out>>
  BY DEF WriteBlock
<1>2. pend = {} /\ mode \in Modes /\ Good(Cur) /\ Fields
  BY <1>1, NothingPending, BlockAtHand, TypedParts
<1>3. CASE Return(FALSE) /\ UNCHANGED tid
  <2>1. tid' \in 0..TidMod-1 /\ out' \in Seq(Byte) /\ FALSE \in BOOLEAN
    BY <1>1, <1>2, <1>3 DEF Fields
  <2> QED BY <1>1, <1>2, <1>3, <2>1, ReturnTyped
<1>4. CASE /\ needFirst(Cur) \/ needLast(Cur)
           /\ ~two(Cur) /\ Request("readback", ReadMsg("sync", Tid(1), SyncRead(Cur)), 1)
           /\ UNCHANGED <<todo, got, failed, ok>>
  <2>1. PICK t \in 0..TidMod-1 : t = Tid(1)
    BY <1>2, TidTyped DEF Fields
  <2>2. IsRead(SyncRead(Cur))
    BY <1>2, FirstReads, LastReads DEF SyncRead
  <2>3. PICK m : m = ReadMsg("sync", t, SyncRead(Cur))
    OBVIOUS
  <2>4. m \in Msg /\ m.tid = t
    <3>1. "sync" \in Door
      BY DEF Door
    <3>2. m \in Msg
      BY <1>2, <2>2, <2>3, <3>1, MessagesTyped
    <3>3. m.tid = t
      BY <2>3 DEF ReadMsg
    <3> QED BY <3>2, <3>3
  <2>5. Request("readback", m, 1)
    BY <1>4, <2>1, <2>3
  <2> QED BY <1>1, <1>2, <1>4, <2>3, <2>4, <2>5, RequestTyped
<1>5. CASE /\ ~(needFirst(Cur) \/ needLast(Cur)) /\ RequestWrite(<<>>, <<>>)
           /\ UNCHANGED <<todo, got, failed, ok>>
  <2>1. Enough(Cur, <<>>, <<>>)
    <3>1. ~needFirst(Cur) /\ ~needLast(Cur) /\ ~two(Cur)
      BY <1>5 DEF two, both
    <3> QED BY <3>1, EmptySeq DEF Enough
  <2> QED BY <1>1, <1>2, <1>5, <2>1, RequestWriteTyped
<1> QED BY <1>3, <1>4, <1>5 DEF WriteBlock, Cur, SyncRead

\* The write goes on after both readbacks.
LEMMA WaitTyped ==
    ASSUME Typed, Wait PROVE Fields' /\ Left' /\ Requested' /\ Pending' /\ Lengths'
<1>1. pc = "wait" /\ pend = {} /\ UNCHANGED <<mode, mem, hist, pend, out>>
  BY DEF Wait, Settled
<1>2. mode \in Modes /\ Good(Cur) /\ Fields /\ Pending /\ Lengths
  BY <1>1, BlockAtHand, TypedParts
<1>3. CASE failed
  <2>1. Return(FALSE) /\ UNCHANGED tid
    BY <1>3 DEF Wait
  <2>2. tid' \in 0..TidMod-1 /\ out' \in Seq(Byte) /\ FALSE \in BOOLEAN
    BY <1>1, <1>2, <2>1 DEF Fields
  <2> QED BY <1>1, <2>1, <2>2, ReturnTyped
<1>4. CASE ~failed
  <2>1. RequestWrite(got["first"], got["last"]) /\ UNCHANGED <<todo, got, failed, ok>>
    BY <1>4 DEF Wait
  <2>2. call.kind = "write" /\ two(Cur)
    BY <1>1, <1>2 DEF Pending
  <2>3. Back("first") /\ Back("last")
    BY <1>1, <1>4 DEF Back
  <2>4. Len(got["first"]) = NWords(FirstRead(Cur).n) * W /\ Len(got["last"]) = NWords(LastRead(Cur).n) * W
    BY <1>1, <1>2, <2>3 DEF Lengths
  <2>5. got["first"] \in Seq(Byte) /\ got["last"] \in Seq(Byte)
    BY <1>2 DEF Fields, Ends
  <2>6. FirstRead(Cur).n \in Nat /\ LastRead(Cur).n \in Nat
    BY <1>2, FirstReads, LastReads DEF IsRead
  <2>7. FirstRead(Cur).n <= Len(got["first"]) /\ LastRead(Cur).n <= Len(got["last"])
    BY <2>4, <2>6, Words
  <2>8. Enough(Cur, got["first"], got["last"])
    BY <2>5, <2>7 DEF Enough
  <2> QED BY <1>1, <2>1, <2>2, <2>8, RequestWriteTyped
<1> QED BY <1>3, <1>4

\* The readbacks stay the same, as long as the block does.
LEMMA SameReadback ==
    ASSUME mode' = mode, todo' = todo, NEW p PROVE AsyncRead(p)' = AsyncRead(p)
BY SameBlock, SameMode DEF AsyncRead

\* Nothing of the request at hand changes.
LEMMA SameRequest ==
    ASSUME Requested, UNCHANGED <<mode, hist, pc, todo, xact>> PROVE Requested'
<1>1. Cur' = Cur /\ call' = call
  BY SameBlock DEF call, k
<1>2. /\ needFirst(Cur)' = needFirst(Cur) /\ needLast(Cur)' = needLast(Cur) /\ two(Cur)' = two(Cur)
      /\ ReadMsg("sync", xact.msg.tid, Cur)' = ReadMsg("sync", xact.msg.tid, Cur)
      /\ ReadMsg("sync", xact.msg.tid, SyncRead(Cur))' = ReadMsg("sync", xact.msg.tid, SyncRead(Cur))
      /\ WriteMsg(xact.msg.tid, Cur, xact.msg.data)' = WriteMsg(xact.msg.tid, Cur, xact.msg.data)
  BY <1>1, SameMode, SameMessages
<1> QED BY <1>1, <1>2 DEF Requested

\* Nothing of what is left of the call changes.
LEMMA SameLeft ==
    ASSUME Left, UNCHANGED <<mode, hist, todo>>, pc # "idle" PROVE Left'
<1>1. headbytes(todo)' = headbytes(todo) /\ call' = call /\ k' = k
  BY SameMode DEF call, k
<1> QED BY <1>1 DEF Left

\* A readback is posted.
LEMMA PostTyped ==
    ASSUME Typed, NEW part \in Ends, NEW a, NEW next, Post(part, a, next), IsRead(a),
           call.kind = "write", two(Cur),
           \/ pc = "block" /\ part = "first" /\ a = FirstRead(Cur) /\ next = "postLast"
           \/ pc = "postLast" /\ part = "last" /\ a = LastRead(Cur) /\ next = "wait"
    PROVE  Fields' /\ Left' /\ Requested' /\ Pending' /\ Lengths'
<1>1. Fields /\ Left /\ Pending /\ Lengths
  BY TypedParts
<1>2. PICK p : p = [part |-> part, tid |-> Tid(1), words |-> NWords(a.n)]
  OBVIOUS
<1>3. /\ pend' = pend \union {p} /\ tid' = Tid(1) /\ pc' = next
      /\ UNCHANGED <<mode, mem, hist, todo, xact, attempt, got, failed, out, ok>>
  BY <1>2 DEF Post
<1>4. p.part = part /\ p.words = NWords(a.n) /\ p \in Readback
  <2>1. a.n \in Nat /\ a.n >= 1 /\ a.off \in Nat /\ a.off + a.n <= Size
    BY DEF IsRead
  <2>2. NWords(a.n) \in 1..Size
    BY <2>1, Words, Constants
  <2>3. Tid(1) \in 0..TidMod-1
    BY <1>1, TidTyped DEF Fields
  <2>4. p \in Readback
    BY <1>2, <2>2, <2>3 DEF Readback
  <2> QED BY <1>2, <2>4
<1>5. tid' \in 0..TidMod-1
  BY <1>1, <1>3, TidTyped DEF Fields
<1>6. Fields'
  BY <1>1, <1>3, <1>4, <1>5 DEF Fields, NoXact
<1>7. Left'
  <2>1. pc # "idle"
    OBVIOUS
  <2> QED BY <1>1, <1>3, <2>1, SameLeft
<1>8. Requested'
  BY <1>3 DEF Requested
<1>9. Cur' = Cur /\ call' = call /\ two(Cur)' = two(Cur) /\ FirstRead(Cur)' = FirstRead(Cur)
  BY <1>3, SameBlock, SameMode DEF call, k
<1>10. Pending'
  <2>1. ASSUME NEW q \in pend' PROVE q.words = NWords(AsyncRead(q)'.n)
    <3>1. AsyncRead(q)' = AsyncRead(q)
      BY <1>3, SameReadback
    <3>2. CASE q \in pend
      BY <1>1, <3>1, <3>2 DEF Pending
    <3>3. CASE q = p
      <4>1. AsyncRead(p) = a
        BY <1>4 DEF AsyncRead
      <4> QED BY <1>4, <3>1, <3>3, <4>1
    <3> QED BY <1>3, <3>2, <3>3
  <2>2. \A q \in pend' : NWords(AsyncRead(q)'.n) = NWords(AsyncRead(q).n)'
    BY DEF NWords
  <2>3. pc' \in {"postLast", "wait"}
    BY <1>3
  <2> QED BY <1>9, <2>1, <2>2, <2>3 DEF Pending
<1>11. Lengths'
  <2>1. ~Back(part)'
    BY <1>3, <1>4 DEF Back
  <2>2. Back("first")' => Back("first")
    BY <1>3 DEF Back
  <2>3. CASE pc = "block"
    BY <1>3, <2>1, <2>3 DEF Lengths
  <2>4. CASE pc = "postLast"
    <3>1. Back("first")' => Len(got'["first"]) = NWords(FirstRead(Cur)'.n) * W
      BY <1>1, <1>3, <1>9, <2>2, <2>4 DEF Lengths
    <3>2. ~Back("last")'
      BY <2>1, <2>4
    <3>3. NWords(FirstRead(Cur)'.n) = NWords(FirstRead(Cur).n)'
      BY DEF NWords
    <3> QED BY <3>1, <3>2, <3>3 DEF Lengths
  <2> QED BY <2>3, <2>4
<1> QED BY <1>6, <1>7, <1>8, <1>10, <1>11

\* Both readbacks are posted this way.
LEMMA PostsTyped ==
    ASSUME Typed, PostFirst \/ PostLast
    PROVE  Fields' /\ Left' /\ Requested' /\ Pending' /\ Lengths'
<1>1. pc # "idle"
  BY DEF PostFirst, PostLast
<1>2. IsRead(FirstRead(Cur)) /\ IsRead(LastRead(Cur))
  BY <1>1, BlockAtHand, FirstReads, LastReads
<1>3. CASE PostFirst
  <2>1. pc = "block" /\ call.kind = "write" /\ two(Cur) /\ Post("first", FirstRead(Cur), "postLast")
    BY <1>3 DEF PostFirst, Cur
  <2>2. "first" \in Ends
    BY DEF Ends
  <2> QED BY <1>2, <2>1, <2>2, PostTyped
<1>4. CASE PostLast
  <2>1. pc = "postLast" /\ Post("last", LastRead(Cur), "wait")
    BY <1>4 DEF PostLast, Cur
  <2>2. call.kind = "write" /\ two(Cur)
    BY <2>1, TypedParts DEF Pending
  <2>3. "last" \in Ends
    BY DEF Ends
  <2> QED BY <1>2, <2>1, <2>2, <2>3, PostTyped
<1> QED BY <1>3, <1>4

\* Nothing of what the client knows changes, but perhaps the memory.
LEMMA ClientSame ==
    ASSUME Typed, mem' \in [Addr -> Byte],
           UNCHANGED <<mode, tid, hist, pc, todo, xact, attempt, pend, got, failed, out, ok>>
    PROVE  Fields' /\ Left' /\ Requested' /\ Pending' /\ Lengths'
<1>1. Fields /\ Left /\ Requested /\ Pending /\ Lengths
  BY TypedParts
<1>2. Fields'
  BY <1>1 DEF Fields, NoXact
<1>3. Left'
  <2>1. CASE pc = "idle"
    BY <2>1 DEF Left
  <2>2. CASE pc # "idle"
    BY <1>1, <2>2, SameLeft
  <2> QED BY <2>1, <2>2
<1>4. Requested'
  BY <1>1, SameRequest
<1>5. Cur' = Cur /\ call' = call /\ two(Cur)' = two(Cur) /\ FirstRead(Cur)' = FirstRead(Cur)
      /\ LastRead(Cur)' = LastRead(Cur) /\ (\A p : AsyncRead(p)' = AsyncRead(p))
  BY SameBlock, SameMode, SameReadback DEF call, k
<1>6. \A p : NWords(AsyncRead(p).n)' = NWords(AsyncRead(p).n)
  BY <1>5 DEF NWords
<1>7. NWords(FirstRead(Cur).n)' = NWords(FirstRead(Cur).n) /\ NWords(LastRead(Cur).n)' = NWords(LastRead(Cur).n)
  BY <1>5 DEF NWords
<1>8. Pending'
  BY <1>1, <1>5, <1>6 DEF Pending
<1>9. Lengths'
  BY <1>1, <1>7 DEF Lengths, Back
<1> QED BY <1>2, <1>3, <1>4, <1>8, <1>9

\* The request at hand is sent.
LEMMA SendTyped ==
    ASSUME Typed, Send PROVE Fields' /\ Left' /\ Requested' /\ Pending' /\ Lengths'
<1>1. pc = "send" /\ UNCHANGED <<mode, mem, tid, hist, pend, out>>
  BY DEF Send
<1>2. pend = {} /\ Fields /\ Left /\ Requested
  BY <1>1, NothingPending, TypedParts
<1>3. CASE xact.msg.kind = "pwr"
  <2>1. NextBlock
    BY <1>3 DEF Send
  <2>2. out' \in Seq(Byte)
    BY <1>1, <1>2 DEF Fields
  <2> QED BY <1>1, <1>2, <2>1, <2>2, NextBlockTyped
<1>4. CASE xact.msg.kind # "pwr"
  <2>1. pc' = "await" /\ UNCHANGED <<todo, xact, attempt, got, failed, ok>>
    BY <1>4 DEF Send
  <2>2. Fields'
    BY <1>1, <1>2, <2>1 DEF Fields, NoXact
  <2>3. Left'
    BY <1>1, <1>2, <2>1, SameLeft
  <2>4. Requested'
    <3>1. Cur' = Cur /\ call' = call
      BY <1>1, <2>1, SameBlock DEF call, k
    <3>2. /\ needFirst(Cur)' = needFirst(Cur) /\ needLast(Cur)' = needLast(Cur) /\ two(Cur)' = two(Cur)
          /\ ReadMsg("sync", xact.msg.tid, Cur)' = ReadMsg("sync", xact.msg.tid, Cur)
          /\ ReadMsg("sync", xact.msg.tid, SyncRead(Cur))' = ReadMsg("sync", xact.msg.tid, SyncRead(Cur))
          /\ WriteMsg(xact.msg.tid, Cur, xact.msg.data)' = WriteMsg(xact.msg.tid, Cur, xact.msg.data)
      BY <1>1, <2>1, <3>1, SameMode, SameMessages
    <3> QED BY <1>1, <1>2, <1>4, <2>1, <3>1, <3>2 DEF Requested
  <2>5. Pending' /\ Lengths'
    BY <1>1, <1>2, <2>1 DEF Pending, Lengths
  <2> QED BY <2>2, <2>3, <2>4, <2>5
<1> QED BY <1>3, <1>4

\* An answer that does not come in time.
LEMMA TimeoutTyped ==
    ASSUME Typed, Timeout PROVE Fields' /\ Left' /\ Requested' /\ Pending' /\ Lengths'
<1>1. pc = "await" /\ UNCHANGED <<mode, mem, tid, hist, pend, out>>
  BY DEF Timeout
<1>2. pend = {} /\ Fields /\ Left /\ Requested
  BY <1>1, NothingPending, TypedParts
<1>3. CASE GiveUp
  <2>1. Return(FALSE)
    BY <1>3 DEF Timeout
  <2>2. out' \in Seq(Byte) /\ tid' \in 0..TidMod-1 /\ FALSE \in BOOLEAN
    BY <1>1, <1>2 DEF Fields
  <2> QED BY <1>1, <1>2, <2>1, <2>2, ReturnTyped
<1>4. CASE ~GiveUp
  <2>1. attempt' = attempt + 1 /\ pc' = "send" /\ UNCHANGED <<todo, xact, got, failed, ok>>
    BY <1>4 DEF Timeout, NextAttempt
  <2>2. attempt' \in 0..RetryCnt
    <3>1. attempt \in 0..RetryCnt /\ ~(attempt + 1 > RetryCnt)
      BY <1>2, <1>4 DEF Fields, GiveUp, NextAttempt
    <3> QED BY <2>1, <3>1, Constants
  <2>3. Fields'
    BY <1>1, <1>2, <2>1, <2>2 DEF Fields, NoXact
  <2>4. Left'
    BY <1>1, <1>2, <2>1, SameLeft
  <2>5. Requested'
    <3>1. Cur' = Cur /\ call' = call
      BY <1>1, <2>1, SameBlock DEF call, k
    <3>2. /\ needFirst(Cur)' = needFirst(Cur) /\ needLast(Cur)' = needLast(Cur) /\ two(Cur)' = two(Cur)
          /\ ReadMsg("sync", xact.msg.tid, Cur)' = ReadMsg("sync", xact.msg.tid, Cur)
          /\ ReadMsg("sync", xact.msg.tid, SyncRead(Cur))' = ReadMsg("sync", xact.msg.tid, SyncRead(Cur))
          /\ WriteMsg(xact.msg.tid, Cur, xact.msg.data)' = WriteMsg(xact.msg.tid, Cur, xact.msg.data)
      BY <1>1, <2>1, <3>1, SameMode, SameMessages
    <3> QED BY <1>1, <1>2, <2>1, <3>1, <3>2 DEF Requested
  <2>6. Pending' /\ Lengths'
    BY <1>1, <1>2, <2>1 DEF Pending, Lengths
  <2> QED BY <2>3, <2>4, <2>5, <2>6
<1> QED BY <1>3, <1>4

\* An answer, of which h bytes are not asked for, is taken.
LEMMA AnswerTyped ==
    ASSUME Typed, Answer PROVE Fields' /\ Left' /\ Requested' /\ Pending' /\ Lengths'
<1>1. pc = "await" /\ rsp["sync"] # <<>> /\ UNCHANGED <<mode, mem, hist, pend>>
  BY DEF Answer
<1>2. pend = {} /\ Fields /\ Left /\ Requested /\ QueuesOK
  BY <1>1, NothingPending, TypedParts
<1>3. PICK r : r = Head(rsp["sync"])
  OBVIOUS
<1>4. r \in Answers /\ Len(r.data) = r.words * W
  <2>1. "sync" \in Door /\ rsp["sync"] \in Seq(Answers)
    BY <1>2 DEF Door, QueuesOK
  <2>2. r = rsp["sync"][1] /\ 1 \in DOMAIN rsp["sync"]
    <3>1. DOMAIN rsp["sync"] = 1..Len(rsp["sync"]) /\ Len(rsp["sync"]) \in Nat /\ Len(rsp["sync"]) # 0
      BY <1>1, <2>1, LenProperties, EmptySeq
    <3>2. r = rsp["sync"][1]
      BY <1>1, <1>3, <2>1, HeadTailProperties
    <3> QED BY <3>1, <3>2
  <2>3. r \in Answers
    BY <1>1, <1>3, <2>1, HeadTailProperties
  <2> QED BY <1>2, <2>1, <2>2, <2>3 DEF QueuesOK, Inside
<1>5. mode \in Modes /\ Good(Cur)
  BY <1>1, BlockAtHand
<1>6. CASE ~tidMatch(r.tid, xact.msg.tid)
  <2>1. UNCHANGED <<mode, mem, hist, pend, pc, todo, xact, attempt, got, failed, out, ok, tid>>
    BY <1>1, <1>3, <1>6 DEF Answer
  <2>2. mem' \in [Addr -> Byte]
    BY <1>2, <2>1 DEF Fields
  <2> QED BY <2>1, <2>2, ClientSame
<1>7. CASE tidMatch(r.tid, xact.msg.tid)
  <2>1. Complete(r)
    BY <1>3, <1>7 DEF Answer
  <2>2. xact \in [use : {"read", "readback", "write"}, msg : Msg]
    BY <1>1, <1>2 DEF Requested
  <2>3. xact.use \in {"read", "readback", "write"}
    BY <2>2
  <2>4. CASE r.words # NWords(xact.msg.len)
    <3>1. Return(FALSE) /\ UNCHANGED <<out, tid>>
      BY <2>1, <2>4 DEF Complete
    <3>2. out' \in Seq(Byte) /\ tid' \in 0..TidMod-1 /\ FALSE \in BOOLEAN
      BY <1>2, <3>1 DEF Fields
    <3> QED BY <1>1, <1>2, <3>1, <3>2, ReturnTyped
  <2>5. CASE r.words = NWords(xact.msg.len) /\ xact.use = "read"
    <3>1. /\ out' = out \o Slice(r.data, headbytes(Cur), Cur.n) /\ NextBlock /\ UNCHANGED tid
      <4>1. out' = out \o SubSeq(r.data, headbytes(Cur) + 1, headbytes(Cur) + Cur.n)
        BY <2>1, <2>5 DEF Complete, Cur
      <4>2. NextBlock /\ UNCHANGED tid
        BY <2>1, <2>5 DEF Complete
      <4> QED BY <4>1, <4>2 DEF Slice
    <3>2. headbytes(Cur) \in Nat /\ Cur.n \in Nat /\ Cur.n >= 1 /\ totbytes(Cur) = headbytes(Cur) + Cur.n
          /\ (mode.byteRes => headbytes(Cur) = 0)
      BY <1>5, BlockNumbers
    <3>3. xact.msg.len = IF mode.byteRes THEN Cur.n ELSE NWords(totbytes(Cur)) * W
      <4>1. xact.msg = ReadMsg("sync", xact.msg.tid, Cur)
        BY <1>1, <1>2, <2>5 DEF Requested
      <4>2. ReadMsg("sync", xact.msg.tid, Cur).len = IF mode.byteRes THEN Cur.n ELSE NWords(totbytes(Cur)) * W
        BY DEF ReadMsg
      <4> QED BY <4>1, <4>2, Zenon
    <3>4. totbytes(Cur) <= xact.msg.len /\ xact.msg.len \in Nat
      <4>1. totbytes(Cur) \in Nat
        BY <3>2
      <4>2. NWords(totbytes(Cur)) * W \in Nat /\ totbytes(Cur) <= NWords(totbytes(Cur)) * W
        BY <4>1, Words
      <4> QED BY <3>2, <3>3, <4>2
    <3>5. totbytes(Cur) <= Len(r.data)
      <4>1. xact.msg.len <= NWords(xact.msg.len) * W /\ NWords(xact.msg.len) * W \in Nat
        BY <3>4, Words
      <4>2. Len(r.data) = NWords(xact.msg.len) * W
        BY <1>4, <2>5
      <4> QED BY <3>2, <3>4, <4>1, <4>2
    <3>6. Slice(r.data, headbytes(Cur), Cur.n) \in Seq(Byte)
      <4>1. r.data \in Seq(Byte) /\ Len(r.data) \in Nat
        BY <1>4, LenProperties DEF Answers
      <4>2. Cur.n \in Int /\ Cur.n <= Len(r.data) - headbytes(Cur)
        BY <3>2, <3>5, <4>1
      <4> QED BY <3>2, <4>1, <4>2, Part
    <3>7. out' \in Seq(Byte)
      <4>1. out \in Seq(Byte)
        BY <1>2 DEF Fields
      <4> QED BY <3>1, <3>6, <4>1, ConcatProperties
    <3> QED BY <1>1, <1>2, <3>1, <3>7, NextBlockTyped
  <2>6. CASE r.words = NWords(xact.msg.len) /\ xact.use = "readback"
    <3>1. RequestWrite(r.data, r.data) /\ UNCHANGED <<todo, got, failed, out, ok>>
      BY <2>1, <2>6 DEF Complete
    <3>2. /\ call.kind = "write" /\ (needFirst(Cur) \/ needLast(Cur)) /\ ~two(Cur)
          /\ xact.msg = ReadMsg("sync", xact.msg.tid, SyncRead(Cur))
      BY <1>1, <1>2, <2>6 DEF Requested
    <3>3. IsRead(SyncRead(Cur))
      BY <1>5, FirstReads, LastReads DEF SyncRead
    <3>4. xact.msg.len = SyncRead(Cur).n /\ SyncRead(Cur).n \in Nat
      <4>1. ReadMsg("sync", xact.msg.tid, SyncRead(Cur)).len = SyncRead(Cur).n
        BY <3>3 DEF IsRead
      <4>2. SyncRead(Cur).n \in Nat
        BY <3>3 DEF IsRead
      <4> QED BY <3>2, <4>1, <4>2, Zenon
    <3>5. SyncRead(Cur).n <= Len(r.data)
      BY <1>4, <2>6, <3>4, Words
    <3>6. Enough(Cur, r.data, r.data)
      <4>1. r.data \in Seq(Byte)
        BY <1>4 DEF Answers
      <4>2. needFirst(Cur) => FirstRead(Cur).n <= Len(r.data)
        BY <3>5 DEF SyncRead
      <4>3. ~needFirst(Cur) => LastRead(Cur).n <= Len(r.data)
        BY <3>5 DEF SyncRead
      <4> QED BY <3>2, <4>1, <4>2, <4>3 DEF Enough
    <3> QED BY <1>1, <1>2, <3>1, <3>2, <3>6, RequestWriteTyped
  <2>7. CASE r.words = NWords(xact.msg.len) /\ xact.use = "write"
    <3>1. NextBlock /\ UNCHANGED <<out, tid>>
      BY <2>1, <2>7 DEF Complete
    <3>2. out' \in Seq(Byte)
      BY <1>2, <3>1 DEF Fields
    <3> QED BY <1>1, <1>2, <3>1, <3>2, NextBlockTyped
  <2> QED BY <2>3, <2>4, <2>5, <2>6, <2>7
<1> QED BY <1>6, <1>7

\* A readback p is settled: it has failed, or x is what it got.
LEMMA SettledTyped ==
    ASSUME Typed, NEW p \in pend, pend' = pend \ {p},
           UNCHANGED <<mode, mem, tid, hist, pc, todo, xact, attempt, out, ok>>,
           \/ failed' = TRUE /\ got' = got
           \/ /\ failed' = failed
              /\ \E x \in Seq(Byte) : Len(x) = p.words * W /\ got' = [got EXCEPT ![p.part] = x]
    PROVE  Fields' /\ Left' /\ Requested' /\ Pending' /\ Lengths'
<1>1. Fields /\ Left /\ Requested /\ Pending /\ Lengths
  BY TypedParts
<1>2. pc \in {"postLast", "wait"} /\ p.words = NWords(AsyncRead(p).n) /\ two(Cur) /\ call.kind = "write"
  BY <1>1 DEF Pending
<1>3. p.part \in Ends
  BY <1>1 DEF Fields, Readback
<1>4. got' \in [Ends -> Seq(Byte)]
  BY <1>1, <1>3 DEF Fields
<1>5. failed' \in BOOLEAN
  BY <1>1 DEF Fields
<1>6. Fields'
  BY <1>1, <1>4, <1>5 DEF Fields, NoXact
<1>7. Left'
  <2>1. pc # "idle"
    BY <1>2
  <2> QED BY <1>1, <2>1, SameLeft
<1>8. Requested'
  BY <1>1, SameRequest
<1>9. Cur' = Cur /\ call' = call /\ two(Cur)' = two(Cur) /\ FirstRead(Cur)' = FirstRead(Cur)
      /\ LastRead(Cur)' = LastRead(Cur) /\ (\A q : AsyncRead(q)' = AsyncRead(q))
  BY SameBlock, SameMode, SameReadback DEF call, k
<1>10. \A q : NWords(AsyncRead(q).n)' = NWords(AsyncRead(q).n)
  BY <1>9 DEF NWords
<1>11. NWords(FirstRead(Cur).n)' = NWords(FirstRead(Cur).n) /\ NWords(LastRead(Cur).n)' = NWords(LastRead(Cur).n)
  BY <1>9 DEF NWords
<1>12. Pending'
  BY <1>1, <1>2, <1>9, <1>10 DEF Pending
<1>13. ASSUME NEW e \in Ends, NEW n \in Nat, Back(e)', Back(e) => Len(got[e]) = n,
              p.part = e => p.words * W = n
       PROVE  Len(got'[e]) = n
  <2>1. failed' # TRUE
    BY <1>13 DEF Back
  <2>2. PICK x \in Seq(Byte) : failed' = failed /\ Len(x) = p.words * W /\ got' = [got EXCEPT ![p.part] = x]
    BY <2>1
  <2>3. CASE p.part = e
    <3>1. got'[e] = x
      BY <1>1, <1>3, <2>2, <2>3 DEF Fields
    <3> QED BY <1>13, <2>2, <2>3, <3>1
  <2>4. CASE p.part # e
    <3>1. got'[e] = got[e]
      BY <1>1, <2>2, <2>4 DEF Fields
    <3>2. Back(e)
      BY <1>13, <2>2, <2>4 DEF Back
    <3> QED BY <1>13, <3>1, <3>2
  <2> QED BY <2>3, <2>4
<1>14. mode \in Modes /\ Good(Cur)
  BY <1>2, BlockAtHand
<1>15. /\ NWords(FirstRead(Cur).n) * W \in Nat /\ NWords(LastRead(Cur).n) * W \in Nat
       /\ "first" \in Ends /\ "last" \in Ends
  BY <1>14, FirstReads, LastReads, Words DEF IsRead, Ends
<1>16. Back("first")' => Len(got'["first"]) = NWords(FirstRead(Cur).n) * W
  <2>1. p.part = "first" => p.words * W = NWords(FirstRead(Cur).n) * W
    BY <1>2 DEF AsyncRead
  <2>2. Back("first") => Len(got["first"]) = NWords(FirstRead(Cur).n) * W
    BY <1>1, <1>2 DEF Lengths
  <2> QED BY <1>13, <1>15, <2>1, <2>2
<1>17. pc = "wait" /\ Back("last")' => Len(got'["last"]) = NWords(LastRead(Cur).n) * W
  <2>1. p.part = "last" => p.words * W = NWords(LastRead(Cur).n) * W
    BY <1>2 DEF AsyncRead
  <2>2. pc = "wait" /\ Back("last") => Len(got["last"]) = NWords(LastRead(Cur).n) * W
    BY <1>1 DEF Lengths
  <2> QED BY <1>13, <1>15, <2>1, <2>2
<1>18. Lengths'
  BY <1>11, <1>16, <1>17 DEF Lengths
<1> QED BY <1>6, <1>7, <1>8, <1>12, <1>18

\* An answer to a readback, or none in time.
LEMMA AsyncTyped ==
    ASSUME Typed, AsyncAnswer \/ AsyncTimeout
    PROVE  Fields' /\ Left' /\ Requested' /\ Pending' /\ Lengths'
<1>1. Fields /\ QueuesOK
  BY TypedParts
<1>2. CASE AsyncTimeout
  <2>1. PICK p \in pend : pend' = pend \ {p}
    BY <1>2 DEF AsyncTimeout
  <2>2. failed' = TRUE /\ UNCHANGED <<mode, mem, tid, hist, pc, todo, xact, attempt, got, out, ok>>
    BY <1>2 DEF AsyncTimeout
  <2> QED BY <2>1, <2>2, SettledTyped
<1>3. CASE AsyncAnswer
  <2>1. /\ rsp["async"] # <<>>
        /\ UNCHANGED <<mode, mem, tid, hist, pc, todo, xact, attempt, out, ok>>
    BY <1>3 DEF AsyncAnswer
  <2>2. PICK r : r = Head(rsp["async"])
    OBVIOUS
  <2>3. r \in Answers /\ Len(r.data) = r.words * W
    <3>1. "async" \in Door /\ rsp["async"] \in Seq(Answers)
      BY <1>1 DEF Door, QueuesOK
    <3>2. DOMAIN rsp["async"] = 1..Len(rsp["async"]) /\ Len(rsp["async"]) \in Nat /\ Len(rsp["async"]) # 0
      BY <2>1, <3>1, LenProperties, EmptySeq
    <3>3. r = rsp["async"][1] /\ r \in Answers /\ 1 \in DOMAIN rsp["async"]
      BY <2>1, <2>2, <3>1, <3>2, HeadTailProperties
    <3> QED BY <1>1, <3>1, <3>3 DEF QueuesOK, Inside
  <2>4. CASE UNCHANGED <<pend, got, failed>>
    <3>1. mem' \in [Addr -> Byte]
      BY <1>1, <2>1 DEF Fields
    <3> QED BY <2>1, <2>4, <3>1, ClientSame
  <2>5. CASE \E p \in {p \in pend : tidMatch(p.tid, r.tid)} :
               /\ pend' = pend \ {p}
               /\ IF r.words = p.words
                  THEN got' = [got EXCEPT ![p.part] = r.data] /\ UNCHANGED failed
                  ELSE failed' = TRUE /\ UNCHANGED got
    <3>1. PICK p \in pend :
               /\ pend' = pend \ {p}
               /\ IF r.words = p.words
                  THEN got' = [got EXCEPT ![p.part] = r.data] /\ UNCHANGED failed
                  ELSE failed' = TRUE /\ UNCHANGED got
      BY <2>5
    <3>2. \/ failed' = TRUE /\ got' = got
          \/ /\ failed' = failed
             /\ \E x \in Seq(Byte) : Len(x) = p.words * W /\ got' = [got EXCEPT ![p.part] = x]
      <4>1. r.data \in Seq(Byte)
        BY <2>3 DEF Answers
      <4>2. CASE r.words = p.words
        <5>1. got' = [got EXCEPT ![p.part] = r.data] /\ failed' = failed
          BY <3>1, <4>2
        <5>2. Len(r.data) = p.words * W
          BY <2>3, <4>2
        <5> QED BY <4>1, <5>1, <5>2
      <4>3. CASE r.words # p.words
        BY <3>1, <4>3
      <4> QED BY <4>2, <4>3
    <3> QED BY <2>1, <3>1, <3>2, SettledTyped
  <2> QED BY <1>3, <2>2, <2>4, <2>5 DEF AsyncAnswer
<1> QED BY <1>2, <1>3

\* What a queue becomes.
LEMMA QueueOps ==
    ASSUME NEW S, NEW q \in Seq(S)
    PROVE  /\ Len(q) \in Nat /\ DOMAIN q = 1..Len(q)
           /\ \A i \in DOMAIN q : q[i] \in S
           /\ q # <<>> => /\ Tail(q) \in Seq(S) /\ Len(Tail(q)) = Len(q) - 1 /\ Head(q) \in S
                          /\ Len(q) >= 1 /\ Head(q) = q[1] /\ 1 \in DOMAIN q
                          /\ \A i \in DOMAIN Tail(q) : i + 1 \in DOMAIN q /\ Tail(q)[i] = q[i + 1]
           /\ \A e \in S : /\ Append(q, e) \in Seq(S) /\ Len(Append(q, e)) = Len(q) + 1
                           /\ DOMAIN Append(q, e) = 1..Len(q) + 1
                           /\ Append(q, e)[Len(q) + 1] = e
                           /\ \A i \in DOMAIN q : Append(q, e)[i] = q[i]
<1>1. Len(q) \in Nat /\ DOMAIN q = 1..Len(q)
  BY LenProperties
<1>2. \A i \in DOMAIN q : q[i] \in S
  BY <1>1, ElementOfSeq
<1>3. ASSUME q # <<>>
      PROVE  /\ Tail(q) \in Seq(S) /\ Len(Tail(q)) = Len(q) - 1 /\ Head(q) \in S
             /\ Len(q) >= 1 /\ Head(q) = q[1] /\ 1 \in DOMAIN q
             /\ \A i \in DOMAIN Tail(q) : i + 1 \in DOMAIN q /\ Tail(q)[i] = q[i + 1]
  <2>1. /\ Head(q) \in S /\ Tail(q) \in Seq(S) /\ Len(Tail(q)) = Len(q) - 1
        /\ \A i \in 1 .. Len(Tail(q)) : Tail(q)[i] = q[i+1]
    BY <1>3, HeadTailProperties
  <2>2. Len(q) # 0
    BY <1>3, EmptySeq
  <2>3. DOMAIN Tail(q) = 1..Len(Tail(q))
    BY <2>1, LenProperties
  <2>4. Head(q) = q[1]
    OBVIOUS
  <2>5. \A i \in 1 .. Len(Tail(q)) : i + 1 \in 1..Len(q)
    BY <1>1, <2>1
  <2> QED BY <1>1, <2>1, <2>2, <2>3, <2>4, <2>5
<1>4. ASSUME NEW e \in S
      PROVE  /\ Append(q, e) \in Seq(S) /\ Len(Append(q, e)) = Len(q) + 1
             /\ DOMAIN Append(q, e) = 1..Len(q) + 1
             /\ Append(q, e)[Len(q) + 1] = e
             /\ \A i \in DOMAIN q : Append(q, e)[i] = q[i]
  <2>1. /\ Append(q, e) \in Seq(S) /\ Len(Append(q, e)) = Len(q) + 1
        /\ \A i \in 1..Len(q) : Append(q, e)[i] = q[i]
        /\ Append(q, e)[Len(q) + 1] = e
    BY AppendProperties
  <2>2. DOMAIN Append(q, e) = 1..Len(q) + 1
    BY <2>1, LenProperties
  <2> QED BY <1>1, <2>1, <2>2
<1> QED BY <1>1, <1>2, <1>3, <1>4

\* A request, and an answer, as the queues hold them.
RequestOK(m) == m \in Msg /\ (m.kind = "rd" => m.off + m.len <= Size) /\ Len(m.data) <= Size
AnswerOK(r)  == r \in Answers /\ Len(r.data) = r.words * W

\* A step takes the first one of a queue, or adds one, or does neither.
RequestsMove ==
    \/ req' = req
    \/ req # <<>> /\ req' = Tail(req)
    \/ \E m : RequestOK(m) /\ Len(req) < NetDepth /\ req' = Append(req, m)
AnswersMove ==
    \/ rsp' = rsp
    \/ \E d \in Door : rsp[d] # <<>> /\ rsp' = [rsp EXCEPT ![d] = Tail(rsp[d])]
    \/ \E d \in Door : \E r : AnswerOK(r) /\ rsp' = [rsp EXCEPT ![d] = Append(rsp[d], r)]

\* All that is in the queues is of the right shape.
LEMMA QueuesHold ==
    QueuesOK <=> /\ req \in Seq(Msg) /\ Len(req) <= NetDepth /\ DOMAIN rsp = Door
                 /\ \A i \in DOMAIN req : RequestOK(req[i])
                 /\ \A d \in Door : rsp[d] \in Seq(Answers) /\ \A i \in DOMAIN rsp[d] : AnswerOK(rsp[d][i])
<1>1. req \in Seq(Msg) => \A i \in DOMAIN req : req[i] \in Msg
  BY QueueOps
<1>2. \A d \in Door : rsp[d] \in Seq(Answers) => \A i \in DOMAIN rsp[d] : rsp[d][i] \in Answers
  BY QueueOps
<1> QED BY <1>1, <1>2 DEF QueuesOK, Inside, RequestOK, AnswerOK

\* The requests after a step that takes the first one or adds one.
LEMMA RequestsStep ==
    ASSUME QueuesOK, RequestsMove
    PROVE  /\ req' \in Seq(Msg) /\ Len(req') <= NetDepth
           /\ \A i \in DOMAIN req' : RequestOK(req'[i])
<1>1. req \in Seq(Msg) /\ Len(req) <= NetDepth /\ \A i \in DOMAIN req : RequestOK(req[i])
  BY QueuesHold
<1>2. CASE req' = req
  BY <1>1, <1>2
<1>3. CASE req # <<>> /\ req' = Tail(req)
  <2>1. /\ Tail(req) \in Seq(Msg) /\ Len(Tail(req)) = Len(req) - 1 /\ Len(req) \in Nat
        /\ \A i \in DOMAIN Tail(req) : i + 1 \in DOMAIN req /\ Tail(req)[i] = req[i + 1]
    BY <1>1, <1>3, QueueOps
  <2>2. Len(req') <= NetDepth
    <3>1. PICK x \in Nat : x = Len(req)
      BY <2>1
    <3>2. Len(req') = x - 1 /\ x <= NetDepth /\ NetDepth \in Nat
      BY <1>1, <1>3, <2>1, <3>1, Constants
    <3> QED BY <3>2
  <2> QED BY <1>1, <1>3, <2>1, <2>2
<1>4. CASE \E m : RequestOK(m) /\ Len(req) < NetDepth /\ req' = Append(req, m)
  <2>1. PICK m : RequestOK(m) /\ Len(req) < NetDepth /\ req' = Append(req, m)
    BY <1>4
  <2>2. m \in Msg
    BY <2>1 DEF RequestOK
  <2>3. /\ Append(req, m) \in Seq(Msg) /\ Len(Append(req, m)) = Len(req) + 1 /\ Len(req) \in Nat
        /\ DOMAIN Append(req, m) = 1..Len(req) + 1 /\ DOMAIN req = 1..Len(req)
        /\ Append(req, m)[Len(req) + 1] = m
        /\ \A i \in DOMAIN req : Append(req, m)[i] = req[i]
    BY <1>1, <2>2, QueueOps
  <2>4. Len(req') <= NetDepth
    <3>1. PICK x \in Nat : x = Len(req)
      BY <2>3
    <3>2. Len(req') = x + 1 /\ x < NetDepth /\ NetDepth \in Nat
      BY <2>1, <2>3, <3>1, Constants
    <3>3. x + 1 <= NetDepth
      BY <3>2
    <3> QED BY <3>2, <3>3
  <2>5. ASSUME NEW i \in DOMAIN req' PROVE RequestOK(req'[i])
    <3>1. PICK x \in Nat : x = Len(req)
      BY <2>3
    <3>2. i \in 1..x + 1
      BY <2>1, <2>3, <3>1
    <3>3. i \in 1..x \/ i = x + 1
      BY <3>2
    <3>4. CASE i \in 1..x
      <4>1. i \in DOMAIN req
        BY <2>3, <3>1, <3>4
      <4>2. req'[i] = req[i]
        BY <2>1, <2>3, <4>1
      <4> QED BY <1>1, <4>1, <4>2
    <3>5. CASE i = x + 1
      BY <2>1, <2>3, <3>1, <3>5
    <3> QED BY <3>3, <3>4, <3>5
  <2> QED BY <2>1, <2>3, <2>4, <2>5
<1> QED BY <1>2, <1>3, <1>4 DEF RequestsMove

\* The answers after a step that takes the first one of a door or adds one.
LEMMA AnswersStep ==
    ASSUME QueuesOK, AnswersMove
    PROVE  /\ DOMAIN rsp' = Door
           /\ \A d \in Door : rsp'[d] \in Seq(Answers) /\ \A i \in DOMAIN rsp'[d] : AnswerOK(rsp'[d][i])
<1>1. /\ DOMAIN rsp = Door
      /\ \A d \in Door : rsp[d] \in Seq(Answers) /\ \A i \in DOMAIN rsp[d] : AnswerOK(rsp[d][i])
  BY QueuesHold
<1>2. CASE rsp' = rsp
  BY <1>1, <1>2
<1>3. CASE \E d \in Door : rsp[d] # <<>> /\ rsp' = [rsp EXCEPT ![d] = Tail(rsp[d])]
  <2>1. PICK d \in Door : rsp[d] # <<>> /\ rsp' = [rsp EXCEPT ![d] = Tail(rsp[d])]
    BY <1>3
  <2>2. PICK q : q = rsp[d]
    OBVIOUS
  <2>3. /\ Tail(q) \in Seq(Answers) /\ (\A i \in DOMAIN q : AnswerOK(q[i]))
        /\ \A i \in DOMAIN Tail(q) : i + 1 \in DOMAIN q /\ Tail(q)[i] = q[i + 1]
    BY <1>1, <2>1, <2>2, QueueOps
  <2>4. \A i \in DOMAIN Tail(q) : AnswerOK(Tail(q)[i])
    BY <2>3
  <2>5. rsp' = [rsp EXCEPT ![d] = Tail(q)]
    BY <2>1, <2>2
  <2>6. DOMAIN rsp' = Door /\ \A e \in Door : rsp'[e] = IF e = d THEN Tail(q) ELSE rsp[e]
    BY <1>1, <2>5
  <2> QED BY <1>1, <2>3, <2>4, <2>6
<1>4. CASE \E d \in Door : \E r : AnswerOK(r) /\ rsp' = [rsp EXCEPT ![d] = Append(rsp[d], r)]
  <2>8. PICK d \in Door : \E r : AnswerOK(r) /\ rsp' = [rsp EXCEPT ![d] = Append(rsp[d], r)]
    BY <1>4
  <2>1. PICK r : AnswerOK(r) /\ rsp' = [rsp EXCEPT ![d] = Append(rsp[d], r)]
    BY <2>8
  <2>2. PICK q : q = rsp[d]
    OBVIOUS
  <2>3. r \in Answers
    BY <2>1 DEF AnswerOK
  <2>4. /\ Append(q, r) \in Seq(Answers) /\ (\A i \in DOMAIN q : AnswerOK(q[i])) /\ Len(q) \in Nat
        /\ DOMAIN Append(q, r) = 1..Len(q) + 1 /\ DOMAIN q = 1..Len(q)
        /\ Append(q, r)[Len(q) + 1] = r
        /\ \A i \in DOMAIN q : Append(q, r)[i] = q[i]
    BY <1>1, <2>2, <2>3, QueueOps
  <2>5. ASSUME NEW i \in DOMAIN Append(q, r) PROVE AnswerOK(Append(q, r)[i])
    <3>1. i \in DOMAIN q \/ i = Len(q) + 1
      BY <2>4
    <3> QED BY <2>1, <2>4, <3>1
  <2>6. rsp' = [rsp EXCEPT ![d] = Append(q, r)]
    BY <2>1, <2>2
  <2>7. DOMAIN rsp' = Door /\ \A e \in Door : rsp'[e] = IF e = d THEN Append(q, r) ELSE rsp[e]
    BY <1>1, <2>6
  <2> QED BY <1>1, <2>4, <2>5, <2>7
<1> QED BY <1>2, <1>3, <1>4 DEF AnswersMove

\* Both queues after a step.
LEMMA QueuesStep ==
    ASSUME QueuesOK, RequestsMove, AnswersMove PROVE QueuesOK'
<1>1. /\ req' \in Seq(Msg) /\ Len(req') <= NetDepth
      /\ \A i \in DOMAIN req' : RequestOK(req'[i])
  BY RequestsStep
<1>2. /\ DOMAIN rsp' = Door
      /\ \A d \in Door : rsp'[d] \in Seq(Answers) /\ \A i \in DOMAIN rsp'[d] : AnswerOK(rsp'[d][i])
  BY AnswersStep
<1> QED BY <1>1, <1>2 DEF QueuesOK, Inside, RequestOK, AnswerOK

\* The device answers.
LEMMA ReplyTyped ==
    ASSUME NEW m, m \in Msg, NEW data \in Seq(Byte), Len(data) <= Size, Reply(m, data)
    PROVE  AnswersMove
<1>1. Len(data) \in Nat /\ DOMAIN data = 1..Len(data) /\ \A i \in DOMAIN data : data[i] \in Byte
  BY QueueOps
<1>2. PICK n \in Nat : n = NWords(Len(data)) /\ n <= Len(data) /\ n * W \in Nat
  BY <1>1, Words
<1>3. PICK ans : ans = [i \in 1..n * W |-> IF i <= Len(data) THEN data[i] ELSE Pad]
  OBVIOUS
<1>4. ans \in Seq(Byte) /\ Len(ans) = n * W
  <2>1. Pad \in Byte
    BY Constants DEF Pad, Byte
  <2>2. ASSUME NEW i \in 1..n * W PROVE (IF i <= Len(data) THEN data[i] ELSE Pad) \in Byte
    <3>1. i <= Len(data) => i \in DOMAIN data
      BY <1>1
    <3> QED BY <1>1, <2>1, <3>1
  <2>3. ans \in [1..n * W -> Byte]
    BY <1>3, <2>2
  <2> QED BY <1>2, <2>3, FunSeq
<1>5. PICK r : r = [tid |-> m.tid, words |-> n, data |-> ans]
  OBVIOUS
<1>6. n \in 0..Size
  BY <1>1, <1>2, Constants
<1>7. AnswerOK(r)
  BY <1>4, <1>5, <1>6 DEF AnswerOK, Answers, Msg
<1>8. rsp' = [rsp EXCEPT ![m.door] = Append(rsp[m.door], r)]
  BY <1>2, <1>3, <1>5 DEF Reply
<1>9. m.door \in Door
  BY DEF Msg
<1> QED BY <1>7, <1>8, <1>9 DEF AnswersMove

\* Serve and Refuse keep the queues in shape, and the memory.
LEMMA DeviceTyped ==
    ASSUME QueuesOK, mem \in [Addr -> Byte], Serve \/ Refuse
    PROVE  QueuesOK' /\ mem' \in [Addr -> Byte]
<1>1. req # <<>> /\ req' = Tail(req)
  BY DEF Serve, Refuse
<1>2. RequestsMove
  BY <1>1 DEF RequestsMove
<1>3. PICK m : m = Head(req) /\ RequestOK(m)
  <2>1. req \in Seq(Msg) /\ \A i \in DOMAIN req : RequestOK(req[i])
    BY QueuesHold
  <2>2. Head(req) = req[1] /\ 1 \in DOMAIN req
    BY <1>1, <2>1, QueueOps
  <2> QED BY <2>1, <2>2
<1>4. m \in Msg /\ m.data \in Seq(Byte) /\ m.len \in 0..Size /\ m.off \in Addr /\ m.tid \in 0..TidMod-1
  BY <1>3 DEF RequestOK, Msg
<1>5. Size \in Nat
  BY Constants
<1>6. CASE Refuse
  <2>1. mem' = mem
    BY <1>6 DEF Refuse
  <2>2. AnswersMove
    <3>1. CASE rsp' = rsp
      BY <3>1 DEF AnswersMove
    <3>2. CASE Reply(m, <<>>)
      <4>1. <<>> \in Seq(Byte) /\ Len(<<>>) <= Size
        BY <1>5, EmptySeq
      <4> QED BY <1>4, <3>2, <4>1, ReplyTyped
    <3> QED BY <1>3, <1>6, <3>1, <3>2 DEF Refuse
  <2> QED BY <1>2, <2>1, <2>2, QueuesStep
<1>7. CASE Serve /\ m.kind = "rd"
  <2>1. Reply(m, [i \in 1..m.len |-> mem[m.off + i - 1]]) /\ mem' = mem
    BY <1>3, <1>7 DEF Serve
  <2>2. PICK d : d = [i \in 1..m.len |-> mem[m.off + i - 1]]
    OBVIOUS
  <2>3. d \in Seq(Byte) /\ Len(d) = m.len
    <3>1. m.off + m.len <= Size
      BY <1>3, <1>7 DEF RequestOK
    <3>2. \A i \in 1..m.len : m.off + i - 1 \in Addr
      BY <1>4, <1>5, <3>1 DEF Addr
    <3>3. \A i \in 1..m.len : mem[m.off + i - 1] \in Byte
      BY <3>2
    <3>4. d \in [1..m.len -> Byte]
      BY <2>2, <3>3
    <3>5. m.len \in Nat
      BY <1>4, <1>5
    <3> QED BY <3>4, <3>5, FunSeq
  <2>4. Len(d) <= Size
    BY <1>4, <1>5, <2>3
  <2>5. AnswersMove
    BY <1>4, <2>1, <2>2, <2>3, <2>4, ReplyTyped
  <2> QED BY <1>2, <2>1, <2>5, QueuesStep
<1>8. CASE Serve /\ m.kind # "rd"
  <2>1. /\ mem' = [a \in Addr |-> IF Accepted(m) /\ a - m.off + 1 \in DOMAIN m.data
                                  THEN m.data[a - m.off + 1] ELSE mem[a]]
        /\ IF Accepted(m) /\ m.kind = "wr" THEN Reply(m, m.data) ELSE UNCHANGED rsp
    BY <1>3, <1>8 DEF Serve
  <2>2. \A i \in DOMAIN m.data : m.data[i] \in Byte
    BY <1>4, QueueOps
  <2>3. mem' \in [Addr -> Byte]
    BY <2>1, <2>2
  <2>4. Len(m.data) <= Size
    BY <1>3 DEF RequestOK
  <2>5. AnswersMove
    <3>1. CASE rsp' = rsp
      BY <3>1 DEF AnswersMove
    <3>2. CASE Reply(m, m.data)
      BY <1>4, <2>4, <3>2, ReplyTyped
    <3> QED BY <2>1, <3>1, <3>2
  <2> QED BY <1>2, <2>3, <2>5, QueuesStep
<1> QED BY <1>6, <1>7, <1>8

\* The client's steps, and what is lost, keep the queues in shape.
LEMMA QueuesTyped ==
    ASSUME Typed, Next, ~Serve, ~Refuse PROVE QueuesOK'
<1>1. QueuesOK /\ Fields /\ Requested /\ mode \in Modes
  BY TypedParts DEF Fields
<1>2. CASE UNCHANGED <<req, rsp>>
  BY <1>1, <1>2, QueuesStep DEF RequestsMove, AnswersMove
<1>3. ASSUME PostFirst \/ PostLast PROVE QueuesOK'
  <2>1. Good(Cur) /\ Tid(1) \in 0..TidMod-1
    BY <1>1, <1>3, BlockAtHand, TidTyped DEF Fields, PostFirst, PostLast
  <2>2. PICK a, part, next : Post(part, a, next) /\ (a = FirstRead(Cur) \/ a = LastRead(Cur))
    BY <1>3 DEF PostFirst, PostLast, Cur
  <2>3. IsRead(a)
    BY <1>1, <2>1, <2>2, FirstReads, LastReads
  <2>4. PICK m : m = ReadMsg("async", Tid(1), a)
    OBVIOUS
  <2>5. RequestOK(m)
    <3>1. "async" \in Door
      BY DEF Door
    <3>2. m \in Msg /\ m.off + m.len <= Size
      BY <1>1, <2>1, <2>3, <2>4, <3>1, MessagesTyped
    <3>3. m.data = <<>>
      BY <2>4 DEF ReadMsg
    <3>4. Len(m.data) <= Size
      BY <3>3, Constants, EmptySeq
    <3> QED BY <3>2, <3>4 DEF RequestOK
  <2>6. Len(req) < NetDepth /\ req' = Append(req, m) /\ rsp' = rsp
    BY <2>2, <2>4 DEF Post
  <2> QED BY <1>1, <2>5, <2>6, QueuesStep DEF RequestsMove, AnswersMove
<1>4. ASSUME Send PROVE QueuesOK'
  <2>1. pc = "send" /\ Len(req) < NetDepth /\ req' = Append(req, xact.msg) /\ rsp' = rsp
    BY <1>4 DEF Send
  <2>2. xact \in [use : {"read", "readback", "write"}, msg : Msg]
    BY <1>1, <2>1 DEF Requested
  <2>3. Good(Cur) /\ xact.msg \in Msg /\ xact.use \in {"read", "readback", "write"} /\ Size \in Nat
    BY <2>1, <2>2, BlockAtHand, Constants
  <2>4. CASE xact.use = "read"
    <3>1. xact.msg = ReadMsg("sync", xact.msg.tid, Cur)
      BY <1>1, <2>1, <2>4 DEF Requested
    <3>2. start(Cur) \in Addr /\ length(Cur) \in 1..Size /\ start(Cur) + length(Cur) <= Size
          /\ (mode.byteRes => totbytes(Cur) = Cur.n)
      BY <1>1, <2>3, InsideMemory, Heads DEF Good, BlockType
    <3>3. xact.msg.off = start(Cur) /\ xact.msg.len = length(Cur) /\ xact.msg.data = <<>>
      <4>1. PICK t : t = xact.msg.tid
        OBVIOUS
      <4>2. PICK r : r = ReadMsg("sync", t, Cur)
        OBVIOUS
      <4>3. r.off = start(Cur) /\ r.len = length(Cur) /\ r.data = <<>>
        BY <3>2, <4>2 DEF ReadMsg, start, length
      <4> QED BY <3>1, <4>1, <4>2, <4>3
    <3>4. Len(xact.msg.data) <= Size
      BY <2>3, <3>3, EmptySeq
    <3> QED BY <1>1, <2>1, <2>3, <3>2, <3>3, <3>4, QueuesStep DEF RequestsMove, AnswersMove, RequestOK
  <2>5. CASE xact.use = "readback"
    <3>1. PICK t : t = xact.msg.tid
      OBVIOUS
    <3>2. xact.msg = ReadMsg("sync", t, SyncRead(Cur))
      BY <1>1, <2>1, <2>5, <3>1 DEF Requested
    <3>3. t \in 0..TidMod-1 /\ "sync" \in Door
      BY <2>3, <3>1 DEF Msg, Door
    <3>4. IsRead(SyncRead(Cur))
      BY <1>1, <2>3, FirstReads, LastReads DEF SyncRead
    <3>5. xact.msg.off + xact.msg.len <= Size
      BY <1>1, <3>2, <3>3, <3>4, MessagesTyped
    <3>6. ReadMsg("sync", t, SyncRead(Cur)).data = <<>>
      BY DEF ReadMsg
    <3>7. Len(xact.msg.data) <= Size
      BY <2>3, <3>2, <3>6, EmptySeq
    <3> QED BY <1>1, <2>1, <2>3, <3>5, <3>7, QueuesStep DEF RequestsMove, AnswersMove, RequestOK
  <2>6. CASE xact.use = "write"
    <3>1. xact.msg = WriteMsg(xact.msg.tid, Cur, xact.msg.data) /\ Len(xact.msg.data) <= Size
      BY <1>1, <2>1, <2>6 DEF Requested
    <3>2. WriteMsg(xact.msg.tid, Cur, xact.msg.data).kind # "rd"
      BY DEF WriteMsg
    <3>3. xact.msg.kind # "rd"
      BY <3>1, <3>2, Zenon
    <3>4. RequestOK(xact.msg)
      BY <2>3, <3>1, <3>3 DEF RequestOK
    <3> QED BY <1>1, <2>1, <3>4, QueuesStep DEF RequestsMove, AnswersMove
  <2> QED BY <2>3, <2>4, <2>5, <2>6
<1>5. ASSUME Answer \/ AsyncAnswer \/ LoseAnswer PROVE QueuesOK'
  <2>1. \E d \in Door : rsp[d] # <<>> /\ rsp' = [rsp EXCEPT ![d] = Tail(rsp[d])]
    BY <1>5 DEF Answer, AsyncAnswer, LoseAnswer, Door
  <2>2. req' = req
    BY <1>5 DEF Answer, AsyncAnswer, LoseAnswer
  <2> QED BY <1>1, <2>1, <2>2, QueuesStep DEF RequestsMove, AnswersMove
<1>6. ASSUME LoseRequest PROVE QueuesOK'
  BY <1>1, <1>6, QueuesStep DEF RequestsMove, AnswersMove, LoseRequest
<1>7. ASSUME \/ \E c \in Calls : Begin(c)
             \/ ReadBlock \/ WriteBlock \/ Wait \/ Timeout \/ AsyncTimeout
      PROVE  UNCHANGED <<req, rsp>>
  BY <1>7 DEF Begin, ReadBlock, WriteBlock, Wait, Timeout, AsyncTimeout
<1> QED BY <1>2, <1>3, <1>4, <1>5, <1>6, <1>7 DEF Next, Client

\* A step keeps the shape of the state.
LEMMA TypedStep == Typed /\ [Next]_vars => Typed'
<1> SUFFICES ASSUME Typed, [Next]_vars PROVE Typed'
  OBVIOUS
<1>1. QueuesOK /\ Fields
  BY TypedParts
<1>2. CASE UNCHANGED vars
  <2>1. UNCHANGED <<mode, tid, hist, pc, todo, xact, attempt, pend, got, failed, out, ok, mem, req, rsp>>
    BY <1>2 DEF vars
  <2>2. mem' \in [Addr -> Byte]
    BY <1>1, <2>1 DEF Fields
  <2>3. Fields' /\ Left' /\ Requested' /\ Pending' /\ Lengths'
    BY <2>1, <2>2, ClientSame
  <2>4. QueuesOK'
    BY <1>1, <2>1, QueuesStep DEF RequestsMove, AnswersMove
  <2> QED BY <2>3, <2>4, TypedPartsNext
<1>3. CASE Serve \/ Refuse
  <2>1. QueuesOK' /\ mem' \in [Addr -> Byte]
    BY <1>1, <1>3, DeviceTyped DEF Fields
  <2>2. UNCHANGED <<mode, tid, hist, pc, todo, xact, attempt, pend, got, failed, out, ok>>
    BY <1>3 DEF Serve, Refuse
  <2>3. Fields' /\ Left' /\ Requested' /\ Pending' /\ Lengths'
    BY <2>1, <2>2, ClientSame
  <2> QED BY <2>1, <2>3, TypedPartsNext
<1>4. CASE Next /\ ~Serve /\ ~Refuse
  <2>1. QueuesOK'
    BY <1>4, QueuesTyped
  <2>2. CASE \E c \in Calls : Begin(c)
    BY <2>1, <2>2, BeginTyped, TypedPartsNext
  <2>3. CASE ReadBlock
    BY <2>1, <2>3, ReadBlockTyped, TypedPartsNext
  <2>4. CASE WriteBlock
    BY <2>1, <2>4, WriteBlockTyped, TypedPartsNext
  <2>5. CASE PostFirst \/ PostLast
    BY <2>1, <2>5, PostsTyped, TypedPartsNext
  <2>6. CASE Wait
    BY <2>1, <2>6, WaitTyped, TypedPartsNext
  <2>7. CASE Send
    BY <2>1, <2>7, SendTyped, TypedPartsNext
  <2>8. CASE Answer
    BY <2>1, <2>8, AnswerTyped, TypedPartsNext
  <2>9. CASE Timeout
    BY <2>1, <2>9, TimeoutTyped, TypedPartsNext
  <2>10. CASE AsyncAnswer \/ AsyncTimeout
    BY <2>1, <2>10, AsyncTyped, TypedPartsNext
  <2>11. CASE LoseRequest \/ LoseAnswer
    <3>1. UNCHANGED <<mode, mem, tid, hist, pc, todo, xact, attempt, pend, got, failed, out, ok>>
      BY <2>11 DEF LoseRequest, LoseAnswer
    <3>2. mem' \in [Addr -> Byte]
      BY <1>1, <3>1 DEF Fields
    <3> QED BY <2>1, <3>1, <3>2, ClientSame, TypedPartsNext
  <2> QED BY <1>4, <2>2, <2>3, <2>4, <2>5, <2>6, <2>7, <2>8, <2>9, <2>10, <2>11 DEF Next, Client
<1> QED BY <1>2, <1>3, <1>4

\* Requests, answers and readbacks have the shape the code gives them, and a request is
\* repeated at most retryCnt_ times (TypeOK).
THEOREM TypeCorrect == Spec => []TypeOK
<1>1. Typed => TypeOK
  BY DEF Typed
<1> QED BY <1>1, TypedInit, TypedStep, PTL DEF Spec

\* A write does not return while a readback may still store its answer into its variables
\* (ReadbacksSettled), whatever is lost and however often transaction ids come again.
THEOREM Settling == Spec => []ReadbacksSettled
<1>1. Typed => ReadbacksSettled
  BY DEF Typed, Pending, ReadbacksSettled
<1> QED BY <1>1, TypedInit, TypedStep, PTL DEF Spec
=============================================================================
