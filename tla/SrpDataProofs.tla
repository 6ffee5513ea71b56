---------------------------- MODULE SrpDataProofs ---------------------------
(***************************************************************************)
(* Proofs about Srp: what reads return and what writes leave in the        *)
(* memory.  The inductive invariant (Faithful) relates the memory to every *)
(* message under way, to what was read back and to what is done of the     *)
(* call.  It needs two hypotheses: transaction ids do not come again       *)
(* (EnoughTids), and no write is one of those whose middle words are lost  *)
(* (Uncollapsed).                                                          *)
(***************************************************************************)
EXTENDS SrpProofs

\* A block takes four transaction ids at most, and has a byte at least.
Budget(n) == 4 * (Size * n)
EnoughTids == Budget(MaxCalls) < TidMod

\* Of a write of which both ends are merged and that is read back by one request, no
\* more than two words are sent: one that has more is not written as a whole.
Span(m, c) == (IF m.byteRes THEN 0 ELSE c.off % W) + c.n
Collapsed(m, c) ==
    /\ c.kind = "write" /\ 2 * W < Span(m, c) /\ Span(m, c) <= W * (1 + Extra)
    /\ (~m.byteRes /\ c.off % W > 0) \/ c.m1 # {}
    /\ (~m.byteRes /\ Span(m, c) % W # 0) \/ c.mn # {}
Uncollapsed == \A m \in Modes, c \in Calls : ~Collapsed(m, c)

\* The messages whose answer somebody waits for.
Wanted(e) == \/ pc \in {"send", "await"} /\ e = xact.msg
             \/ \E p \in pend : e = AsyncMsg(p)

Used == CASE pc = "block" -> 0
          [] pc = "postLast" -> 1
          [] pc = "wait" -> 2
          [] pc \in {"send", "await"} /\ xact.use = "write" -> 4
          [] OTHER -> 1

\* Transaction ids are given out in order.
IdsLeft == IF pc = "idle" THEN tid <= Budget(k) ELSE tid + 4 * todo.n <= Budget(k) + Used

Ids ==
    /\ IdsLeft
    /\ \A i \in DOMAIN req : req[i].tid <= tid
    /\ \A d \in Door : \A i \in DOMAIN rsp[d] : rsp[d][i].tid <= tid
    /\ \A e : Wanted(e) => e.tid <= tid

\* Nothing that follows message e in the queue changes the memory otherwise.
Calm(e, m) == m.kind = "rd" \/ m = e

Answered(e, r) ==
    IF e.kind = "rd" THEN \A i \in 1..e.len : r.data[i] = mem[e.off + i - 1]
    ELSE \A i \in DOMAIN e.data : mem[e.off + i - 1] = e.data[i]

\* A request with the door and the id of message e is e ...
RequestMatch(e) ==
    \A i \in DOMAIN req : req[i].door = e.door /\ req[i].tid = e.tid =>
        req[i] = e /\ \A l \in DOMAIN req : l >= i => Calm(e, req[l])

\* ... and an answer with its id and its size is its answer, and still true.
AnswerMatch(e) ==
    \A i \in DOMAIN rsp[e.door] :
        rsp[e.door][i].tid = e.tid /\ rsp[e.door][i].words = NWords(e.len) =>
            Answered(e, rsp[e.door][i]) /\ \A l \in DOMAIN req : Calm(e, req[l])

Matched == \A e : Wanted(e) => RequestMatch(e) /\ AnswerMatch(e)

\* Nothing under way changes the memory.
Quiet == \A i \in DOMAIN req : req[i].kind = "rd"

\* data is what the memory has at a.
Copy(a, data) == \A i \in 1..a.n : data[i] = mem[a.off + i - 1]

ReadBack ==
    /\ pc \in {"postLast", "wait"} /\ Back("first") => Quiet /\ Copy(FirstRead(Cur), got["first"])
    /\ pc = "wait" /\ Back("last") => Quiet /\ Copy(LastRead(Cur), got["last"])

\* Bit x at address a may have come from v.
OkBit(v, a, x) ==
    IF v[1] = 0 THEN v[2] = a
    ELSE /\ v[1] <= k
         /\ a = hist[v[1]].off + v[2]
         /\ ~(v[2] = 0 /\ x \in hist[v[1]].m1) /\ ~(v[2] = hist[v[1]].n - 1 /\ x \in hist[v[1]].mn)

OkMsg(m) == \A i \in DOMAIN m.data, x \in Bit : OkBit(m.data[i][x], m.off + i - 1, x)

\* A write at hand brings all of its block.
Brings(b, m) ==
    /\ Len(m.data) = m.len
    /\ \A i \in 1..b.n, x \in Bit :
           \/ i = 1 /\ x \in b.m1
           \/ i = b.n /\ x \in b.mn
           \/ m.data[headbytes(b) + i][x] = <<k, b.s + i - 1>>

Writing == pc \in {"send", "await"} /\ xact.use = "write"

\* The memory, and what is under way, hold nothing that they should not.
OkAll == /\ \A a \in Addr, x \in Bit : OkBit(mem[a][x], a, x)
         /\ \A i \in DOMAIN req : OkMsg(req[i])

OkData == OkAll /\ (Writing => OkMsg(xact.msg) /\ Brings(Cur, xact.msg))

\* What message m writes to address a, if it does.
Hits(m, a) == m.kind # "rd" /\ a - m.off + 1 \in DOMAIN m.data
At(m, a)   == m.data[a - m.off + 1]

NotAfter(m, w) == \A a \in Addr, x \in Bit : Hits(m, a) /\ Hits(w, a) => At(m, a)[x][1] <= At(w, a)[x][1]
MemNotAfter(w) == \A a \in Addr, x \in Bit : Hits(w, a) => mem[a][x][1] <= At(w, a)[x][1]

Monotone ==
    /\ \A i \in DOMAIN req : MemNotAfter(req[i])
    /\ \A i, l \in DOMAIN req : i < l => NotAfter(req[i], req[l])
    /\ Writing => MemNotAfter(xact.msg) /\ \A i \in DOMAIN req : NotAfter(req[i], xact.msg)

\* How many bytes of the call are done, when it is or has not failed.
Done == IF pc = "idle" THEN (IF ok THEN call.n ELSE 0) ELSE todo.s

\* What a read has returned so far is still so.
ReadSoFar ==
    k >= 1 /\ call.kind = "read" /\ (pc = "idle" => ok) =>
        /\ Len(out) = Done
        /\ Done > 0 => Quiet
        /\ \A i \in 1..Done : out[i] = mem[call.off + i - 1]

\* What a write has written so far is there, and nothing under way changes it.
There(i, x) ==
    \/ i = 0 /\ x \in call.m1
    \/ i = call.n - 1 /\ x \in call.mn
    \/ /\ mem[call.off + i][x] = <<k, i>>
       /\ \A l \in DOMAIN req : Hits(req[l], call.off + i) => At(req[l], call.off + i)[x] = <<k, i>>

WrittenSoFar ==
    k >= 1 /\ call.kind = "write" /\ ~mode.posted => \A i \in 0..Done - 1, x \in Bit : There(i, x)

Faithful == Typed /\ Ids /\ Matched /\ ReadBack /\ OkData /\ Monotone /\ ReadSoFar /\ WrittenSoFar

-----------------------------------------------------------------------------
(* What is written.                                                         *)

\* A block of which both ends are merged is the whole call.
LEMMA BothEnds ==
    ASSUME Typed, pc # "idle", both(Cur)
    PROVE  Cur = todo /\ todo.s = 0
<1>1. mode \in Modes /\ Good(todo)
  BY BlockAtHand
<1>2. /\ headbytes(Cur) = headbytes(todo) /\ Cur.m1 = todo.m1 /\ (Whole(todo) => Cur = todo)
      /\ ~Whole(todo) => Cur.mn = {} /\ totbytes(Cur) = MaxWords * W
  BY <1>1, FirstBlock DEF Cur
<1>3. /\ todo.m1 = (IF todo.s = 0 THEN call.m1 ELSE {}) /\ (todo.s > 0 => headbytes(todo) = 0)
      /\ todo.s \in Nat
  BY TypedParts DEF Left, BlockType
<1>4. needFirst(Cur) /\ needLast(Cur)
  BY DEF both
<1>5. todo.s = 0
  <2>1. headbytes(todo) > 0 \/ todo.m1 # {}
    BY <1>2, <1>4 DEF needFirst
  <2>2. CASE todo.s > 0
    <3>1. headbytes(todo) = 0 /\ todo.m1 = {}
      BY <1>3, <2>2
    <3>2. ~(0 > 0)
      OBVIOUS
    <3> QED BY <2>1, <3>1, <3>2
  <2> QED BY <1>3, <2>2
<1>6. Whole(todo)
  <2>1. SUFFICES ASSUME ~Whole(todo) PROVE FALSE
    OBVIOUS
  <2>2. Cur.mn = {} /\ totbytes(Cur) = W * MaxWords + 0
    BY <1>2, <2>1, Constants
  <2>3. totbytes(Cur) % W = 0
    BY <2>2, Remainder, Constants
  <2> QED BY <1>4, <2>2, <2>3 DEF needLast
<1> QED BY <1>2, <1>5, <1>6

\* No words are lost, if no write is hit.
LEMMA NothingLost ==
    ASSUME Typed, pc # "idle", call.kind = "write", Uncollapsed
    PROVE  ~Lost(Cur)
<1> SUFFICES ASSUME Lost(Cur) PROVE FALSE
  OBVIOUS
<1>1. both(Cur) /\ totbytes(Cur) > 2 * W /\ totbytes(Cur) <= W * (1 + Extra)
  BY DEF Lost, lastbyte_in_firstwords
<1>2. Cur = todo /\ todo.s = 0
  BY <1>1, BothEnds
<1>3. mode \in Modes /\ call \in Calls /\ call.off \in Nat /\ call.n \in Nat
  BY BlockAtHand
<1>4. todo.off = call.off /\ todo.n = call.n /\ todo.m1 = call.m1 /\ todo.mn = call.mn
  <2>1. /\ todo.off = call.off + todo.s /\ todo.s + todo.n = call.n
        /\ todo.m1 = (IF todo.s = 0 THEN call.m1 ELSE {}) /\ todo.mn = call.mn /\ todo.n \in Nat
    BY TypedParts DEF Left, BlockType
  <2> QED BY <1>2, <1>3, <2>1
<1>5. PICK h : h = IF mode.byteRes THEN 0 ELSE call.off % W
  OBVIOUS
<1>6. headbytes(Cur) = h /\ totbytes(Cur) = h + call.n /\ Span(mode, call) = h + call.n
  BY <1>2, <1>4, <1>5 DEF headbytes, totbytes, Span
<1>7. (~mode.byteRes /\ call.off % W > 0) \/ call.m1 # {}
  <2>1. h > 0 \/ call.m1 # {}
    BY <1>1, <1>2, <1>4, <1>6 DEF both, needFirst
  <2>2. ~(0 > 0)
    OBVIOUS
  <2> QED BY <1>5, <2>1, <2>2
<1>8. (~mode.byteRes /\ Span(mode, call) % W # 0) \/ call.mn # {}
  BY <1>1, <1>2, <1>4, <1>6 DEF both, needLast
<1>9. 2 * W < Span(mode, call)
  <2>1. h + call.n \in Nat
    <3>1. totbytes(Cur) \in Nat
      BY <1>3, BlockAtHand, BlockNumbers
    <3> QED BY <1>6, <3>1
  <2> QED BY <1>1, <1>6, <2>1, Constants
<1>10. Collapsed(mode, call)
  BY <1>1, <1>6, <1>7, <1>8, <1>9 DEF Collapsed
<1> QED BY <1>3, <1>10 DEF Uncollapsed

\* The words of block b, as the memory has them.
Before(b) == [j \in 1..length(b) |-> mem[start(b) + j - 1]]

\* What was read back is what the memory has.
LEMMA SuppliedNow ==
    ASSUME mode \in Modes, mem \in [Addr -> Byte], NEW b, Good(b), NEW first, NEW last,
           Enough(b, first, last),
           needFirst(b) => Copy(FirstRead(b), first),
           (needLast(b) /\ ~needFirst(b)) \/ two(b) => Copy(LastRead(b), last)
    PROVE  Supplied(b, first, last, Before(b))
<1>1. PICK len \in Nat, st \in Addr : len = length(b) /\ st = start(b) /\ len >= 1 /\ st + len <= Size /\ st \in Nat
  BY InsideMemory, Constants DEF Good, BlockType, Addr
<1>2. PICK old : old = Before(b)
  OBVIOUS
<1>3. \A j \in 1..len : st + j - 1 \in Addr /\ old[j] = mem[st + j - 1]
  <2>1. \A j \in 1..len : st + j - 1 \in Addr
    BY <1>1, Constants DEF Addr
  <2> QED BY <1>1, <1>2, <2>1 DEF Before
<1>4. old \in [1..len -> Byte]
  <2>1. \A j \in 1..len : mem[st + j - 1] \in Byte
    BY <1>3
  <2> QED BY <1>1, <1>2, <2>1 DEF Before
<1>5. ASSUME needFirst(b) PROVE \A j \in 1..FirstRead(b).n : first[j] = old[j]
  <2>1. FirstRead(b).off = st /\ FirstRead(b).n <= len /\ FirstRead(b).n \in Nat
    BY <1>1, FirstReads DEF IsRead
  <2>2. \A j \in 1..FirstRead(b).n : j \in 1..len /\ first[j] = mem[st + j - 1]
    BY <1>1, <1>5, <2>1 DEF Copy
  <2> QED BY <1>3, <2>2
<1>6. ASSUME (needLast(b) /\ ~needFirst(b)) \/ two(b)
      PROVE  \A j \in 1..LastRead(b).n : last[j] = old[LastRead(b).off - start(b) + j]
  <2>1. ~lastbyte_in_firstwords(b)
    <3>1. W * (1 + Extra) \in Nat /\ totbytes(b) \in Nat
      BY Constants, BlockNumbers
    <3> QED BY <1>6, <3>1 DEF lastbyte_in_firstwords, two, both
  <2>2. PICK lo \in Nat, n \in Nat : LastRead(b).off - st = lo /\ n = LastRead(b).n /\ len = lo + n
    <3>1. LastRead(b).n \in Nat
      BY LastReads DEF IsRead
    <3> QED BY <1>1, <2>1, <3>1, LastPlace
  <2>3. LastRead(b).off \in Nat
    BY LastReads DEF IsRead
  <2>4. LastRead(b).off = st + lo
    BY <1>1, <2>2, <2>3
  <2>5. ASSUME NEW j \in 1..n PROVE last[j] = old[lo + j]
    <3>1. last[j] = mem[LastRead(b).off + j - 1]
      BY <1>6, <2>2 DEF Copy
    <3>2. LastRead(b).off + j - 1 = st + (lo + j) - 1 /\ lo + j \in 1..len
      BY <1>1, <2>2, <2>4
    <3> QED BY <1>3, <3>1, <3>2
  <2> QED BY <1>1, <2>2, <2>5
<1>7. Supplied(b, first, last, old)
  BY <1>1, <1>4, <1>5, <1>6 DEF Supplied, Enough
<1> QED BY <1>2, <1>7

\* A bit that is to be written, where it belongs.
LEMMA MineOk ==
    ASSUME Typed, pc # "idle", NEW j, NEW x \in Bit, Mine(Cur, j, x), NEW v,
           v = <<k, Cur.s + j - headbytes(Cur) - 1>>
    PROVE  OkBit(v, start(Cur) + j - 1, x)
<1>1. mode \in Modes /\ Good(todo) /\ Good(Cur) /\ k \in 1..MaxCalls /\ k # 0
      /\ call.off \in Nat /\ call.n \in Nat
  BY BlockAtHand
<1>2. /\ Cur.off = todo.off /\ Cur.s = todo.s /\ Cur.m1 = todo.m1 /\ Cur.n <= todo.n
      /\ Whole(todo) => Cur = todo
      /\ ~Whole(todo) => Cur.n < todo.n
  BY <1>1, FirstBlock DEF Cur
<1>3. /\ todo.off = call.off + todo.s /\ todo.s + todo.n = call.n
      /\ todo.m1 = (IF todo.s = 0 THEN call.m1 ELSE {}) /\ todo.mn = call.mn
      /\ todo.s \in Nat /\ todo.n \in Nat
  BY TypedParts DEF Left, BlockType
<1>4. PICK h \in Nat, n \in Nat, s \in Nat, st \in Nat, tn \in Nat :
          /\ h = headbytes(Cur) /\ n = Cur.n /\ s = todo.s /\ st = start(Cur) /\ tn = todo.n
          /\ st + h = call.off + s /\ s + tn = call.n /\ n <= tn /\ n >= 1
  <2>3. headbytes(Cur) \in Nat /\ Cur.n \in Nat /\ Cur.n >= 1
    BY <1>1, BlockNumbers
  <2>1. start(Cur) \in Addr /\ start(Cur) + headbytes(Cur) = Cur.off
    BY <1>1, InsideMemory DEF Good, BlockType
  <2>2. start(Cur) \in Nat
    BY <2>1, Constants DEF Addr
  <2> QED BY <1>2, <1>3, <2>1, <2>2, <2>3
<1>5. /\ j \in h + 1 .. h + n
      /\ ~(j = h + 1 /\ x \in Cur.m1) /\ ~(j = h + n /\ x \in Cur.mn)
  BY <1>4 DEF Mine
<1>6. PICK i \in 0..n-1 : j = h + 1 + i
  <2>1. j - h - 1 \in 0..n-1 /\ j = h + 1 + (j - h - 1)
    BY <1>5
  <2> QED BY <2>1
<1>7. v[1] = k /\ v[2] = s + i /\ st + j - 1 = call.off + (s + i)
  <2>1. v[1] = k /\ v[2] = s + j - h - 1
    BY <1>2, <1>4
  <2> QED BY <1>1, <1>4, <1>6, <2>1
<1>8. ~(s + i = 0 /\ x \in call.m1)
  <2>1. SUFFICES ASSUME s + i = 0, x \in call.m1 PROVE FALSE
    OBVIOUS
  <2>2. s = 0 /\ i = 0
    BY <2>1
  <2>3. j = h + 1
    BY <1>6, <2>2
  <2>4. x \in Cur.m1
    BY <1>2, <1>3, <1>4, <2>1, <2>2
  <2> QED BY <1>5, <2>3, <2>4
<1>9. ~(s + i = call.n - 1 /\ x \in call.mn)
  <2>1. SUFFICES ASSUME s + i = call.n - 1, x \in call.mn PROVE FALSE
    OBVIOUS
  <2>2. n = tn /\ i = n - 1
    <3>1. s + i = s + tn - 1 /\ n <= tn
      BY <1>4, <2>1
    <3> QED BY <1>6, <3>1
  <2>3. Cur = todo
    <3>1. ~(n < tn)
      BY <2>2
    <3> QED BY <1>2, <1>4, <3>1
  <2>4. j = h + n /\ x \in Cur.mn
    BY <1>3, <1>6, <2>1, <2>2, <2>3
  <2> QED BY <1>5, <2>4
<1>10. hist[v[1]] = call /\ v[1] # 0 /\ v[1] <= k
  BY <1>1, <1>7 DEF call
<1>11. /\ start(Cur) + j - 1 = call.off + v[2]
       /\ ~(v[2] = 0 /\ x \in call.m1) /\ ~(v[2] = call.n - 1 /\ x \in call.mn)
  BY <1>4, <1>7, <1>8, <1>9
<1> QED BY <1>10, <1>11 DEF OkBit

\* Message m writes the block at hand, merged into its words as the memory has them.
Writes(m) ==
    /\ m.off = start(Cur) /\ m.len = length(Cur) /\ m.kind # "rd" /\ m.data \in Seq(Byte)
    /\ Len(m.data) = length(Cur) /\ DOMAIN m.data = 1..length(Cur)
    /\ \A j \in 1..length(Cur), x \in Bit :
           /\ start(Cur) + j - 1 \in Addr
           /\ m.data[j][x] = IF Mine(Cur, j, x) THEN <<k, Cur.s + j - headbytes(Cur) - 1>>
                                                ELSE mem[start(Cur) + j - 1][x]

\* The write that is composed of the block is such a message.
LEMMA ComposedWrites ==
    ASSUME Typed, pc # "idle", NEW t, NEW p, Composed(Cur, p, Before(Cur))
    PROVE  Writes(WriteMsg(t, Cur, p))
<1>1. mode \in Modes /\ Good(Cur)
  BY BlockAtHand
<1>2. start(Cur) \in Addr /\ length(Cur) \in 1..Size /\ start(Cur) + length(Cur) <= Size /\ Cur.n \in Nat
  BY <1>1, InsideMemory DEF Good, BlockType
<1>3. PICK st \in Nat, len \in Nat : st = start(Cur) /\ len = length(Cur) /\ st + len <= Size
  BY <1>2, Constants DEF Addr
<1>4. PICK m : m = WriteMsg(t, Cur, p)
  OBVIOUS
<1>5. m.off = st /\ m.len = len /\ m.kind # "rd" /\ m.data = p
  <2>1. mode.byteRes => totbytes(Cur) = len
    BY <1>1, <1>2, <1>3, InsideMemory DEF Good, BlockType
  <2>2. ~mode.byteRes => NWords(totbytes(Cur)) * W = len
    BY <1>3 DEF length
  <2> QED BY <1>3, <1>4, <2>1, <2>2 DEF WriteMsg, start
<1>6. p \in Seq(Byte) /\ Len(p) = len /\ DOMAIN p = 1..len
  BY <1>3, LenProperties DEF Composed
<1>7. ASSUME NEW j \in 1..len, NEW x \in Bit
      PROVE  /\ st + j - 1 \in Addr
             /\ p[j][x] = IF Mine(Cur, j, x) THEN <<k, Cur.s + j - headbytes(Cur) - 1>>
                                             ELSE mem[st + j - 1][x]
  <2>1. st + j - 1 \in Addr
    BY <1>3, Constants DEF Addr
  <2>2. Before(Cur)[j] = mem[st + j - 1]
    BY <1>3 DEF Before
  <2>3. p[j] = Mixed(Cur, j, Before(Cur)[j])
    BY <1>3 DEF Composed
  <2>4. p[j][x] = IF Mine(Cur, j, x) THEN <<k, Cur.s + j - headbytes(Cur) - 1>> ELSE Before(Cur)[j][x]
    BY <2>3 DEF Mixed
  <2> QED BY <2>1, <2>2, <2>4
<1>8. Writes(m)
  BY <1>3, <1>5, <1>6, <1>7 DEF Writes
<1> QED BY <1>4, <1>8

\* If no end is merged, all of the bits are to be written.
LEMMA AllMine ==
    ASSUME mode \in Modes, NEW b, Good(b), ~needFirst(b), ~needLast(b), NEW j \in 1..length(b), NEW x
    PROVE  Mine(b, j, x)
<1>1. b.m1 = {} /\ b.mn = {} /\ ~(headbytes(b) > 0) /\ (mode.byteRes \/ totbytes(b) % W = 0)
  BY DEF needFirst, needLast
<1>2. headbytes(b) = 0
  BY <1>1, BlockNumbers
<1>3. length(b) = b.n
  <2>1. length(b) = totbytes(b) /\ totbytes(b) = headbytes(b) + b.n /\ b.n \in Nat
    BY <1>1, Even, BlockNumbers
  <2> QED BY <1>2, <2>1
<1>4. j \in headbytes(b) + 1 .. headbytes(b) + b.n
  <2>1. b.n \in Nat
    BY BlockNumbers
  <2> QED BY <1>2, <1>3, <2>1
<1> QED BY <1>1, <1>4 DEF Mine

\* A bit that may have come from v was not written by a later call.
LEMMA NotLater ==
    ASSUME k \in Nat, NEW v, NEW a, NEW x, OkBit(v, a, x) PROVE v[1] <= k
BY DEF OkBit

\* A new write is as it should be.
LEMMA NewWrite ==
    ASSUME Typed, pc # "idle", NEW m, Writes(m), OkAll,
           needFirst(Cur) \/ needLast(Cur) => Quiet
    PROVE  /\ OkMsg(m) /\ Brings(Cur, m) /\ MemNotAfter(m)
           /\ \A i \in DOMAIN req : NotAfter(req[i], m)
<1>1. mode \in Modes /\ Good(Cur) /\ k \in 1..MaxCalls /\ k \in Nat
  BY BlockAtHand, Constants
<1>2. PICK st \in Nat, len \in Nat, h \in Nat, n \in Nat :
          /\ st = start(Cur) /\ len = length(Cur) /\ h = headbytes(Cur) /\ n = Cur.n /\ h + n <= len
  <2>1. start(Cur) \in Addr
    BY <1>1, InsideMemory DEF Good, BlockType
  <2> QED BY <1>1, <2>1, BlockNumbers, Constants DEF Addr
<1>3. /\ m.off = st /\ m.len = len /\ m.kind # "rd" /\ Len(m.data) = len /\ DOMAIN m.data = 1..len
      /\ \A j \in 1..len, x \in Bit :
           /\ st + j - 1 \in Addr
           /\ m.data[j][x] = IF Mine(Cur, j, x) THEN <<k, Cur.s + j - headbytes(Cur) - 1>>
                                                ELSE mem[st + j - 1][x]
  BY <1>2 DEF Writes
<1>4. ASSUME NEW j \in 1..len, NEW x \in Bit
      PROVE  /\ OkBit(m.data[j][x], st + j - 1, x)
             /\ mem[st + j - 1][x][1] <= m.data[j][x][1]
             /\ Mine(Cur, j, x) => m.data[j][x][1] = k
  <2>1. st + j - 1 \in Addr /\ OkBit(mem[st + j - 1][x], st + j - 1, x)
    BY <1>3 DEF OkAll
  <2>2. CASE Mine(Cur, j, x)
    <3>1. PICK v : v = <<k, Cur.s + j - headbytes(Cur) - 1>> /\ m.data[j][x] = v
      BY <1>3, <2>2
    <3>2. OkBit(v, start(Cur) + j - 1, x)
      BY <2>2, <3>1, MineOk
    <3>3. mem[st + j - 1][x][1] <= k
      BY <1>1, <2>1, NotLater
    <3>4. v[1] = k
      BY <3>1
    <3> QED BY <1>2, <3>1, <3>2, <3>3, <3>4
  <2>3. CASE ~Mine(Cur, j, x)
    <3>1. m.data[j][x] = mem[st + j - 1][x]
      BY <1>3, <2>3
    <3>2. mem[st + j - 1] \in Byte
      BY <2>1 DEF Typed, TypeOK
    <3>3. mem[st + j - 1][x][1] \in Int
      BY <3>2 DEF Byte
    <3>4. mem[st + j - 1][x][1] <= mem[st + j - 1][x][1]
      BY <3>3
    <3> QED BY <2>1, <2>3, <3>1, <3>4
  <2> QED BY <2>2, <2>3
<1>5. OkMsg(m)
  BY <1>3, <1>4 DEF OkMsg
<1>6. Brings(Cur, m)
  <2>1. ASSUME NEW i \in 1..n, NEW x \in Bit, ~(i = 1 /\ x \in Cur.m1), ~(i = n /\ x \in Cur.mn)
        PROVE  m.data[h + i][x] = <<k, Cur.s + i - 1>>
    <3>1. h + i \in h + 1 .. h + n /\ h + i \in 1..len /\ (h + i = h + 1 => i = 1) /\ (h + i = h + n => i = n)
      BY <1>2
    <3>2. Mine(Cur, h + i, x)
      BY <1>2, <2>1, <3>1 DEF Mine
    <3>3. m.data[h + i][x] = <<k, Cur.s + (h + i) - headbytes(Cur) - 1>>
      BY <1>3, <3>1, <3>2
    <3>4. Cur.s + (h + i) - headbytes(Cur) - 1 = Cur.s + i - 1
      <4>1. Cur.s \in Nat
        BY <1>1, BlockNumbers
      <4> QED BY <1>2, <4>1
    <3> QED BY <3>3, <3>4
  <2> QED BY <1>2, <1>3, <2>1 DEF Brings
<1>7. ASSUME NEW a \in Addr, Hits(m, a)
      PROVE  /\ a - st + 1 \in 1..len /\ a = st + (a - st + 1) - 1
             /\ At(m, a) = m.data[a - st + 1]
  <2>1. a - st + 1 \in 1..len
    BY <1>3, <1>7 DEF Hits
  <2>2. a \in Int
    BY Constants DEF Addr
  <2>3. a = st + (a - st + 1) - 1
    BY <1>2, <2>2
  <2> QED BY <1>3, <2>1, <2>3 DEF At
<1>8. MemNotAfter(m)
  <2>1. ASSUME NEW a \in Addr, NEW x \in Bit, Hits(m, a) PROVE mem[a][x][1] <= At(m, a)[x][1]
    BY <1>4, <1>7, <2>1
  <2> QED BY <2>1 DEF MemNotAfter
<1>9. ASSUME NEW i \in DOMAIN req PROVE NotAfter(req[i], m)
  <2>1. CASE needFirst(Cur) \/ needLast(Cur)
    <3>1. req[i].kind = "rd"
      BY <2>1 DEF Quiet
    <3> QED BY <3>1 DEF NotAfter, Hits
  <2>2. CASE ~needFirst(Cur) /\ ~needLast(Cur)
    <3>1. ASSUME NEW a \in Addr, NEW x \in Bit, Hits(req[i], a), Hits(m, a)
          PROVE  At(req[i], a)[x][1] <= At(m, a)[x][1]
      <4>1. a - st + 1 \in 1..len /\ At(m, a) = m.data[a - st + 1]
        BY <1>7, <3>1
      <4>2. Mine(Cur, a - st + 1, x)
        BY <1>1, <1>2, <2>2, <4>1, AllMine
      <4>3. At(m, a)[x][1] = k
        BY <1>4, <4>1, <4>2
      <4>4. PICK l : l = a - req[i].off + 1
        OBVIOUS
      <4>5. l \in DOMAIN req[i].data /\ At(req[i], a) = req[i].data[l]
        BY <3>1, <4>4 DEF Hits, At
      <4>6. OkBit(req[i].data[l][x], req[i].off + l - 1, x)
        BY <4>5 DEF OkAll, OkMsg
      <4>7. req[i].data[l][x][1] <= k
        BY <1>1, <4>6, NotLater
      <4> QED BY <4>3, <4>5, <4>7
    <3> QED BY <3>1 DEF NotAfter
  <2> QED BY <2>1, <2>2
<1> QED BY <1>5, <1>6, <1>8, <1>9

\* A write that is asked for, given what the memory has where words are merged.
LEMMA Ready ==
    ASSUME Typed, pc # "idle", call.kind = "write", Uncollapsed, OkAll,
           NEW first, NEW last, Enough(Cur, first, last),
           needFirst(Cur) => Copy(FirstRead(Cur), first),
           (needLast(Cur) /\ ~needFirst(Cur)) \/ two(Cur) => Copy(LastRead(Cur), last),
           needFirst(Cur) \/ needLast(Cur) => Quiet,
           RequestWrite(first, last)
    PROVE  /\ pc' = "send" /\ tid' = Tid(2)
           /\ \E m : /\ xact' = [use |-> "write", msg |-> m] /\ m.tid = Tid(1) /\ m.door = "sync"
                     /\ OkMsg(m) /\ Brings(Cur, m) /\ MemNotAfter(m)
                     /\ \A i \in DOMAIN req : NotAfter(req[i], m)
<1>1. mode \in Modes /\ Good(Cur) /\ k \in 0..MaxCalls /\ mem \in [Addr -> Byte]
  BY BlockAtHand DEF Typed, TypeOK
<1>2. PICK p : p = payload(Cur, first, last)
  OBVIOUS
<1>3. Supplied(Cur, first, last, Before(Cur)) /\ ~Lost(Cur)
  BY <1>1, SuppliedNow, NothingLost
<1>4. Composed(Cur, p, Before(Cur))
  BY <1>1, <1>2, <1>3, PayloadComposed
<1>5. PICK m : m = WriteMsg(Tid(1), Cur, p)
  OBVIOUS
<1>6. Writes(m)
  BY <1>4, <1>5, ComposedWrites
<1>7. OkMsg(m) /\ Brings(Cur, m) /\ MemNotAfter(m) /\ \A i \in DOMAIN req : NotAfter(req[i], m)
  BY <1>6, NewWrite
<1>8. m.tid = Tid(1) /\ m.door = "sync"
  BY <1>5 DEF WriteMsg
<1>9. pc' = "send" /\ tid' = Tid(2) /\ xact' = [use |-> "write", msg |-> m]
  BY <1>2, <1>5 DEF RequestWrite, Request, Cur
<1> QED BY <1>7, <1>8, <1>9

\* What a read that is inside the memory asks for.
LEMMA ReadAsked ==
    ASSUME NEW a, IsRead(a), NEW d, NEW t, NEW e, e = ReadMsg(d, t, a)
    PROVE  e.door = d /\ e.tid = t /\ e.kind = "rd" /\ e.off = a.off /\ e.len = a.n /\ e.data = <<>>
BY DEF IsRead

\* Both readbacks are there.
LEMMA WaitReady ==
    ASSUME Typed, ReadBack, pc = "wait", pend = {}, ~failed
    PROVE  /\ Enough(Cur, got["first"], got["last"]) /\ Quiet /\ call.kind = "write"
           /\ Copy(FirstRead(Cur), got["first"]) /\ Copy(LastRead(Cur), got["last"])
<1>1. mode \in Modes /\ Good(Cur) /\ Fields /\ Pending /\ Lengths
  BY BlockAtHand, TypedParts
<1>2. call.kind = "write" /\ two(Cur)
  BY <1>1 DEF Pending
<1>3. Back("first") /\ Back("last")
  BY DEF Back
<1>4. Len(got["first"]) = NWords(FirstRead(Cur).n) * W /\ Len(got["last"]) = NWords(LastRead(Cur).n) * W
  BY <1>1, <1>3 DEF Lengths
<1>5. got["first"] \in Seq(Byte) /\ got["last"] \in Seq(Byte)
  BY <1>1 DEF Fields, Ends
<1>6. FirstRead(Cur).n \in Nat /\ LastRead(Cur).n \in Nat
  BY <1>1, FirstReads, LastReads DEF IsRead
<1>7. FirstRead(Cur).n <= Len(got["first"]) /\ LastRead(Cur).n <= Len(got["last"])
  BY <1>4, <1>6, Words
<1>8. Enough(Cur, got["first"], got["last"])
  BY <1>5, <1>7 DEF Enough
<1> QED BY <1>2, <1>3, <1>8 DEF ReadBack

\* The answer to a readback of the block at hand is what the memory has.
LEMMA ReadbackReady ==
    ASSUME Typed, Matched, pc = "await", xact.use = "readback", rsp["sync"] # <<>>,
           NEW r, r = Head(rsp["sync"]), r.tid = xact.msg.tid, r.words = NWords(xact.msg.len)
    PROVE  /\ Enough(Cur, r.data, r.data) /\ Quiet /\ ~two(Cur)
           /\ needFirst(Cur) \/ needLast(Cur)
           /\ Copy(SyncRead(Cur), r.data)
<1>1. mode \in Modes /\ Good(Cur) /\ Fields /\ Requested /\ QueuesOK
  BY BlockAtHand, TypedParts
<1>2. rsp["sync"] \in Seq(Answers) /\ \A i \in DOMAIN rsp["sync"] : AnswerOK(rsp["sync"][i])
  BY <1>1, QueuesHold DEF Door
<1>3. r = rsp["sync"][1] /\ 1 \in DOMAIN rsp["sync"]
  BY <1>2, QueueOps
<1>4. AnswerOK(r)
  BY <1>2, <1>3
<1>5. PICK e : e = xact.msg
  OBVIOUS
<1>6. /\ (needFirst(Cur) \/ needLast(Cur)) /\ ~two(Cur)
      /\ e = ReadMsg("sync", e.tid, SyncRead(Cur))
  BY <1>1, <1>5 DEF Requested
<1>7. IsRead(SyncRead(Cur))
  BY <1>1, FirstReads, LastReads DEF SyncRead
<1>8. PICK a : a = SyncRead(Cur)
  OBVIOUS
<1>9. e.door = "sync" /\ e.kind = "rd" /\ e.off = a.off /\ e.len = a.n /\ e.data = <<>>
  BY <1>6, <1>7, <1>8, ReadAsked
<1>10. AnswerMatch(e)
  BY <1>5 DEF Matched, Wanted
<1>11. Answered(e, r) /\ \A l \in DOMAIN req : Calm(e, req[l])
  BY <1>3, <1>5, <1>9, <1>10 DEF AnswerMatch
<1>12. Quiet
  BY <1>9, <1>11 DEF Quiet, Calm
<1>13. Copy(a, r.data)
  BY <1>9, <1>11 DEF Copy, Answered
<1>14. a.n \in Nat /\ a.n <= Len(r.data)
  <2>1. a.n \in Nat
    BY <1>7, <1>8 DEF IsRead
  <2>2. Len(r.data) = NWords(a.n) * W
    BY <1>4, <1>5, <1>9 DEF AnswerOK
  <2> QED BY <2>1, <2>2, Words
<1>15. Enough(Cur, r.data, r.data)
  <2>1. r.data \in Seq(Byte)
    BY <1>4 DEF AnswerOK, Answers
  <2>2. needFirst(Cur) => FirstRead(Cur).n <= Len(r.data)
    BY <1>8, <1>14 DEF SyncRead
  <2>3. ~needFirst(Cur) => LastRead(Cur).n <= Len(r.data)
    BY <1>8, <1>14 DEF SyncRead
  <2> QED BY <1>6, <2>1, <2>2, <2>3 DEF Enough
<1> QED BY <1>6, <1>8, <1>12, <1>13, <1>15

\* A step asks for a new write of the block at hand.
Asks ==
    /\ UNCHANGED <<mode, mem, req, hist, todo>> /\ pc # "idle" /\ call.kind = "write"
    /\ pc' = "send" /\ tid' = Tid(2)
    /\ \E m : /\ xact' = [use |-> "write", msg |-> m] /\ m.tid = Tid(1) /\ m.door = "sync"
              /\ OkMsg(m) /\ Brings(Cur, m) /\ MemNotAfter(m)
              /\ \A i \in DOMAIN req : NotAfter(req[i], m)

\* It does so in one of three places.
LEMMA WriteAsked ==
    ASSUME Typed, Matched, ReadBack, OkAll, Uncollapsed, Next, Writing'
    PROVE  Asks \/ (Writing /\ UNCHANGED <<mode, hist, todo, xact>>)
<1>1. CASE WriteBlock
  <2>1. pc = "block" /\ call.kind = "write" /\ UNCHANGED <<mode, mem, req, hist>> /\ NoXact' = NoXact
    BY <1>1 DEF WriteBlock, NoXact
  <2>2. /\ ~(needFirst(Cur) \/ needLast(Cur)) /\ RequestWrite(<<>>, <<>>) /\ todo' = todo
    <3>1. CASE Return(FALSE)
      BY <3>1 DEF Return, Writing
    <3>2. CASE \E m : Request("readback", m, 1)
      BY <3>2 DEF Request, Writing
    <3> QED BY <1>1, <3>1, <3>2 DEF WriteBlock, Cur
  <2>3. ~needFirst(Cur) /\ ~needLast(Cur) /\ ~two(Cur)
    BY <2>2 DEF two, both
  <2>4. Enough(Cur, <<>>, <<>>)
    BY <2>3, EmptySeq DEF Enough
  <2>5. Asks
    BY <2>1, <2>2, <2>3, <2>4, Ready DEF Asks
  <2> QED BY <2>5
<1>2. CASE Wait
  <2>1. pc = "wait" /\ pend = {} /\ UNCHANGED <<mode, mem, req, hist>>
    BY <1>2 DEF Wait, Settled
  <2>2. ~failed /\ RequestWrite(got["first"], got["last"]) /\ todo' = todo
    <3>1. CASE Return(FALSE)
      BY <3>1 DEF Return, Writing
    <3> QED BY <1>2, <3>1 DEF Wait
  <2>3. /\ Enough(Cur, got["first"], got["last"]) /\ Quiet /\ call.kind = "write"
        /\ Copy(FirstRead(Cur), got["first"]) /\ Copy(LastRead(Cur), got["last"])
    BY <2>1, <2>2, WaitReady
  <2>4. Asks
    BY <2>1, <2>2, <2>3, Ready DEF Asks
  <2> QED BY <2>4
<1>3. CASE Answer
  <2>1. pc = "await" /\ rsp["sync"] # <<>> /\ UNCHANGED <<mode, mem, req, hist>>
    BY <1>3 DEF Answer
  <2>2. PICK r : r = Head(rsp["sync"])
    OBVIOUS
  <2>3. CASE ~tidMatch(r.tid, xact.msg.tid)
    <3>1. UNCHANGED <<pc, todo, xact>>
      BY <1>3, <2>2, <2>3 DEF Answer
    <3> QED BY <2>1, <3>1 DEF Writing
  <2>4. CASE tidMatch(r.tid, xact.msg.tid)
    <3>1. Complete(r)
      BY <1>3, <2>2, <2>4 DEF Answer
    <3>2. NextBlock => pc' \notin {"send", "await"}
      BY DEF NextBlock, Return
    <3>3. Return(FALSE) => pc' \notin {"send", "await"}
      BY DEF Return
    <3>4. r.words = NWords(xact.msg.len)
      BY <3>1, <3>3 DEF Complete, Writing
    <3>5. xact.use \in {"read", "readback", "write"}
      BY <2>1, TypedParts DEF Requested
    <3>6. xact.use = "readback"
      BY <3>1, <3>2, <3>4, <3>5 DEF Complete, Writing
    <3>7. RequestWrite(r.data, r.data) /\ todo' = todo
      BY <3>1, <3>4, <3>6 DEF Complete
    <3>8. /\ Enough(Cur, r.data, r.data) /\ Quiet /\ ~two(Cur)
          /\ needFirst(Cur) \/ needLast(Cur)
          /\ Copy(SyncRead(Cur), r.data)
      BY <2>1, <2>2, <2>4, <3>4, <3>6, ReadbackReady DEF tidMatch
    <3>9. call.kind = "write"
      BY <2>1, <3>6, TypedParts DEF Requested
    <3>10. /\ needFirst(Cur) => Copy(FirstRead(Cur), r.data)
           /\ (needLast(Cur) /\ ~needFirst(Cur)) \/ two(Cur) => Copy(LastRead(Cur), r.data)
      BY <3>8 DEF SyncRead
    <3>11. Asks
      BY <2>1, <3>7, <3>8, <3>9, <3>10, Ready DEF Asks
    <3> QED BY <3>11
  <2> QED BY <2>3, <2>4
<1>4. CASE Send
  <2>1. pc = "send" /\ UNCHANGED <<mode, hist>>
    BY <1>4 DEF Send
  <2>2. NextBlock => pc' \notin {"send", "await"}
    BY DEF NextBlock, Return
  <2>3. UNCHANGED <<todo, xact>>
    BY <1>4, <2>2 DEF Send, Writing
  <2> QED BY <2>1, <2>3 DEF Writing
<1>5. CASE Timeout
  <2>1. pc = "await" /\ UNCHANGED <<mode, hist>>
    BY <1>5 DEF Timeout
  <2>2. Return(FALSE) => pc' \notin {"send", "await"}
    BY DEF Return
  <2>3. UNCHANGED <<todo, xact>>
    BY <1>5, <2>2 DEF Timeout, Writing
  <2> QED BY <2>1, <2>3 DEF Writing
<1>6. CASE AsyncAnswer \/ AsyncTimeout \/ Serve \/ Refuse \/ LoseRequest \/ LoseAnswer
  <2>1. UNCHANGED <<mode, hist, pc, todo, xact>>
    BY <1>6 DEF AsyncAnswer, AsyncTimeout, Serve, Refuse, LoseRequest, LoseAnswer
  <2> QED BY <2>1 DEF Writing
<1>7. CASE ReadBlock \/ PostFirst \/ PostLast \/ \E c \in Calls : Begin(c)
  <2>1. CASE ReadBlock
    BY <2>1 DEF ReadBlock, Request, Writing
  <2>2. CASE PostFirst \/ PostLast
    BY <2>2 DEF PostFirst, PostLast, Post, Writing
  <2>3. CASE \E c \in Calls : Begin(c)
    BY <2>3 DEF Begin, Writing
  <2> QED BY <1>7, <2>1, <2>2, <2>3
<1> QED BY <1>1, <1>2, <1>3, <1>4, <1>5, <1>6, <1>7 DEF Next, Client

-----------------------------------------------------------------------------
(* What a step does to the queue, the memory and the calls (OkData).        *)

\* What the queue of requests becomes: some of the first ones are gone, or message m is added.
Shorter == \E s \in Nat : \A i \in DOMAIN req' : i \in Nat /\ i + s \in DOMAIN req /\ req'[i] = req[i + s]
Longer(m) ==
    /\ DOMAIN req \subseteq Nat
    /\ \A i \in DOMAIN req : req'[i] = req[i]
    /\ \E n \in Nat : /\ n \in DOMAIN req' /\ req'[n] = m
                      /\ \A i \in DOMAIN req' : i = n \/ (i \in DOMAIN req /\ i < n)

\* The first request is gone, or all are still there.
LEMMA GetsShorter ==
    ASSUME req \in Seq(Msg), req' = req \/ (req # <<>> /\ req' = Tail(req)) PROVE Shorter
<1>1. CASE req' = req
  <2>1. \A i \in DOMAIN req : i \in Nat /\ i + 0 = i
    BY LenProperties
  <2> QED BY <1>1, <2>1 DEF Shorter
<1>2. CASE req # <<>> /\ req' = Tail(req)
  <2>1. \A i \in DOMAIN Tail(req) : i + 1 \in DOMAIN req /\ Tail(req)[i] = req[i + 1]
    BY <1>2, QueueOps
  <2>2. \A i \in DOMAIN Tail(req) : i \in Nat
    <3>1. Tail(req) \in Seq(Msg)
      BY <1>2, QueueOps
    <3> QED BY <3>1, LenProperties
  <2> QED BY <1>2, <2>1, <2>2 DEF Shorter
<1> QED BY <1>1, <1>2

\* A request is added.
LEMMA GetsLonger ==
    ASSUME req \in Seq(Msg), NEW m \in Msg, req' = Append(req, m) PROVE Longer(m)
<1>1. PICK n \in Nat : n = Len(req) + 1 /\ DOMAIN req = 1..n-1
  <2>1. Len(req) \in Nat /\ DOMAIN req = 1..Len(req)
    BY LenProperties
  <2> QED BY <2>1
<1>2. /\ DOMAIN req' = 1..Len(req) + 1 /\ req'[Len(req) + 1] = m
      /\ \A i \in DOMAIN req : req'[i] = req[i]
  BY QueueOps
<1>3. DOMAIN req' = 1..n /\ req'[n] = m /\ n \in DOMAIN req'
  <2>1. n \in 1..n
    BY <1>1, LenProperties
  <2> QED BY <1>1, <1>2, <2>1
<1>4. \A i \in DOMAIN req' : i = n \/ (i \in DOMAIN req /\ i < n)
  BY <1>1, <1>3
<1>5. DOMAIN req \subseteq Nat
  BY <1>1
<1> QED BY <1>2, <1>3, <1>4, <1>5 DEF Longer

\* A readback that is posted is added.
LEMMA PostGets ==
    ASSUME Typed, PostFirst \/ PostLast, NEW part, NEW a, NEW next, Post(part, a, next),
           a = FirstRead(Cur) \/ a = LastRead(Cur), NEW m, m = ReadMsg("async", Tid(1), a)
    PROVE  m.data = <<>> /\ m.kind = "rd" /\ m.door = "async" /\ m.tid = Tid(1) /\ m \in Msg /\ Longer(m)
<1>1. req \in Seq(Msg) /\ mode \in Modes /\ tid \in 0..TidMod-1
  BY DEF Typed, TypeOK
<1>2. Good(Cur)
  BY BlockAtHand DEF PostFirst, PostLast
<1>3. IsRead(a)
  BY <1>1, <1>2, FirstReads, LastReads
<1>4. m.data = <<>> /\ m.kind = "rd" /\ m.door = "async" /\ m.tid = Tid(1)
  BY DEF ReadMsg
<1>5. m \in Msg
  BY <1>1, <1>3, TidTyped, MessagesTyped DEF Door
<1>6. req' = Append(req, m)
  BY DEF Post
<1>7. Longer(m)
  BY <1>1, <1>5, <1>6, GetsLonger
<1> QED BY <1>4, <1>5, <1>7

\* What a step does to the requests.
LEMMA RequestsGo ==
    ASSUME Typed, Next
    PROVE  \/ Shorter
           \/ Send /\ pc = "send" /\ xact.msg \in Msg /\ Longer(xact.msg)
           \/ \E part, a, next : /\ Post(part, a, next) /\ (PostFirst \/ PostLast)
                                 /\ ReadMsg("async", Tid(1), a).data = <<>>
                                 /\ ReadMsg("async", Tid(1), a).kind = "rd"
                                 /\ Longer(ReadMsg("async", Tid(1), a))
<1>1. req \in Seq(Msg) /\ mode \in Modes /\ tid \in 0..TidMod-1
  BY DEF Typed, TypeOK
<1>2. CASE req' = req \/ (req # <<>> /\ req' = Tail(req))
  BY <1>1, <1>2, GetsShorter
<1>3. ASSUME Send PROVE pc = "send" /\ xact.msg \in Msg /\ Longer(xact.msg)
  <2>1. pc = "send" /\ req' = Append(req, xact.msg)
    BY <1>3 DEF Send
  <2>2. xact.msg \in Msg
    BY <2>1, TypedParts DEF Requested
  <2> QED BY <1>1, <2>1, <2>2, GetsLonger
<1>4. ASSUME PostFirst \/ PostLast
      PROVE  \E part, a, next : /\ Post(part, a, next)
                                 /\ ReadMsg("async", Tid(1), a).data = <<>>
                                 /\ ReadMsg("async", Tid(1), a).kind = "rd"
                                 /\ Longer(ReadMsg("async", Tid(1), a))
  <2>1. PICK part, a, next : Post(part, a, next) /\ (a = FirstRead(Cur) \/ a = LastRead(Cur))
    BY <1>4 DEF PostFirst, PostLast, Cur
  <2>2. PICK m : m = ReadMsg("async", Tid(1), a)
    OBVIOUS
  <2>3. m.data = <<>> /\ m.kind = "rd" /\ Longer(m)
    BY <1>4, <2>1, <2>2, PostGets
  <2> QED BY <1>4, <2>1, <2>2, <2>3
<1>5. ASSUME \/ AsyncAnswer \/ AsyncTimeout \/ Serve \/ Refuse \/ LoseRequest \/ LoseAnswer
             \/ Answer \/ Timeout \/ Wait \/ ReadBlock \/ WriteBlock \/ \E c \in Calls : Begin(c)
      PROVE  req' = req \/ (req # <<>> /\ req' = Tail(req))
  BY <1>5 DEF AsyncAnswer, AsyncTimeout, Serve, Refuse, LoseRequest, LoseAnswer, Answer, Timeout,
              Wait, ReadBlock, WriteBlock, Begin
<1> QED BY <1>2, <1>3, <1>4, <1>5 DEF Next, Client

\* The device stores message m.
Stores(m) ==
    /\ Serve /\ m.kind # "rd" /\ m = Head(req) /\ m = req[1] /\ 1 \in DOMAIN req
    /\ DOMAIN mem' = Addr
    /\ \A a \in Addr : mem'[a] = IF Accepted(m) /\ Hits(m, a) THEN At(m, a) ELSE mem[a]

\* It does so with the first request, if that is a write.
LEMMA ServeStores ==
    ASSUME Typed, Serve, NEW m, m = Head(req), m.kind # "rd" PROVE Stores(m)
<1>1. req # <<>> /\ req \in Seq(Msg)
  BY DEF Serve, Typed, TypeOK
<1>2. m = req[1] /\ 1 \in DOMAIN req
  BY <1>1, QueueOps
<1>3. mem' = [a \in Addr |-> IF Accepted(m) /\ a - m.off + 1 \in DOMAIN m.data
                             THEN m.data[a - m.off + 1] ELSE mem[a]]
  BY DEF Serve
<1> QED BY <1>2, <1>3 DEF Stores, Hits, At

\* Nothing else changes the memory.
LEMMA MemoryGoes ==
    ASSUME Typed, Next PROVE mem' = mem \/ \E m : Stores(m)
<1>1. CASE Serve
  <2>1. PICK m : m = Head(req)
    OBVIOUS
  <2>2. CASE m.kind = "rd"
    BY <1>1, <2>1, <2>2 DEF Serve
  <2>3. CASE m.kind # "rd"
    BY <1>1, <2>1, <2>3, ServeStores
  <2> QED BY <2>2, <2>3
<1>2. CASE ~Serve
  BY <1>2 DEF Next, Client, Begin, ReadBlock, WriteBlock, PostFirst, PostLast, Post, Wait, Send, Answer,
              Timeout, AsyncAnswer, AsyncTimeout, Refuse, LoseRequest, LoseAnswer
<1> QED BY <1>1, <1>2

\* The calls, and the configuration.
LEMMA CallsGo ==
    ASSUME Next PROVE mode' = mode /\ (hist' = hist \/ \E c \in Calls : Begin(c))
BY DEF Next, Client, Begin, ReadBlock, WriteBlock, PostFirst, PostLast, Post, Wait, Send, Answer,
       Timeout, AsyncAnswer, AsyncTimeout, Serve, Refuse, LoseRequest, LoseAnswer

\* What a bit may have come from stays the same during a call.
LEMMA SameOk ==
    ASSUME hist' = hist
    PROVE  /\ \A v, a, x : OkBit(v, a, x)' = OkBit(v, a, x)
           /\ \A m : OkMsg(m)' = OkMsg(m)
<1>1. \A v, a, x : OkBit(v, a, x)' = OkBit(v, a, x)
  BY DEF OkBit, k
<1> QED BY <1>1 DEF OkMsg

\* The same of what a write brings.
LEMMA SameBrings ==
    ASSUME hist' = hist, mode' = mode, NEW b, NEW m
    PROVE  Brings(b, m)' = Brings(b, m)
<1>1. headbytes(b)' = headbytes(b) /\ k' = k
  BY SameMode DEF k
<1> QED BY <1>1 DEF Brings

\* And when another call is made.
LEMMA MoreCalls ==
    ASSUME Typed, NEW c \in Calls, hist' = Append(hist, c), NEW v \in (0..MaxCalls) \X Nat, NEW a, NEW x,
           OkBit(v, a, x)
    PROVE  OkBit(v, a, x)'
<1>1. hist \in Seq(Calls) /\ k \in Nat /\ k' = k + 1
  <2>1. hist \in Seq(Calls)
    BY DEF Typed, TypeOK
  <2> QED BY <2>1, QueueOps DEF k
<1>2. v[1] \in Nat
  BY Constants
<1>3. CASE v[1] = 0
  BY <1>3 DEF OkBit
<1>4. CASE v[1] # 0
  <2>1. v[1] <= k
    BY <1>4 DEF OkBit
  <2>2. v[1] \in DOMAIN hist
    <3>1. DOMAIN hist = 1..k
      BY <1>1, LenProperties DEF k
    <3> QED BY <1>1, <1>2, <1>4, <2>1, <3>1
  <2>3. hist'[v[1]] = hist[v[1]]
    BY <1>1, <2>2, QueueOps
  <2>4. v[1] <= k'
    BY <1>1, <1>2, <2>1
  <2> QED BY <1>4, <2>3, <2>4 DEF OkBit
<1> QED BY <1>3, <1>4

\* A request at hand that is no write is a read.
LEMMA UseKind ==
    ASSUME Typed, pc \in {"send", "await"}
    PROVE  /\ xact.use # "write" => xact.msg.kind = "rd" /\ xact.msg.data = <<>>
           /\ xact.use = "write" => /\ xact.msg.kind = (IF mode.posted THEN "pwr" ELSE "wr")
                                    /\ xact.msg.off = start(Cur) /\ call.kind = "write"
           /\ call.kind = "read" => xact.use = "read"
           /\ xact.msg.door = "sync" /\ xact.msg \in Msg
<1>1. Requested
  BY TypedParts
<1>2. PICK e, t, p : e = xact.msg /\ t = e.tid /\ p = e.data
  OBVIOUS
<1>3. xact.use \in {"read", "readback", "write"} /\ e \in Msg
  BY <1>1, <1>2 DEF Requested
<1>4. CASE xact.use = "read"
  <2>1. e = ReadMsg("sync", t, Cur)
    BY <1>1, <1>2, <1>4 DEF Requested
  <2>2. e.kind = "rd" /\ e.data = <<>> /\ e.door = "sync"
    BY <2>1 DEF ReadMsg
  <2> QED BY <1>2, <1>3, <1>4, <2>2
<1>5. CASE xact.use = "readback"
  <2>1. e = ReadMsg("sync", t, SyncRead(Cur)) /\ call.kind = "write"
    BY <1>1, <1>2, <1>5 DEF Requested
  <2>2. e.kind = "rd" /\ e.data = <<>> /\ e.door = "sync"
    BY <2>1 DEF ReadMsg
  <2> QED BY <1>2, <1>3, <1>5, <2>1, <2>2
<1>6. CASE xact.use = "write"
  <2>1. e = WriteMsg(t, Cur, p) /\ call.kind = "write"
    BY <1>1, <1>2, <1>6 DEF Requested
  <2>2. e.kind = (IF mode.posted THEN "pwr" ELSE "wr") /\ e.door = "sync" /\ e.off = start(Cur)
    BY <2>1 DEF WriteMsg, start
  <2> QED BY <1>2, <1>3, <1>6, <2>1, <2>2
<1> QED BY <1>3, <1>4, <1>5, <1>6

\* The bits of a message.
LEMMA BitTyped ==
    ASSUME Typed
    PROVE  /\ \A a \in Addr, x \in Bit : mem[a][x] \in (0..MaxCalls) \X Nat
           /\ \A i \in DOMAIN req : \A j \in DOMAIN req[i].data, x \in Bit :
                  req[i].data[j][x] \in (0..MaxCalls) \X Nat
<1>1. mem \in [Addr -> Byte] /\ req \in Seq(Msg)
  BY DEF Typed, TypeOK
<1>2. ASSUME NEW i \in DOMAIN req, NEW j \in DOMAIN req[i].data PROVE req[i].data[j] \in Byte
  <2>1. req[i] \in Msg
    BY <1>1, QueueOps
  <2>2. req[i].data \in Seq(Byte)
    BY <2>1 DEF Msg
  <2> QED BY <2>2, QueueOps
<1> QED BY <1>1, <1>2 DEF Byte

\* Nothing that should not be there gets into the memory or under way.
LEMMA OkAllStep ==
    ASSUME Typed, OkData, Next PROVE OkAll'
<1>1. OkAll /\ (Writing => OkMsg(xact.msg))
  BY DEF OkData
<1>2. CASE \E c \in Calls : Begin(c)
  <2>1. PICK c \in Calls : hist' = Append(hist, c) /\ mem' = mem /\ req' = req
    BY <1>2 DEF Begin
  <2>2. ASSUME NEW a \in Addr, NEW x \in Bit PROVE OkBit(mem[a][x], a, x)'
    <3>1. PICK v : v = mem[a][x]
      OBVIOUS
    <3>2. v \in (0..MaxCalls) \X Nat /\ OkBit(v, a, x)
      BY <1>1, <3>1, BitTyped DEF OkAll
    <3>3. OkBit(v, a, x)'
      BY <2>1, <3>2, MoreCalls
    <3> QED BY <2>1, <3>1, <3>3
  <2>3. ASSUME NEW i \in DOMAIN req, NEW j \in DOMAIN req[i].data, NEW x \in Bit
        PROVE  OkBit(req[i].data[j][x], req[i].off + j - 1, x)'
    <3>1. PICK v, a : v = req[i].data[j][x] /\ a = req[i].off + j - 1
      OBVIOUS
    <3>2. v \in (0..MaxCalls) \X Nat /\ OkBit(v, a, x)
      BY <1>1, <3>1, BitTyped DEF OkAll, OkMsg
    <3>3. OkBit(v, a, x)'
      BY <2>1, <3>2, MoreCalls
    <3> QED BY <2>1, <3>1, <3>3
  <2> QED BY <2>1, <2>2, <2>3 DEF OkAll, OkMsg
<1>3. CASE hist' = hist
  <2>1. (\A v, a, x : OkBit(v, a, x)' = OkBit(v, a, x)) /\ (\A m : OkMsg(m)' = OkMsg(m))
    BY <1>3, SameOk
  <2>2. ASSUME NEW a \in Addr, NEW x \in Bit PROVE OkBit(mem'[a][x], a, x)
    <3>1. CASE mem' = mem
      BY <1>1, <3>1 DEF OkAll
    <3>2. CASE \E m : Stores(m)
      <4>1. PICK m : Stores(m)
        BY <3>2
      <4>2. OkMsg(m)
        BY <1>1, <4>1 DEF OkAll, Stores
      <4>3. CASE Accepted(m) /\ Hits(m, a)
        <5>1. PICK l : l = a - m.off + 1
          OBVIOUS
        <5>2. l \in DOMAIN m.data /\ mem'[a] = m.data[l]
          BY <4>1, <4>3, <5>1 DEF Stores, Hits, At
        <5>3. OkBit(m.data[l][x], m.off + l - 1, x)
          BY <4>2, <5>2 DEF OkMsg
        <5>4. m.off + l - 1 = a
          <6>1. m \in Msg
            <7>1. req \in Seq(Msg) /\ m = req[1] /\ 1 \in DOMAIN req
              BY <4>1 DEF Typed, TypeOK, Stores
            <7> QED BY <7>1, QueueOps
          <6>2. m.off \in Int /\ a \in Int
            BY <6>1, Constants DEF Msg, Addr
          <6> QED BY <5>1, <6>2
        <5> QED BY <5>2, <5>3, <5>4
      <4>4. CASE ~(Accepted(m) /\ Hits(m, a))
        BY <1>1, <4>1, <4>4 DEF Stores, OkAll
      <4> QED BY <4>3, <4>4
    <3> QED BY <3>1, <3>2, MemoryGoes
  <2>3. ASSUME NEW i \in DOMAIN req' PROVE OkMsg(req'[i])
    <3>1. CASE Shorter
      BY <1>1, <3>1 DEF Shorter, OkAll
    <3>2. CASE pc = "send" /\ Longer(xact.msg)
      <4>1. OkMsg(xact.msg)
        <5>1. CASE xact.use = "write"
          BY <1>1, <3>2, <5>1 DEF Writing
        <5>2. CASE xact.use # "write"
          BY <3>2, <5>2, UseKind DEF OkMsg
        <5> QED BY <5>1, <5>2
      <4> QED BY <1>1, <3>2, <4>1 DEF Longer, OkAll
    <3>3. CASE \E m : m.data = <<>> /\ Longer(m)
      <4>1. PICK m : m.data = <<>> /\ Longer(m)
        BY <3>3
      <4>2. OkMsg(m)
        BY <4>1 DEF OkMsg
      <4> QED BY <1>1, <4>1, <4>2 DEF Longer, OkAll
    <3> QED BY <3>1, <3>2, <3>3, RequestsGo
  <2> QED BY <2>1, <2>2, <2>3 DEF OkAll
<1> QED BY <1>2, <1>3, CallsGo

\* What is to be written is as it should be, and all of the block.
LEMMA OkDataStep ==
    ASSUME Typed, OkData, Matched, ReadBack, Uncollapsed, Next PROVE OkData'
<1>1. OkAll'
  BY OkAllStep
<1>2. ASSUME Writing' PROVE OkMsg(xact.msg)' /\ Brings(Cur, xact.msg)'
  <2>1. OkAll
    BY DEF OkData
  <2>2. CASE Asks
    <3>1. PICK m : xact' = [use |-> "write", msg |-> m] /\ OkMsg(m) /\ Brings(Cur, m)
      BY <2>2 DEF Asks
    <3>2. hist' = hist /\ mode' = mode /\ Cur' = Cur /\ xact'.msg = m
      BY <2>2, <3>1, SameBlock DEF Asks
    <3>3. OkMsg(m)' /\ Brings(Cur, m)'
      BY <3>1, <3>2, SameOk, SameBrings
    <3> QED BY <3>2, <3>3
  <2>3. CASE Writing /\ UNCHANGED <<mode, hist, todo, xact>>
    <3>1. OkMsg(xact.msg) /\ Brings(Cur, xact.msg) /\ Cur' = Cur
      BY <2>3, SameBlock DEF OkData
    <3>2. PICK m : m = xact.msg
      OBVIOUS
    <3>3. OkMsg(m)' /\ Brings(Cur, m)'
      BY <2>3, <3>1, <3>2, SameOk, SameBrings
    <3> QED BY <2>3, <3>2, <3>3
  <2> QED BY <1>2, <2>1, <2>2, <2>3, WriteAsked
<1> QED BY <1>1, <1>2 DEF OkData

-----------------------------------------------------------------------------
(* What is stored last is never older (Monotone).                           *)

\* A read changes nothing.
LEMMA ReadsNothing ==
    ASSUME NEW m, m.kind = "rd"
    PROVE  MemNotAfter(m) /\ MemNotAfter(m)' /\ \A w : NotAfter(m, w) /\ NotAfter(w, m)
BY DEF MemNotAfter, NotAfter, Hits

\* A message is not after itself.
LEMMA NotAfterItself ==
    ASSUME NEW m \in Msg PROVE NotAfter(m, m)
<1>1. ASSUME NEW a \in Addr, NEW x \in Bit, Hits(m, a) PROVE At(m, a)[x][1] <= At(m, a)[x][1]
  <2>1. PICK l : l = a - m.off + 1
    OBVIOUS
  <2>2. l \in DOMAIN m.data /\ At(m, a) = m.data[l]
    BY <1>1, <2>1 DEF Hits, At
  <2>3. m.data \in Seq(Byte)
    BY DEF Msg
  <2>4. m.data[l] \in Byte
    BY <2>2, <2>3, QueueOps
  <2>5. At(m, a)[x][1] \in Int
    BY <2>2, <2>4 DEF Byte
  <2> QED BY <2>5
<1> QED BY <1>1 DEF NotAfter

\* The memory stays before a message, when what is stored is.
LEMMA MemStays ==
    ASSUME NEW w, MemNotAfter(w), NEW m, Stores(m), NotAfter(m, w) PROVE MemNotAfter(w)'
<1>1. ASSUME NEW a \in Addr, NEW x \in Bit, Hits(w, a) PROVE mem'[a][x][1] <= At(w, a)[x][1]
  <2>1. CASE Accepted(m) /\ Hits(m, a)
    BY <1>1, <2>1 DEF Stores, NotAfter
  <2>2. CASE ~(Accepted(m) /\ Hits(m, a))
    BY <1>1, <2>2 DEF Stores, MemNotAfter
  <2> QED BY <2>1, <2>2
<1> QED BY <1>1 DEF MemNotAfter

\* No message has what is older than what it meets in the memory, when a message is stored.
LEMMA MonotoneStores ==
    ASSUME Typed, Monotone, NEW m, Stores(m) PROVE Monotone'
<1>1. req \in Seq(Msg) /\ req # <<>> /\ req' = Tail(req) /\ UNCHANGED <<pc, xact>>
  BY DEF Typed, TypeOK, Stores, Serve
<1>2. \A i \in DOMAIN req' : i \in Nat /\ i >= 1 /\ i + 1 \in DOMAIN req /\ req'[i] = req[i + 1]
  <2>1. \A i \in DOMAIN Tail(req) : i + 1 \in DOMAIN req /\ Tail(req)[i] = req[i + 1]
    BY <1>1, QueueOps
  <2>2. \A i \in DOMAIN Tail(req) : i \in Nat /\ i >= 1
    <3>1. Tail(req) \in Seq(Msg)
      BY <1>1, QueueOps
    <3> QED BY <3>1, LenProperties
  <2> QED BY <1>1, <2>1, <2>2
<1>3. m = req[1] /\ 1 \in DOMAIN req
  BY DEF Stores
<1>4. ASSUME NEW i \in DOMAIN req' PROVE MemNotAfter(req[i])'
  <2>1. PICK w : w = req[i + 1]
    OBVIOUS
  <2>2. 1 < i + 1 /\ i + 1 \in DOMAIN req
    BY <1>2
  <2>3. NotAfter(m, w) /\ MemNotAfter(w)
    BY <1>3, <2>1, <2>2 DEF Monotone
  <2>4. MemNotAfter(w)'
    BY <2>3, MemStays
  <2> QED BY <1>2, <2>1, <2>4
<1>5. ASSUME NEW i \in DOMAIN req', NEW l \in DOMAIN req', i < l PROVE NotAfter(req'[i], req'[l])
  <2>1. i + 1 < l + 1 /\ i + 1 \in DOMAIN req /\ l + 1 \in DOMAIN req
    BY <1>2, <1>5
  <2> QED BY <1>2, <2>1 DEF Monotone
<1>6. ASSUME Writing PROVE MemNotAfter(xact.msg)' /\ \A i \in DOMAIN req' : NotAfter(req'[i], xact'.msg)
  <2>1. PICK w : w = xact.msg
    OBVIOUS
  <2>2. MemNotAfter(w) /\ \A i \in DOMAIN req : NotAfter(req[i], w)
    BY <1>6, <2>1 DEF Monotone
  <2>3. MemNotAfter(w)'
    BY <1>3, <2>2, MemStays
  <2> QED BY <1>1, <1>2, <2>1, <2>2, <2>3
<1>7. Writing' = Writing
  BY <1>1 DEF Writing
<1> QED BY <1>4, <1>5, <1>6, <1>7 DEF Monotone

\* Nor when a message is sent or asked for.
LEMMA MonotoneStep ==
    ASSUME Typed, OkData, Monotone, Matched, ReadBack, Uncollapsed, Next PROVE Monotone'
<1>1. CASE \E m : Stores(m)
  BY <1>1, MonotoneStores
<1>2. CASE mem' = mem
  <2>1. \A w : MemNotAfter(w)' = MemNotAfter(w)
    BY <1>2 DEF MemNotAfter
  <2>2. \A i \in DOMAIN req : MemNotAfter(req[i])
    BY DEF Monotone
  <2>3. \A i, l \in DOMAIN req : i < l => NotAfter(req[i], req[l])
    BY DEF Monotone
  <2>4. Writing => MemNotAfter(xact.msg) /\ \A i \in DOMAIN req : NotAfter(req[i], xact.msg)
    BY DEF Monotone
  <2>5. CASE Shorter
    <3>1. PICK s \in Nat : \A i \in DOMAIN req' : i \in Nat /\ i + s \in DOMAIN req /\ req'[i] = req[i + s]
      BY <2>5 DEF Shorter
    <3>2. \A i \in DOMAIN req' : MemNotAfter(req'[i])
      BY <2>2, <3>1
    <3>3. ASSUME NEW i \in DOMAIN req', NEW l \in DOMAIN req', i < l PROVE NotAfter(req'[i], req'[l])
      <4>1. i + s < l + s
        BY <3>1, <3>3
      <4> QED BY <2>3, <3>1, <4>1
    <3>4. ASSUME Writing' PROVE MemNotAfter(xact'.msg) /\ \A i \in DOMAIN req' : NotAfter(req'[i], xact'.msg)
      <4>1. CASE Asks
        BY <4>1 DEF Asks
      <4>2. CASE Writing /\ xact' = xact
        BY <2>4, <3>1, <4>2
      <4> QED BY <3>4, <4>1, <4>2, WriteAsked DEF OkData
    <3>5. \A i \in DOMAIN req' : MemNotAfter(req[i])'
      BY <2>1, <3>2
    <3>6. Writing' => MemNotAfter(xact.msg)'
      BY <2>1, <3>4
    <3> QED BY <3>3, <3>4, <3>5, <3>6 DEF Monotone
  <2>6. ASSUME NEW m \in Msg, Longer(m), MemNotAfter(m), \A i \in DOMAIN req : NotAfter(req[i], m),
               Writing' => Writing /\ xact' = xact /\ NotAfter(m, xact.msg)
        PROVE  Monotone'
    <3>1. PICK n \in Nat : /\ n \in DOMAIN req' /\ req'[n] = m
                           /\ \A i \in DOMAIN req' : i = n \/ (i \in DOMAIN req /\ i < n)
      BY <2>6 DEF Longer
    <3>2. (\A i \in DOMAIN req : req'[i] = req[i]) /\ DOMAIN req \subseteq Nat
      BY <2>6 DEF Longer
    <3>3. ASSUME NEW i \in DOMAIN req' PROVE MemNotAfter(req'[i])
      BY <2>2, <2>6, <3>1, <3>2
    <3>4. ASSUME NEW i \in DOMAIN req', NEW l \in DOMAIN req', i < l PROVE NotAfter(req'[i], req'[l])
      <4>1. CASE l = n
        <5>1. i # n
          BY <3>1, <3>4, <4>1
        <5>2. i \in DOMAIN req
          BY <3>1, <5>1
        <5> QED BY <2>6, <3>1, <3>2, <4>1, <5>2
      <4>2. CASE l # n
        <5>1. l \in DOMAIN req /\ l < n /\ l \in Nat
          BY <3>1, <3>2, <4>2
        <5>2. i \in DOMAIN req
          <6>1. i # n
            BY <3>4, <5>1
          <6> QED BY <3>1, <6>1
        <5> QED BY <2>3, <3>2, <3>4, <5>1, <5>2
      <4> QED BY <4>1, <4>2
    <3>5. ASSUME Writing' PROVE MemNotAfter(xact'.msg) /\ \A i \in DOMAIN req' : NotAfter(req'[i], xact'.msg)
      BY <2>4, <2>6, <3>1, <3>2, <3>5
    <3>6. \A i \in DOMAIN req' : MemNotAfter(req[i])'
      BY <2>1, <3>3
    <3>7. Writing' => MemNotAfter(xact.msg)'
      BY <2>1, <3>5
    <3> QED BY <3>4, <3>5, <3>6, <3>7 DEF Monotone
  <2>7. CASE Send /\ pc = "send" /\ xact.msg \in Msg /\ Longer(xact.msg)
    <3>1. MemNotAfter(xact.msg) /\ \A i \in DOMAIN req : NotAfter(req[i], xact.msg)
      <4>1. CASE xact.use = "write"
        BY <2>4, <2>7, <4>1 DEF Writing
      <4>2. CASE xact.use # "write"
        BY <2>7, <4>2, UseKind, ReadsNothing
      <4> QED BY <4>1, <4>2
    <3>2. Writing' => Writing /\ xact' = xact
      <4>1. NextBlock => pc' \notin {"send", "await"}
        BY DEF NextBlock, Return
      <4> QED BY <2>7, <4>1 DEF Send, Writing
    <3>3. NotAfter(xact.msg, xact.msg)
      BY <2>7, NotAfterItself
    <3> QED BY <2>6, <2>7, <3>1, <3>2, <3>3
  <2>8. ASSUME NEW part, NEW a, NEW next, Post(part, a, next), PostFirst \/ PostLast,
               ReadMsg("async", Tid(1), a).kind = "rd", Longer(ReadMsg("async", Tid(1), a))
        PROVE  Monotone'
    <3>1. PICK m : m = ReadMsg("async", Tid(1), a)
      OBVIOUS
    <3>2. MemNotAfter(m) /\ (\A i \in DOMAIN req : NotAfter(req[i], m))
      BY <2>8, <3>1, ReadsNothing
    <3>3. ~Writing'
      BY <2>8 DEF PostFirst, PostLast, Post, Writing
    <3>4. m \in Msg
      <4>1. req' \in Seq(Msg)
        BY TypedStep DEF Typed, TypeOK
      <4>2. \E n \in DOMAIN req' : req'[n] = m
        BY <2>8, <3>1 DEF Longer
      <4> QED BY <4>1, <4>2, QueueOps
    <3> QED BY <2>6, <2>8, <3>1, <3>2, <3>3, <3>4
  <2> QED BY <2>5, <2>7, <2>8, RequestsGo
<1> QED BY <1>1, <1>2, MemoryGoes

-----------------------------------------------------------------------------
(* What was read back (ReadBack).                                           *)

\* While nothing under way changes the memory, it stays the same, and it stays so unless a
\* write is sent.
LEMMA QuietStays ==
    ASSUME Typed, Quiet, Next, ~(Send /\ xact.use = "write") PROVE Quiet' /\ mem' = mem
<1>1. mem' = mem
  BY MemoryGoes DEF Stores, Quiet
<1>2. CASE Shorter
  BY <1>1, <1>2 DEF Shorter, Quiet
<1>3. CASE \E m : m.kind = "rd" /\ Longer(m)
  BY <1>1, <1>3 DEF Longer, Quiet
<1>4. CASE Send /\ pc = "send" /\ Longer(xact.msg)
  <2>1. xact.msg.kind = "rd"
    BY <1>4, UseKind
  <2> QED BY <1>1, <1>4, <2>1 DEF Longer, Quiet
<1> QED BY <1>2, <1>3, <1>4, RequestsGo

\* A copy stays one, as long as the memory is the same.
LEMMA SameCopy ==
    ASSUME mem' = mem, NEW a, NEW d PROVE Copy(a, d)' = Copy(a, d)
BY DEF Copy

\* What was read back is what the memory has, when readback p is answered by r.
LEMMA AnswerBack ==
    ASSUME Typed, Matched, NEW p \in pend, NEW r, rsp["async"] # <<>>, r = Head(rsp["async"]),
           r.tid = p.tid, r.words = p.words
    PROVE  Quiet /\ Copy(AsyncRead(p), r.data)
<1>1. Fields /\ Pending /\ QueuesOK /\ mode \in Modes
  BY TypedParts DEF Fields
<1>2. pc \in {"postLast", "wait"} /\ p.words = NWords(AsyncRead(p).n)
  BY <1>1 DEF Pending
<1>3. Good(Cur)
  BY <1>2, BlockAtHand
<1>4. IsRead(AsyncRead(p))
  BY <1>1, <1>3, FirstReads, LastReads DEF AsyncRead
<1>5. PICK a, e : a = AsyncRead(p) /\ e = ReadMsg("async", p.tid, a)
  OBVIOUS
<1>6. e.door = "async" /\ e.tid = p.tid /\ e.kind = "rd" /\ e.off = a.off /\ e.len = a.n
  BY <1>4, <1>5, ReadAsked
<1>7. e = AsyncMsg(p)
  BY <1>5 DEF AsyncMsg
<1>8. AnswerMatch(e)
  BY <1>7 DEF Matched, Wanted
<1>9. r = rsp["async"][1] /\ 1 \in DOMAIN rsp["async"]
  <2>1. rsp["async"] \in Seq(Answers)
    BY <1>1 DEF QueuesOK, Door
  <2> QED BY <2>1, QueueOps
<1>10. Answered(e, r) /\ \A l \in DOMAIN req : Calm(e, req[l])
  BY <1>2, <1>5, <1>6, <1>8, <1>9 DEF AnswerMatch
<1>11. Quiet
  BY <1>6, <1>10 DEF Quiet, Calm
<1>12. Copy(a, r.data)
  BY <1>6, <1>10 DEF Copy, Answered
<1> QED BY <1>5, <1>11, <1>12

\* What was read back is what the memory has, until the write is asked for.
LEMMA ReadBackStep ==
    ASSUME Typed, ReadBack, Matched, Next PROVE ReadBack'
<1>1. SUFFICES ASSUME pc' \in {"postLast", "wait"} PROVE ReadBack'
  BY DEF ReadBack
<1>2. mode' = mode
  BY CallsGo
<1>3. CASE PostFirst
  <2>1. /\ pc' = "postLast" /\ \E p \in pend' : p.part = "first"
    <3>1. PICK p : p = [part |-> "first", tid |-> Tid(1), words |-> NWords(FirstRead(Cur).n)]
      OBVIOUS
    <3>2. pc' = "postLast" /\ p \in pend' /\ p.part = "first"
      BY <1>3, <3>1 DEF PostFirst, Post, Cur
    <3> QED BY <3>2
  <2>2. ~Back("first")'
    BY <2>1 DEF Back
  <2> QED BY <2>1, <2>2 DEF ReadBack
<1>4. CASE PostLast
  <2>1. /\ pc = "postLast" /\ pc' = "wait" /\ UNCHANGED <<got, todo, failed, mem>> /\ pend \subseteq pend'
        /\ \E p \in pend' : p.part = "last"
    <3>1. PICK p : p = [part |-> "last", tid |-> Tid(1), words |-> NWords(LastRead(Cur).n)]
      OBVIOUS
    <3>2. p \in pend' /\ p.part = "last"
      BY <1>4, <3>1 DEF PostLast, Post, Cur
    <3>3. pc = "postLast" /\ pc' = "wait" /\ UNCHANGED <<got, todo, failed, mem>> /\ pend \subseteq pend'
      BY <1>4 DEF PostLast, Post
    <3> QED BY <3>2, <3>3
  <2>2. ~Back("last")' /\ (Back("first")' => Back("first"))
    BY <2>1 DEF Back
  <2>3. Cur' = Cur /\ FirstRead(Cur)' = FirstRead(Cur)
    BY <1>2, <2>1, SameBlock, SameMode
  <2>4. ASSUME Back("first") PROVE Quiet' /\ Copy(FirstRead(Cur), got["first"])'
    <3>1. Quiet /\ Copy(FirstRead(Cur), got["first"])
      BY <2>1, <2>4 DEF ReadBack
    <3>2. ~Send
      BY <2>1 DEF Send
    <3>3. Quiet'
      BY <3>1, <3>2, QuietStays
    <3> QED BY <2>1, <2>3, <3>1, <3>3, SameCopy
  <2> QED BY <2>1, <2>2, <2>4 DEF ReadBack
<1>5. ASSUME UNCHANGED <<pc, todo, req, mem>>,
             \A part \in Ends : Back(part)' => \/ Back(part) /\ got'[part] = got[part]
                                               \/ Quiet /\ Copy(IF part = "first" THEN FirstRead(Cur) ELSE LastRead(Cur), got'[part])
      PROVE  ReadBack'
  <2>1. /\ Cur' = Cur /\ FirstRead(Cur)' = FirstRead(Cur) /\ LastRead(Cur)' = LastRead(Cur)
        /\ \A a, d : Copy(a, d)' = Copy(a, d)
        /\ Quiet' = Quiet
    BY <1>2, <1>5, SameBlock, SameMode, SameCopy DEF Quiet
  <2>2. ASSUME pc \in {"postLast", "wait"}, Back("first")' PROVE Quiet /\ Copy(FirstRead(Cur), got'["first"])
    <3>1. "first" \in Ends
      BY DEF Ends
    <3> QED BY <1>5, <2>2, <3>1 DEF ReadBack
  <2>3. ASSUME pc = "wait", Back("last")' PROVE Quiet /\ Copy(LastRead(Cur), got'["last"])
    <3>1. "last" \in Ends
      BY DEF Ends
    <3> QED BY <1>5, <2>3, <3>1 DEF ReadBack
  <2>4. Copy(FirstRead(Cur), got["first"])' = Copy(FirstRead(Cur), got'["first"])
    BY <2>1
  <2>5. Copy(LastRead(Cur), got["last"])' = Copy(LastRead(Cur), got'["last"])
    BY <2>1
  <2> QED BY <1>5, <2>1, <2>2, <2>3, <2>4, <2>5 DEF ReadBack
<1>6. CASE AsyncTimeout
  <2>1. failed' = TRUE /\ UNCHANGED <<pc, todo, req, mem>>
    BY <1>6 DEF AsyncTimeout
  <2>2. \A part : ~Back(part)'
    BY <2>1 DEF Back
  <2> QED BY <1>5, <2>1, <2>2
<1>7. CASE AsyncAnswer
  <2>1. UNCHANGED <<pc, todo, req, mem>> /\ rsp["async"] # <<>>
    BY <1>7 DEF AsyncAnswer
  <2>2. CASE UNCHANGED <<pend, got, failed>>
    <3>1. \A part \in Ends : Back(part)' => Back(part) /\ got'[part] = got[part]
      BY <2>2 DEF Back
    <3> QED BY <1>5, <2>1, <3>1
  <2>3. CASE ~UNCHANGED <<pend, got, failed>>
    <3>1. PICK r : r = Head(rsp["async"])
      OBVIOUS
    <3>2. PICK p \in pend : /\ p.tid = r.tid /\ pend' = pend \ {p}
                            /\ IF r.words = p.words
                               THEN got' = [got EXCEPT ![p.part] = r.data] /\ UNCHANGED failed
                               ELSE failed' = TRUE /\ UNCHANGED got
      BY <1>7, <2>3, <3>1 DEF AsyncAnswer, tidMatch
    <3>3. CASE r.words # p.words
      <4>1. \A part : ~Back(part)'
        BY <3>2, <3>3 DEF Back
      <4> QED BY <1>5, <2>1, <4>1
    <3>4. CASE r.words = p.words
      <4>1. Quiet /\ Copy(AsyncRead(p), r.data)
        BY <2>1, <3>1, <3>2, <3>4, AnswerBack
      <4>2. DOMAIN got = Ends
        BY DEF Typed, TypeOK
      <4>3. got' = [got EXCEPT ![p.part] = r.data] /\ failed' = failed /\ pend' = pend \ {p}
        BY <3>2, <3>4
      <4>4. ASSUME NEW part \in Ends, Back(part)'
            PROVE  \/ Back(part) /\ got'[part] = got[part]
                   \/ Quiet /\ Copy(IF part = "first" THEN FirstRead(Cur) ELSE LastRead(Cur), got'[part])
        <5>1. CASE part = p.part
          <6>1. got'[part] = r.data
            BY <4>2, <4>3, <5>1
          <6>2. AsyncRead(p) = IF part = "first" THEN FirstRead(Cur) ELSE LastRead(Cur)
            BY <5>1 DEF AsyncRead
          <6> QED BY <4>1, <6>1, <6>2
        <5>2. CASE part # p.part
          <6>1. got'[part] = got[part]
            BY <4>2, <4>3, <5>2
          <6>2. Back(part)
            BY <4>3, <4>4, <5>2 DEF Back
          <6> QED BY <6>1, <6>2
        <5> QED BY <5>1, <5>2
      <4> QED BY <1>5, <2>1, <4>4
    <3> QED BY <3>3, <3>4
  <2> QED BY <2>2, <2>3
<1>8. CASE Serve \/ Refuse \/ LoseRequest \/ LoseAnswer
  <2>1. UNCHANGED <<pc, todo, pend, got, failed>>
    BY <1>8 DEF Serve, Refuse, LoseRequest, LoseAnswer
  <2>2. ~Send
    BY <1>1, <2>1 DEF Send
  <2>3. Quiet => Quiet' /\ mem' = mem
    BY <2>2, QuietStays
  <2>4. Cur' = Cur /\ FirstRead(Cur)' = FirstRead(Cur) /\ LastRead(Cur)' = LastRead(Cur)
    BY <1>2, <2>1, SameBlock, SameMode
  <2>5. \A part : Back(part)' = Back(part)
    BY <2>1 DEF Back
  <2>6. ASSUME pc \in {"postLast", "wait"}, Back("first") PROVE Quiet' /\ Copy(FirstRead(Cur), got["first"])'
    <3>1. Quiet /\ Copy(FirstRead(Cur), got["first"])
      BY <2>6 DEF ReadBack
    <3> QED BY <2>1, <2>3, <2>4, <3>1, SameCopy
  <2>7. ASSUME pc = "wait", Back("last") PROVE Quiet' /\ Copy(LastRead(Cur), got["last"])'
    <3>1. Quiet /\ Copy(LastRead(Cur), got["last"])
      BY <2>7 DEF ReadBack
    <3> QED BY <2>1, <2>3, <2>4, <3>1, SameCopy
  <2> QED BY <2>1, <2>5, <2>6, <2>7 DEF ReadBack
<1>9. (NextBlock \/ Return(FALSE) \/ (\E use, m, n : Request(use, m, n))) => pc' \notin {"postLast", "wait"}
  BY DEF NextBlock, Return, Request
<1>10. ~(\E c \in Calls : Begin(c)) /\ ~ReadBlock /\ ~WriteBlock /\ ~Wait /\ ~Send /\ ~Answer /\ ~Timeout
  <2>1. ~(\E c \in Calls : Begin(c))
    BY <1>1 DEF Begin
  <2>2. ~ReadBlock /\ ~WriteBlock /\ ~Wait
    BY <1>1, <1>9 DEF ReadBlock, WriteBlock, RequestWrite, Wait
  <2>3. ~Send /\ ~Timeout
    BY <1>1, <1>9 DEF Send, Timeout
  <2>4. ~Answer
    <3>1. SUFFICES ASSUME Answer PROVE FALSE
      OBVIOUS
    <3>2. pc = "await" /\ xact.use \in {"read", "readback", "write"}
      BY <3>1, TypedParts DEF Answer, Requested
    <3>3. PICK r : r = Head(rsp["sync"])
      OBVIOUS
    <3>4. Complete(r) \/ pc' = pc
      BY <3>1, <3>3 DEF Answer
    <3>5. Complete(r) => NextBlock \/ Return(FALSE) \/ RequestWrite(r.data, r.data)
      BY <3>2 DEF Complete
    <3>6. RequestWrite(r.data, r.data) => \E use, m, n : Request(use, m, n)
      BY DEF RequestWrite
    <3> QED BY <1>1, <1>9, <3>2, <3>4, <3>5, <3>6
  <2> QED BY <2>1, <2>2, <2>3, <2>4
<1> QED BY <1>3, <1>4, <1>6, <1>7, <1>8, <1>10 DEF Next, Client

-----------------------------------------------------------------------------
(* What a read has returned (ReadSoFar).                                    *)

\* The numbers of the block at hand.
LEMMA CurNumbers ==
    ASSUME Typed, pc # "idle"
    PROVE  /\ todo.s \in Nat /\ Cur.n \in Nat /\ Cur.n >= 1 /\ headbytes(Cur) \in Nat
           /\ start(Cur) \in Nat /\ start(Cur) + headbytes(Cur) = call.off + todo.s
           /\ length(Cur) \in Nat /\ headbytes(Cur) + Cur.n <= length(Cur)
           /\ call.off \in Nat /\ call.n \in Nat /\ todo.s + Cur.n <= call.n
           /\ Cur.s = todo.s /\ start(Cur) + length(Cur) <= Size
           /\ call.off + call.n <= Size /\ Done = todo.s
<1>1. mode \in Modes /\ Good(todo) /\ Good(Cur) /\ call.off \in Nat /\ call.n \in Nat /\ call.off + call.n <= Size
  BY BlockAtHand
<1>2. Cur.off = todo.off /\ Cur.s = todo.s /\ Cur.n <= todo.n
  BY <1>1, FirstBlock DEF Cur
<1>3. todo.off = call.off + todo.s /\ todo.s + todo.n = call.n /\ todo.s \in Nat /\ todo.n \in Nat
  BY TypedParts DEF Left, BlockType
<1>4. start(Cur) \in Addr /\ start(Cur) + headbytes(Cur) = Cur.off /\ start(Cur) + length(Cur) <= Size
  BY <1>1, InsideMemory DEF Good, BlockType
<1>5. /\ Cur.n \in Nat /\ Cur.n >= 1 /\ headbytes(Cur) \in Nat /\ length(Cur) \in Nat
      /\ headbytes(Cur) + Cur.n <= length(Cur)
  BY <1>1, BlockNumbers
<1>6. start(Cur) \in Nat
  BY <1>4, Constants DEF Addr
<1>7. todo.s + Cur.n <= call.n
  BY <1>2, <1>3, <1>5
<1>8. Done = todo.s
  BY DEF Done
<1> QED BY <1>1, <1>2, <1>3, <1>4, <1>5, <1>6, <1>7, <1>8

\* When a block is done, its bytes are.
LEMMA DoneNext ==
    ASSUME Typed, pc # "idle", NextBlock, hist' = hist
    PROVE  Done' = todo.s + Cur.n /\ (Whole(todo) => todo.s + Cur.n = call.n)
<1>1. mode \in Modes /\ Good(todo)
  BY BlockAtHand
<1>2. todo.s + todo.n = call.n
  BY TypedParts DEF Left
<1>3. CASE Whole(todo)
  <2>1. pc' = "idle" /\ ok' = TRUE
    BY <1>3 DEF NextBlock, Return
  <2>2. call' = call /\ Cur = todo
    BY <1>1, <1>3, FirstBlock DEF call, k, Cur
  <2>3. Done' = call.n
    BY <2>1, <2>2 DEF Done
  <2> QED BY <1>2, <2>2, <2>3
<1>4. CASE ~Whole(todo)
  <2>1. todo' = Rest(todo) /\ pc' = "block"
    BY <1>4 DEF NextBlock
  <2>2. Rest(todo).s = todo.s + Cur.n
    BY <1>1, <1>4, RestBlock DEF Cur
  <2>3. Done' = todo'.s
    BY <2>1 DEF Done
  <2> QED BY <1>4, <2>1, <2>2, <2>3
<1> QED BY <1>3, <1>4

\* Sequence z is o followed by d, or by a slice of d.
Joined(z, o, d) == z = o \o d
IsJoined(z, o, d) ==
    /\ Len(z) = Len(o) + Len(d)
    /\ \A i \in 1..Len(o) : z[i] = o[i]
    /\ \A i \in 1..Len(d) : z[Len(o) + i] = d[i]
Extended(z, o, d, h, n) == z = o \o Slice(d, h, n)
IsExtended(z, o, d, h, n) ==
    /\ Len(z) = Len(o) + n
    /\ \A i \in 1..Len(o) : z[i] = o[i]
    /\ \A i \in 1..n : z[Len(o) + i] = d[h + i]

\* Two sequences, one after the other.
LEMMA TwoParts ==
    ASSUME NEW S, NEW o \in Seq(S), NEW d \in Seq(S), NEW q, Joined(q, o, d)
    PROVE  IsJoined(q, o, d)
<1>1. Len(o) \in Nat /\ Len(d) \in Nat
  BY LenProperties
<1>2. q \in Seq(S) /\ Len(q) = Len(o) + Len(d)
      /\ \A i \in 1..(Len(o) + Len(d)) : q[i] = IF i <= Len(o) THEN o[i] ELSE d[i - Len(o)]
  BY ConcatProperties DEF Joined
<1>3. \A i \in 1..Len(o) : q[i] = o[i]
  BY <1>1, <1>2
<1>4. ASSUME NEW i \in 1..Len(d) PROVE q[Len(o) + i] = d[i]
  <2>1. Len(o) + i \in 1..(Len(o) + Len(d)) /\ ~(Len(o) + i <= Len(o)) /\ (Len(o) + i) - Len(o) = i
    BY <1>1
  <2> QED BY <1>2, <2>1
<1> QED BY <1>2, <1>3, <1>4 DEF IsJoined

\* A slice of q is added to o.
LEMMA AppendSlice ==
    ASSUME NEW S, NEW o \in Seq(S), NEW q \in Seq(S), NEW h \in Nat, NEW n \in Nat, h + n <= Len(q),
           NEW z, Extended(z, o, q, h, n)
    PROVE  IsExtended(z, o, q, h, n)
<1>1. PICK d : d = Slice(q, h, n)
  OBVIOUS
<1>2. d \in Seq(S) /\ Len(d) = n /\ \A i \in 1..n : d[i] = q[h + i]
  <2>1. Len(q) \in Nat /\ n \in Int /\ n <= Len(q) - h /\ n >= 0
    BY LenProperties
  <2> QED BY <1>1, <2>1, Part
<1>3. Joined(z, o, d)
  BY <1>1 DEF Extended, Joined
<1>4. IsJoined(z, o, d)
  <2>1. d \in Seq(S)
    BY <1>2
  <2> QED BY <1>3, <2>1, TwoParts
<1>5. \A i \in 1..n : z[Len(o) + i] = q[h + i]
  BY <1>2, <1>4 DEF IsJoined
<1> QED BY <1>2, <1>4, <1>5 DEF IsJoined, IsExtended

\* The bytes of the block at hand are taken from answer r.
Taken(r) == out' = out \o SubSeq(r.data, headbytes(Cur) + 1, headbytes(Cur) + Cur.n)

\* What the answer to a read adds is what the memory has.
LEMMA ReadAnswer ==
    ASSUME Typed, Matched, ReadSoFar, pc = "await", xact.use = "read", rsp["sync"] # <<>>,
           NEW r, r = Head(rsp["sync"]), r.tid = xact.msg.tid, r.words = NWords(xact.msg.len),
           Taken(r), NextBlock, UNCHANGED <<mode, mem, req, hist>>
    PROVE  ReadSoFar'
<1>1. mode \in Modes /\ Good(Cur) /\ Fields /\ Requested /\ QueuesOK /\ k >= 1 /\ out \in Seq(Byte)
  BY BlockAtHand, TypedParts DEF Fields
<1>2. r = rsp["sync"][1] /\ 1 \in DOMAIN rsp["sync"] /\ AnswerOK(r)
  <2>1. rsp["sync"] \in Seq(Answers) /\ \A i \in DOMAIN rsp["sync"] : AnswerOK(rsp["sync"][i])
    BY <1>1, QueuesHold DEF Door
  <2> QED BY <2>1, QueueOps
<1>3. PICK s \in Nat, n \in Nat, h \in Nat, st \in Nat, len \in Nat, co \in Nat :
          /\ s = todo.s /\ n = Cur.n /\ n >= 1 /\ h = headbytes(Cur) /\ st = start(Cur) /\ st + h = co + s
          /\ len = length(Cur) /\ h + n <= len /\ co = call.off
  BY CurNumbers
<1>4. call.kind = "read" /\ xact.msg.kind = "rd" /\ xact.msg.door = "sync" /\ xact.msg.off = st /\ xact.msg.len = len
  <2>1. PICK e, t : e = xact.msg /\ t = xact.msg.tid
    OBVIOUS
  <2>2. call.kind = "read" /\ e = ReadMsg("sync", t, Cur)
    BY <1>1, <2>1 DEF Requested
  <2>3. ~mode.byteRes => NWords(totbytes(Cur)) * W = len
    BY <1>3 DEF length
  <2>4. mode.byteRes => Cur.n = len
    BY <1>3 DEF length
  <2>5. e.kind = "rd" /\ e.door = "sync" /\ e.off = st /\ e.len = len
    BY <1>3, <2>2, <2>3, <2>4 DEF ReadMsg, start
  <2> QED BY <2>1, <2>2, <2>5
<1>5. Answered(xact.msg, r) /\ \A l \in DOMAIN req : Calm(xact.msg, req[l])
  <2>1. PICK e : e = xact.msg
    OBVIOUS
  <2>2. AnswerMatch(e)
    BY <2>1 DEF Matched, Wanted
  <2> QED BY <1>2, <1>4, <2>1, <2>2 DEF AnswerMatch
<1>6. Quiet
  BY <1>4, <1>5 DEF Quiet, Calm
<1>7. \A i \in 1..len : r.data[i] = mem[st + i - 1]
  BY <1>4, <1>5 DEF Answered
<1>8. r.data \in Seq(Byte) /\ h + n <= Len(r.data)
  <2>1. r.data \in Seq(Byte) /\ Len(r.data) \in Nat
    BY <1>2, LenProperties DEF AnswerOK, Answers
  <2>2. len <= Len(r.data)
    <3>1. len <= NWords(len) * W /\ NWords(len) * W \in Nat
      BY <1>3, Words
    <3>2. Len(r.data) = NWords(len) * W
      BY <1>2, <1>4 DEF AnswerOK
    <3> QED BY <3>1, <3>2
  <2>3. PICK z \in Nat : z = Len(r.data)
    BY <2>1
  <2>4. h + n <= z
    <3>1. h + n <= len /\ len <= z /\ z \in Nat
      BY <1>3, <2>2, <2>3, Zenon
    <3> QED BY <3>1
  <2> QED BY <2>1, <2>3, <2>4
<1>9. ASSUME NEW i \in 1..n PROVE h + i \in 1..len /\ st + (h + i) - 1 = co + (s + i) - 1
  <2>1. h + n <= len /\ st + h = co + s
    BY <1>3
  <2> QED BY <2>1
<1>10. ASSUME NEW i \in 1..n PROVE r.data[h + i] = mem[co + (s + i) - 1]
  BY <1>7, <1>9
<1>11. Len(out) = s /\ \A i \in 1..s : out[i] = mem[co + i - 1]
  <2>1. Len(out) = Done /\ \A i \in 1..Done : out[i] = mem[call.off + i - 1]
    BY <1>1, <1>4 DEF ReadSoFar
  <2>2. Done = s
    BY <1>3 DEF Done
  <2> QED BY <1>3, <2>1, <2>2
<1>12. out' = out \o Slice(r.data, h, n)
  BY <1>3 DEF Slice, Taken
<1>13. /\ Len(out') = s + n
       /\ \A i \in 1..s : out'[i] = out[i]
       /\ \A i \in 1..n : out'[s + i] = r.data[h + i]
  <2>1. PICK z : z = out'
    OBVIOUS
  <2>2. PICK q : q = r.data
    OBVIOUS
  <2>3. out \in Seq(Byte) /\ q \in Seq(Byte) /\ h + n <= Len(q) /\ Len(out) = s /\ Extended(z, out, q, h, n)
    BY <1>1, <1>8, <1>11, <1>12, <2>1, <2>2 DEF Extended
  <2>4. IsExtended(z, out, q, h, n)
    BY <1>3, <2>3, AppendSlice
  <2> QED BY <2>1, <2>2, <2>3, <2>4 DEF IsExtended
<1>14. ASSUME NEW i \in 1..s + n PROVE out'[i] = mem[co + i - 1]
  <2>1. i \in 1..s \/ \E l \in 1..n : i = s + l
    <3>1. i \in 1..s \/ (i - s \in 1..n /\ i = s + (i - s))
      OBVIOUS
    <3> QED BY <3>1
  <2> QED BY <1>10, <1>11, <1>13, <2>1
<1>15. Done' = s + n
  BY <1>3, DoneNext
<1>16. Quiet' /\ call' = call
  BY <1>6 DEF Quiet, call, k
<1> QED BY <1>3, <1>13, <1>14, <1>15, <1>16 DEF ReadSoFar

\* What a read has returned stays what the memory has.
LEMMA ReadSoFarStep ==
    ASSUME Typed, Matched, ReadSoFar, Next PROVE ReadSoFar'
<1>1. CASE \E c \in Calls : Begin(c)
  <2>1. PICK c \in Calls : Begin(c)
    BY <1>1
  <2>2. /\ out' = <<>> /\ hist' = Append(hist, c) /\ pc' = (IF c.n = 0 THEN "idle" ELSE "block")
        /\ todo' = IF c.n = 0 THEN NoBlock
                   ELSE [off |-> c.off, n |-> c.n, s |-> 0, m1 |-> c.m1, mn |-> c.mn]
    BY <2>1 DEF Begin
  <2>3. call' = c
    <3>1. hist \in Seq(Calls)
      BY DEF Typed, TypeOK
    <3> QED BY <2>2, <3>1, QueueOps DEF call, k
  <2>4. Done' = 0
    <3>1. CASE c.n = 0
      BY <2>2, <2>3, <3>1 DEF Done
    <3>2. CASE c.n # 0
      BY <2>2, <3>2 DEF Done
    <3> QED BY <3>1, <3>2
  <2>5. Len(out') = 0
    BY <2>2, EmptySeq
  <2> QED BY <2>4, <2>5 DEF ReadSoFar
<1>2. CASE hist' = hist
  <2>1. SUFFICES ASSUME k >= 1, call.kind = "read", pc' = "idle" => ok' PROVE ReadSoFar'
    BY <1>2 DEF ReadSoFar, call, k
  <2>2. ASSUME UNCHANGED out, Done' = Done, pc = "idle" => ok, ~(Send /\ xact.use = "write")
        PROVE  ReadSoFar'
    <3>1. /\ Len(out) = Done /\ (Done > 0 => Quiet)
          /\ \A i \in 1..Done : out[i] = mem[call.off + i - 1]
      BY <2>1, <2>2 DEF ReadSoFar
    <3>2. Quiet => Quiet' /\ mem' = mem
      BY <2>2, QuietStays
    <3>3. call' = call
      BY <1>2 DEF call, k
    <3>4. ASSUME NEW i \in 1..Done PROVE out'[i] = mem'[call.off + i - 1]
      <4>1. Done > 0
        <5>1. Done \in Nat
          <6>1. out \in Seq(Byte)
            BY DEF Typed, TypeOK
          <6> QED BY <3>1, <6>1, LenProperties
        <5> QED BY <5>1
      <4> QED BY <2>2, <3>1, <3>2, <4>1
    <3> QED BY <2>2, <3>1, <3>2, <3>3, <3>4 DEF ReadSoFar
  <2>3. CASE pc = "idle"
    <3>1. UNCHANGED <<pc, out, ok>> /\ ~Send
      <4>1. \/ AsyncAnswer \/ AsyncTimeout \/ Serve \/ Refuse \/ LoseRequest \/ LoseAnswer \/ \E c \in Calls : Begin(c)
        BY <2>3 DEF Next, Client, ReadBlock, WriteBlock, PostFirst, PostLast, Wait, Send, Answer, Timeout
      <4>2. ~\E c \in Calls : Begin(c)
        <5>1. SUFFICES ASSUME NEW c \in Calls, hist' = Append(hist, c) PROVE FALSE
          BY DEF Begin
        <5>2. hist \in Seq(Calls)
          BY DEF Typed, TypeOK
        <5>3. Len(hist) \in Nat /\ Len(Append(hist, c)) = Len(hist) + 1
          BY <5>2, QueueOps
        <5> QED BY <1>2, <5>1, <5>3
      <4> QED BY <2>3, <4>1, <4>2 DEF AsyncAnswer, AsyncTimeout, Serve, Refuse, LoseRequest, LoseAnswer, Send
    <3>2. Done' = Done
      BY <1>2, <2>3, <3>1 DEF Done, call, k
    <3> QED BY <2>1, <2>2, <3>1, <3>2
  <2>4. CASE pc # "idle"
    <3>1. ASSUME UNCHANGED <<out, todo>>, pc' # "idle", ~(Send /\ xact.use = "write") PROVE ReadSoFar'
      <4>1. Done' = Done
        BY <2>4, <3>1 DEF Done
      <4> QED BY <2>2, <2>4, <3>1, <4>1
    <3>2. Pending /\ Requested
      BY TypedParts
    <3>3. ~WriteBlock /\ ~PostFirst /\ ~PostLast /\ ~Wait
      BY <2>1, <3>2 DEF WriteBlock, PostFirst, PostLast, Wait, Pending
    <3>4. Return(FALSE) => FALSE
      BY <2>1 DEF Return
    <3>5. CASE ReadBlock
      BY <3>1, <3>5 DEF ReadBlock, Request, Send
    <3>6. CASE Send
      <4>1. pc = "send"
        BY <3>6 DEF Send
      <4>2. xact.use = "read" /\ xact.msg.kind = "rd"
        BY <2>1, <4>1, UseKind
      <4> QED BY <3>1, <3>6, <4>2 DEF Send
    <3>7. CASE Timeout
      BY <3>1, <3>4, <3>7 DEF Timeout, Send
    <3>8. CASE Answer
      <4>1. pc = "await" /\ rsp["sync"] # <<>> /\ UNCHANGED <<mode, mem, req, hist>>
        BY <3>8 DEF Answer
      <4>2. xact.use = "read"
        BY <2>1, <4>1, UseKind
      <4>3. PICK r : r = Head(rsp["sync"])
        OBVIOUS
      <4>4. CASE ~tidMatch(r.tid, xact.msg.tid)
        BY <2>4, <3>1, <3>8, <4>1, <4>3, <4>4 DEF Answer, Send
      <4>5. CASE tidMatch(r.tid, xact.msg.tid)
        <5>1. Complete(r)
          BY <3>8, <4>3, <4>5 DEF Answer
        <5>2. r.words = NWords(xact.msg.len)
          BY <3>4, <5>1 DEF Complete
        <5>3. NextBlock /\ Taken(r)
          BY <4>2, <5>1, <5>2 DEF Complete, Cur, Taken
        <5> QED BY <4>1, <4>2, <4>3, <4>5, <5>2, <5>3, ReadAnswer DEF tidMatch
      <4> QED BY <4>4, <4>5
    <3>9. CASE AsyncAnswer \/ AsyncTimeout \/ Serve \/ Refuse \/ LoseRequest \/ LoseAnswer
      <4>1. UNCHANGED <<out, todo, pc, xact>>
        BY <3>9 DEF AsyncAnswer, AsyncTimeout, Serve, Refuse, LoseRequest, LoseAnswer
      <4>2. ~(Send /\ xact.use = "write")
        <5>1. SUFFICES ASSUME pc = "send", xact.use = "write" PROVE FALSE
          BY DEF Send
        <5> QED BY <2>1, <5>1, UseKind
      <4> QED BY <2>4, <3>1, <4>1, <4>2
    <3>10. CASE \E c \in Calls : Begin(c)
      BY <1>1, <3>10
    <3> QED BY <3>3, <3>5, <3>6, <3>7, <3>8, <3>9, <3>10 DEF Next, Client
  <2> QED BY <2>3, <2>4
<1> QED BY <1>1, <1>2, CallsGo

-----------------------------------------------------------------------------
(* What a write has written (WrittenSoFar).                                 *)

\* What is there stays there, if a write that is sent does not say otherwise.
LEMMA ThereStays ==
    ASSUME Typed, Next, hist' = hist, NEW i, NEW x, There(i, x), call.off + i \in Addr,
           Send /\ Hits(xact.msg, call.off + i) => At(xact.msg, call.off + i)[x] = <<k, i>>
    PROVE  There(i, x)'
<1>1. call' = call /\ k' = k
  BY DEF call, k
<1>2. CASE (i = 0 /\ x \in call.m1) \/ (i = call.n - 1 /\ x \in call.mn)
  BY <1>1, <1>2 DEF There
<1>3. CASE ~((i = 0 /\ x \in call.m1) \/ (i = call.n - 1 /\ x \in call.mn))
  <2>6. PICK a \in Addr : a = call.off + i
    OBVIOUS
  <2>7. PICK v : v = <<k, i>>
    OBVIOUS
  <2>1. a = call.off + i /\ v = <<k, i>>
    BY <2>6, <2>7
  <2>2. mem[a][x] = v /\ \A l \in DOMAIN req : Hits(req[l], a) => At(req[l], a)[x] = v
    BY <1>3, <2>1 DEF There
  <2>3. mem'[a][x] = v
    BY <2>2, MemoryGoes DEF Stores
  <2>4. \A l \in DOMAIN req' : Hits(req'[l], a) => At(req'[l], a)[x] = v
    <3>1. CASE Shorter
      BY <2>2, <3>1 DEF Shorter
    <3>2. CASE Send /\ Longer(xact.msg)
      BY <2>1, <2>2, <3>2 DEF Longer
    <3>3. CASE \E m : m.kind = "rd" /\ Longer(m)
      BY <2>2, <3>3 DEF Longer, Hits
    <3> QED BY <3>1, <3>2, <3>3, RequestsGo
  <2>5. \A l \in DOMAIN req' : Hits(req[l], a)' => (At(req[l], a)[x])' = v
    BY <2>4 DEF Hits, At
  <2> QED BY <1>1, <2>1, <2>3, <2>5 DEF There
<1> QED BY <1>2, <1>3

\* A write that is sent begins where what was written before ends.
LEMMA SentAfter ==
    ASSUME Typed, pc = "send", NEW i \in 0..todo.s - 1, call.off \in Nat
    PROVE  ~Hits(xact.msg, call.off + i)
<1>1. CASE xact.use # "write"
  BY <1>1, UseKind DEF Hits
<1>2. CASE xact.use = "write"
  <2>1. PICK s \in Nat, st \in Nat, h \in Nat, c \in Nat :
            s = todo.s /\ st = start(Cur) /\ h = headbytes(Cur) /\ c = call.off /\ st + h = c + s
    BY CurNumbers
  <2>2. s > 0
    BY <2>1
  <2>3. h = 0
    <3>1. mode \in Modes /\ Good(todo)
      BY BlockAtHand
    <3>2. headbytes(todo) = 0
      BY <2>1, <2>2, TypedParts DEF Left
    <3> QED BY <2>1, <3>1, <3>2, FirstBlock DEF Cur
  <2>4. xact.msg.off = st /\ xact.msg \in Msg
    BY <1>2, <2>1, UseKind
  <2>5. DOMAIN xact.msg.data \subseteq Nat \ {0}
    <3>1. xact.msg.data \in Seq(Byte)
      BY <2>4 DEF Msg
    <3> QED BY <3>1, LenProperties
  <2>6. c + i - st + 1 <= 0
    BY <2>1, <2>3
  <2>7. ~(c + i - st + 1 \in DOMAIN xact.msg.data)
    BY <2>1, <2>5, <2>6
  <2> QED BY <2>1, <2>4, <2>7 DEF Hits
<1> QED BY <1>1, <1>2

\* Where byte d of a block is: the block is n bytes after the first h of a message of len bytes.
IsPlace(s, n, h, st, c, len, d) ==
    /\ h + (d + 1) \in 1..len /\ c + (s + d) \in Int /\ d + 1 \in 1..n
    /\ c + (s + d) = st + (h + (d + 1)) - 1 /\ (c + (s + d)) - st + 1 = h + (d + 1)

\* It is there, for a block that follows the s bytes that are done.
LEMMA PlaceOfByte ==
    ASSUME NEW s \in Nat, NEW n \in Nat, NEW h \in Nat, NEW st \in Nat, NEW c \in Nat, NEW len \in Nat,
           NEW d \in Nat, d < n, st + h = c + s, h + n <= len
    PROVE  IsPlace(s, n, h, st, c, len, d)
BY DEF IsPlace

\* What was written by the block at hand is there when the write is answered.
LEMMA AnsweredThere ==
    ASSUME Typed, Matched, OkData, ~mode.posted, pc = "await", xact.use = "write", rsp["sync"] # <<>>,
           NEW r, r = Head(rsp["sync"]), r.tid = xact.msg.tid, r.words = NWords(xact.msg.len),
           NEW j \in Nat, j < Cur.n, NEW x \in Bit
    PROVE  There(todo.s + j, x)
<1>1. PICK s \in Nat, n \in Nat, h \in Nat, st \in Nat, c \in Nat, len \in Nat :
          /\ s = todo.s /\ n = Cur.n /\ h = headbytes(Cur) /\ st = start(Cur) /\ c = call.off
          /\ len = length(Cur) /\ st + h = c + s /\ h + n <= len /\ Cur.s = s /\ j < n
  BY CurNumbers
<1>2. PICK e : e = xact.msg
  OBVIOUS
<1>3. /\ e.kind = "wr" /\ e.door = "sync" /\ e.off = st /\ e \in Msg /\ e.len = len
      /\ mode \in Modes /\ Good(todo) /\ Good(Cur)
  <2>1. e.kind = "wr" /\ e.door = "sync" /\ e.off = st /\ e \in Msg
    BY <1>1, <1>2, UseKind
  <2>2. mode \in Modes /\ Good(todo) /\ Good(Cur)
    BY BlockAtHand
  <2>3. PICK t, p : e = WriteMsg(t, Cur, p)
    BY <1>2, TypedParts DEF Requested
  <2>4. mode.byteRes => totbytes(Cur) = len
    BY <1>1, <2>2, InsideMemory DEF Good, BlockType
  <2>5. ~mode.byteRes => NWords(totbytes(Cur)) * W = len
    BY <1>1 DEF length
  <2>6. e.len = len
    BY <2>3, <2>4, <2>5 DEF WriteMsg
  <2> QED BY <2>1, <2>2, <2>6
<1>4. Answered(e, r) /\ \A l \in DOMAIN req : Calm(e, req[l])
  <2>1. AnswerMatch(e)
    BY <1>2 DEF Matched, Wanted
  <2>2. r = rsp["sync"][1] /\ 1 \in DOMAIN rsp["sync"]
    <3>1. rsp["sync"] \in Seq(Answers)
      BY TypedParts DEF QueuesOK, Door
    <3> QED BY <3>1, QueueOps
  <2> QED BY <1>2, <1>3, <2>1, <2>2 DEF AnswerMatch
<1>5. Brings(Cur, e)
  BY <1>2 DEF OkData, Writing
<1>6. DOMAIN e.data = 1..len
  <2>1. e.data \in Seq(Byte) /\ Len(e.data) = len
    BY <1>3, <1>5 DEF Msg, Brings
  <2> QED BY <2>1, LenProperties
<1>7. PICK l \in 1..len, a \in Int : l = h + (j + 1) /\ a = c + (s + j) /\ a = st + l - 1 /\ a - st + 1 = l
                                     /\ j + 1 \in 1..n
  <2>1. IsPlace(s, n, h, st, c, len, j)
    BY <1>1, PlaceOfByte
  <2> QED BY <2>1 DEF IsPlace
<1>8. CASE j + 1 = 1 /\ x \in Cur.m1
  <2>1. Cur.m1 = todo.m1
    BY <1>3, FirstBlock DEF Cur
  <2>2. todo.s = 0 /\ x \in call.m1
    BY <1>8, <2>1, TypedParts DEF Left
  <2>3. todo.s + j = 0
    BY <1>8, <2>2
  <2> QED BY <2>2, <2>3 DEF There
<1>9. CASE j + 1 = n /\ x \in Cur.mn
  <2>1. Whole(todo) /\ Cur = todo
    BY <1>3, <1>9, FirstBlock DEF Cur
  <2>2. todo.s + todo.n = call.n /\ x \in call.mn
    BY <1>9, <2>1, TypedParts DEF Left
  <2>3. s + n = call.n
    BY <1>1, <2>1, <2>2
  <2>4. todo.s + j = call.n - 1
    <3>1. j + 1 = n /\ s + n = call.n /\ s \in Nat /\ n \in Nat /\ j \in Nat
      BY <1>1, <1>9, <2>3
    <3>2. \A d \in Nat : d + 1 = n => s + d = (s + n) - 1
      OBVIOUS
    <3> QED BY <1>1, <3>1, <3>2
  <2> QED BY <2>2, <2>4 DEF There
<1>10. CASE ~(j + 1 = 1 /\ x \in Cur.m1) /\ ~(j + 1 = n /\ x \in Cur.mn)
  <2>1. e.data[l][x] = <<k, s + j>>
    <3>1. e.data[headbytes(Cur) + (j + 1)][x] = <<k, Cur.s + (j + 1) - 1>>
      BY <1>1, <1>5, <1>7, <1>10 DEF Brings
    <3>2. Cur.s + (j + 1) - 1 = s + j
      BY <1>1
    <3> QED BY <1>1, <1>7, <3>1, <3>2
  <2>2. mem[a] = e.data[l]
    BY <1>3, <1>4, <1>6, <1>7 DEF Answered
  <2>3. \A i \in DOMAIN req : Hits(req[i], a) => At(req[i], a)[x] = <<k, s + j>>
    <3>1. ASSUME NEW i \in DOMAIN req, Hits(req[i], a) PROVE At(req[i], a)[x] = <<k, s + j>>
      <4>1. req[i] = e
        BY <1>4, <3>1 DEF Calm, Hits
      <4>2. At(e, a) = e.data[l]
        BY <1>3, <1>7 DEF At
      <4> QED BY <2>1, <4>1, <4>2
    <3> QED BY <3>1
  <2>4. a = call.off + (todo.s + j) /\ s = todo.s
    BY <1>1, <1>7
  <2> QED BY <2>1, <2>2, <2>3, <2>4 DEF There
<1> QED BY <1>8, <1>9, <1>10

\* What a write has written stays in the memory.
LEMMA WrittenSoFarStep ==
    ASSUME Typed, Matched, OkData, WrittenSoFar, Next PROVE WrittenSoFar'
<1>1. CASE \E c \in Calls : Begin(c)
  <2>1. PICK c \in Calls : Begin(c)
    BY <1>1
  <2>2. /\ hist' = Append(hist, c) /\ pc' = (IF c.n = 0 THEN "idle" ELSE "block")
        /\ todo' = IF c.n = 0 THEN NoBlock
                   ELSE [off |-> c.off, n |-> c.n, s |-> 0, m1 |-> c.m1, mn |-> c.mn]
    BY <2>1 DEF Begin
  <2>3. call' = c
    <3>1. hist \in Seq(Calls)
      BY DEF Typed, TypeOK
    <3> QED BY <2>2, <3>1, QueueOps DEF call, k
  <2>4. Done' = 0
    <3>1. CASE c.n = 0
      BY <2>2, <2>3, <3>1 DEF Done
    <3>2. CASE c.n # 0
      BY <2>2, <3>2 DEF Done
    <3> QED BY <3>1, <3>2
  <2>5. 0..Done'-1 = {}
    BY <2>4
  <2> QED BY <2>5 DEF WrittenSoFar
<1>2. CASE hist' = hist
  <2>1. SUFFICES ASSUME k >= 1, call.kind = "write", ~mode.posted PROVE WrittenSoFar'
    BY <1>2, CallsGo DEF WrittenSoFar, call, k
  <2>2. \A i \in 0..Done - 1, x \in Bit : There(i, x)
    BY <2>1 DEF WrittenSoFar
  <2>3. ASSUME pc # "idle", NEW i \in 0..todo.s - 1, NEW x \in Bit PROVE There(i, x)'
    <3>1. PICK s \in Nat, c \in Nat, cn \in Nat :
              s = todo.s /\ c = call.off /\ cn = call.n /\ s <= cn /\ c + cn <= Size /\ Done = s
      BY <2>3, CurNumbers
    <3>2. c + i \in Addr
      BY <2>3, <3>1, Constants DEF Addr
    <3>3. There(i, x)
      BY <2>2, <2>3, <3>1
    <3>4. Send => ~Hits(xact.msg, call.off + i)
      BY <2>3, <3>1, SentAfter DEF Send
    <3> QED BY <1>2, <3>1, <3>2, <3>3, <3>4, ThereStays
  <2>4. CASE pc = "idle"
    <3>1. UNCHANGED <<pc, ok>> /\ ~Send
      <4>1. \/ AsyncAnswer \/ AsyncTimeout \/ Serve \/ Refuse \/ LoseRequest \/ LoseAnswer \/ \E c \in Calls : Begin(c)
        BY <2>4 DEF Next, Client, ReadBlock, WriteBlock, PostFirst, PostLast, Wait, Send, Answer, Timeout
      <4>2. ~\E c \in Calls : Begin(c)
        <5>1. SUFFICES ASSUME NEW c \in Calls, hist' = Append(hist, c) PROVE FALSE
          BY DEF Begin
        <5>2. hist \in Seq(Calls)
          BY DEF Typed, TypeOK
        <5>3. Len(hist) \in Nat /\ Len(Append(hist, c)) = Len(hist) + 1
          BY <5>2, QueueOps
        <5> QED BY <1>2, <5>1, <5>3
      <4> QED BY <2>4, <4>1, <4>2 DEF AsyncAnswer, AsyncTimeout, Serve, Refuse, LoseRequest, LoseAnswer, Send
    <3>2. Done' = Done
      BY <1>2, <2>4, <3>1 DEF Done, call, k
    <3>3. call \in Calls
      <4>1. hist \in Seq(Calls)
        BY DEF Typed, TypeOK
      <4> QED BY <2>1, <4>1, QueueOps DEF call, k
    <3>4. PICK c \in Nat, cn \in Nat : c = call.off /\ cn = call.n /\ c + cn <= Size
      BY <3>3, CallAssumption, Constants DEF Call, Addr
    <3>5. ASSUME NEW i \in 0..Done - 1, NEW x \in Bit PROVE There(i, x)'
      <4>1. i \in 0..cn - 1
        <5>1. Done = cn \/ Done = 0
          BY <2>4, <3>4 DEF Done
        <5> QED BY <3>5, <5>1
      <4>2. c + i \in Addr
        BY <3>4, <4>1, Constants DEF Addr
      <4> QED BY <1>2, <2>2, <3>1, <3>4, <3>5, <4>2, ThereStays
    <3> QED BY <3>2, <3>5 DEF WrittenSoFar
  <2>5. CASE pc # "idle"
    <3>1. ASSUME todo' = todo, pc' # "idle" PROVE WrittenSoFar'
      <4>1. Done' = todo.s
        BY <3>1 DEF Done
      <4> QED BY <2>3, <2>5, <4>1 DEF WrittenSoFar
    <3>2. ASSUME Return(FALSE) PROVE WrittenSoFar'
      <4>1. Done' = 0
        BY <3>2 DEF Return, Done
      <4>2. 0..Done'-1 = {}
        BY <4>1
      <4> QED BY <4>2 DEF WrittenSoFar
    <3>3. (\E use, m, n : Request(use, m, n)) \/ (\E f, l : RequestWrite(f, l)) => pc' # "idle"
      BY DEF Request, RequestWrite
    <3>4. CASE WriteBlock
      <4>1. CASE Return(FALSE)
        BY <3>2, <4>1
      <4>2. CASE (\E m : Request("readback", m, 1)) /\ todo' = todo
        BY <3>1, <3>3, <4>2
      <4>3. CASE RequestWrite(<<>>, <<>>) /\ todo' = todo
        BY <3>1, <3>3, <4>3
      <4> QED BY <3>4, <4>1, <4>2, <4>3 DEF WriteBlock
    <3>5. CASE Wait
      <4>1. Return(FALSE) \/ ((\E f, l : RequestWrite(f, l)) /\ todo' = todo)
        BY <3>5 DEF Wait
      <4> QED BY <3>1, <3>2, <3>3, <4>1
    <3>6. CASE PostFirst \/ PostLast
      BY <3>1, <3>6 DEF PostFirst, PostLast, Post
    <3>7. CASE ReadBlock
      BY <2>1, <3>7 DEF ReadBlock
    <3>8. CASE Send
      <4>1. pc = "send"
        BY <3>8 DEF Send
      <4>2. xact.msg.kind # "pwr"
        BY <2>1, <4>1, UseKind
      <4> QED BY <3>1, <3>8, <4>2 DEF Send
    <3>9. CASE Timeout
      <4>1. Return(FALSE) \/ (todo' = todo /\ pc' = "send")
        BY <3>9 DEF Timeout
      <4> QED BY <3>1, <3>2, <4>1
    <3>10. CASE Answer
      <4>1. pc = "await" /\ rsp["sync"] # <<>> /\ UNCHANGED <<mode, mem, req, hist>>
        BY <3>10 DEF Answer
      <4>2. xact.use \in {"readback", "write"}
        <5>1. xact.use \in {"read", "readback", "write"} /\ (xact.use = "read" => call.kind = "read")
          BY <4>1, TypedParts DEF Requested
        <5> QED BY <2>1, <5>1
      <4>3. PICK r : r = Head(rsp["sync"])
        OBVIOUS
      <4>4. CASE ~tidMatch(r.tid, xact.msg.tid)
        BY <2>5, <3>1, <3>10, <4>3, <4>4 DEF Answer
      <4>5. CASE tidMatch(r.tid, xact.msg.tid)
        <5>1. Complete(r)
          BY <3>10, <4>3, <4>5 DEF Answer
        <5>2. CASE r.words # NWords(xact.msg.len)
          BY <3>2, <5>1, <5>2 DEF Complete
        <5>3. CASE r.words = NWords(xact.msg.len) /\ xact.use = "readback"
          <6>1. RequestWrite(r.data, r.data) /\ todo' = todo
            BY <5>1, <5>3 DEF Complete
          <6> QED BY <3>1, <3>3, <6>1
        <5>4. CASE r.words = NWords(xact.msg.len) /\ xact.use = "write"
          <6>1. NextBlock
            BY <5>1, <5>4 DEF Complete
          <6>2. PICK s \in Nat, n \in Nat : s = todo.s /\ n = Cur.n
            BY <2>5, CurNumbers
          <6>3. Done' = s + n
            BY <1>2, <2>5, <6>1, <6>2, DoneNext
          <6>4. ASSUME NEW i \in 0..s+n-1, NEW x \in Bit PROVE There(i, x)'
            <7>1. CASE i \in 0..s-1
              BY <2>3, <2>5, <6>2, <6>4, <7>1
            <7>2. CASE ~(i \in 0..s-1)
              <8>1. PICK j \in Nat : j < n /\ i = s + j
                <9>1. i - s \in Nat /\ i - s < n /\ i = s + (i - s)
                  BY <7>2
                <9> QED BY <9>1
              <8>2. There(s + j, x)
                BY <2>1, <4>1, <4>3, <4>5, <5>4, <6>2, <6>4, <8>1, AnsweredThere DEF tidMatch
              <8>3. There(i, x)' = There(i, x)
                BY <4>1 DEF There, Hits, At, call, k
              <8> QED BY <8>1, <8>2, <8>3
            <7> QED BY <7>1, <7>2
          <6> QED BY <6>3, <6>4 DEF WrittenSoFar
        <5> QED BY <4>2, <5>2, <5>3, <5>4
      <4> QED BY <4>4, <4>5
    <3>11. CASE AsyncAnswer \/ AsyncTimeout \/ Serve \/ Refuse \/ LoseRequest \/ LoseAnswer
      BY <2>5, <3>1, <3>11 DEF AsyncAnswer, AsyncTimeout, Serve, Refuse, LoseRequest, LoseAnswer
    <3>12. CASE \E c \in Calls : Begin(c)
      BY <1>1, <3>12
    <3> QED BY <3>4, <3>5, <3>6, <3>7, <3>8, <3>9, <3>10, <3>11, <3>12 DEF Next, Client
  <2> QED BY <2>4, <2>5
<1> QED BY <1>1, <1>2, CallsGo

-----------------------------------------------------------------------------
(* Transaction ids (Ids).                                                   *)

\* The budget of transaction ids.
LEMMA Budgets ==
    /\ \A n \in Nat : Budget(n) \in Nat /\ Budget(n + 1) = Budget(n) + 4 * Size
    /\ \A n \in Nat : n <= MaxCalls => Budget(n) <= Budget(MaxCalls)
<1>1. Size \in Nat /\ MaxCalls \in Nat
  BY Constants
<1>2. ASSUME NEW n \in Nat PROVE Size * n \in Nat /\ Size * (n + 1) = Size * n + Size
  BY <1>1
<1>3. ASSUME NEW n \in Nat PROVE Budget(n) \in Nat /\ Budget(n + 1) = Budget(n) + 4 * Size
  <2>1. PICK p \in Nat, q \in Nat : p = Size * n /\ q = Size * (n + 1) /\ q = p + Size
    BY <1>1, <1>2
  <2>2. Budget(n) = 4 * p /\ Budget(n + 1) = 4 * q
    BY <2>1 DEF Budget
  <2> QED BY <1>1, <2>1, <2>2
<1>4. ASSUME NEW n \in Nat, n <= MaxCalls PROVE Budget(n) <= Budget(MaxCalls)
  <2>1. PICK d \in Nat : MaxCalls = n + d
    <3>1. MaxCalls - n \in Nat /\ MaxCalls = n + (MaxCalls - n)
      BY <1>1, <1>4
    <3> QED BY <3>1
  <2>2. Size * MaxCalls = Size * n + Size * d /\ Size * d \in Nat /\ Size * n \in Nat
    BY <1>1, <2>1
  <2>3. PICK p \in Nat, q \in Nat : p = Size * n /\ q = Size * MaxCalls /\ p <= q
    BY <2>2
  <2>4. Budget(n) = 4 * p /\ Budget(MaxCalls) = 4 * q
    BY <2>3 DEF Budget
  <2> QED BY <2>3, <2>4
<1> QED BY <1>3, <1>4

\* Ids are left for what the block at hand still needs.
LEMMA TidNext ==
    ASSUME Typed, EnoughTids, Ids, pc # "idle", NEW n \in Nat, Used + n <= 4
    PROVE  Tid(n) = tid + n /\ tid + n <= Budget(k)
<1>1. k \in Nat /\ k <= MaxCalls /\ tid \in 0..TidMod-1 /\ TidMod \in Nat /\ tid \in Nat
  <2>1. tid \in 0..TidMod-1
    BY DEF Typed, TypeOK
  <2> QED BY <2>1, Constants, BlockAtHand
<1>2. PICK b \in Nat, t \in Nat : b = Budget(k) /\ t = Budget(MaxCalls) /\ b <= t /\ t < TidMod
  BY <1>1, Budgets, Constants DEF EnoughTids
<1>3. PICK u \in Nat : u = Used
  BY DEF Used
<1>4. PICK m \in Nat : m = todo.n /\ m >= 1
  BY BlockAtHand DEF Good, BlockType
<1>5. tid + 4 * m <= b + u
  BY <1>2, <1>3, <1>4 DEF Ids, IdsLeft
<1>6. tid + n <= b
  BY <1>1, <1>3, <1>4, <1>5
<1>7. tid + n \in 0..TidMod-1
  BY <1>1, <1>2, <1>6
<1>8. (tid + n) % TidMod = tid + n
  BY <1>1, <1>7, Constants
<1> QED BY <1>2, <1>6, <1>8 DEF Tid

\* A new request is made, of which the message is e.
Fresh(e) ==
    /\ pc # "idle" /\ UNCHANGED <<hist, todo, req>> /\ e.tid = Tid(1) /\ e.door = "sync"
    /\ \E use, n : /\ Request(use, e, n) /\ n \in {1, 2} /\ Used + n <= 4
                   /\ use = "write" \/ (n = 1 /\ Used = 0)

\* A write that is asked for is such a request.
LEMMA FreshWrite ==
    ASSUME NEW f, NEW l, RequestWrite(f, l), pc # "idle", UNCHANGED <<hist, todo, req>>, Used <= 2,
           NEW e, e = xact'.msg
    PROVE  Fresh(e)
<1>1. PICK m : m = WriteMsg(Tid(1), Cur, payload(Cur, f, l))
  OBVIOUS
<1>2. m.tid = Tid(1) /\ m.door = "sync" /\ Request("write", m, 2)
  BY <1>1 DEF WriteMsg, RequestWrite, Cur
<1>3. e = m
  BY <1>2 DEF Request
<1>4. Used \in Nat
  BY DEF Used
<1>5. Used + 2 <= 4
  BY <1>4
<1> QED BY <1>2, <1>3, <1>5 DEF Fresh

\* A read that is asked for is one.
LEMMA FreshRead ==
    ASSUME NEW use, NEW a, Request(use, ReadMsg("sync", Tid(1), a), 1),
           pc = "block", UNCHANGED <<hist, todo, req>>, NEW e, e = xact'.msg
    PROVE  Fresh(e)
<1>1. PICK m : m = ReadMsg("sync", Tid(1), a)
  OBVIOUS
<1>2. m.tid = Tid(1) /\ m.door = "sync" /\ Request(use, m, 1)
  BY <1>1 DEF ReadMsg
<1>3. e = m
  BY <1>2 DEF Request
<1>4. Used = 0
  BY DEF Used
<1> QED BY <1>2, <1>3, <1>4 DEF Fresh

\* What a step may do to the call.
LEMMA StepKinds ==
    ASSUME Typed, Next
    PROVE  \/ \E c \in Calls : Begin(c)
           \/ PostFirst \/ PostLast
           \/ \E e : e = xact'.msg /\ Fresh(e)
           \/ pc # "idle" /\ UNCHANGED <<hist, tid>> /\ (Return(FALSE) \/ NextBlock)
           \/ /\ UNCHANGED <<hist, tid, todo, xact>>
              /\ pc' = pc \/ (pc \in {"send", "await"} /\ pc' \in {"send", "await"})
<1>1. PICK e : e = xact'.msg
  OBVIOUS
<1>2. CASE ReadBlock
  <2>1. pc = "block" /\ Request("read", ReadMsg("sync", Tid(1), Cur), 1) /\ UNCHANGED <<hist, todo, req>>
    BY <1>2 DEF ReadBlock, Cur
  <2> QED BY <1>1, <2>1, FreshRead
<1>3. CASE WriteBlock
  <2>1. pc = "block" /\ UNCHANGED <<hist, req>>
    BY <1>3 DEF WriteBlock
  <2>2. CASE todo' = todo /\ \E a : Request("readback", ReadMsg("sync", Tid(1), a), 1)
    BY <1>1, <2>1, <2>2, FreshRead
  <2>3. CASE todo' = todo /\ RequestWrite(<<>>, <<>>)
    <3>1. Used <= 2
      BY <2>1 DEF Used
    <3> QED BY <1>1, <2>1, <2>3, <3>1, FreshWrite
  <2>4. CASE Return(FALSE) /\ tid' = tid
    BY <2>1, <2>4
  <2> QED BY <1>3, <2>2, <2>3, <2>4 DEF WriteBlock
<1>4. CASE Wait
  <2>1. pc = "wait" /\ UNCHANGED <<hist, req>>
    BY <1>4 DEF Wait
  <2>2. CASE todo' = todo /\ RequestWrite(got["first"], got["last"])
    <3>1. Used <= 2
      BY <2>1 DEF Used
    <3> QED BY <1>1, <2>1, <2>2, <3>1, FreshWrite
  <2>3. CASE Return(FALSE) /\ tid' = tid
    BY <2>1, <2>3
  <2> QED BY <1>4, <2>2, <2>3 DEF Wait
<1>5. CASE Send
  <2>1. pc = "send" /\ UNCHANGED <<hist, tid>>
    BY <1>5 DEF Send
  <2>2. NextBlock \/ (pc' = "await" /\ UNCHANGED <<todo, xact>>)
    BY <1>5 DEF Send
  <2> QED BY <2>1, <2>2
<1>6. CASE Timeout
  <2>1. pc = "await" /\ UNCHANGED <<hist, tid>>
    BY <1>6 DEF Timeout
  <2>2. Return(FALSE) \/ (pc' = "send" /\ UNCHANGED <<todo, xact>>)
    BY <1>6 DEF Timeout
  <2> QED BY <2>1, <2>2
<1>7. CASE Answer
  <2>1. PICK r : r = Head(rsp["sync"])
    OBVIOUS
  <2>2. pc = "await" /\ UNCHANGED <<hist, req>>
    BY <1>7 DEF Answer
  <2>3. Complete(r) \/ UNCHANGED <<pc, xact, todo, tid>>
    BY <1>7, <2>1 DEF Answer
  <2>4. CASE Complete(r)
    <3>1. xact.use \in {"read", "readback", "write"}
      BY <2>2, TypedParts DEF Requested
    <3>2. CASE tid' = tid /\ (Return(FALSE) \/ NextBlock)
      BY <2>2, <3>2
    <3>3. CASE xact.use = "readback" /\ RequestWrite(r.data, r.data) /\ todo' = todo
      <4>1. Used <= 2
        BY <2>2, <3>3 DEF Used
      <4> QED BY <1>1, <2>2, <3>3, <4>1, FreshWrite
    <3> QED BY <2>4, <3>1, <3>2, <3>3 DEF Complete
  <2> QED BY <2>2, <2>3, <2>4
<1>8. CASE AsyncAnswer \/ AsyncTimeout \/ Serve \/ Refuse \/ LoseRequest \/ LoseAnswer
  BY <1>8 DEF AsyncAnswer, AsyncTimeout, Serve, Refuse, LoseRequest, LoseAnswer
<1> QED BY <1>2, <1>3, <1>4, <1>5, <1>6, <1>7, <1>8 DEF Next, Client

\* The request at hand is a new one, or was at hand before.
LEMMA XactGoes ==
    ASSUME Typed, Next, pc' \in {"send", "await"}, NEW e, e = xact'.msg
    PROVE  (pc \in {"send", "await"} /\ xact' = xact /\ todo' = todo) \/ Fresh(e)
<1>1. (NextBlock \/ Return(FALSE)) => pc' \notin {"send", "await"}
  BY DEF NextBlock, Return
<1>2. ~(\E c \in Calls : Begin(c)) /\ ~PostFirst /\ ~PostLast
  BY DEF Begin, PostFirst, PostLast, Post
<1> QED BY <1>1, <1>2, StepKinds

\* While a readback is pending, its block is at hand.
LEMMA PendSame ==
    ASSUME Typed, Next, pend # {} PROVE mode' = mode /\ todo' = todo
<1>1. mode' = mode
  BY CallsGo
<1>2. pc \in {"postLast", "wait"}
  BY NothingPending, TypedParts DEF Fields
<1>3. \/ PostLast \/ AsyncAnswer \/ AsyncTimeout \/ Serve \/ Refuse \/ LoseRequest \/ LoseAnswer
  BY <1>2 DEF Next, Client, Begin, ReadBlock, WriteBlock, PostFirst, Wait, Settled, Send, Answer, Timeout
<1> QED BY <1>1, <1>3 DEF PostLast, Post, AsyncAnswer, AsyncTimeout, Serve, Refuse, LoseRequest, LoseAnswer

\* A readback that is pending was so before, or is posted.
LEMMA PendGoes ==
    ASSUME Typed, Next, NEW p \in pend'
    PROVE  \/ p \in pend
           \/ \E part, a, next :
                  /\ Post(part, a, next) /\ (PostFirst \/ PostLast)
                  /\ p = [part |-> part, tid |-> Tid(1), words |-> NWords(a.n)]
                  /\ a = AsyncRead(p) /\ todo' = todo
<1>1. CASE PostFirst
  <2>1. Post("first", FirstRead(Cur), "postLast") /\ todo' = todo
    BY <1>1 DEF PostFirst, Post, Cur
  <2>2. PICK a : a = FirstRead(Cur)
    OBVIOUS
  <2>3. p \in pend \/ p = [part |-> "first", tid |-> Tid(1), words |-> NWords(a.n)]
    BY <2>1, <2>2 DEF Post
  <2>4. p.part = "first" => AsyncRead(p) = a
    BY <2>2 DEF AsyncRead
  <2> QED BY <1>1, <2>1, <2>2, <2>3, <2>4
<1>2. CASE PostLast
  <2>1. Post("last", LastRead(Cur), "wait") /\ todo' = todo
    BY <1>2 DEF PostLast, Post, Cur
  <2>2. PICK a : a = LastRead(Cur)
    OBVIOUS
  <2>3. p \in pend \/ p = [part |-> "last", tid |-> Tid(1), words |-> NWords(a.n)]
    BY <2>1, <2>2 DEF Post
  <2>4. p.part = "last" => AsyncRead(p) = a
    BY <2>2 DEF AsyncRead
  <2> QED BY <1>2, <2>1, <2>2, <2>3, <2>4
<1>3. CASE AsyncAnswer
  BY <1>3 DEF AsyncAnswer
<1>4. CASE AsyncTimeout
  BY <1>4 DEF AsyncTimeout
<1>5. CASE ~PostFirst /\ ~PostLast /\ ~AsyncAnswer /\ ~AsyncTimeout
  BY <1>5 DEF Next, Client, Begin, ReadBlock, WriteBlock, Wait, Send, Answer, Timeout, Serve, Refuse,
              LoseRequest, LoseAnswer
<1> QED BY <1>1, <1>2, <1>3, <1>4, <1>5

\* What is waited for was waited for before, is a new request, or a readback that is posted.
LEMMA WantedGoes ==
    ASSUME Typed, Next, NEW e, Wanted(e)'
    PROVE  \/ Wanted(e)
           \/ Fresh(e)
           \/ /\ PostFirst \/ PostLast
              /\ e.tid = Tid(1) /\ e.door = "async" /\ Longer(e)
<1>1. mode' = mode
  BY CallsGo
<1>2. CASE pc' \in {"send", "await"} /\ e = xact'.msg
  BY <1>2, XactGoes DEF Wanted
<1>3. CASE \E p \in pend' : e = AsyncMsg(p)'
  <2>1. PICK p \in pend' : e = AsyncMsg(p)'
    BY <1>3
  <2>2. CASE p \in pend
    <3>1. AsyncRead(p)' = AsyncRead(p)
      BY <2>2, PendSame, SameReadback
    <3>2. PICK a, t : a = AsyncRead(p) /\ t = p.tid
      OBVIOUS
    <3>3. ReadMsg("async", t, a)' = ReadMsg("async", t, a)
      BY <1>1, SameMessages
    <3>4. e = AsyncMsg(p)
      BY <2>1, <3>1, <3>2, <3>3 DEF AsyncMsg
    <3> QED BY <2>2, <3>4 DEF Wanted
  <2>3. CASE p \notin pend
    <3>1. PICK part, a, next :
              /\ Post(part, a, next) /\ (PostFirst \/ PostLast)
              /\ p = [part |-> part, tid |-> Tid(1), words |-> NWords(a.n)]
              /\ a = AsyncRead(p) /\ todo' = todo
      BY <2>3, PendGoes
    <3>2. AsyncRead(p)' = a
      BY <1>1, <3>1, SameReadback
    <3>3. PICK t : t = Tid(1)
      OBVIOUS
    <3>4. p.tid = t
      BY <3>1, <3>3
    <3>5. ReadMsg("async", t, a)' = ReadMsg("async", t, a)
      BY <1>1, SameMessages
    <3>6. e = ReadMsg("async", t, a)
      BY <2>1, <3>2, <3>4, <3>5 DEF AsyncMsg
    <3>7. a = FirstRead(Cur) \/ a = LastRead(Cur)
      BY <3>1 DEF AsyncRead
    <3>8. e.tid = Tid(1) /\ e.door = "async" /\ Longer(e)
      BY <3>1, <3>3, <3>6, <3>7, PostGets
    <3> QED BY <3>1, <3>8
  <2> QED BY <2>2, <2>3
<1> QED BY <1>2, <1>3 DEF Wanted

\* The ids that are left, when the block at hand takes n more.
LEMMA IdsTaken ==
    ASSUME Typed, EnoughTids, Ids, pc # "idle", NEW n \in Nat, Used + n <= 4,
           UNCHANGED <<hist, todo>>, pc' # "idle", Used' >= Used + n, tid' = Tid(n) \/ (n = 0 /\ tid' = tid)
    PROVE  IdsLeft' /\ tid' = tid + n
<1>1. tid' = tid + n
  <2>1. tid \in Nat
    BY Constants DEF Typed, TypeOK
  <2> QED BY <2>1, TidNext
<1>2. PICK t \in Nat, m \in Nat, b \in Nat, u \in Nat, v \in Nat :
          t = tid /\ m = todo.n /\ b = Budget(k) /\ u = Used /\ v = Used' /\ v >= u + n
  <2>1. tid \in Nat
    BY Constants DEF Typed, TypeOK
  <2>2. todo.n \in Nat /\ k \in Nat
    BY BlockAtHand, Constants DEF Good, BlockType
  <2>3. Budget(k) \in Nat
    BY <2>2, Budgets
  <2>4. Used \in Nat /\ Used' \in Nat
    BY DEF Used
  <2> QED BY <2>1, <2>2, <2>3, <2>4
<1>3. t + 4 * m <= b + u
  BY <1>2 DEF Ids, IdsLeft
<1>4. (t + n) + 4 * m <= b + v
  BY <1>2, <1>3
<1>5. Budget(k)' = b /\ todo' = todo
  BY <1>2 DEF k, Budget
<1> QED BY <1>1, <1>2, <1>4, <1>5 DEF IdsLeft

\* No more ids than the budget has are taken by a call.
LEMMA IdsReturn ==
    ASSUME Typed, EnoughTids, Ids, pc # "idle", UNCHANGED <<hist, tid>>, pc' = "idle"
    PROVE  IdsLeft'
<1>1. Used + 0 <= 4 /\ tid \in Nat
  BY Constants DEF Used, Typed, TypeOK
<1>2. tid + 0 <= Budget(k)
  BY <1>1, TidNext
<1>3. tid' <= Budget(k)'
  BY <1>1, <1>2 DEF k, Budget
<1> QED BY <1>3 DEF IdsLeft

\* Nor by a block.
LEMMA IdsNext ==
    ASSUME Typed, EnoughTids, Ids, pc # "idle", NextBlock, UNCHANGED <<hist, tid>>
    PROVE  IdsLeft'
<1>1. CASE Whole(todo)
  BY <1>1, IdsReturn DEF NextBlock, Return
<1>2. CASE ~Whole(todo)
  <2>1. mode \in Modes /\ Good(todo) /\ Good(Cur) /\ k \in Nat
    BY BlockAtHand, Constants
  <2>2. todo' = Rest(todo) /\ pc' = "block"
    BY <1>2 DEF NextBlock
  <2>3. Used' = 0
    BY <2>2 DEF Used
  <2>4. PICK t \in Nat, m \in Nat, b \in Nat, u \in Nat, c \in Nat :
          /\ t = tid /\ m = todo.n /\ b = Budget(k) /\ u = Used /\ u <= 4 /\ c = Cur.n /\ c >= 1
          /\ Rest(todo).n = m - c
    <3>1. tid \in Nat
      BY Constants DEF Typed, TypeOK
    <3>2. todo.n \in Nat /\ Cur.n \in Nat /\ Cur.n >= 1
      BY <2>1 DEF Good, BlockType
    <3>3. Budget(k) \in Nat
      BY <2>1, Budgets
    <3>4. Used \in Nat /\ Used <= 4
      BY DEF Used
    <3>5. Rest(todo).n = todo.n - Cur.n
      BY <1>2, <2>1, RestBlock DEF Cur
    <3> QED BY <3>1, <3>2, <3>3, <3>4, <3>5
  <2>5. t + 4 * m <= b + u
    BY <2>4 DEF Ids, IdsLeft
  <2>6. t + 4 * (m - c) <= b + 0
    BY <2>4, <2>5
  <2>7. Budget(k)' = b
    BY <2>4 DEF k, Budget
  <2> QED BY <2>2, <2>3, <2>4, <2>6, <2>7 DEF IdsLeft
<1> QED BY <1>1, <1>2

\* A call brings its own budget.
LEMMA IdsBegin ==
    ASSUME Typed, Ids, NEW c \in Calls, Begin(c)
    PROVE  IdsLeft'
<1>1. pc = "idle" /\ hist' = Append(hist, c) /\ tid' = tid
  BY DEF Begin
<1>2. hist \in Seq(Calls) /\ tid \in Nat
  BY Constants DEF Typed, TypeOK
<1>3. k \in Nat /\ k' = k + 1
  BY <1>1, <1>2, QueueOps DEF k
<1>4. c.n \in Nat /\ c.off \in Nat /\ c.off + c.n <= Size /\ Size \in Nat
  BY CallAssumption, Constants DEF Call, Addr
<1>5. PICK b \in Nat, d \in Nat : b = Budget(k) /\ d = Budget(k + 1) /\ d = b + 4 * Size
  BY <1>3, <1>4, Budgets
<1>6. Budget(k)' = d
  BY <1>3, <1>5 DEF Budget
<1>7. tid <= b
  BY <1>1, <1>5 DEF Ids, IdsLeft
<1>8. CASE c.n = 0
  <2>1. pc' = "idle"
    BY <1>8 DEF Begin
  <2>2. tid' <= d
    BY <1>1, <1>2, <1>4, <1>5, <1>7
  <2> QED BY <1>6, <2>1, <2>2 DEF IdsLeft
<1>9. CASE c.n # 0
  <2>1. pc' = "block" /\ todo'.n = c.n
    BY <1>9 DEF Begin
  <2>2. Used' = 0
    BY <2>1 DEF Used
  <2>3. tid' + 4 * c.n <= d + 0
    <3>1. PICK t \in Nat, n \in Nat : t = tid /\ n = c.n /\ n <= Size
      BY <1>2, <1>4
    <3>2. t <= b /\ d = b + 4 * Size /\ Size \in Nat
      BY <1>4, <1>5, <1>7, <3>1
    <3>3. t + 4 * n <= d + 0
      BY <3>1, <3>2
    <3> QED BY <1>1, <3>1, <3>3
  <2> QED BY <1>6, <2>1, <2>2, <2>3 DEF IdsLeft
<1> QED BY <1>8, <1>9

\* A new request has an id that was not used before.
LEMMA IdsFresh ==
    ASSUME Typed, EnoughTids, Ids, NEW e, Fresh(e)
    PROVE  IdsLeft' /\ e.tid = tid + 1 /\ e.tid <= tid' /\ tid <= tid'
<1>1. pc # "idle" /\ UNCHANGED <<hist, todo>> /\ e.tid = Tid(1)
  BY DEF Fresh
<1>2. PICK use, n : /\ Request(use, e, n) /\ n \in {1, 2} /\ Used + n <= 4
                    /\ use = "write" \/ (n = 1 /\ Used = 0)
  BY DEF Fresh
<1>3. tid \in Nat /\ Used \in Nat /\ n \in Nat
  <2>1. tid \in Nat
    BY Constants DEF Typed, TypeOK
  <2>2. Used \in Nat
    BY DEF Used
  <2> QED BY <1>2, <2>1, <2>2
<1>4. pc' = "send" /\ tid' = Tid(n) /\ xact'.use = use
  BY <1>2 DEF Request
<1>5. Used' = IF use = "write" THEN 4 ELSE 1
  BY <1>4 DEF Used
<1>6. Used' >= Used + n
  BY <1>2, <1>3, <1>5
<1>7. IdsLeft' /\ tid' = tid + n
  BY <1>1, <1>2, <1>3, <1>4, <1>6, IdsTaken
<1>8. Used + 1 <= 4
  BY <1>2, <1>3
<1>9. Tid(1) = tid + 1
  BY <1>1, <1>8, TidNext
<1> QED BY <1>1, <1>2, <1>3, <1>7, <1>9

\* So has a readback that is posted.
LEMMA IdsPost ==
    ASSUME Typed, EnoughTids, Ids, PostFirst \/ PostLast
    PROVE  IdsLeft' /\ tid' = tid + 1 /\ Tid(1) = tid + 1
<1>1. CASE PostFirst
  <2>1. pc = "block" /\ pc' = "postLast" /\ tid' = Tid(1) /\ UNCHANGED <<hist, todo>>
    BY <1>1 DEF PostFirst, Post
  <2>2. Used = 0 /\ Used' = 1
    BY <2>1 DEF Used
  <2>3. Used + 1 <= 4 /\ Used' >= Used + 1
    BY <2>2
  <2> QED BY <2>1, <2>3, IdsTaken
<1>2. CASE PostLast
  <2>1. pc = "postLast" /\ pc' = "wait" /\ tid' = Tid(1) /\ UNCHANGED <<hist, todo>>
    BY <1>2 DEF PostLast, Post
  <2>2. Used = 1 /\ Used' = 2
    BY <2>1 DEF Used
  <2>3. Used + 1 <= 4 /\ Used' >= Used + 1
    BY <2>2
  <2> QED BY <2>1, <2>3, IdsTaken
<1> QED BY <1>1, <1>2

\* Ids suffice, and are given out in order.
LEMMA IdsLeftStep ==
    ASSUME Typed, EnoughTids, Ids, Next PROVE IdsLeft' /\ tid <= tid'
<1>1. tid \in Nat
  BY Constants DEF Typed, TypeOK
<1>2. CASE \E c \in Calls : Begin(c)
  BY <1>1, <1>2, IdsBegin DEF Begin
<1>3. CASE PostFirst \/ PostLast
  BY <1>1, <1>3, IdsPost
<1>4. CASE \E e : e = xact'.msg /\ Fresh(e)
  BY <1>4, IdsFresh
<1>5. CASE pc # "idle" /\ UNCHANGED <<hist, tid>> /\ (Return(FALSE) \/ NextBlock)
  <2>1. tid <= tid'
    BY <1>1, <1>5
  <2>2. Return(FALSE) => pc' = "idle"
    BY DEF Return
  <2> QED BY <1>5, <2>1, <2>2, IdsReturn, IdsNext
<1>6. CASE UNCHANGED <<hist, tid, todo, xact>> /\ pc = "idle" /\ pc' = "idle"
  <2>1. Budget(k)' = Budget(k) /\ tid <= tid'
    BY <1>1, <1>6 DEF Budget, k
  <2> QED BY <1>6, <2>1 DEF Ids, IdsLeft
<1>7. CASE /\ UNCHANGED <<hist, tid, todo, xact>> /\ pc # "idle"
           /\ pc' = pc \/ (pc \in {"send", "await"} /\ pc' \in {"send", "await"})
  <2>1. Used \in Nat /\ Used + 0 <= 4 /\ Used' = Used /\ pc' # "idle"
    BY <1>7 DEF Used
  <2>2. Used' >= Used + 0 /\ tid <= tid'
    BY <1>1, <1>7, <2>1
  <2>3. IdsLeft'
    BY <1>7, <2>1, <2>2, IdsTaken
  <2> QED BY <2>2, <2>3
<1> QED BY <1>2, <1>3, <1>4, <1>5, <1>6, <1>7, StepKinds

\* Answer r to message m: it has data, or none.
Holds(r, m, data) ==
    /\ r.tid = m.tid /\ r.words = NWords(Len(data))
    /\ \A j \in 1..Len(data) : r.data[j] = data[j]

-----------------------------------------------------------------------------
(* Answers (Ids, Matched).                                                  *)

\* What the device appends to the answers.
LEMMA ReplyAdds ==
    ASSUME Typed, NEW m \in Msg, NEW data \in Seq(Byte), Len(data) <= Size, Reply(m, data),
           NEW d \in Door, NEW i \in DOMAIN rsp'[d]
    PROVE  (\E l \in DOMAIN rsp[d] : rsp'[d][i] = rsp[d][l]) \/ (d = m.door /\ Holds(rsp'[d][i], m, data))
<1>1. Len(data) \in Nat /\ DOMAIN data = 1..Len(data)
  BY LenProperties
<1>2. PICK n \in Nat : n = NWords(Len(data)) /\ n <= Len(data) /\ n * W \in Nat /\ Len(data) <= n * W
  BY <1>1, Words
<1>3. PICK ans : ans = [j \in 1..n * W |-> IF j <= Len(data) THEN data[j] ELSE Pad]
  OBVIOUS
<1>4. ASSUME NEW j \in 1..Len(data) PROVE ans[j] = data[j]
  <2>1. j \in 1..n * W /\ j <= Len(data)
    BY <1>1, <1>2
  <2> QED BY <1>3, <2>1
<1>5. PICK r : r = [tid |-> m.tid, words |-> n, data |-> ans]
  OBVIOUS
<1>6. Holds(r, m, data)
  BY <1>2, <1>4, <1>5 DEF Holds
<1>7. rsp' = [rsp EXCEPT ![m.door] = Append(rsp[m.door], r)]
  BY <1>2, <1>3, <1>5 DEF Reply
<1>8. DOMAIN rsp = Door /\ rsp[d] \in Seq(Answers)
  BY TypedParts DEF QueuesOK, Inside
<1>9. CASE d # m.door
  <2>1. rsp'[d] = rsp[d]
    BY <1>7, <1>8, <1>9
  <2> QED BY <2>1
<1>10. CASE d = m.door
  <2>1. PICK q : q = rsp[d]
    OBVIOUS
  <2>2. rsp'[d] = Append(q, r) /\ q \in Seq(Answers)
    BY <1>7, <1>8, <1>10, <2>1
  <2>3. PICK S : q \in Seq(S) /\ r \in S
    <3>1. DOMAIN q = 1..Len(q) /\ Len(q) \in Nat /\ \A l \in 1..Len(q) : q[l] \in Answers
      BY <2>2, QueueOps
    <3>2. q \in [1..Len(q) -> Answers \union {r}]
      <4>1. q \in [1..Len(q) -> Answers]
        BY <2>2, LenProperties
      <4> QED BY <4>1
    <3>3. q \in Seq(Answers \union {r}) /\ r \in Answers \union {r}
      BY <3>1, <3>2, FunSeq
    <3> QED BY <3>3
  <2>4. /\ DOMAIN Append(q, r) = 1..Len(q) + 1 /\ DOMAIN q = 1..Len(q) /\ Len(q) \in Nat
        /\ Append(q, r)[Len(q) + 1] = r /\ \A l \in DOMAIN q : Append(q, r)[l] = q[l]
    BY <2>3, QueueOps
  <2>5. i \in DOMAIN q \/ i = Len(q) + 1
    BY <2>2, <2>4
  <2> QED BY <1>6, <1>10, <2>1, <2>2, <2>4, <2>5
<1> QED BY <1>9, <1>10

\* A new answer r to message m, the first request.
NewAnswer(m, r) ==
    /\ 1 \in DOMAIN req /\ m = req[1] /\ r.tid = m.tid
    /\ \/ r.words = 0 /\ mem' = mem
       \/ m.kind = "rd" /\ mem' = mem /\ \A j \in 1..m.len : r.data[j] = mem[m.off + j - 1]
       \/ m.kind # "rd" /\ Accepted(m) /\ Stores(m)

\* An answer was there before, or is a new one.
LEMMA AnswersGo ==
    ASSUME Typed, Next, NEW d \in Door, NEW i \in DOMAIN rsp'[d]
    PROVE  \/ \E l \in DOMAIN rsp[d] : rsp'[d][i] = rsp[d][l]
           \/ \E m : m.door = d /\ NewAnswer(m, rsp'[d][i])
<1>1. DOMAIN rsp = Door /\ \A b \in Door : rsp[b] \in Seq(Answers)
  BY TypedParts DEF QueuesOK, Inside
<1>2. CASE rsp' = rsp
  BY <1>2
<1>3. CASE \E b \in Door : rsp[b] # <<>> /\ rsp' = [rsp EXCEPT ![b] = Tail(@)]
  <2>1. PICK b \in Door : rsp[b] # <<>> /\ rsp' = [rsp EXCEPT ![b] = Tail(rsp[b])]
    BY <1>3
  <2>2. CASE d # b
    BY <1>1, <2>1, <2>2
  <2>3. CASE d = b
    <3>1. rsp'[d] = Tail(rsp[d]) /\ rsp[d] # <<>> /\ rsp[d] \in Seq(Answers)
      BY <1>1, <2>1, <2>3
    <3> QED BY <3>1, QueueOps
  <2> QED BY <2>2, <2>3
<1>4. ASSUME Serve \/ Refuse
      PROVE  \/ \E l \in DOMAIN rsp[d] : rsp'[d][i] = rsp[d][l]
             \/ \E m : m.door = d /\ NewAnswer(m, rsp'[d][i])
  <2>1. req # <<>> /\ req \in Seq(Msg) /\ \A j \in DOMAIN req : RequestOK(req[j])
    BY <1>4, QueuesHold, TypedParts DEF Serve, Refuse
  <2>2. PICK m : m = Head(req)
    OBVIOUS
  <2>3. m = req[1] /\ 1 \in DOMAIN req /\ m \in Msg /\ RequestOK(m)
    BY <2>1, <2>2, QueueOps
  <2>4. /\ m.data \in Seq(Byte) /\ m.len \in Nat /\ m.off \in Nat /\ Len(m.data) <= Size /\ m.len <= Size
        /\ m.kind = "rd" => m.off + m.len <= Size
    BY <2>3, Constants DEF RequestOK, Msg, Addr
  <2>5. CASE rsp' = rsp
    BY <2>5
  <2>6. CASE Refuse /\ Reply(m, <<>>)
    <3>1. <<>> \in Seq(Byte) /\ Len(<<>>) = 0 /\ NWords(0) = 0
      <4>1. NWords(0) \in Nat /\ NWords(0) <= 0
        BY Words
      <4> QED BY <4>1, EmptySeq
    <3>2. PICK data : data = <<>>
      OBVIOUS
    <3>3. (\E l \in DOMAIN rsp[d] : rsp'[d][i] = rsp[d][l]) \/ (d = m.door /\ Holds(rsp'[d][i], m, data))
      <4>1. data \in Seq(Byte) /\ Len(data) <= Size /\ Reply(m, data)
        BY <2>6, <3>1, <3>2, Constants
      <4> QED BY <2>3, <4>1, ReplyAdds
    <3>4. mem' = mem
      BY <2>6 DEF Refuse
    <3>5. Holds(rsp'[d][i], m, data) => rsp'[d][i].tid = m.tid /\ rsp'[d][i].words = 0
      BY <3>1, <3>2 DEF Holds
    <3> QED BY <2>3, <3>3, <3>4, <3>5 DEF NewAnswer
  <2>7. CASE Serve /\ m.kind = "rd"
    <3>1. PICK data : data = [j \in 1..m.len |-> mem[m.off + j - 1]]
      OBVIOUS
    <3>2. Reply(m, data) /\ mem' = mem
      BY <2>2, <2>7, <3>1 DEF Serve
    <3>3. data \in Seq(Byte) /\ Len(data) = m.len
      <4>1. mem \in [Addr -> Byte]
        BY DEF Typed, TypeOK
      <4>2. \A j \in 1..m.len : m.off + j - 1 \in Addr
        BY <2>4, <2>7, Constants DEF Addr
      <4>3. data \in [1..m.len -> Byte]
        BY <3>1, <4>1, <4>2
      <4> QED BY <2>4, <4>3, FunSeq
    <3>4. Len(data) <= Size
      BY <2>4, <3>3
    <3>5. (\E l \in DOMAIN rsp[d] : rsp'[d][i] = rsp[d][l]) \/ (d = m.door /\ Holds(rsp'[d][i], m, data))
      BY <2>3, <3>2, <3>3, <3>4, ReplyAdds
    <3>6. PICK r : r = rsp'[d][i]
      OBVIOUS
    <3>7. Holds(r, m, data) => r.tid = m.tid /\ \A j \in 1..m.len : r.data[j] = mem[m.off + j - 1]
      BY <3>1, <3>3 DEF Holds
    <3> QED BY <2>3, <2>7, <3>2, <3>5, <3>6, <3>7 DEF NewAnswer
  <2>8. CASE Serve /\ m.kind # "rd" /\ Accepted(m) /\ Reply(m, m.data)
    <3>1. Stores(m)
      BY <2>2, <2>8, ServeStores
    <3>2. (\E l \in DOMAIN rsp[d] : rsp'[d][i] = rsp[d][l]) \/ (d = m.door /\ Holds(rsp'[d][i], m, m.data))
      BY <2>3, <2>4, <2>8, ReplyAdds
    <3> QED BY <2>3, <2>8, <3>1, <3>2 DEF NewAnswer, Holds
  <2>9. CASE Refuse
    <3>1. rsp' = rsp \/ Reply(m, <<>>)
      BY <2>2, <2>9 DEF Refuse
    <3> QED BY <2>5, <2>6, <2>9, <3>1
  <2>10. CASE Serve
    <3>1. m.kind # "rd" => rsp' = rsp \/ (Accepted(m) /\ Reply(m, m.data))
      BY <2>2, <2>10 DEF Serve
    <3> QED BY <2>5, <2>7, <2>8, <2>10, <3>1
  <2> QED BY <1>4, <2>9, <2>10
<1>5. Answer \/ AsyncAnswer \/ LoseAnswer => \E b \in Door : rsp[b] # <<>> /\ rsp' = [rsp EXCEPT ![b] = Tail(@)]
  BY DEF Answer, AsyncAnswer, LoseAnswer, Door
<1>6. CASE ~Answer /\ ~AsyncAnswer /\ ~LoseAnswer /\ ~Serve /\ ~Refuse
  <2>1. rsp' = rsp
    BY <1>6 DEF Next, Client, Begin, ReadBlock, WriteBlock, PostFirst, PostLast, Post, Wait, Send, Timeout,
                AsyncTimeout, LoseRequest
  <2> QED BY <1>2, <2>1
<1> QED BY <1>3, <1>4, <1>5, <1>6

\* What is waited for has bytes, and is a read unless it is the write at hand.
LEMMA WantedShape ==
    ASSUME Typed, NEW e, Wanted(e)
    PROVE  /\ e.door \in Door /\ e.tid \in Nat /\ e.len \in Nat /\ e.len >= 1
           /\ e.kind # "rd" => Writing /\ e = xact.msg
<1>1. Fields /\ Pending /\ Requested /\ mode \in Modes
  BY TypedParts DEF Fields
<1>2. CASE pc \in {"send", "await"} /\ e = xact.msg
  <2>1. Good(Cur)
    BY <1>2, BlockAtHand
  <2>2. e \in Msg /\ e.door \in Door /\ e.tid \in Nat
    BY <1>1, <1>2, Constants DEF Requested, Msg
  <2>3. xact.use \in {"read", "readback", "write"}
    BY <1>1, <1>2 DEF Requested
  <2>4. xact.use # "write" => e.kind = "rd"
    BY <1>2, UseKind
  <2>5. PICK len \in Nat : len = length(Cur) /\ len >= 1 /\ (mode.byteRes => len = totbytes(Cur))
    <3>1. length(Cur) \in 1..Size /\ (mode.byteRes => length(Cur) = totbytes(Cur))
      BY <1>1, <2>1, InsideMemory DEF Good, BlockType
    <3> QED BY <3>1, Constants
  <2>6. CASE xact.use = "read"
    <3>1. PICK t : e = ReadMsg("sync", t, Cur)
      BY <1>1, <1>2, <2>6 DEF Requested
    <3>2. e.len = len
      BY <2>5, <3>1 DEF ReadMsg, length
    <3> QED BY <2>2, <2>4, <2>5, <2>6, <3>2
  <2>7. CASE xact.use = "readback"
    <3>1. PICK t, a : e = ReadMsg("sync", t, a) /\ a = SyncRead(Cur)
      BY <1>1, <1>2, <2>7 DEF Requested
    <3>2. IsRead(a)
      BY <1>1, <2>1, <3>1, FirstReads, LastReads DEF SyncRead
    <3>3. e.len = a.n /\ a.n \in Nat /\ a.n >= 1
      BY <3>1, <3>2 DEF IsRead
    <3> QED BY <2>2, <2>4, <2>7, <3>3
  <2>8. CASE xact.use = "write"
    <3>1. PICK t, p : e = WriteMsg(t, Cur, p)
      BY <1>1, <1>2, <2>8 DEF Requested
    <3>2. e.len = len
      <4>1. ~mode.byteRes => NWords(totbytes(Cur)) * W = len
        BY <2>5 DEF length
      <4> QED BY <2>5, <3>1, <4>1 DEF WriteMsg
    <3> QED BY <1>2, <2>2, <2>5, <2>8, <3>2 DEF Writing
  <2> QED BY <2>3, <2>6, <2>7, <2>8
<1>3. CASE \E p \in pend : e = AsyncMsg(p)
  <2>8. PICK p \in pend : e = AsyncMsg(p)
    BY <1>3
  <2>9. PICK a : a = AsyncRead(p)
    OBVIOUS
  <2>1. a = AsyncRead(p) /\ e = ReadMsg("async", p.tid, a)
    BY <2>8, <2>9 DEF AsyncMsg
  <2>2. pc # "idle"
    BY <1>1, <2>1 DEF Pending
  <2>3. Good(Cur)
    BY <2>2, BlockAtHand
  <2>4. IsRead(a)
    BY <1>1, <2>1, <2>3, FirstReads, LastReads DEF AsyncRead
  <2>5. e.door = "async" /\ e.tid = p.tid /\ e.len = a.n /\ e.kind = "rd"
    BY <2>1, <2>4, ReadAsked
  <2>6. a.n \in Nat /\ a.n >= 1
    BY <2>4 DEF IsRead
  <2>7. p.tid \in Nat
    BY <1>1, Constants DEF Fields, Readback
  <2> QED BY <2>5, <2>6, <2>7 DEF Door
<1> QED BY <1>2, <1>3 DEF Wanted

\* Transaction ids are given out in order.
LEMMA IdsStep ==
    ASSUME Typed, EnoughTids, Ids, Next PROVE Ids'
<1>1. IdsLeft' /\ tid <= tid' /\ tid \in Nat /\ tid' \in Int
  <2>1. tid \in Nat
    BY Constants DEF Typed, TypeOK
  <2>2. tid' \in Int
    <3>1. Typed'
      BY TypedStep
    <3>2. tid' \in 0..TidMod-1
      BY <3>1 DEF Typed, TypeOK
    <3> QED BY <3>2, Constants
  <2> QED BY <2>1, <2>2, IdsLeftStep
<1>2. ASSUME NEW t \in Int, t <= tid PROVE t <= tid'
  BY <1>1, <1>2
<1>3. ASSUME NEW i \in DOMAIN req PROVE req[i].tid \in Nat /\ req[i].tid <= tid'
  <2>1. req[i] \in Msg
    BY QueueOps DEF Typed, TypeOK
  <2>2. req[i].tid \in Nat
    BY <2>1, Constants DEF Msg
  <2>3. req[i].tid <= tid
    BY DEF Ids
  <2> QED BY <1>2, <2>2, <2>3
<1>4. ASSUME NEW e, Wanted(e) PROVE e.tid <= tid'
  <2>1. e.tid \in Nat
    BY <1>4, WantedShape
  <2>2. e.tid <= tid
    BY <1>4 DEF Ids
  <2> QED BY <1>2, <2>1, <2>2
<1>5. ASSUME NEW part, NEW a, NEW next, Post(part, a, next), PostFirst \/ PostLast
      PROVE  ReadMsg("async", Tid(1), a).tid <= tid'
  <2>1. tid' = Tid(1) /\ tid' \in Int
    BY <1>1, <1>5 DEF Post
  <2>2. ReadMsg("async", Tid(1), a).tid = Tid(1)
    BY DEF ReadMsg
  <2> QED BY <2>1, <2>2
<1>6. ASSUME NEW i \in DOMAIN req' PROVE req'[i].tid <= tid'
  <2>1. CASE Shorter
    BY <1>3, <2>1 DEF Shorter
  <2>2. CASE Send /\ pc = "send" /\ Longer(xact.msg)
    <3>1. Wanted(xact.msg)
      BY <2>2 DEF Wanted
    <3> QED BY <1>3, <1>4, <2>2, <3>1 DEF Longer
  <2>3. CASE \E part, a, next : /\ Post(part, a, next) /\ (PostFirst \/ PostLast)
                                /\ Longer(ReadMsg("async", Tid(1), a))
    BY <1>3, <1>5, <2>3 DEF Longer
  <2> QED BY <2>1, <2>2, <2>3, RequestsGo
<1>7. ASSUME NEW d \in Door, NEW i \in DOMAIN rsp'[d] PROVE rsp'[d][i].tid <= tid'
  <2>1. CASE \E l \in DOMAIN rsp[d] : rsp'[d][i] = rsp[d][l]
    <3>1. PICK l \in DOMAIN rsp[d] : rsp'[d][i] = rsp[d][l]
      BY <2>1
    <3>2. rsp[d][l] \in Answers
      <4>1. rsp[d] \in Seq(Answers)
        BY TypedParts DEF QueuesOK
      <4> QED BY <4>1, QueueOps
    <3>3. rsp[d][l].tid \in Int /\ rsp[d][l].tid <= tid
      BY <3>2, Constants DEF Answers, Ids
    <3> QED BY <1>2, <3>1, <3>3
  <2>2. CASE \E m : NewAnswer(m, rsp'[d][i])
    BY <1>3, <2>2 DEF NewAnswer
  <2> QED BY <2>1, <2>2, AnswersGo
<1>8. ASSUME NEW e, Wanted(e)' PROVE e.tid <= tid'
  <2>1. CASE Fresh(e)
    BY <2>1, IdsFresh
  <2>2. CASE (PostFirst \/ PostLast) /\ e.tid = Tid(1)
    <3>1. tid' = tid + 1 /\ Tid(1) = tid + 1
      BY <2>2, IdsPost
    <3> QED BY <1>1, <2>2, <3>1
  <2> QED BY <1>4, <1>8, <2>1, <2>2, WantedGoes
<1> QED BY <1>1, <1>6, <1>7, <1>8 DEF Ids

\* The write at hand is inside the memory.
LEMMA WriteInside ==
    ASSUME Typed, OkData, Writing, NEW e, e = xact.msg, NEW i \in DOMAIN e.data
    PROVE  e.off + i - 1 \in Addr /\ i \in Int /\ e.off \in Int
<1>1. pc \in {"send", "await"} /\ xact.use = "write" /\ Brings(Cur, e)
  BY DEF Writing, OkData
<1>2. PICK st \in Nat, len \in Nat : st = start(Cur) /\ len = length(Cur) /\ st + len <= Size
  BY <1>1, CurNumbers
<1>3. mode \in Modes /\ Good(Cur)
  BY <1>1, BlockAtHand
<1>4. e.off = st /\ e \in Msg
  BY <1>1, <1>2, UseKind
<1>5. e.len = len
  <2>1. PICK t, p : e = WriteMsg(t, Cur, p)
    BY <1>1, TypedParts DEF Requested
  <2>2. mode.byteRes => totbytes(Cur) = len
    BY <1>2, <1>3, InsideMemory DEF Good, BlockType
  <2>3. ~mode.byteRes => NWords(totbytes(Cur)) * W = len
    BY <1>2 DEF length
  <2> QED BY <2>1, <2>2, <2>3 DEF WriteMsg
<1>6. DOMAIN e.data = 1..len
  <2>1. e.data \in Seq(Byte) /\ Len(e.data) = len
    BY <1>1, <1>4, <1>5 DEF Brings, Msg
  <2> QED BY <2>1, LenProperties
<1>7. i \in 1..len
  BY <1>6
<1> QED BY <1>2, <1>4, <1>7, Constants DEF Addr

\* An answer stays true when the device stores what it answers to, once more.
LEMMA AnsweredStays ==
    ASSUME Typed, OkData, NEW e, Wanted(e), \A l \in DOMAIN req : Calm(e, req[l]),
           NEW m, Stores(m), NEW r, Answered(e, r) \/ Accepted(m)
    PROVE  Answered(e, r)'
<1>1. m = e /\ e.kind # "rd"
  BY DEF Stores, Calm
<1>2. Writing /\ e = xact.msg
  BY <1>1, WantedShape
<1>3. ASSUME NEW i \in DOMAIN e.data PROVE mem'[e.off + i - 1] = e.data[i]
  <2>1. PICK a \in Addr : a = e.off + i - 1 /\ a - e.off + 1 = i
    <3>1. e.off + i - 1 \in Addr /\ i \in Int /\ e.off \in Int
      BY <1>2, <1>3, WriteInside
    <3> QED BY <3>1
  <2>2. Hits(e, a) /\ At(e, a) = e.data[i]
    BY <1>1, <1>3, <2>1 DEF Hits, At
  <2>3. CASE Accepted(m)
    <3>1. mem'[a] = At(e, a)
      BY <1>1, <2>2, <2>3 DEF Stores
    <3> QED BY <2>1, <2>2, <3>1
  <2>4. CASE ~Accepted(m)
    <3>1. mem'[a] = mem[a]
      BY <2>4 DEF Stores
    <3>2. mem[a] = e.data[i]
      BY <1>1, <1>3, <2>1, <2>4 DEF Answered
    <3> QED BY <2>1, <3>1, <3>2
  <2> QED BY <2>3, <2>4
<1> QED BY <1>1, <1>3 DEF Answered

\* An answer to what is waited for stays true, as long as no request is added.
LEMMA AnswerStays ==
    ASSUME Typed, OkData, Next, NEW e, Wanted(e), \A l \in DOMAIN req : Calm(e, req[l]),
           NEW r, Answered(e, r)
    PROVE  Answered(e, r)'
<1>1. CASE mem' = mem
  BY <1>1 DEF Answered
<1>2. CASE \E m : Stores(m)
  BY <1>2, AnsweredStays
<1> QED BY <1>1, <1>2, MemoryGoes

\* A new answer to what is waited for is true.
LEMMA AnswerNew ==
    ASSUME Typed, OkData, Matched, Next, NEW e, Wanted(e), NEW m, NEW r, NewAnswer(m, r),
           m.door = e.door, r.tid = e.tid, r.words = NWords(e.len)
    PROVE  Answered(e, r)' /\ \A l \in DOMAIN req : Calm(e, req[l])
<1>1. m = req[1] /\ 1 \in DOMAIN req /\ m.tid = e.tid
  BY DEF NewAnswer
<1>2. m = e /\ \A l \in DOMAIN req : Calm(e, req[l])
  <2>1. RequestMatch(e)
    BY DEF Matched
  <2>2. \A l \in DOMAIN req : l >= 1
    <3>1. req \in Seq(Msg)
      BY DEF Typed, TypeOK
    <3> QED BY <3>1, LenProperties
  <2> QED BY <1>1, <2>1, <2>2 DEF RequestMatch
<1>3. r.words # 0
  <2>1. e.len \in Nat /\ e.len >= 1
    BY WantedShape
  <2>2. NWords(e.len) >= 1 /\ NWords(e.len) \in Nat
    BY <2>1, Words
  <2> QED BY <2>2
<1>4. CASE m.kind = "rd" /\ mem' = mem /\ \A j \in 1..m.len : r.data[j] = mem[m.off + j - 1]
  BY <1>2, <1>4 DEF Answered
<1>5. CASE m.kind # "rd" /\ Accepted(m) /\ Stores(m)
  BY <1>2, <1>5, AnsweredStays
<1> QED BY <1>2, <1>3, <1>4, <1>5 DEF NewAnswer

-----------------------------------------------------------------------------
(* Requests and answers that match (Matched).                               *)

\* What is waited for is still matched when no request is added.
LEMMA MatchedShorter ==
    ASSUME Typed, OkData, Matched, Next, Shorter, NEW e, Wanted(e)
    PROVE  RequestMatch(e)' /\ AnswerMatch(e)'
<1>1. RequestMatch(e) /\ AnswerMatch(e)
  BY DEF Matched
<1>2. PICK s \in Nat : \A i \in DOMAIN req' : i \in Nat /\ i + s \in DOMAIN req /\ req'[i] = req[i + s]
  BY DEF Shorter
<1>3. RequestMatch(e)'
  <2>1. ASSUME NEW i \in DOMAIN req', req'[i].door = e.door, req'[i].tid = e.tid
        PROVE  req'[i] = e /\ \A l \in DOMAIN req' : l >= i => Calm(e, req'[l])
    <3>1. i + s \in DOMAIN req /\ req'[i] = req[i + s]
      BY <1>2
    <3>2. req[i + s] = e /\ \A l \in DOMAIN req : l >= i + s => Calm(e, req[l])
      BY <1>1, <2>1, <3>1 DEF RequestMatch
    <3>3. ASSUME NEW l \in DOMAIN req', l >= i PROVE Calm(e, req'[l])
      <4>1. l + s \in DOMAIN req /\ l + s >= i + s
        BY <1>2, <3>3
      <4> QED BY <1>2, <3>2, <4>1
    <3> QED BY <3>1, <3>2, <3>3
  <2> QED BY <2>1 DEF RequestMatch, Calm
<1>4. AnswerMatch(e)'
  <2>1. ASSUME NEW i \in DOMAIN rsp'[e.door], rsp'[e.door][i].tid = e.tid,
               rsp'[e.door][i].words = NWords(e.len)
        PROVE  Answered(e, rsp[e.door][i])' /\ \A l \in DOMAIN req' : Calm(e, req'[l])
    <3>1. e.door \in Door
      BY WantedShape
    <3>2. PICK r : r = rsp'[e.door][i]
      OBVIOUS
    <3>3. Answered(e, r)' /\ \A l \in DOMAIN req : Calm(e, req[l])
      <4>1. CASE \E l \in DOMAIN rsp[e.door] : r = rsp[e.door][l]
        <5>1. Answered(e, r) /\ \A l \in DOMAIN req : Calm(e, req[l])
          BY <1>1, <2>1, <3>2, <4>1 DEF AnswerMatch
        <5> QED BY <5>1, AnswerStays
      <4>2. CASE \E m : m.door = e.door /\ NewAnswer(m, r)
        BY <2>1, <3>2, <4>2, AnswerNew
      <4> QED BY <3>1, <3>2, <4>1, <4>2, AnswersGo
    <3>4. \A l \in DOMAIN req' : Calm(e, req'[l])
      BY <1>2, <3>3
    <3>5. Answered(e, rsp[e.door][i])'
      BY <3>2, <3>3 DEF Answered
    <3> QED BY <3>4, <3>5
  <2> QED BY <2>1 DEF AnswerMatch, Calm
<1> QED BY <1>3, <1>4

\* Also when one is added that is a read or the message itself.
LEMMA MatchedLonger ==
    ASSUME Typed, Matched, UNCHANGED <<rsp, mem>>, NEW e, Wanted(e), NEW m, Longer(m),
           m.kind = "rd" \/ m = e, m.door = e.door /\ m.tid = e.tid => m = e
    PROVE  RequestMatch(e)' /\ AnswerMatch(e)'
<1>1. RequestMatch(e) /\ AnswerMatch(e)
  BY DEF Matched
<1>2. PICK n \in Nat : /\ n \in DOMAIN req' /\ req'[n] = m
                       /\ \A i \in DOMAIN req' : i = n \/ (i \in DOMAIN req /\ i < n)
  BY DEF Longer
<1>3. (\A i \in DOMAIN req : req'[i] = req[i]) /\ DOMAIN req \subseteq Nat
  BY DEF Longer
<1>4. Calm(e, m)
  BY DEF Calm
<1>5. ASSUME NEW i \in DOMAIN req', req'[i].door = e.door, req'[i].tid = e.tid
      PROVE  req'[i] = e /\ \A l \in DOMAIN req' : l >= i => Calm(e, req'[l])
  <2>1. CASE i = n
    <3>1. req'[i] = e
      BY <1>2, <1>5, <2>1
    <3>2. \A l \in DOMAIN req' : l >= i => l = n
      BY <1>2, <1>3, <2>1
    <3> QED BY <1>2, <1>4, <3>1, <3>2
  <2>2. CASE i # n
    <3>1. i \in DOMAIN req /\ req'[i] = req[i]
      BY <1>2, <1>3, <2>2
    <3>2. req[i] = e /\ \A l \in DOMAIN req : l >= i => Calm(e, req[l])
      BY <1>1, <1>5, <3>1 DEF RequestMatch
    <3> QED BY <1>2, <1>3, <1>4, <3>1, <3>2
  <2> QED BY <2>1, <2>2
<1>6. ASSUME NEW i \in DOMAIN rsp'[e.door], rsp'[e.door][i].tid = e.tid,
             rsp'[e.door][i].words = NWords(e.len)
      PROVE  Answered(e, rsp[e.door][i])' /\ \A l \in DOMAIN req' : Calm(e, req'[l])
  <2>1. Answered(e, rsp[e.door][i]) /\ \A l \in DOMAIN req : Calm(e, req[l])
    BY <1>1, <1>6 DEF AnswerMatch
  <2>2. \A l \in DOMAIN req' : Calm(e, req'[l])
    BY <1>2, <1>3, <1>4, <2>1
  <2>3. Answered(e, rsp[e.door][i])'
    BY <2>1 DEF Answered
  <2> QED BY <2>2, <2>3
<1> QED BY <1>5, <1>6 DEF RequestMatch, AnswerMatch, Calm

\* Nothing matches a message with a new id but the message itself.
LEMMA MatchedNew ==
    ASSUME Typed, Ids, Next, NEW e, e.tid = tid + 1, e.door \in Door, req' = req \/ Longer(e)
    PROVE  RequestMatch(e)' /\ AnswerMatch(e)'
<1>1. tid \in Nat /\ ~(e.tid <= tid)
  <2>1. tid \in Nat
    BY Constants DEF Typed, TypeOK
  <2> QED BY <2>1
<1>2. \A i \in DOMAIN req : req[i].tid # e.tid
  BY <1>1 DEF Ids
<1>3. ASSUME NEW i \in DOMAIN rsp'[e.door] PROVE rsp'[e.door][i].tid # e.tid
  <2>1. \A l \in DOMAIN rsp[e.door] : rsp[e.door][l].tid # e.tid
    BY <1>1 DEF Ids
  <2>2. CASE \E m : NewAnswer(m, rsp'[e.door][i])
    BY <1>2, <2>2 DEF NewAnswer
  <2> QED BY <2>1, <2>2, AnswersGo
<1>4. AnswerMatch(e)'
  BY <1>3 DEF AnswerMatch
<1>5. ASSUME NEW i \in DOMAIN req', req'[i].door = e.door, req'[i].tid = e.tid
      PROVE  req'[i] = e /\ \A l \in DOMAIN req' : l >= i => Calm(e, req'[l])
  <2>1. CASE req' = req
    BY <1>2, <1>5, <2>1
  <2>2. CASE Longer(e)
    <3>1. PICK n \in Nat : /\ n \in DOMAIN req' /\ req'[n] = e
                           /\ \A l \in DOMAIN req' : l = n \/ (l \in DOMAIN req /\ l < n)
      BY <2>2 DEF Longer
    <3>2. (\A l \in DOMAIN req : req'[l] = req[l]) /\ DOMAIN req \subseteq Nat
      BY <2>2 DEF Longer
    <3>3. i = n
      BY <1>2, <1>5, <3>1, <3>2
    <3>4. \A l \in DOMAIN req' : l >= i => l = n
      BY <3>1, <3>2, <3>3
    <3> QED BY <3>1, <3>3, <3>4 DEF Calm
  <2> QED BY <2>1, <2>2
<1> QED BY <1>4, <1>5 DEF RequestMatch, Calm

\* Each answer and request under way that matches what is waited for belongs to it.
LEMMA MatchedStep ==
    ASSUME Typed, EnoughTids, Ids, OkData, Matched, Next PROVE Matched'
<1>1. SUFFICES ASSUME NEW e, Wanted(e)' PROVE RequestMatch(e)' /\ AnswerMatch(e)'
  BY DEF Matched
<1>2. CASE Fresh(e)
  <2>1. e.tid = tid + 1 /\ e.door \in Door /\ req' = req
    BY <1>2, IdsFresh DEF Fresh, Door
  <2> QED BY <2>1, MatchedNew
<1>3. CASE (PostFirst \/ PostLast) /\ e.tid = Tid(1) /\ e.door = "async" /\ Longer(e)
  <2>1. e.tid = tid + 1 /\ e.door \in Door
    BY <1>3, IdsPost DEF Door
  <2> QED BY <1>3, <2>1, MatchedNew
<1>4. CASE Wanted(e)
  <2>1. CASE Shorter
    BY <1>4, <2>1, MatchedShorter
  <2>2. CASE Send /\ pc = "send" /\ Longer(xact.msg)
    <3>1. pend' = pend /\ UNCHANGED <<rsp, mem>> /\ (NextBlock \/ xact' = xact)
      BY <2>2 DEF Send
    <3>2. pend = {}
      BY <2>2, NothingPending
    <3>3. NextBlock => pc' \notin {"send", "await"}
      BY DEF NextBlock, Return
    <3>4. e = xact.msg
      BY <1>1, <3>1, <3>2, <3>3 DEF Wanted
    <3> QED BY <1>4, <2>2, <3>1, <3>4, MatchedLonger
  <2>3. ASSUME NEW part, NEW a, NEW next, Post(part, a, next), PostFirst \/ PostLast,
               NEW m, m = ReadMsg("async", Tid(1), a), m.kind = "rd", Longer(m)
        PROVE  RequestMatch(e)' /\ AnswerMatch(e)'
    <3>1. UNCHANGED <<rsp, mem>>
      BY <2>3 DEF Post
    <3>2. m.tid = tid + 1
      BY <2>3, IdsPost DEF ReadMsg
    <3>3. e.tid \in Nat /\ e.tid <= tid /\ tid \in Nat
      <4>1. tid \in Nat
        BY Constants DEF Typed, TypeOK
      <4> QED BY <1>4, <4>1, WantedShape DEF Ids
    <3>4. m.tid # e.tid
      BY <3>2, <3>3
    <3> QED BY <1>4, <2>3, <3>1, <3>4, MatchedLonger
  <2> QED BY <2>1, <2>2, <2>3, RequestsGo
<1> QED BY <1>1, <1>2, <1>3, <1>4, WantedGoes

-----------------------------------------------------------------------------
(* The theorems.                                                            *)

\* Initially the memory is as it was, and nothing is under way.
LEMMA FaithfulInit == Init => Faithful
<1> SUFFICES ASSUME Init PROVE Faithful
  OBVIOUS
<1>1. /\ req = <<>> /\ DOMAIN req = {} /\ \A d \in Door : DOMAIN rsp[d] = {}
      /\ hist = <<>> /\ k = 0 /\ pc = "idle" /\ pend = {} /\ tid = 0 /\ out = <<>>
  BY EmptySeq DEF Init, k
<1>2. \A e : ~Wanted(e)
  BY <1>1 DEF Wanted
<1>3. Ids
  <2>1. 0 <= Budget(0)
    BY Budgets
  <2> QED BY <1>1, <1>2, <2>1 DEF Ids, IdsLeft
<1>4. Matched /\ ReadBack
  BY <1>1, <1>2 DEF Matched, ReadBack
<1>5. OkData /\ Monotone
  <2>1. ~Writing
    BY <1>1 DEF Writing
  <2>2. \A a \in Addr, x \in Bit : mem[a][x] = <<0, a>>
    BY DEF Init
  <2> QED BY <1>1, <2>1, <2>2 DEF OkData, OkAll, OkBit, Monotone
<1>6. ReadSoFar /\ WrittenSoFar
  BY <1>1 DEF ReadSoFar, WrittenSoFar
<1> QED BY <1>3, <1>4, <1>5, <1>6, TypedInit DEF Faithful

\* A stuttering step changes nothing of it.
LEMMA FaithfulStays == Faithful /\ UNCHANGED vars => Faithful'
<1> SUFFICES ASSUME Faithful, UNCHANGED vars PROVE Faithful'
  OBVIOUS
<1>1. UNCHANGED <<mode, mem, tid, req, rsp, hist, pc, todo, xact, attempt, pend, got, failed, out, ok>>
  BY DEF vars
<1>2. Typed'
  BY TypedStep DEF Faithful
<1>3. Cur' = Cur /\ k' = k /\ call' = call
  BY <1>1, SameBlock DEF k, call
<1>4. \A e : Wanted(e)' <=> Wanted(e)
  <2>1. \A p : AsyncRead(p)' = AsyncRead(p)
    BY <1>1, <1>3, SameMode DEF AsyncRead
  <2>2. \A p : AsyncMsg(p)' = AsyncMsg(p)
    BY <1>1, <2>1, SameMessages DEF AsyncMsg
  <2> QED BY <1>1, <2>2 DEF Wanted
<1>5. Ids'
  <2>1. IdsLeft'
    BY <1>1, <1>3 DEF Faithful, Ids, IdsLeft, Used, Budget
  <2> QED BY <1>1, <1>4, <2>1 DEF Faithful, Ids
<1>6. Matched'
  BY <1>1, <1>4 DEF Faithful, Matched, RequestMatch, AnswerMatch, Answered, Calm, NWords
<1>7. ReadBack'
  <2>1. FirstRead(Cur)' = FirstRead(Cur) /\ LastRead(Cur)' = LastRead(Cur)
    BY <1>1, <1>3, SameMode
  <2> QED BY <1>1, <2>1 DEF Faithful, ReadBack, Back, Quiet, Copy
<1>8. OkData'
  <2>1. OkData
    BY DEF Faithful
  <2>2. PICK b, m : b = Cur /\ m = xact.msg
    OBVIOUS
  <2>3. Brings(b, m)' = Brings(b, m) /\ \A w : OkMsg(w)' = OkMsg(w)
    BY <1>1, SameOk, SameBrings
  <2>4. OkAll'
    <3>1. \A v, a, x : OkBit(v, a, x)' = OkBit(v, a, x)
      BY <1>1, SameOk
    <3> QED BY <1>1, <2>1, <2>3, <3>1 DEF OkData, OkAll
  <2> QED BY <1>1, <1>3, <2>1, <2>2, <2>3, <2>4 DEF OkData, Writing
<1>9. Monotone'
  BY <1>1 DEF Faithful, Monotone, MemNotAfter, NotAfter, Hits, At, Writing
<1>10. ReadSoFar' /\ WrittenSoFar'
  <2>1. ReadSoFar /\ WrittenSoFar /\ Done' = Done /\ mem' = mem
    BY <1>1, <1>3 DEF Faithful, Done
  <2>2. ReadSoFar'
    BY <1>1, <1>3, <2>1 DEF ReadSoFar, Quiet
  <2>3. \A i, x : There(i, x) => There(i, x)'
    BY <1>1, <1>3 DEF There, Hits, At
  <2>4. WrittenSoFar'
    BY <1>1, <1>3, <2>1, <2>3 DEF WrittenSoFar
  <2> QED BY <2>2, <2>4
<1> QED BY <1>2, <1>5, <1>6, <1>7, <1>8, <1>9, <1>10 DEF Faithful

\* What is stored is no older than what was there.
LEMMA StoresNotBefore ==
    ASSUME Typed, Monotone, NEW m, Stores(m), NEW a \in Addr, NEW j \in Bit
    PROVE  mem[a][j][1] <= mem'[a][j][1]
<1>1. mem[a][j][1] \in Int
  BY BitTyped, Constants
<1>2. MemNotAfter(m)
  BY DEF Stores, Monotone
<1>3. CASE Accepted(m) /\ Hits(m, a)
  BY <1>2, <1>3 DEF Stores, MemNotAfter
<1>4. CASE ~(Accepted(m) /\ Hits(m, a))
  <2>1. mem'[a] = mem[a]
    BY <1>4 DEF Stores
  <2> QED BY <1>1, <2>1
<1> QED BY <1>3, <1>4

\* Every step keeps the memory, and what is under way, in order.
LEMMA FaithfulStep ==
    ASSUME EnoughTids, Uncollapsed
    PROVE  Faithful /\ [Next]_vars => Faithful'
<1>1. ASSUME Faithful, Next PROVE Faithful'
  <2>1. Typed'
    BY <1>1, TypedStep DEF Faithful
  <2>2. Ids' /\ Matched' /\ ReadBack'
    BY <1>1, IdsStep, MatchedStep, ReadBackStep DEF Faithful
  <2>3. OkData' /\ Monotone'
    BY <1>1, OkDataStep, MonotoneStep DEF Faithful
  <2>4. ReadSoFar' /\ WrittenSoFar'
    BY <1>1, ReadSoFarStep, WrittenSoFarStep DEF Faithful
  <2> QED BY <2>1, <2>2, <2>3, <2>4 DEF Faithful
<1> QED BY <1>1, FaithfulStays DEF Faithful

\* A call that has returned is done.
LEMMA DoneIsAll ==
    ASSUME Typed, pc = "idle", k > 0, ok
    PROVE  Done = call.n /\ call \in Call /\ call.n \in Nat /\ k >= 1
<1>1. k >= 1 /\ k \in Nat /\ hist \in Seq(Calls)
  BY DEF Typed, TypeOK, k
<1>2. call \in Calls
  BY <1>1 DEF call, k
<1>3. call \in Call
  BY <1>2, CallAssumption
<1>4. call.n \in Nat
  BY <1>3, Constants DEF Call
<1> QED BY <1>1, <1>3, <1>4 DEF Done

\* A write changes nothing but its own bits (Placed): no byte of a source is ever found
\* at another address, and no bit that the masks protect is changed.
THEOREM WritesPlaced == ASSUME EnoughTids, Uncollapsed PROVE Spec => []Placed
<1>1. Faithful => Placed
  BY DEF Faithful, OkData, OkAll, OkBit, Placed
<1>2. Faithful /\ [Next]_vars => Faithful'
  BY FaithfulStep
<1> QED BY <1>1, <1>2, FaithfulInit, PTL DEF Spec

\* A write that was not posted and returned without an error has taken effect, all of it
\* (WriteEffect), in spite of lost, repeated and late messages.
THEOREM WritesTakeEffect == ASSUME EnoughTids, Uncollapsed PROVE Spec => []WriteEffect
<1>1. Faithful => WriteEffect
  <2> SUFFICES ASSUME Faithful, pc = "idle", k > 0, ok, ~mode.posted, call.kind = "write",
                      NEW i \in 0..call.n - 1, NEW j \in Bit
               PROVE  \/ i = 0 /\ j \in call.m1
                      \/ i = call.n - 1 /\ j \in call.mn
                      \/ mem[call.off + i][j] = <<k, i>>
    BY DEF WriteEffect
  <2>1. Done = call.n /\ k >= 1
    BY DoneIsAll DEF Faithful
  <2>2. There(i, j)
    BY <2>1 DEF Faithful, WrittenSoFar
  <2> QED BY <2>2 DEF There
<1>2. Faithful /\ [Next]_vars => Faithful'
  BY FaithfulStep
<1> QED BY <1>1, <1>2, FaithfulInit, PTL DEF Spec

\* A read that returned without an error has got what is in the memory (ReadCurrent):
\* never the answer to an earlier request, nothing from before a write made earlier.
THEOREM ReadsAreCurrent == ASSUME EnoughTids, Uncollapsed PROVE Spec => []ReadCurrent
<1>1. Faithful => ReadCurrent
  <2> SUFFICES ASSUME Faithful, pc = "idle", k > 0, ok, call.kind = "read"
               PROVE  out = [i \in 1..call.n |-> mem[call.off + i - 1]]
    BY DEF ReadCurrent
  <2>1. Done = call.n /\ k >= 1 /\ call.n \in Nat
    BY DoneIsAll DEF Faithful
  <2>2. Len(out) = call.n /\ \A i \in 1..call.n : out[i] = mem[call.off + i - 1]
    BY <2>1 DEF Faithful, ReadSoFar
  <2>3. out \in Seq(Byte)
    BY DEF Faithful, Typed, TypeOK
  <2>4. out = [i \in 1..call.n |-> out[i]]
    BY <2>2, <2>3
  <2> QED BY <2>2, <2>4
<1>2. Faithful /\ [Next]_vars => Faithful'
  BY FaithfulStep
<1> QED BY <1>1, <1>2, FaithfulInit, PTL DEF Spec

\* No update is lost (NoRevert): what a later call wrote is never replaced by what was
\* there before, neither by a retry nor by a word that was read back earlier.
THEOREM NothingReverts == ASSUME EnoughTids, Uncollapsed PROVE Spec => NoRevert
<1>1. ASSUME Faithful, [Next]_vars
      PROVE  \A a \in Addr, j \in Bit : mem'[a][j][1] >= mem[a][j][1]
  <2>1. Typed
    BY <1>1 DEF Faithful
  <2>2. \A a \in Addr, j \in Bit : mem[a][j][1] \in Int
    BY <2>1, BitTyped, Constants
  <2>3. CASE mem' = mem
    BY <2>2, <2>3
  <2>4. CASE \E m : Stores(m)
    <3>1. PICK m : Stores(m)
      BY <2>4
    <3> QED BY <1>1, <2>1, <2>2, <3>1, StoresNotBefore DEF Faithful
  <2>5. Next \/ mem' = mem
    BY <1>1 DEF vars
  <2> QED BY <2>1, <2>3, <2>4, <2>5, MemoryGoes
<1>2. Faithful /\ [Next]_vars => [\A a \in Addr, j \in Bit : mem'[a][j][1] >= mem[a][j][1]]_vars
  BY <1>1
<1>3. Faithful /\ [Next]_vars => Faithful'
  BY FaithfulStep
<1> QED BY <1>2, <1>3, FaithfulInit, PTL DEF Spec, NoRevert
=============================================================================
