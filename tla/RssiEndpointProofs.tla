------------------------- MODULE RssiEndpointProofs -------------------------
(***************************************************************************)
(* The functions and handlers of RssiEndpoint, one lemma each on three     *)
(* things: that an endpoint is mapped to an endpoint; that no more         *)
(* segments are kept than the peer's window, and the ring buffer, have     *)
(* room for (Shape); and that the numbers stay in order: what is kept for  *)
(* retransmission is numbered without a gap up to lastSeqSent, and the     *)
(* number acknowledged to the peer is the last one delivered (AckInStep).  *)
(*                                                                         *)
(* Then the timers, the count of segments to acknowledge and the user's    *)
(* events: the handlers keep them in step with the connection, so that no  *)
(* event arrives in a state that does not expect it.  One lemma per        *)
(* function on the fields it changes, then one per handler that Steady,    *)
(* the inductive invariant, is preserved.                                  *)
(***************************************************************************)
EXTENDS RssiEndpoint, FiniteSetTheorems, SequenceTheorems, TLAPS

-----------------------------------------------------------------------------
(* Types.                                                                   *)

\* A number modulo SeqMod is a sequence number.
LEMMA WrapType == \A n \in Int : Wrap(n) \in SeqNo
BY EndpointAssumption DEF Wrap, SeqNo

\* RssiTimer::cancel() leaves an endpoint.
LEMMA CancelType ==
    ASSUME NEW s \in Endpoint, NEW t \in Timer
    PROVE  cancel(s, t) \in Endpoint
BY DEF cancel, Endpoint

\* RssiTimer::arm_rel() leaves an endpoint: its timers and their order.
LEMMA ArmType ==
    ASSUME NEW s \in Endpoint, NEW t \in Timer
    PROVE  arm(s, t) \in Endpoint
<1> DEFINE A == s.armed \cup {t}
           B == {p \in s.before : p[1] # t /\ p[2] # t}
                  \cup {<<u, t>> : u \in {v \in s.armed \ {t} : TO[v] <= TO[t]}}
<1>1. A \in SUBSET Timer
  BY DEF Endpoint
<1>2. B \in SUBSET (Timer \X Timer)
  <2>1. s.before \in SUBSET (Timer \X Timer) /\ s.armed \in SUBSET Timer
    BY DEF Endpoint
  <2> QED BY <2>1
<1>3. [s EXCEPT !.armed = A, !.before = B] \in Endpoint
  <2> HIDE DEF A, B
  <2> QED BY <1>1, <1>2 DEF Endpoint
<1> QED BY <1>3 DEF arm

\* armRexAndNulTimer() leaves an endpoint.
LEMMA ArmRexAndNulType ==
    ASSUME NEW s \in Endpoint
    PROVE  armRexAndNulTimer(s) \in Endpoint
BY ArmType DEF armRexAndNulTimer, Timer

\* What sendBuf() writes into a segment leaves a segment.
LEMMA StampType ==
    ASSUME NEW s \in Endpoint, NEW g \in Seg
    PROVE  mark(s, g) \in Seg /\ stamp(s, g) \in Seg
<1>1. mark(s, g) \in Seg
  BY DEF mark, Seg, Flag
<1>2. s.lastSeqRecv \in SeqNo
  BY DEF Endpoint
<1> QED BY <1>1, <1>2 DEF stamp, Seg

\* A new header is a segment, its number within the 8 bits.
LEMMA MkSegType ==
    ASSUME NEW fl \in SUBSET Flag, NEW n \in Int, NEW p \in Payload \cup {NoPld}
    PROVE  MkSeg(fl, n, p) \in Seg
<1>1. 0 \in SeqNo
  BY EndpointAssumption DEF SeqNo
<1> QED BY <1>1, WrapType DEF MkSeg, Seg

\* The same for a sequence of segments.
LEMMA MapStampType ==
    ASSUME NEW s \in Endpoint, NEW gs \in Seq(Seg)
    PROVE  /\ [i \in DOMAIN gs |-> stamp(s, gs[i])] \in Seq(Seg)
           /\ [i \in DOMAIN gs |-> mark(s, gs[i])] \in Seq(Seg)
<1>1. DOMAIN gs = 1..Len(gs) /\ Len(gs) \in Nat
  BY LenProperties
<1>2. \A i \in 1..Len(gs) : stamp(s, gs[i]) \in Seg /\ mark(s, gs[i]) \in Seg
  BY StampType, ElementOfSeq
<1> QED BY <1>1, <1>2, IsASeq

\* sendBuf() leaves an endpoint.
LEMMA SendBufType ==
    ASSUME NEW s \in Endpoint, NEW gs \in Seq(Seg)
    PROVE  sendBuf(s, gs) \in Endpoint
<1> DEFINE c == cancel(s, "ACK")
           x == c.tx \o [i \in DOMAIN gs |-> stamp(s, gs[i])]
           z == 0
<1>1. c \in Endpoint
  BY CancelType DEF Timer
<1>2. x \in Seq(Seg)
  <2> HIDE DEF c
  <2>1. c.tx \in Seq(Seg)
    BY <1>1 DEF Endpoint
  <2> QED BY <2>1, MapStampType, ConcatProperties
<1>3. z \in Int
  OBVIOUS
<1>4. [c EXCEPT !.numCak = z, !.tx = x] \in Endpoint
  <2> HIDE DEF c, x, z
  <2> QED BY <1>1, <1>2, <1>3, ZenonT(60) DEF Endpoint
<1> QED BY <1>4 DEF sendBuf

\* sendBufAndKeepForRetransmission() leaves an endpoint.
LEMMA KeepType ==
    ASSUME NEW s \in Endpoint, NEW gs \in Seq(Seg)
    PROVE  sendBufAndKeepForRetransmission(s, gs) \in Endpoint
<1> DEFINE r == sendBuf(s, gs)
           x == r.unAckedSegs \o [i \in DOMAIN gs |-> mark(s, gs[i])]
           p == IF Len(s.unAckedSegs) + Len(gs) - 1 > s.capa
                THEN "RingBuf Overflow" ELSE r.panic
           k == [r EXCEPT !.unAckedSegs = x, !.panic = p]
<1>1. r \in Endpoint
  BY SendBufType
<1>2. x \in Seq(Seg)
  <2> HIDE DEF r
  <2>1. r.unAckedSegs \in Seq(Seg)
    BY <1>1 DEF Endpoint
  <2> QED BY <2>1, MapStampType, ConcatProperties
<1>3. p \in Fault
  <2> HIDE DEF r
  <2>1. r.panic \in Fault
    BY <1>1 DEF Endpoint
  <2> QED BY <2>1 DEF Fault
<1>4. k \in Endpoint
  <2> HIDE DEF r, x, p
  <2> QED BY <1>1, <1>2, <1>3 DEF Endpoint
<1>5. sendBufAndKeepForRetransmission(s, gs) = armRexAndNulTimer(k)
  BY DEF sendBufAndKeepForRetransmission
<1> QED BY <1>4, <1>5, ArmRexAndNulType

\* sendDAT() leaves an endpoint, as long as inpQ has the payloads.
LEMMA SendDATType ==
    ASSUME NEW s \in Endpoint, NEW n \in 1..Len(s.inpQ)
    PROVE  sendDAT(s, n) \in Endpoint
<1> DEFINE l == Wrap(s.lastSeqSent + n)
           q == SubSeq(s.inpQ, n + 1, Len(s.inpQ))
           gs == [i \in 1..n |-> MkSeg({"ACK"}, s.lastSeqSent + i, s.inpQ[i])]
           r == [s EXCEPT !.lastSeqSent = l, !.inpQ = q]
<1>1. s.inpQ \in Seq(Payload) /\ Len(s.inpQ) \in Nat /\ s.lastSeqSent \in Int
  <2>1. s.inpQ \in Seq(Payload) /\ s.lastSeqSent \in SeqNo
    BY DEF Endpoint
  <2> QED BY <2>1, LenProperties, EndpointAssumption DEF SeqNo
<1>2. l \in SeqNo
  BY <1>1, WrapType
<1>3. q \in Seq(Payload)
  BY <1>1, SubSeqProperties
<1>4. gs \in Seq(Seg)
  <2>1. \A i \in 1..n : MkSeg({"ACK"}, s.lastSeqSent + i, s.inpQ[i]) \in Seg
    <3> TAKE i \in 1..n
    <3>1. s.inpQ[i] \in Payload \cup {NoPld}
      BY <1>1, ElementOfSeq
    <3>2. s.lastSeqSent + i \in Int /\ {"ACK"} \in SUBSET Flag
      BY <1>1 DEF Flag
    <3> QED BY <3>1, <3>2, MkSegType
  <2> QED BY <2>1, <1>1, IsASeq
<1>5. r \in Endpoint
  <2> HIDE DEF l, q
  <2> QED BY <1>2, <1>3 DEF Endpoint
<1> QED BY <1>4, <1>5, KeepType DEF sendDAT

\* A segment without payload, as a sequence.
LEMMA OneSegType ==
    ASSUME NEW fl \in SUBSET Flag, NEW n \in Int
    PROVE  <<MkSeg(fl, n, NoPld)>> \in Seq(Seg)
BY MkSegType

\* sendACK() leaves an endpoint.
LEMMA SendACKType ==
    ASSUME NEW s \in Endpoint
    PROVE  sendACK(s) \in Endpoint
<1>1. s.lastSeqSent + 1 \in Int
  BY EndpointAssumption DEF Endpoint, SeqNo
<1>2. {"ACK"} \in SUBSET Flag
  BY DEF Flag
<1> QED BY <1>1, <1>2, OneSegType, SendBufType DEF sendACK

\* A sequence number is used up.
LEMMA NextSeqType ==
    ASSUME NEW s \in Endpoint
    PROVE  [s EXCEPT !.lastSeqSent = Wrap(@ + 1)] \in Endpoint /\ s.lastSeqSent + 1 \in Int
<1> DEFINE l == Wrap(s.lastSeqSent + 1)
<1>1. s.lastSeqSent + 1 \in Int
  BY EndpointAssumption DEF Endpoint, SeqNo
<1>2. l \in SeqNo
  BY <1>1, WrapType
<1>3. [s EXCEPT !.lastSeqSent = l] \in Endpoint
  <2> HIDE DEF l
  <2> QED BY <1>2 DEF Endpoint
<1> QED BY <1>1, <1>3

\* sendRST() leaves an endpoint.
LEMMA SendRSTType ==
    ASSUME NEW s \in Endpoint
    PROVE  sendRST(s) \in Endpoint
<1>1. {"ACK", "RST"} \in SUBSET Flag
  BY DEF Flag
<1> QED BY <1>1, NextSeqType, OneSegType, SendBufType DEF sendRST

\* sendNUL() leaves an endpoint, with the window open or full.
LEMMA SendNULType ==
    ASSUME NEW s \in Endpoint
    PROVE  sendNUL(s) \in Endpoint
<1>1. {"ACK", "NUL"} \in SUBSET Flag
  BY DEF Flag
<1>2. CASE windowOpen(s)
  BY <1>1, <1>2, NextSeqType, OneSegType, KeepType DEF sendNUL
<1>3. CASE ~windowOpen(s)
  BY <1>3, ArmType, SendACKType DEF sendNUL, Timer
<1> QED BY <1>2, <1>3

\* sendSYN() leaves an endpoint.
LEMMA SendSYNType ==
    ASSUME NEW s \in Endpoint, NEW a \in BOOLEAN, NEW isn \in SeqNo
    PROVE  sendSYN(s, a, isn) \in Endpoint
<1> DEFINE fl == IF a THEN {"SYN", "ACK"} ELSE {"SYN"}
           par == [ossMX |-> MaxUnacked, rexMX |-> s.rexMX, cakMX |-> s.cakMX]
           g == MkSeg(fl, isn, NoPld)
           h == [g EXCEPT !.par = par]
           r == [s EXCEPT !.lastSeqSent = isn, !.oldestU = isn]
<1>1. fl \in SUBSET Flag
  BY DEF Flag
<1>2. par \in Par
  <2>1. s.rexMX \in Nat /\ s.cakMX \in Nat
    BY DEF Endpoint
  <2>2. MaxUnacked \in 1..(SeqMod - 1)
    BY EndpointAssumption DEF Pow2
  <2> QED BY <2>1, <2>2 DEF Par
<1>3. g \in Seg
  <2>1. isn \in Int
    BY EndpointAssumption DEF SeqNo
  <2> HIDE DEF fl
  <2> QED BY <1>1, <2>1, MkSegType
<1>4. h \in Seg
  <2> HIDE DEF g, par
  <2> QED BY <1>2, <1>3 DEF Seg
<1>5. r \in Endpoint
  BY DEF Endpoint
<1>6. <<h>> \in Seq(Seg)
  <2> HIDE DEF h
  <2> QED BY <1>4
<1> QED BY <1>5, <1>6, KeepType DEF sendSYN

-----------------------------------------------------------------------------
\* changeState() leaves an endpoint.
LEMMA ChangeStateType ==
    ASSUME NEW s \in Endpoint, NEW q \in State
    PROVE  changeState(s, q) \in Endpoint
<1> DEFINE c == IF ConnState(q) \notin {"NONE", ConnState(s.state)}
                THEN ConnState(q) ELSE s.conn
<1>1. c \in {"OPEN", "CLOSED"}
  BY DEF ConnState, Endpoint
<1>2. [s EXCEPT !.state = q, !.conn = c] \in Endpoint
  <2> HIDE DEF c
  <2> QED BY <1>1 DEF Endpoint
<1> QED BY <1>2 DEF changeState

\* An empty reassembly buffer.
LEMMA NothingReceivedType == NothingReceived \in [0..(MaxUnacked - 1) -> Slot]
BY DEF NothingReceived, Slot

\* close() leaves an endpoint.
LEMMA CloseType ==
    ASSUME NEW s \in Endpoint
    PROVE  close(s) \in Endpoint
<1> DEFINE u == Wrap(s.oldestU + Len(s.unAckedSegs))
           z == 0
           p == <<>>
           n == NothingReceived
<1>1. u \in SeqNo
  <2>1. s.oldestU \in Int /\ Len(s.unAckedSegs) \in Int
    <3>1. s.oldestU \in SeqNo /\ s.unAckedSegs \in Seq(Seg)
      BY DEF Endpoint
    <3> QED BY <3>1, LenProperties, EndpointAssumption DEF SeqNo
  <2> QED BY <2>1, WrapType
<1>2. z \in Nat /\ z \in Int
  OBVIOUS
<1>3. p \in Seq(Seg) /\ p \in Seq(Payload)
  OBVIOUS
<1>4. RexMax \in Nat /\ CumAckMax \in Nat /\ MaxUnacked \in 1..(SeqMod - 1)
  BY EndpointAssumption DEF Pow2
<1>5. n \in [0..(MaxUnacked - 1) -> Slot]
  BY NothingReceivedType
<1>6. [s EXCEPT !.outQ = p, !.inpQ = p, !.usrI = FALSE, !.usrO = FALSE,
              !.armed = {}, !.before = {},
              !.rexMX = RexMax, !.cakMX = CumAckMax,
              !.oldestU = u,
              !.unAckedSegs = p, !.unOrderedSegs = n,
              !.numRex = z, !.numCak = z, !.peerBSY = FALSE,
              !.peerOssMX = MaxUnacked] \in Endpoint
  <2> HIDE DEF u, z, p, n
  <2> QED BY <1>1, <1>2, <1>3, <1>4, <1>5, ZenonT(60) DEF Endpoint
<1> QED BY <1>6 DEF close

\* The reopen delay stays within its limit.
LEMMA ReopenDelayType ==
    ASSUME NEW s \in Endpoint
    PROVE  increaseReopenDelay(s) \in Endpoint /\ resetReopenDelay(s) \in Endpoint
<1> DEFINE d == IF s.reopenDelay < ReopenMax THEN s.reopenDelay + 2 ELSE s.reopenDelay
           e == 2
<1>1. d \in ReopenDelay /\ e \in ReopenDelay
  <2>1. s.reopenDelay \in ReopenDelay
    BY DEF Endpoint
  <2> QED BY <2>1, EndpointAssumption DEF ReopenDelay
<1>2. [s EXCEPT !.reopenDelay = d] \in Endpoint /\ [s EXCEPT !.reopenDelay = e] \in Endpoint
  <2> HIDE DEF d, e
  <2> QED BY <1>1, ZenonT(60) DEF Endpoint
<1> QED BY <1>2 DEF increaseReopenDelay, resetReopenDelay

\* CLOSED::advance(), before the sleep.
LEMMA ClosedAdvanceType ==
    ASSUME NEW s \in Endpoint
    PROVE  closedAdvance(s) \in Endpoint
BY CloseType, ChangeStateType DEF closedAdvance, State

\* CLOSED::advance(), after the sleep.
LEMMA ReopenType ==
    ASSUME NEW s \in Endpoint, NEW isn \in SeqNo
    PROVE  reopen(s, isn) \in Endpoint
BY ReopenDelayType, SendSYNType, ChangeStateType DEF reopen, State

\* Enabling or disabling the user's input.
LEMMA UsrIType ==
    ASSUME NEW s \in Endpoint, NEW b \in BOOLEAN
    PROVE  [s EXCEPT !.usrI = b] \in Endpoint
BY DEF Endpoint

\* PREP_OPEN::advance().
LEMMA PrepOpenAdvanceType ==
    ASSUME NEW s \in Endpoint
    PROVE  prepOpenAdvance(s) \in Endpoint
BY UsrIType, ChangeStateType DEF prepOpenAdvance, State, Opened

\* threadStop().
LEMMA ThreadStopType ==
    ASSUME NEW s \in Endpoint
    PROVE  threadStop(s) \in Endpoint
<1> DEFINE r == IF s.state \in {"CLOSED", "CLOSED_SLEEP", "LISTEN"} THEN s ELSE sendRST(s)
           c == close(r)
<1>1. c \in Endpoint
  BY SendRSTType, CloseType
<1>2. [c EXCEPT !.state = "CLOSED"] \in Endpoint
  <2> HIDE DEF c
  <2> QED BY <1>1, ZenonT(60) DEF Endpoint, State
<1> QED BY <1>2 DEF threadStop

-----------------------------------------------------------------------------
\* RingBuf::resize() finds a capacity that is large enough.
LEMMA RingCapaType ==
    ASSUME NEW n \in 1..256
    PROVE  RingCapa(n) \in Pow2 /\ RingCapa(n) >= n
<1>1. \E c \in Pow2 : c >= n /\ \A d \in Pow2 : d >= n => c <= d
  <2>1. CASE n \in {1, 2}
    BY <2>1 DEF Pow2
  <2>2. CASE n \in 3..16
    BY <2>2 DEF Pow2
  <2>3. CASE n \in 17..256
    BY <2>3 DEF Pow2
  <2> QED BY <2>1, <2>2, <2>3
<1> QED BY <1>1 DEF RingCapa

\* extractConnectionParams() leaves an endpoint.
LEMMA ParamsType ==
    ASSUME NEW s \in Endpoint, NEW par \in Par
    PROVE  extractConnectionParams(s, par) \in Endpoint
<1> DEFINE o == par.ossMX
           c == IF par.ossMX > s.capa THEN RingCapa(par.ossMX) ELSE s.capa
           r == IF IsServer THEN s.rexMX ELSE par.rexMX
           k == IF IsServer THEN s.cakMX ELSE par.cakMX
<1>1. o \in 1..(SeqMod - 1) /\ r \in Nat /\ k \in Nat
  BY DEF Par, Endpoint
<1>2. c \in Pow2
  <2>1. par.ossMX \in 1..256
    BY <1>1, EndpointAssumption
  <2>2. s.capa \in Pow2
    BY DEF Endpoint
  <2> QED BY <2>1, <2>2, RingCapaType
<1>3. [s EXCEPT !.peerOssMX = o, !.capa = c, !.rexMX = r, !.cakMX = k] \in Endpoint
  <2> HIDE DEF o, c, r, k
  <2> QED BY <1>1, <1>2 DEF Endpoint
<1> QED BY <1>3 DEF extractConnectionParams

\* The counter of segments to acknowledge is an integer, maybe negative.
LEMMA NumCakType ==
    ASSUME NEW s \in Endpoint
    PROVE  /\ forceACK(s) \in Endpoint
           /\ [s EXCEPT !.numCak = @ - 1] \in Endpoint
           /\ [s EXCEPT !.numCak = @ + 1] \in Endpoint
<1>1. \A n \in Int : [s EXCEPT !.numCak = n] \in Endpoint
  BY DEF Endpoint
<1> DEFINE a == s.numCak - 1
           b == s.numCak + 1
           c == s.cakMX
<1>2. a \in Int /\ b \in Int /\ c \in Int
  BY DEF Endpoint
<1>3. /\ [s EXCEPT !.numCak = a] \in Endpoint
      /\ [s EXCEPT !.numCak = b] \in Endpoint
      /\ [s EXCEPT !.numCak = c] \in Endpoint
  <2> HIDE DEF a, b, c
  <2> QED BY <1>1, <1>2
<1> QED BY <1>3 DEF forceACK

\* processAckNumber() leaves an endpoint.
LEMMA AckNumberType ==
    ASSUME NEW s \in Endpoint, NEW g \in Seg
    PROVE  processAckNumber(s, g) \in Endpoint
<1> DEFINE cum  == Wrap(g.ack - s.oldestU + 1)
           n    == IF cum <= Len(s.unAckedSegs) THEN cum ELSE 0
           left == SubSeq(s.unAckedSegs, n + 1, Len(s.unAckedSegs))
           u    == Wrap(s.oldestU + n)
           x    == IF n > 0 \/ left = <<>> THEN 0 ELSE s.numRex
           r    == [s EXCEPT !.unAckedSegs = left, !.oldestU = u, !.numRex = x]
<1>1. s.unAckedSegs \in Seq(Seg) /\ Len(s.unAckedSegs) \in Nat /\ s.oldestU \in Int /\ g.ack \in Int
  <2>1. s.unAckedSegs \in Seq(Seg) /\ s.oldestU \in SeqNo /\ g.ack \in SeqNo
    BY DEF Endpoint, Seg
  <2> QED BY <2>1, LenProperties, EndpointAssumption DEF SeqNo
<1>2. n \in Nat /\ n <= Len(s.unAckedSegs)
  <2>1. cum \in SeqNo
    BY <1>1, WrapType
  <2> HIDE DEF cum
  <2> QED BY <2>1, <1>1, EndpointAssumption DEF SeqNo
<1>3. left \in Seq(Seg)
  <2> HIDE DEF n
  <2> QED BY <1>1, <1>2, SubSeqProperties
<1>4. u \in SeqNo
  <2> HIDE DEF n
  <2> QED BY <1>1, <1>2, WrapType
<1>5. x \in Nat
  <2>1. s.numRex \in Nat
    BY DEF Endpoint
  <2> HIDE DEF n, left
  <2> QED BY <2>1
<1>6. r \in Endpoint
  <2> HIDE DEF left, u, x
  <2> QED BY <1>3, <1>4, <1>5 DEF Endpoint
<1>7. cancel(r, "REX") \in Endpoint
  BY <1>6, CancelType DEF Timer
<1> HIDE DEF r
<1>8. processAckNumber(s, g) \in {s, r, cancel(r, "REX")}
  BY DEF processAckNumber, r
<1> QED BY <1>6, <1>7, <1>8

\* The distance of a segment from the oldest one expected.
LEMMA OffsetType ==
    ASSUME NEW s \in Endpoint, NEW n \in SeqNo
    PROVE  offset(s, n) \in SeqNo
<1>1. s.oldestR \in Int /\ n \in Int
  BY EndpointAssumption DEF Endpoint, SeqNo
<1> QED BY <1>1, WrapType DEF offset

\* ReassembleBuf::store() of an acceptable segment hits an existing slot.
LEMMA StoreType ==
    ASSUME NEW s \in Endpoint, NEW g \in Seg, canAccept(s, g.seq),
           hasPayload(g) \/ "NUL" \in g.flags
    PROVE  store(s, g) \in Endpoint
<1> DEFINE o == offset(s, g.seq)
           v == IF "NUL" \in g.flags THEN Nul ELSE g.pld
<1>1. o \in 0..(MaxUnacked - 1)
  <2>1. o \in SeqNo
    BY OffsetType DEF Seg
  <2>2. o < MaxUnacked
    BY DEF canAccept
  <2> HIDE DEF o
  <2> QED BY <2>1, <2>2, EndpointAssumption DEF SeqNo, Pow2
<1>2. v \in Slot
  BY DEF Seg, Slot, hasPayload
<1>3. [s.unOrderedSegs EXCEPT ![o] = v] \in [0..(MaxUnacked - 1) -> Slot]
  <2>1. s.unOrderedSegs \in [0..(MaxUnacked - 1) -> Slot]
    BY DEF Endpoint
  <2> HIDE DEF o, v
  <2> QED BY <1>1, <1>2, <2>1
<1> DEFINE w == [s.unOrderedSegs EXCEPT ![o] = v]
<1>4. [s EXCEPT !.unOrderedSegs = w] \in Endpoint
  <2> HIDE DEF w
  <2> QED BY <1>3 DEF w, Endpoint
<1> QED BY <1>4 DEF store

\* The slots drainReassembleBuffer() pops, and their number.
LEMMA DrainableType ==
    ASSUME NEW s \in Endpoint
    PROVE  /\ drainable(s) \in SUBSET (0..(MaxUnacked - 1))
           /\ IsFiniteSet(drainable(s))
           /\ Cardinality(drainable(s)) \in 0..MaxUnacked
<1>1. MaxUnacked \in Nat \ {0}
  BY EndpointAssumption DEF Pow2
<1>2. drainable(s) \in SUBSET (0..(MaxUnacked - 1))
  BY DEF drainable
<1>3. IsFiniteSet(0..(MaxUnacked - 1)) /\ Cardinality(0..(MaxUnacked - 1)) = MaxUnacked
  BY <1>1, FS_Interval
<1>4. /\ IsFiniteSet(drainable(s))
      /\ Cardinality(drainable(s)) <= MaxUnacked
  BY <1>2, <1>3, FS_Subset
<1>5. Cardinality(drainable(s)) \in Nat
  BY <1>4, FS_CardinalityType
<1> QED BY <1>1, <1>2, <1>4, <1>5

\* A set of slots is finite.
LEMMA FiniteRange ==
    ASSUME NEW m \in Int, NEW D \in SUBSET (0..m)
    PROVE  IsFiniteSet(D) /\ Cardinality(D) \in Nat
<1>1. IsFiniteSet(0..m)
  BY FS_Interval
<1>2. IsFiniteSet(D)
  BY <1>1, FS_Subset
<1> QED BY <1>2, FS_CardinalityType

\* In a finite set of integers there is an n-th element.
LEMMA NthElement ==
    ASSUME NEW m \in Int, NEW D \in SUBSET (0..m), NEW n \in 1..Cardinality(D)
    PROVE  \E i \in D : Cardinality({h \in D : h <= i}) = n
<1> DEFINE L(i) == {h \in D : h <= i}
           f == [i \in D |-> Cardinality(L(i))]
           c == Cardinality(D)
<1>1. IsFiniteSet(D) /\ c \in Nat
  BY FiniteRange
<1>2. \A i \in D : IsFiniteSet(L(i)) /\ Cardinality(L(i)) \in 1..c
  <2> TAKE i \in D
  <2>1. IsFiniteSet(L(i)) /\ Cardinality(L(i)) <= c /\ Cardinality(L(i)) \in Nat
    <3>1. L(i) \in SUBSET D
      OBVIOUS
    <3> QED BY <3>1, <1>1, FS_Subset, FS_CardinalityType
  <2>2. i \in L(i)
    OBVIOUS
  <2>3. Cardinality(L(i)) # 0
    BY <2>1, <2>2, FS_EmptySet
  <2> QED BY <2>1, <2>3, <1>1
<1>3. ASSUME NEW i \in D, NEW j \in D, i < j
      PROVE  f[i] # f[j]
  <2>0. i \in Int /\ j \in Int /\ \A h \in D : h \in Int
    OBVIOUS
  <2>1. /\ \A h \in D : h <= i => h <= j
        /\ j <= j /\ ~(j <= i)
    BY <1>3, <2>0
  <2>2. L(i) \in SUBSET L(j) /\ L(i) # L(j)
    BY <2>1, Zenon
  <2>3. IsFiniteSet(L(j))
    BY <1>2
  <2>4. Cardinality(L(j)) # Cardinality(L(i))
    BY <2>2, <2>3, FS_Subset
  <2> QED BY <2>4
<1>4. f \in Injection(D, 1..c)
  <2>1. f \in [D -> 1..c]
    BY <1>2
  <2>2. \A i, j \in D : f[i] = f[j] => i = j
    <3>1. \A i, j \in D : i # j => i < j \/ j < i
      OBVIOUS
    <3> HIDE DEF f
    <3> QED BY <1>3, <3>1
  <2> HIDE DEF f
  <2> QED BY <2>1, <2>2 DEF Injection, IsInjective
<1>5. IsFiniteSet(1..c) /\ Cardinality(1..c) = c
  BY <1>1, FS_Interval
<1>6. f \in Surjection(D, 1..c)
  <2> HIDE DEF f
  <2> QED BY <1>4, <1>5, FS_Injection
<1>7. \E i \in D : f[i] = n
  <2> HIDE DEF f
  <2> QED BY <1>6 DEF Surjection
<1> QED BY <1>7

\* The payloads of a set of data slots are a sequence of payloads.
LEMMA PayloadsType ==
    ASSUME NEW s \in Endpoint, NEW D \in SUBSET (0..(MaxUnacked - 1)),
           \A i \in D : isData(s, i)
    PROVE  payloads(s, D) \in Seq(Payload)
<1> DEFINE c == Cardinality(D)
           nth(n) == CHOOSE i \in D : Cardinality({h \in D : h <= i}) = n
<1>1. c \in Nat /\ MaxUnacked - 1 \in Int
  <2>1. MaxUnacked - 1 \in Int
    BY EndpointAssumption DEF Pow2
  <2> QED BY <2>1, FiniteRange
<1>2. \A n \in 1..c : nth(n) \in D
  BY <1>1, NthElement
<1>3. \A i \in D : s.unOrderedSegs[i] \in Payload
  <2>1. s.unOrderedSegs \in [0..(MaxUnacked - 1) -> Slot]
    BY DEF Endpoint
  <2> QED BY <2>1 DEF isData, Slot
<1>4. \A n \in 1..c : s.unOrderedSegs[nth(n)] \in Payload
  <2> HIDE DEF nth
  <2> QED BY <1>2, <1>3
<1>5. [n \in 1..c |-> s.unOrderedSegs[nth(n)]] \in Seq(Payload)
  <2> HIDE DEF nth, c
  <2> QED BY <1>1, <1>4, IsASeq
<1> QED BY <1>5 DEF payloads

\* drainReassembleBuffer() leaves an endpoint.
LEMMA DrainType ==
    ASSUME NEW s \in Endpoint
    PROVE  drainReassembleBuffer(s) \in Endpoint
<1> DEFINE k == Cardinality(drainable(s))
           oldest == Wrap(s.oldestR + k)
           q == s.outQ \o payloads(s, {i \in drainable(s) : isData(s, i)})
           w == [i \in 0..(MaxUnacked - 1) |->
                   IF i + k < MaxUnacked THEN s.unOrderedSegs[i + k] ELSE Empty]
           l == Wrap(oldest - 1)
           b == s.usrO \/ (k < MaxUnacked /\ s.unOrderedSegs[k] # Empty)
<1>1. k \in 0..MaxUnacked
  BY DrainableType
<1>2. oldest \in SeqNo
  <2>1. s.oldestR \in Int
    BY EndpointAssumption DEF Endpoint, SeqNo
  <2>2. k \in Int
    <3> HIDE DEF k
    <3> QED BY <1>1
  <2> HIDE DEF k
  <2> QED BY <2>1, <2>2, WrapType
<1>3. l \in SeqNo
  <2> HIDE DEF oldest
  <2> QED BY <1>2, WrapType, EndpointAssumption DEF SeqNo
<1>4. q \in Seq(Payload)
  <2> DEFINE D == {i \in drainable(s) : isData(s, i)}
  <2>1. D \in SUBSET (0..(MaxUnacked - 1)) /\ \A i \in D : isData(s, i)
    BY DrainableType
  <2> HIDE DEF D
  <2>2. payloads(s, D) \in Seq(Payload)
    BY <2>1, PayloadsType
  <2>3. s.outQ \in Seq(Payload)
    BY DEF Endpoint
  <2>4. s.outQ \o payloads(s, D) \in Seq(Payload)
    BY <2>2, <2>3, ConcatProperties
  <2> QED BY <2>4 DEF D
<1>5. w \in [0..(MaxUnacked - 1) -> Slot]
  <2>1. s.unOrderedSegs \in [0..(MaxUnacked - 1) -> Slot] /\ Empty \in Slot
    BY DEF Endpoint, Slot
  <2>2. MaxUnacked \in Nat
    BY EndpointAssumption DEF Pow2
  <2> HIDE DEF k
  <2> QED BY <1>1, <2>1, <2>2
<1>6. b \in BOOLEAN
  BY DEF Endpoint
<1>7. [s EXCEPT !.outQ = q, !.unOrderedSegs = w, !.oldestR = oldest,
                !.lastSeqRecv = l, !.usrO = b] \in Endpoint
  <2> HIDE DEF q, w, oldest, l, b
  <2> QED BY <1>2, <1>3, <1>4, <1>5, <1>6 DEF Endpoint
<1> QED BY <1>7 DEF drainReassembleBuffer

\* Seeding the receiver with the number of a SYN leaves an endpoint.
LEMMA SeedRecvType ==
    ASSUME NEW s \in Endpoint, NEW n \in SeqNo
    PROVE  seedRecv(s, n) \in Endpoint
<1> DEFINE o == Wrap(n + 1)
<1>1. o \in SeqNo
  BY WrapType, EndpointAssumption DEF SeqNo
<1>2. [s EXCEPT !.lastSeqRecv = n, !.oldestR = o] \in Endpoint
  <2> HIDE DEF o
  <2> QED BY <1>1 DEF Endpoint
<1> QED BY <1>2 DEF seedRecv

-----------------------------------------------------------------------------
\* The components of a verdict.
LEMMA Verdict ==
    ASSUME NEW s
    PROVE  /\ Accept(s).ep = s /\ Accept(s).ok = TRUE
           /\ Reject(s).ep = s /\ Reject(s).ok = FALSE
BY DEF Accept, Reject

\* A SYN carries parameters, nothing else does.
LEMMA HandleSYNType ==
    ASSUME NEW s \in Endpoint, NEW g \in Seg, g.par \in Par, NEW isn \in SeqNo
    PROVE  /\ handleSYN(s, g, isn).ep \in Endpoint
           /\ handleSYN(s, g, isn).ok \in BOOLEAN
<1> DEFINE r == extractConnectionParams(s, g.par)
           f == forceACK(seedRecv(r, g.seq))
           y == sendSYN(seedRecv(r, g.seq), TRUE, isn)
           z == [y EXCEPT !.numCak = @ - 1]
<1>1. r \in Endpoint
  BY ParamsType
<1>2. seedRecv(r, g.seq) \in Endpoint
  <2> HIDE DEF r
  <2> QED BY <1>1, SeedRecvType DEF Seg
<1>3. f \in Endpoint
  <2> HIDE DEF r
  <2> QED BY <1>2, NumCakType
<1>4. z \in Endpoint
  <2>1. y \in Endpoint
    <3> HIDE DEF r
    <3> QED BY <1>2, SendSYNType
  <2> HIDE DEF y
  <2> QED BY <2>1, NumCakType
<1>5. /\ changeState(z, "SERV_WAIT_SYN_ACK") \in Endpoint
      /\ changeState(f, "PREP_OPEN") \in Endpoint
  <2> HIDE DEF z, f
  <2> QED BY <1>3, <1>4, ChangeStateType DEF State
<1>6. changeState(sendRST(r), "CLOSED") \in Endpoint
  <2> HIDE DEF r
  <2> QED BY <1>1, SendRSTType, ChangeStateType DEF State
<1>7. forceACK(s) \in Endpoint
  BY NumCakType
<1>8. handleSYN(s, g, isn) \in {Accept(changeState(z, "SERV_WAIT_SYN_ACK")),
                                Reject(changeState(sendRST(r), "CLOSED")),
                                Accept(changeState(f, "PREP_OPEN")), Accept(f),
                                Accept(forceACK(s))}
  <2> HIDE DEF z, f, r
  <2> QED BY DEF handleSYN, z, y, f, r
<1> HIDE DEF z, f, r
<1> QED BY <1>3, <1>5, <1>6, <1>7, <1>8, Verdict

\* handleOTH() leaves an endpoint.
LEMMA HandleOTHType ==
    ASSUME NEW s \in Endpoint, NEW g \in Seg
    PROVE  /\ handleOTH(s, g).ep \in Endpoint
           /\ handleOTH(s, g).ok \in BOOLEAN
<1> DEFINE n == [s EXCEPT !.numCak = @ - 1]
<1>1. changeState(sendRST(s), "CLOSED") \in Endpoint /\ changeState(s, "CLOSED") \in Endpoint
  BY SendRSTType, ChangeStateType DEF State
<1>2. n \in Endpoint /\ forceACK(s) \in Endpoint
  BY NumCakType
<1>3. handleOTH(s, g) \in {Accept(changeState(sendRST(s), "CLOSED")), Reject(s),
                           Accept(n), Accept(forceACK(s)), Accept(changeState(s, "CLOSED")),
                           Accept(s)}
  <2> HIDE DEF n
  <2> QED BY DEF handleOTH, n
<1> HIDE DEF n
<1> QED BY <1>1, <1>2, <1>3, Verdict

\* processRetransmissionTimeout() leaves an endpoint.
LEMMA RexTimeoutType ==
    ASSUME NEW s \in Endpoint
    PROVE  processRetransmissionTimeout(s) \in Endpoint
<1> DEFINE x == s.numRex + 1
           r == [s EXCEPT !.numRex = x]
           a == sendBuf(r, r.unAckedSegs)
           m == [i \in DOMAIN a.unAckedSegs |-> mark(r, a.unAckedSegs[i])]
           k == [a EXCEPT !.unAckedSegs = m]
<1>1. r \in Endpoint
  <2>1. x \in Nat
    BY DEF Endpoint
  <2> HIDE DEF x
  <2> QED BY <2>1 DEF Endpoint
<1> HIDE DEF r
<1>2. a \in Endpoint
  <2>1. r.unAckedSegs \in Seq(Seg)
    BY <1>1 DEF Endpoint
  <2> QED BY <1>1, <2>1, SendBufType
<1> HIDE DEF a
<1>3. m \in Seq(Seg)
  <2>1. a.unAckedSegs \in Seq(Seg)
    BY <1>2 DEF Endpoint
  <2> QED BY <1>1, <2>1, MapStampType
<1>4. k \in Endpoint
  <2> HIDE DEF m
  <2> QED BY <1>2, <1>3 DEF Endpoint
<1>5. processRetransmissionTimeout(s) \in {changeState(sendRST(r), "CLOSED"), r, armRexAndNulTimer(k)}
  BY DEF processRetransmissionTimeout, r, a
<1> HIDE DEF k
<1> QED BY <1>1, <1>4, <1>5, SendRSTType, ChangeStateType, ArmRexAndNulType DEF State

\* Sending data if there is any and room for it, else an acknowledgement.
LEMMA SendDATorACKType ==
    ASSUME NEW s \in Endpoint, NEW q
    PROVE  sendDATorACK(q, s) \in Endpoint
<1>1. CASE hasBufToSend(q, s)
  <2>1. s.inpQ \in Seq(Payload) /\ s.inpQ # <<>>
    BY <1>1 DEF hasBufToSend, Endpoint
  <2>2. 1 \in 1..Len(s.inpQ)
    BY <2>1, EmptySeq, LenProperties
  <2> QED BY <1>1, <2>2, SendDATType DEF sendDATorACK
<1>2. CASE ~hasBufToSend(q, s)
  BY <1>2, SendACKType DEF sendDATorACK
<1> QED BY <1>1, <1>2

\* The tail of handleRxEvent() leaves an endpoint.
LEMMA CountAndAckType ==
    ASSUME NEW s \in Endpoint, NEW q
    PROVE  countAndAck(q, s) \in Endpoint
<1> DEFINE n == [s EXCEPT !.numCak = @ + 1]
<1>1. n \in Endpoint
  BY NumCakType
<1>2. sendDATorACK(q, n) \in Endpoint /\ arm(n, "ACK") \in Endpoint
  <2> HIDE DEF n
  <2> QED BY <1>1, SendDATorACKType, ArmType DEF Timer
<1>3. \E r \in {sendDATorACK(q, n), arm(n, "ACK"), n} :
         countAndAck(q, s) = IF IsServer THEN arm(r, "NUL") ELSE r
  <2> HIDE DEF n
  <2> QED BY DEF countAndAck, n
<1> HIDE DEF n
<1> QED BY <1>1, <1>2, <1>3, ArmType DEF Timer

\* What handleRxEvent() does with an accepted segment leaves an endpoint.
LEMMA AcceptSegmentType ==
    ASSUME NEW s \in Endpoint, NEW g \in Seg, NEW q
    PROVE  acceptSegment(q, s, g) \in Endpoint
<1> DEFINE a    == processAckNumber(s, g)
           in   == (hasPayload(g) \/ "NUL" \in g.flags) /\ canAccept(a, g.seq)
           d    == IF ~in THEN a
                   ELSE IF q \in Opened THEN drainReassembleBuffer(store(a, g)) ELSE store(a, g)
           busy == "BSY" \in g.flags
           c    == IF busy /\ ~d.peerBSY THEN cancel(d, "REX") ELSE d
           b    == [c EXCEPT !.peerBSY = busy]
<1>1. a \in Endpoint
  BY AckNumberType
<1>2. d \in Endpoint
  <2> HIDE DEF a
  <2>1. in => store(a, g) \in Endpoint
    BY <1>1, StoreType
  <2> QED BY <1>1, <2>1, DrainType
<1> HIDE DEF d
<1>3. c \in Endpoint
  BY <1>2, CancelType DEF Timer
<1> HIDE DEF c
<1>4. b \in Endpoint
  <2>1. busy \in BOOLEAN
    OBVIOUS
  <2> HIDE DEF busy
  <2> QED BY <1>3, <2>1 DEF Endpoint
<1> HIDE DEF b
<1>5. acceptSegment(q, s, g) \in {processRetransmissionTimeout(b), countAndAck(q, b)}
  BY DEF acceptSegment, b, c, d
<1> QED BY <1>4, <1>5, RexTimeoutType, CountAndAckType

\* handleRxEvent() of every state leaves an endpoint.
LEMMA HandleRxEventType ==
    ASSUME NEW s \in Endpoint, NEW g \in Seg, "SYN" \in g.flags => g.par \in Par,
           NEW isn \in SeqNo
    PROVE  handleRxEvent(s, g, isn) \in Endpoint
<1> DEFINE v == IF "SYN" \in g.flags THEN handleSYN(s, g, isn) ELSE handleOTH(s, g)
           r == notClosedRx(s, g, isn)
<1>1. v.ep \in Endpoint
  BY HandleSYNType, HandleOTHType
<1>2. r \in Endpoint
  <2> HIDE DEF v
  <2>1. r \in {acceptSegment(s.state, v.ep, g), v.ep}
    BY DEF notClosedRx, v
  <2> QED BY <1>1, <2>1, AcceptSegmentType
<1> HIDE DEF r
<1>3. /\ arm(changeState(resetReopenDelay(r), "PREP_OPEN"), "NUL") \in Endpoint
      /\ changeState([r EXCEPT !.usrI = TRUE], "OPEN") \in Endpoint
  <2>1. resetReopenDelay(r) \in Endpoint /\ [r EXCEPT !.usrI = TRUE] \in Endpoint
    BY <1>2, ReopenDelayType, UsrIType
  <2>2. changeState(resetReopenDelay(r), "PREP_OPEN") \in Endpoint
    BY <2>1, ChangeStateType DEF State
  <2> QED BY <2>1, <2>2, ChangeStateType, ArmType DEF State, Opened, Timer
<1>4. handleRxEvent(s, g, isn) \in {arm(changeState(resetReopenDelay(r), "PREP_OPEN"), "NUL"),
                                    changeState([r EXCEPT !.usrI = TRUE], "OPEN"), r}
  BY DEF handleRxEvent, r
<1> QED BY <1>2, <1>3, <1>4

-----------------------------------------------------------------------------
\* An endpoint that threw an InternalError.
LEMMA PanicType ==
    ASSUME NEW s \in Endpoint, NEW w \in Fault
    PROVE  Panic(s, w) \in Endpoint
BY DEF Panic, Endpoint

\* The change to OPEN_OUTWIN_FULL.
LEMMA OutWinFullType ==
    ASSUME NEW s \in Endpoint
    PROVE  outWinFull(s) \in Endpoint
BY UsrIType, ChangeStateType DEF outWinFull, State, Opened

\* handleUsrInputEvent() takes no more payloads than inpQ has.
LEMMA UsrInputType ==
    ASSUME NEW s \in Endpoint
    PROVE  handleUsrInputEvent(s) \in Endpoint
<1> DEFINE room == s.peerOssMX - Len(s.unAckedSegs)
           n == IF Len(s.inpQ) < room THEN Len(s.inpQ) ELSE room
           r == IF n > 0 THEN sendDAT(s, n) ELSE s
<1>1. Len(s.inpQ) \in Nat /\ room \in Int
  <2>1. s.inpQ \in Seq(Payload) /\ s.unAckedSegs \in Seq(Seg) /\ s.peerOssMX \in 1..(SeqMod - 1)
    BY DEF Endpoint
  <2>2. Len(s.inpQ) \in Nat /\ Len(s.unAckedSegs) \in Nat
    BY <2>1, LenProperties
  <2> QED BY <2>1, <2>2, EndpointAssumption
<1>2. n > 0 => n \in 1..Len(s.inpQ)
  <2> HIDE DEF room
  <2> QED BY <1>1
<1>3. r \in Endpoint
  <2> HIDE DEF n
  <2> QED BY <1>2, SendDATType
<1> HIDE DEF r
<1>4. handleUsrInputEvent(s) \in {Panic(s, "UsrInputEvent"), r, outWinFull(r)}
  BY DEF handleUsrInputEvent, r
<1> QED BY <1>3, <1>4, PanicType, OutWinFullType DEF Fault

\* handleUsrOutputEvent() leaves an endpoint.
LEMMA UsrOutputType ==
    ASSUME NEW s \in Endpoint
    PROVE  handleUsrOutputEvent(s) \in Endpoint
<1> DEFINE r == drainReassembleBuffer([s EXCEPT !.usrO = FALSE])
<1>1. r \in Endpoint
  <2>1. [s EXCEPT !.usrO = FALSE] \in Endpoint
    BY DEF Endpoint
  <2> QED BY <2>1, DrainType
<1> HIDE DEF r
<1>2. handleUsrOutputEvent(s) \in {Panic(s, "UsrOutputEvent"), r, sendACK(r)}
  BY DEF handleUsrOutputEvent, r
<1> QED BY <1>1, <1>2, PanicType, SendACKType DEF Fault

\* The expiration of a timer leaves an endpoint.
LEMMA TimeoutType ==
    ASSUME NEW s \in Endpoint, NEW t \in Timer
    PROVE  timeout(s, t) \in Endpoint
<1> DEFINE r == cancel(s, t)
<1>1. r \in Endpoint
  BY CancelType
<1> HIDE DEF r
<1>2. processAckTimeout(r) \in Endpoint
  BY <1>1, SendDATorACKType, PanicType DEF processAckTimeout, Fault
<1>3. processNulTimeout(r) \in Endpoint
  <2>1. processNulTimeout(r) \in {Panic(r, "NULTimeout"), changeState(sendRST(r), "CLOSED"),
                                  sendNUL(r), outWinFull(sendNUL(r))}
    BY DEF processNulTimeout
  <2> QED BY <1>1, <2>1, PanicType, SendRSTType, ChangeStateType, SendNULType, OutWinFullType
          DEF Fault, State
<1>4. processRetransmissionTimeout(r) \in Endpoint
  BY <1>1, RexTimeoutType
<1>5. timeout(s, t) \in {processRetransmissionTimeout(r), processAckTimeout(r), processNulTimeout(r)}
  BY DEF timeout, r
<1> QED BY <1>2, <1>3, <1>4, <1>5

\* A new CRssi, with any values of its uninitialized numbers.
LEMMA InitType ==
    ASSUME NEW a \in SeqNo, NEW b \in SeqNo, NEW u \in SeqNo, NEW r \in SeqNo
    PROVE  InitEndpoint(a, b, u, r) \in Endpoint
<1>1. /\ MaxUnacked \in 1..(SeqMod - 1) /\ MaxUnacked \in Pow2
      /\ RexMax \in Nat /\ CumAckMax \in Nat /\ 0 \in ReopenDelay
  BY EndpointAssumption DEF Pow2, ReopenDelay
<1>2. "CLOSED" \in State /\ "none" \in Fault
  BY DEF State, Fault
<1>3. <<>> \in Seq(Seg) /\ <<>> \in Seq(Payload)
  OBVIOUS
<1>4. 0 \in Nat /\ 0 \in Int
  OBVIOUS
<1> QED BY <1>1, <1>2, <1>3, <1>4, NothingReceivedType DEF InitEndpoint, Endpoint

-----------------------------------------------------------------------------
(* The window.                                                              *)

\* A sequence number is an integer.
LEMMA SeqNoInt == \A n \in SeqNo : n \in Int
BY EndpointAssumption DEF SeqNo

-----------------------------------------------------------------------------
(* The fields the invariants are about, and the operators that leave them  *)
(* alone.                                                                  *)

Core(s) == <<s.state, s.lastSeqSent, s.lastSeqRecv, s.unAckedSegs, s.oldestU, s.oldestR,
             s.capa, s.peerOssMX, s.rexMX, s.numRex>>

\* Equal cores have equal fields.
LEMMA CoreFields ==
    ASSUME NEW s, NEW r, Core(r) = Core(s)
    PROVE  /\ r.state = s.state /\ r.lastSeqSent = s.lastSeqSent
           /\ r.lastSeqRecv = s.lastSeqRecv /\ r.unAckedSegs = s.unAckedSegs
           /\ r.oldestU = s.oldestU /\ r.oldestR = s.oldestR /\ r.capa = s.capa
           /\ r.peerOssMX = s.peerOssMX /\ r.rexMX = s.rexMX /\ r.numRex = s.numRex
BY DEF Core

\* Timers are outside the core.
LEMMA TimerCore ==
    ASSUME NEW s \in Endpoint, NEW t \in Timer
    PROVE  Core(cancel(s, t)) = Core(s) /\ Core(arm(s, t)) = Core(s)
BY DEF Core, cancel, arm, Endpoint

\* So is armRexAndNulTimer().
LEMMA ArmRexAndNulCore ==
    ASSUME NEW s \in Endpoint
    PROVE  Core(armRexAndNulTimer(s)) = Core(s)
<1>1. Core(arm(s, "REX")) = Core(s) /\ arm(s, "REX") \in Endpoint
  BY TimerCore, ArmType DEF Timer
<1> QED BY <1>1, TimerCore DEF armRexAndNulTimer, Timer

\* sendBuf() changes timers, the counter of acknowledgements and tx only.
LEMMA SendBufCore ==
    ASSUME NEW s \in Endpoint, NEW gs
    PROVE  Core(sendBuf(s, gs)) = Core(s)
<1> DEFINE c == cancel(s, "ACK")
<1>1. c \in Endpoint /\ Core(c) = Core(s)
  BY CancelType, TimerCore DEF Timer
<1>2. \A n, x : Core([c EXCEPT !.numCak = n, !.tx = x]) = Core(c)
  <2> HIDE DEF c
  <2> QED BY <1>1 DEF Core, Endpoint
<1> QED BY <1>1, <1>2 DEF sendBuf

\* An acknowledgement takes no sequence number.
LEMMA SendACKCore ==
    ASSUME NEW s \in Endpoint
    PROVE  Core(sendACK(s)) = Core(s)
BY SendBufCore DEF sendACK

\* The fields outside the core.
LEMMA MinorCore ==
    ASSUME NEW s \in Endpoint, NEW v
    PROVE  /\ Core([s EXCEPT !.numCak = v]) = Core(s)
           /\ Core([s EXCEPT !.usrI = v]) = Core(s)
           /\ Core([s EXCEPT !.usrO = v]) = Core(s)
           /\ Core([s EXCEPT !.peerBSY = v]) = Core(s)
           /\ Core([s EXCEPT !.reopenDelay = v]) = Core(s)
           /\ Core([s EXCEPT !.tx = v]) = Core(s)
           /\ Core([s EXCEPT !.inpQ = v]) = Core(s)
           /\ Core([s EXCEPT !.outQ = v]) = Core(s)
           /\ Core([s EXCEPT !.unOrderedSegs = v]) = Core(s)
           /\ Core([s EXCEPT !.panic = v]) = Core(s)
BY DEF Core, Endpoint

\* forceACK() changes the counter of acknowledgements only.
LEMMA ForceACKCore ==
    ASSUME NEW s \in Endpoint
    PROVE  Core(forceACK(s)) = Core(s)
BY MinorCore DEF forceACK

\* An InternalError leaves the members as they are.
LEMMA PanicCore ==
    ASSUME NEW s \in Endpoint, NEW w
    PROVE  Core(Panic(s, w)) = Core(s)
BY MinorCore DEF Panic

\* Storing a segment changes the slot only.
LEMMA StoreCore ==
    ASSUME NEW s \in Endpoint, NEW g
    PROVE  Core(store(s, g)) = Core(s)
BY MinorCore DEF store

\* The reopen delay is outside the core.
LEMMA ReopenDelayCore ==
    ASSUME NEW s \in Endpoint
    PROVE  Core(increaseReopenDelay(s)) = Core(s) /\ Core(resetReopenDelay(s)) = Core(s)
BY MinorCore DEF increaseReopenDelay, resetReopenDelay

\* A change of state changes nothing else that matters here.
LEMMA ChangeStateFields ==
    ASSUME NEW s \in Endpoint, NEW q
    PROVE  /\ changeState(s, q).state = q
           /\ changeState(s, q).lastSeqSent = s.lastSeqSent
           /\ changeState(s, q).lastSeqRecv = s.lastSeqRecv
           /\ changeState(s, q).unAckedSegs = s.unAckedSegs
           /\ changeState(s, q).oldestU = s.oldestU
           /\ changeState(s, q).oldestR = s.oldestR
           /\ changeState(s, q).capa = s.capa
           /\ changeState(s, q).peerOssMX = s.peerOssMX
           /\ changeState(s, q).rexMX = s.rexMX
           /\ changeState(s, q).numRex = s.numRex
BY DEF changeState, Endpoint

-----------------------------------------------------------------------------
(* The invariants, of an endpoint s.                                       *)

\* The peer's window, and the room in the ring buffer.
Window(s) ==
    /\ Len(s.unAckedSegs) <= s.peerOssMX
    /\ s.peerOssMX <= s.capa /\ MaxUnacked <= s.capa

\* Types and bounds of the fields on the sending side.
LEMMA UnackedLen ==
    ASSUME NEW s \in Endpoint
    PROVE  /\ s.unAckedSegs \in Seq(Seg) /\ Len(s.unAckedSegs) \in Nat
           /\ DOMAIN s.unAckedSegs = 1..Len(s.unAckedSegs)
           /\ s.peerOssMX \in Nat /\ s.peerOssMX >= 1 /\ s.capa \in Nat
           /\ s.oldestU \in SeqNo /\ s.oldestU \in Int
           /\ s.lastSeqSent \in SeqNo /\ s.lastSeqSent \in Int
<1>1. /\ s.unAckedSegs \in Seq(Seg) /\ s.peerOssMX \in 1..(SeqMod - 1) /\ s.capa \in Pow2
      /\ s.oldestU \in SeqNo /\ s.lastSeqSent \in SeqNo
  BY DEF Endpoint
<1>2. s.peerOssMX \in Nat /\ s.peerOssMX >= 1 /\ s.capa \in Nat
  BY <1>1, EndpointAssumption DEF Pow2
<1> QED BY <1>1, <1>2, LenProperties, SeqNoInt

-----------------------------------------------------------------------------
(* The window.  Kept(s, r): on the way from s to r nothing was added to    *)
(* what is kept for retransmission, and a connection was closed at most.   *)

Kept(s, r) ==
    /\ r.peerOssMX = s.peerOssMX /\ r.capa = s.capa
    /\ Len(r.unAckedSegs) <= Len(s.unAckedSegs)
    /\ r.state = s.state \/ r.state = "CLOSED"

\* The inductive invariant: beside the window, that nothing is left over from an
\* earlier connection when a SYN is kept, and that a client which waits for the
\* answer, and with it for the window, has kept its SYN only.
Shape(s) ==
    /\ Window(s)
    /\ s.state \in {"CLOSED_SLEEP", "LISTEN"} => Len(s.unAckedSegs) = 0
    /\ s.state = "CLNT_WAIT_SYN_ACK" => Len(s.unAckedSegs) <= 1

\* Kept steps preserve the invariant.
LEMMA KeptShape ==
    ASSUME NEW s \in Endpoint, NEW r \in Endpoint, Shape(s), Kept(s, r)
    PROVE  Shape(r)
BY UnackedLen DEF Shape, Window, Kept

\* Kept steps compose.
LEMMA KeptTrans ==
    ASSUME NEW s \in Endpoint, NEW r \in Endpoint, NEW t \in Endpoint,
           Kept(s, r), Kept(r, t)
    PROVE  Kept(s, t)
BY UnackedLen DEF Kept

\* A step outside the core is a kept step.
LEMMA CoreKept ==
    ASSUME NEW s \in Endpoint, NEW r \in Endpoint, Core(r) = Core(s)
    PROVE  Kept(s, r)
BY CoreFields, UnackedLen DEF Kept

\* Closing a connection is a kept step.
LEMMA ClosedKept ==
    ASSUME NEW s \in Endpoint
    PROVE  Kept(s, changeState(s, "CLOSED"))
BY ChangeStateFields, UnackedLen DEF Kept

\* So is sending a reset.
LEMMA SendRSTKept ==
    ASSUME NEW s \in Endpoint
    PROVE  Kept(s, sendRST(s)) /\ sendRST(s).state = s.state
<1> DEFINE n == [s EXCEPT !.lastSeqSent = Wrap(@ + 1)]
<1>1. n \in Endpoint
  BY NextSeqType
<1>2. Kept(s, n) /\ n.state = s.state
  BY UnackedLen DEF Kept, Endpoint
<1>3. Core(sendRST(s)) = Core(n)
  BY <1>1, SendBufCore DEF sendRST
<1> QED
  <2> HIDE DEF n
  <2> QED BY <1>1, <1>2, <1>3, CoreFields, SendRSTType, CoreKept, KeptTrans

\* An acknowledgement only releases segments.
LEMMA AckNumberKept ==
    ASSUME NEW s \in Endpoint, NEW g \in Seg
    PROVE  /\ Kept(s, processAckNumber(s, g))
           /\ processAckNumber(s, g).state = s.state
<1> DEFINE cum  == Wrap(g.ack - s.oldestU + 1)
           n    == IF cum <= Len(s.unAckedSegs) THEN cum ELSE 0
           left == SubSeq(s.unAckedSegs, n + 1, Len(s.unAckedSegs))
           r    == [s EXCEPT !.unAckedSegs = left, !.oldestU = Wrap(@ + n),
                             !.numRex = IF n > 0 \/ left = <<>> THEN 0 ELSE @]
<1>1. /\ s.unAckedSegs \in Seq(Seg) /\ Len(s.unAckedSegs) \in Nat
      /\ s.oldestU \in SeqNo /\ s.oldestU \in Int /\ s.numRex \in Nat
  BY UnackedLen DEF Endpoint
<1>2. g.ack \in Int
  BY SeqNoInt DEF Seg
<1>3. cum \in SeqNo
  BY <1>1, <1>2, WrapType
<1>4. n \in 0..Len(s.unAckedSegs)
  BY <1>1, <1>3, EndpointAssumption DEF SeqNo
<1>5. left \in Seq(Seg) /\ Len(left) = Len(s.unAckedSegs) - n
  <2> HIDE DEF n
  <2> QED BY <1>1, <1>4, SubSeqProperties
<1> DEFINE o == Wrap(s.oldestU + n)
           x == IF n > 0 \/ left = <<>> THEN 0 ELSE s.numRex
<1>6. o \in SeqNo /\ x \in Nat
  <2>1. s.oldestU + n \in Int
    BY <1>1, <1>4
  <2> QED BY <2>1, <1>1, WrapType
<1>7. r \in Endpoint /\ r.unAckedSegs = left
  <2>1. /\ [s EXCEPT !.unAckedSegs = left, !.oldestU = o, !.numRex = x] \in Endpoint
        /\ [s EXCEPT !.unAckedSegs = left, !.oldestU = o, !.numRex = x].unAckedSegs = left
    <3> HIDE DEF left, o, x
    <3> QED BY <1>5, <1>6 DEF Endpoint
  <2> QED BY <2>1
<1>8. Kept(s, r) /\ r.state = s.state
  <2>1. r.peerOssMX = s.peerOssMX /\ r.capa = s.capa /\ r.state = s.state
    BY DEF Endpoint
  <2> HIDE DEF r, left, n
  <2> QED BY <2>1, <1>1, <1>4, <1>5, <1>7 DEF Kept
<1>9. Kept(s, cancel(r, "REX")) /\ cancel(r, "REX").state = s.state
  <2> HIDE DEF r
  <2> QED BY <1>7, <1>8, TimerCore, CancelType, CoreFields, CoreKept, KeptTrans DEF Timer
<1>10. processAckNumber(s, g) \in {s, cancel(r, "REX"), r}
  BY DEF processAckNumber
<1>11. Kept(s, s)
  BY CoreKept
<1> QED
  <2> HIDE DEF r
  <2> QED BY <1>8, <1>9, <1>10, <1>11

\* What is delivered to the user leaves the sending side alone.
LEMMA DrainKept ==
    ASSUME NEW s \in Endpoint
    PROVE  Kept(s, drainReassembleBuffer(s)) /\ drainReassembleBuffer(s).state = s.state
<1>1. \A a, b, c, d, e :
        LET r == [s EXCEPT !.outQ = a, !.unOrderedSegs = b, !.oldestR = c,
                           !.lastSeqRecv = d, !.usrO = e]
        IN  /\ r.peerOssMX = s.peerOssMX /\ r.capa = s.capa /\ r.state = s.state
            /\ r.unAckedSegs = s.unAckedSegs
  BY DEF Endpoint
<1> DEFINE r == drainReassembleBuffer(s)
<1>2. /\ r.peerOssMX = s.peerOssMX /\ r.capa = s.capa /\ r.state = s.state
      /\ r.unAckedSegs = s.unAckedSegs
  BY <1>1 DEF drainReassembleBuffer
<1> QED BY <1>2, UnackedLen DEF Kept

\* Retransmission keeps the segments it sends, or gives up.
LEMMA RexTimeoutKept ==
    ASSUME NEW s \in Endpoint
    PROVE  Kept(s, processRetransmissionTimeout(s))
<1> DEFINE x == s.numRex + 1
           r == [s EXCEPT !.numRex = x]
           again == sendBuf(r, r.unAckedSegs)
           m == [i \in DOMAIN again.unAckedSegs |-> mark(r, again.unAckedSegs[i])]
           k == [again EXCEPT !.unAckedSegs = m]
<1>1. r \in Endpoint
  <2>1. x \in Nat
    BY DEF Endpoint
  <2> HIDE DEF x
  <2> QED BY <2>1 DEF Endpoint
<1>2. Kept(s, r) /\ r.unAckedSegs = s.unAckedSegs
  <2>1. r.peerOssMX = s.peerOssMX /\ r.capa = s.capa /\ r.state = s.state
        /\ r.unAckedSegs = s.unAckedSegs
    BY DEF Endpoint
  <2> QED BY <2>1, UnackedLen DEF Kept
<1>3. again \in Endpoint /\ Core(again) = Core(r)
  <2>1. r.unAckedSegs \in Seq(Seg)
    BY <1>1, UnackedLen
  <2> HIDE DEF r
  <2> QED BY <1>1, <2>1, SendBufType, SendBufCore
<1>4. Kept(s, changeState(sendRST(r), "CLOSED"))
  <2> HIDE DEF r
  <2>1. changeState(sendRST(r), "CLOSED") \in Endpoint
    BY <1>1, SendRSTType, ChangeStateType DEF State
  <2> QED BY <1>1, <1>2, <2>1, SendRSTType, SendRSTKept, ClosedKept, KeptTrans
<1>5. m \in Seq(Seg) /\ Len(m) = Len(again.unAckedSegs)
  <2>1. again.unAckedSegs \in Seq(Seg) /\ DOMAIN again.unAckedSegs = 1..Len(again.unAckedSegs)
        /\ Len(again.unAckedSegs) \in Nat
    <3> HIDE DEF again
    <3> QED BY <1>3, UnackedLen
  <2>2. m \in Seq(Seg)
    <3> HIDE DEF again, r
    <3> QED BY <1>1, <2>1, MapStampType
  <2>3. DOMAIN m = 1..Len(again.unAckedSegs)
    BY <2>1
  <2> HIDE DEF m, again
  <2> QED BY <2>1, <2>2, <2>3, LenProperties
<1>6. k \in Endpoint /\ Kept(again, k)
  <2> HIDE DEF m, again
  <2>1. k \in Endpoint /\ k.unAckedSegs = m
    BY <1>3, <1>5, ZenonT(60) DEF Endpoint
  <2>2. k.peerOssMX = again.peerOssMX /\ k.capa = again.capa /\ k.state = again.state
    BY <1>3 DEF Endpoint
  <2>3. Len(again.unAckedSegs) \in Nat
    BY <1>3, UnackedLen
  <2> HIDE DEF k
  <2> QED BY <1>5, <2>1, <2>2, <2>3 DEF Kept
<1>7. Kept(s, armRexAndNulTimer(k))
  <2> HIDE DEF k, again, r
  <2>1. Kept(s, again)
    BY <1>1, <1>2, <1>3, CoreKept, KeptTrans
  <2>2. Kept(s, k)
    BY <2>1, <1>3, <1>6, KeptTrans
  <2> QED BY <2>2, <1>6, ArmRexAndNulCore, ArmRexAndNulType, CoreKept, KeptTrans
<1>8. processRetransmissionTimeout(s) \in
        {changeState(sendRST(r), "CLOSED"), r, armRexAndNulTimer(k)}
  BY DEF processRetransmissionTimeout
<1> QED
  <2> HIDE DEF r, k
  <2> QED BY <1>2, <1>4, <1>7, <1>8

-----------------------------------------------------------------------------
(* Steps that add to what is kept for retransmission.                      *)

\* Added(s, r, n): n segments were added, and the state is the same.
Added(s, r, n) ==
    /\ r.peerOssMX = s.peerOssMX /\ r.capa = s.capa /\ r.state = s.state
    /\ Len(r.unAckedSegs) = Len(s.unAckedSegs) + n

\* Every segment that is sent and to be retransmitted is kept.
LEMMA KeepAdded ==
    ASSUME NEW s \in Endpoint, NEW gs \in Seq(Seg)
    PROVE  Added(s, sendBufAndKeepForRetransmission(s, gs), Len(gs))
<1> DEFINE r == sendBuf(s, gs)
           m == [i \in DOMAIN gs |-> mark(s, gs[i])]
           x == r.unAckedSegs \o m
           p == IF Len(s.unAckedSegs) + Len(gs) - 1 > s.capa THEN "RingBuf Overflow" ELSE r.panic
           k == [r EXCEPT !.unAckedSegs = x, !.panic = p]
<1>1. r \in Endpoint /\ Core(r) = Core(s)
  BY SendBufType, SendBufCore
<1>2. r.unAckedSegs = s.unAckedSegs /\ r.unAckedSegs \in Seq(Seg) /\ Len(r.unAckedSegs) \in Nat
  <2> HIDE DEF r
  <2> QED BY <1>1, CoreFields, UnackedLen
<1>3. m \in Seq(Seg) /\ Len(m) = Len(gs)
  <2>1. m \in Seq(Seg)
    BY MapStampType
  <2>2. DOMAIN m = 1..Len(gs) /\ Len(gs) \in Nat
    BY LenProperties
  <2> HIDE DEF m
  <2> QED BY <2>1, <2>2, LenProperties
<1>4. x \in Seq(Seg) /\ Len(x) = Len(s.unAckedSegs) + Len(gs)
  <2> DEFINE u == r.unAckedSegs
  <2>1. u \in Seq(Seg) /\ u = s.unAckedSegs
    BY <1>2
  <2>2. u \o m \in Seq(Seg) /\ Len(u \o m) = Len(u) + Len(m)
    <3> HIDE DEF u, m
    <3> QED BY <1>3, <2>1, ConcatProperties
  <2> HIDE DEF r, m
  <2> QED BY <1>3, <2>1, <2>2
<1>5. p \in Fault
  <2> HIDE DEF r
  <2> QED BY <1>1 DEF Endpoint, Fault
<1>6. k \in Endpoint /\ k.unAckedSegs = x
  <2> HIDE DEF r, x, p
  <2> QED BY <1>1, <1>4, <1>5, ZenonT(60) DEF Endpoint
<1>7. k.peerOssMX = r.peerOssMX /\ k.capa = r.capa /\ k.state = r.state
  <2> HIDE DEF r, x, p
  <2> QED BY <1>1 DEF Endpoint
<1>8. Added(s, k, Len(gs))
  <2> HIDE DEF k, r, x
  <2> QED BY <1>1, <1>4, <1>6, <1>7, CoreFields DEF Added
<1>9. Core(armRexAndNulTimer(k)) = Core(k)
  <2> HIDE DEF k
  <2> QED BY <1>6, ArmRexAndNulCore
<1>10. Added(s, armRexAndNulTimer(k), Len(gs))
  <2> HIDE DEF k
  <2> QED BY <1>8, <1>9, CoreFields DEF Added
<1> QED BY <1>10 DEF sendBufAndKeepForRetransmission

\* Of data, n segments.
LEMMA SendDATAdded ==
    ASSUME NEW s \in Endpoint, NEW n \in 1..Len(s.inpQ)
    PROVE  Added(s, sendDAT(s, n), n)
<1> DEFINE l == Wrap(s.lastSeqSent + n)
           q == SubSeq(s.inpQ, n + 1, Len(s.inpQ))
           gs == [i \in 1..n |-> MkSeg({"ACK"}, s.lastSeqSent + i, s.inpQ[i])]
           r == [s EXCEPT !.lastSeqSent = l, !.inpQ = q]
<1>1. s.inpQ \in Seq(Payload) /\ Len(s.inpQ) \in Nat /\ s.lastSeqSent \in Int
  <2>1. s.inpQ \in Seq(Payload) /\ s.lastSeqSent \in SeqNo
    BY DEF Endpoint
  <2> QED BY <2>1, LenProperties, EndpointAssumption DEF SeqNo
<1>2. l \in SeqNo /\ q \in Seq(Payload) /\ n \in Nat
  BY <1>1, WrapType, SubSeqProperties
<1>3. gs \in Seq(Seg) /\ Len(gs) = n
  <2>1. \A i \in 1..n : MkSeg({"ACK"}, s.lastSeqSent + i, s.inpQ[i]) \in Seg
    <3> TAKE i \in 1..n
    <3>1. s.inpQ[i] \in Payload \cup {NoPld}
      BY <1>1, ElementOfSeq
    <3>2. s.lastSeqSent + i \in Int /\ {"ACK"} \in SUBSET Flag
      BY <1>1 DEF Flag
    <3> QED BY <3>1, <3>2, MkSegType
  <2>2. gs \in Seq(Seg)
    BY <2>1, <1>2, IsASeq
  <2>3. DOMAIN gs = 1..n
    OBVIOUS
  <2> HIDE DEF gs
  <2> QED BY <1>2, <2>2, <2>3, LenProperties
<1>4. r \in Endpoint
  <2> HIDE DEF l, q
  <2> QED BY <1>2 DEF Endpoint
<1>5. Added(s, r, 0)
  <2>1. r.peerOssMX = s.peerOssMX /\ r.capa = s.capa /\ r.state = s.state
        /\ r.unAckedSegs = s.unAckedSegs
    BY DEF Endpoint
  <2> HIDE DEF r
  <2> QED BY <2>1, UnackedLen DEF Added
<1>6. Added(r, sendDAT(s, n), n)
  <2> HIDE DEF r, gs
  <2>1. sendDAT(s, n) = sendBufAndKeepForRetransmission(r, gs)
    BY DEF sendDAT, r, gs
  <2> QED BY <1>3, <1>4, <2>1, KeepAdded
<1> HIDE DEF r
<1> QED BY <1>2, <1>5, <1>6, UnackedLen DEF Added

\* Of a NUL, one.
LEMMA SendNULAdded ==
    ASSUME NEW s \in Endpoint
    PROVE  /\ windowOpen(s) => Added(s, sendNUL(s), 1)
           /\ ~windowOpen(s) => Added(s, sendNUL(s), 0)
<1>1. ASSUME windowOpen(s) PROVE Added(s, sendNUL(s), 1)
  <2> DEFINE n == [s EXCEPT !.lastSeqSent = Wrap(@ + 1)]
             gs == <<MkSeg({"ACK", "NUL"}, s.lastSeqSent + 1, NoPld)>>
  <2>1. n \in Endpoint /\ s.lastSeqSent + 1 \in Int
    BY NextSeqType
  <2>2. gs \in Seq(Seg) /\ Len(gs) = 1
    <3>1. gs \in Seq(Seg)
      BY <2>1, OneSegType DEF Flag
    <3> QED BY <3>1
  <2>3. Added(s, n, 0)
    <3>1. n.peerOssMX = s.peerOssMX /\ n.capa = s.capa /\ n.state = s.state
          /\ n.unAckedSegs = s.unAckedSegs
      BY DEF Endpoint
    <3> HIDE DEF n
    <3> QED BY <3>1, UnackedLen DEF Added
  <2>4. sendNUL(s) = sendBufAndKeepForRetransmission(n, gs)
    BY <1>1 DEF sendNUL
  <2>5. Added(n, sendNUL(s), 1)
    <3> HIDE DEF n, gs
    <3> QED BY <2>1, <2>2, <2>4, KeepAdded
  <2> HIDE DEF n
  <2> QED BY <2>3, <2>5, UnackedLen DEF Added
<1>2. ASSUME ~windowOpen(s) PROVE Added(s, sendNUL(s), 0)
  <2>1. Core(sendNUL(s)) = Core(s)
    BY <1>2, ArmType, TimerCore, SendACKCore DEF sendNUL, Timer
  <2> QED BY <2>1, CoreFields, UnackedLen DEF Added
<1> QED BY <1>1, <1>2

\* Of a SYN, one.
LEMMA SendSYNAdded ==
    ASSUME NEW s \in Endpoint, NEW a \in BOOLEAN, NEW isn \in SeqNo
    PROVE  Added(s, sendSYN(s, a, isn), 1)
<1> DEFINE fl == IF a THEN {"SYN", "ACK"} ELSE {"SYN"}
           par == [ossMX |-> MaxUnacked, rexMX |-> s.rexMX, cakMX |-> s.cakMX]
           g == MkSeg(fl, isn, NoPld)
           h == [g EXCEPT !.par = par]
           r == [s EXCEPT !.lastSeqSent = isn, !.oldestU = isn]
<1>1. fl \in SUBSET Flag
  BY DEF Flag
<1>2. par \in Par
  <2>1. s.rexMX \in Nat /\ s.cakMX \in Nat
    BY DEF Endpoint
  <2>2. MaxUnacked \in 1..(SeqMod - 1)
    BY EndpointAssumption DEF Pow2
  <2> QED BY <2>1, <2>2 DEF Par
<1>3. g \in Seg
  <2>1. isn \in Int
    BY EndpointAssumption DEF SeqNo
  <2> HIDE DEF fl
  <2> QED BY <1>1, <2>1, MkSegType
<1>4. h \in Seg
  <2> HIDE DEF g, par
  <2> QED BY <1>2, <1>3 DEF Seg
<1>5. r \in Endpoint /\ Added(s, r, 0)
  <2>1. r \in Endpoint
    BY DEF Endpoint
  <2>2. r.peerOssMX = s.peerOssMX /\ r.capa = s.capa /\ r.state = s.state
        /\ r.unAckedSegs = s.unAckedSegs
    BY DEF Endpoint
  <2> HIDE DEF r
  <2> QED BY <2>1, <2>2, UnackedLen DEF Added
<1>6. <<h>> \in Seq(Seg) /\ Len(<<h>>) = 1
  <2> HIDE DEF h
  <2> QED BY <1>4
<1>7. Added(r, sendSYN(s, a, isn), 1)
  <2>1. sendSYN(s, a, isn) = sendBufAndKeepForRetransmission(r, <<h>>)
    BY DEF sendSYN
  <2> HIDE DEF r, h
  <2> QED BY <1>5, <1>6, <2>1, KeepAdded
<1> HIDE DEF r
<1> QED BY <1>5, <1>7, UnackedLen DEF Added

\* What the handlers of an open connection add fits into the window, and one of
\* any other state adds nothing.
LEMMA SendDATorACKShape ==
    ASSUME NEW s \in Endpoint, NEW q, Shape(s), q \in Opened => s.state \in Opened \cup {"CLOSED"}
    PROVE  /\ Shape(sendDATorACK(q, s))
           /\ sendDATorACK(q, s).state = s.state
           /\ sendDATorACK(q, s).peerOssMX = s.peerOssMX
<1>1. CASE hasBufToSend(q, s)
  <2>1. s.inpQ \in Seq(Payload) /\ s.inpQ # <<>>
    BY <1>1 DEF hasBufToSend, Endpoint
  <2>2. 1 \in 1..Len(s.inpQ)
    BY <2>1, EmptySeq, LenProperties
  <2>3. Added(s, sendDAT(s, 1), 1) /\ sendDAT(s, 1) \in Endpoint
    BY <2>2, SendDATAdded, SendDATType
  <2>4. s.state \in {"OPEN", "OPEN_OUTWIN_FULL", "CLOSED"} /\ windowOpen(s)
    BY <1>1 DEF hasBufToSend, Opened
  <2>5. sendDATorACK(q, s) = sendDAT(s, 1)
    BY <1>1 DEF sendDATorACK
  <2> QED BY <2>3, <2>4, <2>5, UnackedLen DEF Added, windowOpen, Shape, Window
<1>2. CASE ~hasBufToSend(q, s)
  <2>1. sendDATorACK(q, s) = sendACK(s)
    BY <1>2 DEF sendDATorACK
  <2>2. sendACK(s) \in Endpoint /\ Core(sendACK(s)) = Core(s)
    BY SendACKType, SendACKCore
  <2> QED BY <2>1, <2>2, CoreFields, CoreKept, KeptShape
<1> QED BY <1>1, <1>2

-----------------------------------------------------------------------------
(* The handlers preserve the invariant.                                    *)

\* The tail of handleRxEvent().
LEMMA CountAndAckShape ==
    ASSUME NEW s \in Endpoint, NEW q, Shape(s), q \in Opened => s.state \in Opened \cup {"CLOSED"}
    PROVE  Shape(countAndAck(q, s)) /\ countAndAck(q, s).state = s.state
<1> DEFINE n == [s EXCEPT !.numCak = @ + 1]
<1>1. n \in Endpoint /\ Core(n) = Core(s)
  BY NumCakType, MinorCore
<1> HIDE DEF n
<1>2. Shape(n) /\ n.state = s.state
  BY <1>1, CoreFields, CoreKept, KeptShape
<1>3. ASSUME NEW r \in {sendDATorACK(q, n), arm(n, "ACK"), n}
      PROVE  r \in Endpoint /\ Shape(r) /\ r.state = s.state
  <2>1. CASE r = sendDATorACK(q, n)
    BY <1>1, <1>2, <2>1, SendDATorACKType, SendDATorACKShape
  <2>2. CASE r = arm(n, "ACK")
    BY <1>1, <1>2, <2>2, ArmType, TimerCore, CoreFields, CoreKept, KeptShape DEF Timer
  <2>3. CASE r = n
    BY <1>1, <1>2, <2>3
  <2> QED BY <2>1, <2>2, <2>3
<1>4. PICK r \in {sendDATorACK(q, n), arm(n, "ACK"), n} :
         countAndAck(q, s) = IF IsServer THEN arm(r, "NUL") ELSE r
  BY DEF countAndAck, n
<1>5. r \in Endpoint /\ Shape(r) /\ r.state = s.state
  BY <1>3
<1>6. Shape(arm(r, "NUL")) /\ arm(r, "NUL").state = s.state
  BY <1>5, ArmType, TimerCore, CoreFields, CoreKept, KeptShape DEF Timer
<1> QED BY <1>4, <1>5, <1>6

\* A segment handleSYN() or handleOTH() accepted.
LEMMA AcceptSegmentShape ==
    ASSUME NEW s \in Endpoint, NEW g \in Seg, NEW q, Shape(s),
           q \in Opened => s.state \in Opened \cup {"CLOSED"}
    PROVE  /\ Shape(acceptSegment(q, s, g))
           /\ acceptSegment(q, s, g).state \in {s.state, "CLOSED"}
<1> DEFINE a    == processAckNumber(s, g)
           in   == (hasPayload(g) \/ "NUL" \in g.flags) /\ canAccept(a, g.seq)
           d    == IF ~in THEN a
                   ELSE IF q \in Opened THEN drainReassembleBuffer(store(a, g)) ELSE store(a, g)
           busy == "BSY" \in g.flags
           c    == IF busy /\ ~d.peerBSY THEN cancel(d, "REX") ELSE d
           b    == [c EXCEPT !.peerBSY = busy]
<1>1. a \in Endpoint /\ Kept(s, a) /\ a.state = s.state
  BY AckNumberType, AckNumberKept
<1>2. d \in Endpoint /\ Kept(s, d) /\ d.state = s.state
  <2> HIDE DEF a
  <2>1. in => store(a, g) \in Endpoint /\ Core(store(a, g)) = Core(a)
    BY <1>1, StoreType, StoreCore
  <2>2. in => Kept(s, store(a, g)) /\ store(a, g).state = s.state
    BY <1>1, <2>1, CoreFields, CoreKept, KeptTrans
  <2>3. in => /\ drainReassembleBuffer(store(a, g)) \in Endpoint
              /\ Kept(s, drainReassembleBuffer(store(a, g)))
              /\ drainReassembleBuffer(store(a, g)).state = s.state
    BY <2>1, <2>2, DrainType, DrainKept, KeptTrans
  <2> QED BY <1>1, <2>1, <2>2, <2>3
<1> HIDE DEF d
<1>3. c \in Endpoint /\ Core(c) = Core(d)
  BY <1>2, CancelType, TimerCore DEF Timer
<1> HIDE DEF c
<1>4. b \in Endpoint /\ Core(b) = Core(c)
  <2>1. busy \in BOOLEAN
    OBVIOUS
  <2> HIDE DEF busy
  <2>2. b \in Endpoint
    BY <1>3, <2>1, ZenonT(60) DEF Endpoint
  <2>3. Core(b) = Core(c)
    BY <1>3, MinorCore
  <2> QED BY <2>2, <2>3
<1> HIDE DEF b
<1>5. Shape(b) /\ b.state = s.state
  <2>1. Core(b) = Core(d)
    BY <1>3, <1>4
  <2> QED BY <1>2, <1>4, <2>1, CoreFields, CoreKept, KeptTrans, KeptShape
<1>6. /\ Shape(processRetransmissionTimeout(b))
      /\ processRetransmissionTimeout(b).state \in {s.state, "CLOSED"}
  <2>1. Kept(b, processRetransmissionTimeout(b))
    BY <1>4, RexTimeoutKept
  <2> QED BY <1>4, <1>5, <2>1, RexTimeoutType, KeptShape DEF Kept
<1>7. Shape(countAndAck(q, b)) /\ countAndAck(q, b).state = s.state
  BY <1>4, <1>5, CountAndAckShape
<1>8. acceptSegment(q, s, g) \in {processRetransmissionTimeout(b), countAndAck(q, b)}
  BY DEF acceptSegment, b, c, d
<1> QED BY <1>6, <1>7, <1>8

\* The window of a SYN takes effect only where at most a SYN is kept.
LEMMA ParamsShape ==
    ASSUME NEW s \in Endpoint, NEW par \in Par, Shape(s), Len(s.unAckedSegs) <= 1
    PROVE  /\ Shape(extractConnectionParams(s, par))
           /\ extractConnectionParams(s, par).state = s.state
           /\ extractConnectionParams(s, par).unAckedSegs = s.unAckedSegs
<1> DEFINE o == par.ossMX
           c == IF par.ossMX > s.capa THEN RingCapa(par.ossMX) ELSE s.capa
           x == IF IsServer THEN s.rexMX ELSE par.rexMX
           y == IF IsServer THEN s.cakMX ELSE par.cakMX
           r == [s EXCEPT !.peerOssMX = o, !.capa = c, !.rexMX = x, !.cakMX = y]
<1>1. o \in 1..(SeqMod - 1) /\ o \in 1..256 /\ o \in Int
  <2>1. o \in 1..(SeqMod - 1)
    BY DEF Par
  <2> HIDE DEF o
  <2> QED BY <2>1, EndpointAssumption
<1>2. c >= o /\ c >= s.capa
  <2> HIDE DEF o
  <2>1. RingCapa(o) \in Pow2 /\ RingCapa(o) >= o
    BY <1>1, RingCapaType
  <2>2. RingCapa(o) \in Int /\ s.capa \in Int
    BY <2>1, UnackedLen DEF Pow2
  <2> QED BY <1>1, <2>1, <2>2 DEF o
<1>3. c \in Int /\ s.capa \in Int /\ MaxUnacked \in Int
  <2>1. RingCapa(o) \in Pow2
    BY <1>1, RingCapaType
  <2> QED BY <2>1, UnackedLen, EndpointAssumption DEF Pow2
<1>4. r = extractConnectionParams(s, par)
  BY DEF extractConnectionParams, Endpoint
<1>5. r.peerOssMX = o /\ r.capa = c /\ r.state = s.state /\ r.unAckedSegs = s.unAckedSegs
  <2> HIDE DEF o, c, x, y
  <2> QED BY DEF Endpoint
<1>6. Shape(r)
  <2> HIDE DEF r, c, o
  <2> QED BY <1>1, <1>2, <1>3, <1>5, UnackedLen DEF Shape, Window
<1> QED BY <1>4, <1>5, <1>6

\* The receiver's numbers are not the sender's business.
LEMMA SeedRecvKept ==
    ASSUME NEW s \in Endpoint, NEW n \in SeqNo
    PROVE  /\ Kept(s, seedRecv(s, n)) /\ seedRecv(s, n).state = s.state
           /\ seedRecv(s, n).unAckedSegs = s.unAckedSegs
<1> DEFINE r == seedRecv(s, n)
<1>1. /\ r.peerOssMX = s.peerOssMX /\ r.capa = s.capa /\ r.state = s.state
      /\ r.unAckedSegs = s.unAckedSegs
  BY DEF seedRecv, Endpoint
<1> QED BY <1>1, UnackedLen DEF Kept

\* handleSYN().
LEMMA HandleSYNShape ==
    ASSUME NEW s \in Endpoint, NEW g \in Seg, g.par \in Par, NEW isn \in SeqNo, Shape(s)
    PROVE  /\ Shape(handleSYN(s, g, isn).ep)
           /\ s.state \in Opened => handleSYN(s, g, isn).ep.state = s.state
<1> DEFINE r == extractConnectionParams(s, g.par)
           e == seedRecv(r, g.seq)
           f == forceACK(e)
           y == sendSYN(e, TRUE, isn)
           z == [y EXCEPT !.numCak = @ - 1]
<1>1. r \in Endpoint
  BY ParamsType
<1>2. g.seq \in SeqNo
  BY DEF Seg
<1>3. ASSUME Len(s.unAckedSegs) <= 1
      PROVE  Shape(r) /\ r.state = s.state /\ r.unAckedSegs = s.unAckedSegs
  BY <1>3, ParamsShape
<1> HIDE DEF r
<1>4. e \in Endpoint /\ Kept(r, e) /\ e.state = r.state /\ e.unAckedSegs = r.unAckedSegs
  BY <1>1, <1>2, SeedRecvType, SeedRecvKept
<1> HIDE DEF e
<1>5. f \in Endpoint /\ Core(f) = Core(e)
  BY <1>4, NumCakType, ForceACKCore
<1>6. y \in Endpoint /\ Added(e, y, 1)
  BY <1>4, SendSYNType, SendSYNAdded
<1>7. z \in Endpoint /\ Core(z) = Core(y)
  <2> HIDE DEF y
  <2> QED BY <1>6, NumCakType, MinorCore
<1> HIDE DEF f, y, z
<1>8. ASSUME s.state = "LISTEN"
      PROVE  Shape(changeState(z, "SERV_WAIT_SYN_ACK"))
  <2>1. Len(s.unAckedSegs) = 0
    BY <1>8 DEF Shape
  <2>2. Shape(e) /\ Len(e.unAckedSegs) = 0
    BY <1>1, <1>3, <1>4, <2>1, KeptShape
  <2>3. Len(z.unAckedSegs) = 1 /\ z.peerOssMX = e.peerOssMX /\ z.capa = e.capa
    BY <1>6, <1>7, <2>2, CoreFields DEF Added
  <2>4. Window(z)
    BY <1>4, <2>2, <2>3, UnackedLen DEF Shape, Window
  <2> QED BY <1>7, <2>4, ChangeStateFields DEF Shape, Window
<1>9. ASSUME s.state = "CLNT_WAIT_SYN_ACK"
      PROVE  Shape(f) /\ Shape(changeState(f, "PREP_OPEN")) /\ Shape(changeState(sendRST(r), "CLOSED"))
  <2>1. Len(s.unAckedSegs) <= 1
    BY <1>9 DEF Shape
  <2>2. Shape(r) /\ Shape(e)
    BY <1>1, <1>3, <1>4, <2>1, KeptShape
  <2>3. Shape(f)
    BY <1>4, <1>5, <2>2, CoreKept, KeptShape
  <2>4. Shape(changeState(f, "PREP_OPEN"))
    BY <1>5, <2>3, ChangeStateFields DEF Shape, Window
  <2>5. Shape(changeState(sendRST(r), "CLOSED"))
    <3>1. changeState(sendRST(r), "CLOSED") \in Endpoint
      BY <1>1, SendRSTType, ChangeStateType DEF State
    <3> QED BY <1>1, <2>2, <3>1, SendRSTType, SendRSTKept, ClosedKept, KeptTrans, KeptShape
  <2> QED BY <2>3, <2>4, <2>5
<1>10. Shape(forceACK(s)) /\ forceACK(s).state = s.state
  BY NumCakType, ForceACKCore, CoreFields, CoreKept, KeptShape
<1>11. CASE s.state = "LISTEN"
  <2>1. handleSYN(s, g, isn) = Accept(changeState(z, "SERV_WAIT_SYN_ACK"))
    BY <1>11 DEF handleSYN, z, y, e, r
  <2> QED BY <1>8, <1>11, <2>1, Verdict DEF Opened
<1>12. CASE s.state = "CLNT_WAIT_SYN_ACK"
  <2>1. handleSYN(s, g, isn) \in {Reject(changeState(sendRST(r), "CLOSED")),
                                  Accept(changeState(f, "PREP_OPEN")), Accept(f)}
    BY <1>12 DEF handleSYN, f, e, r
  <2> QED BY <1>9, <1>12, <2>1, Verdict DEF Opened
<1>13. CASE s.state \notin {"LISTEN", "CLNT_WAIT_SYN_ACK"}
  <2>1. handleSYN(s, g, isn) = Accept(forceACK(s))
    BY <1>13 DEF handleSYN
  <2> QED BY <1>10, <2>1, Verdict
<1> QED BY <1>11, <1>12, <1>13

\* handleOTH().
LEMMA HandleOTHShape ==
    ASSUME NEW s \in Endpoint, NEW g \in Seg, Shape(s)
    PROVE  Shape(handleOTH(s, g).ep) /\ handleOTH(s, g).ep.state \in {s.state, "CLOSED"}
<1> DEFINE n == [s EXCEPT !.numCak = @ - 1]
<1>1. /\ changeState(sendRST(s), "CLOSED") \in Endpoint /\ changeState(s, "CLOSED") \in Endpoint
      /\ sendRST(s) \in Endpoint
  BY SendRSTType, ChangeStateType DEF State
<1>2. Kept(s, changeState(sendRST(s), "CLOSED")) /\ Kept(s, changeState(s, "CLOSED"))
  BY <1>1, SendRSTKept, ClosedKept, KeptTrans
<1>3. n \in Endpoint /\ Kept(s, n)
  <2>1. n \in Endpoint /\ Core(n) = Core(s)
    BY NumCakType, MinorCore
  <2> HIDE DEF n
  <2> QED BY <2>1, CoreKept
<1>4. forceACK(s) \in Endpoint /\ Kept(s, forceACK(s)) /\ Kept(s, s)
  BY NumCakType, ForceACKCore, CoreKept
<1>5. handleOTH(s, g) \in {Accept(changeState(sendRST(s), "CLOSED")), Reject(s),
                           Accept(n), Accept(forceACK(s)), Accept(changeState(s, "CLOSED")),
                           Accept(s)}
  <2> HIDE DEF n
  <2> QED BY DEF handleOTH, n
<1> HIDE DEF n
<1>6. Kept(s, handleOTH(s, g).ep) /\ handleOTH(s, g).ep \in Endpoint
  BY <1>1, <1>2, <1>3, <1>4, <1>5, Verdict
<1> QED BY <1>6, KeptShape DEF Kept

\* Enabling or disabling the user's input.
LEMMA UsrIShape ==
    ASSUME NEW s \in Endpoint, NEW b \in BOOLEAN, Shape(s)
    PROVE  Shape([s EXCEPT !.usrI = b])
<1> DEFINE r == [s EXCEPT !.usrI = b]
<1>1. r \in Endpoint /\ Core(r) = Core(s)
  BY UsrIType, MinorCore
<1> HIDE DEF r
<1>2. Shape(r)
  BY <1>1, CoreKept, KeptShape
<1> QED BY <1>2 DEF r

\* handleRxEvent() of every state.
LEMMA HandleRxEventShape ==
    ASSUME NEW s \in Endpoint, NEW g \in Seg, "SYN" \in g.flags => g.par \in Par,
           NEW isn \in SeqNo, Shape(s)
    PROVE  Shape(handleRxEvent(s, g, isn))
<1> DEFINE v == IF "SYN" \in g.flags THEN handleSYN(s, g, isn) ELSE handleOTH(s, g)
           r == notClosedRx(s, g, isn)
<1>1. /\ v.ep \in Endpoint /\ Shape(v.ep)
      /\ s.state \in Opened => v.ep.state \in Opened \cup {"CLOSED"}
  <2>1. CASE "SYN" \in g.flags
    BY <2>1, HandleSYNType, HandleSYNShape
  <2>2. CASE "SYN" \notin g.flags
    BY <2>2, HandleOTHType, HandleOTHShape
  <2> QED BY <2>1, <2>2
<1>2. r \in Endpoint /\ Shape(r)
  <2> HIDE DEF v
  <2>1. r \in {acceptSegment(s.state, v.ep, g), v.ep}
    BY DEF notClosedRx, v
  <2> QED BY <1>1, <2>1, AcceptSegmentType, AcceptSegmentShape
<1> HIDE DEF r
<1>3. Shape(arm(changeState(resetReopenDelay(r), "PREP_OPEN"), "NUL"))
  <2>1. /\ resetReopenDelay(r) \in Endpoint /\ Shape(resetReopenDelay(r))
    BY <1>2, ReopenDelayType, ReopenDelayCore, CoreKept, KeptShape
  <2>2. changeState(resetReopenDelay(r), "PREP_OPEN") \in Endpoint
    BY <2>1, ChangeStateType DEF State
  <2>3. Shape(changeState(resetReopenDelay(r), "PREP_OPEN"))
    BY <2>1, ChangeStateFields DEF Shape, Window
  <2> QED BY <2>2, <2>3, ArmType, TimerCore, CoreKept, KeptShape DEF Timer
<1>4. Shape(changeState([r EXCEPT !.usrI = TRUE], "OPEN"))
  <2>1. [r EXCEPT !.usrI = TRUE] \in Endpoint /\ Shape([r EXCEPT !.usrI = TRUE])
    BY <1>2, UsrIType, UsrIShape
  <2> DEFINE w == [r EXCEPT !.usrI = TRUE]
  <2> HIDE DEF w
  <2>2. w \in Endpoint /\ Shape(w)
    BY <2>1 DEF w
  <2>3. Shape(changeState(w, "OPEN"))
    BY <2>2, ChangeStateFields DEF Shape, Window
  <2> QED BY <2>3 DEF w
<1>5. handleRxEvent(s, g, isn) \in {arm(changeState(resetReopenDelay(r), "PREP_OPEN"), "NUL"),
                                    changeState([r EXCEPT !.usrI = TRUE], "OPEN"), r}
  BY DEF handleRxEvent, r
<1> QED BY <1>2, <1>3, <1>4, <1>5

\* handleUsrInputEvent() sends no more than there is room for.
LEMMA UsrInputShape ==
    ASSUME NEW s \in Endpoint, Shape(s)
    PROVE  Shape(handleUsrInputEvent(s))
<1> DEFINE room == s.peerOssMX - Len(s.unAckedSegs)
           n == IF Len(s.inpQ) < room THEN Len(s.inpQ) ELSE room
           r == IF n > 0 THEN sendDAT(s, n) ELSE s
           w == [r EXCEPT !.usrI = FALSE]
<1>1. Len(s.inpQ) \in Nat /\ room \in Nat
  <2>1. s.inpQ \in Seq(Payload)
    BY DEF Endpoint
  <2>2. Len(s.inpQ) \in Nat
    BY <2>1, LenProperties
  <2> QED BY <2>2, UnackedLen DEF Shape, Window
<1>2. n <= room /\ n \in Nat /\ (n > 0 => n \in 1..Len(s.inpQ))
  <2> HIDE DEF room
  <2> QED BY <1>1
<1>3. CASE s.state \notin Opened
  <2>1. handleUsrInputEvent(s) = Panic(s, "UsrInputEvent")
    BY <1>3 DEF handleUsrInputEvent
  <2> QED BY <2>1, PanicType, PanicCore, CoreKept, KeptShape DEF Fault
<1>4. CASE s.state \in Opened
  <2>1. r \in Endpoint /\ Shape(r)
    <3>1. CASE n > 0
      <4>1. r = sendDAT(s, n) /\ r \in Endpoint /\ Added(s, r, n)
        <5> HIDE DEF n
        <5> QED BY <1>2, <3>1, SendDATType, SendDATAdded
      <4> HIDE DEF n, r
      <4>2. Len(s.unAckedSegs) + n <= s.peerOssMX
        BY <1>2, UnackedLen
      <4> QED BY <1>4, <4>1, <4>2 DEF Added, Shape, Window, Opened
    <3>2. CASE ~(n > 0)
      BY <3>2
    <3> QED BY <3>1, <3>2
  <2> HIDE DEF r
  <2>2. w \in Endpoint /\ Shape(w)
    BY <2>1, UsrIType, UsrIShape
  <2>3. handleUsrInputEvent(s) \in {r, changeState(w, "OPEN_OUTWIN_FULL")}
    BY <1>4 DEF handleUsrInputEvent, outWinFull, r
  <2> HIDE DEF w
  <2>4. Shape(changeState(w, "OPEN_OUTWIN_FULL"))
    BY <2>2, ChangeStateFields DEF Shape, Window
  <2> QED BY <2>1, <2>3, <2>4
<1> QED BY <1>3, <1>4

\* handleUsrOutputEvent().
LEMMA UsrOutputShape ==
    ASSUME NEW s \in Endpoint, Shape(s)
    PROVE  Shape(handleUsrOutputEvent(s))
<1> DEFINE o == [s EXCEPT !.usrO = FALSE]
           r == drainReassembleBuffer(o)
<1>1. o \in Endpoint /\ Core(o) = Core(s)
  BY DEF Endpoint, Core
<1>2. r \in Endpoint /\ Kept(o, r)
  <2> HIDE DEF o
  <2> QED BY <1>1, DrainType, DrainKept
<1>3. Kept(s, r)
  <2> HIDE DEF o, r
  <2> QED BY <1>1, <1>2, CoreKept, KeptTrans
<1>4. handleUsrOutputEvent(s) \in {Panic(s, "UsrOutputEvent"), r, sendACK(r)}
  BY DEF handleUsrOutputEvent
<1> HIDE DEF r
<1>5. Kept(s, Panic(s, "UsrOutputEvent")) /\ Panic(s, "UsrOutputEvent") \in Endpoint
  BY PanicType, PanicCore, CoreKept DEF Fault
<1>6. Kept(s, sendACK(r)) /\ sendACK(r) \in Endpoint
  BY <1>2, <1>3, SendACKType, SendACKCore, CoreKept, KeptTrans
<1> QED BY <1>2, <1>3, <1>4, <1>5, <1>6, KeptShape

\* The three timeouts.
LEMMA TimeoutShape ==
    ASSUME NEW s \in Endpoint, NEW t \in Timer, Shape(s)
    PROVE  Shape(timeout(s, t))
<1> DEFINE r == cancel(s, t)
<1>1. r \in Endpoint /\ Shape(r)
  BY CancelType, TimerCore, CoreKept, KeptShape
<1> HIDE DEF r
<1>2. Shape(processRetransmissionTimeout(r))
  BY <1>1, RexTimeoutType, RexTimeoutKept, KeptShape
<1>3. Shape(Panic(r, "ACKTimeout")) /\ Shape(Panic(r, "NULTimeout"))
  BY <1>1, PanicType, PanicCore, CoreKept, KeptShape DEF Fault
<1>4. Shape(processAckTimeout(r))
  BY <1>1, <1>3, SendDATorACKShape DEF processAckTimeout
<1>5. Shape(processNulTimeout(r))
  <2>1. CASE r.state \notin Opened
    BY <1>3, <2>1 DEF processNulTimeout
  <2>2. CASE r.state \in Opened /\ IsServer
    <3>1. processNulTimeout(r) = changeState(sendRST(r), "CLOSED")
      BY <2>2 DEF processNulTimeout
    <3>2. changeState(sendRST(r), "CLOSED") \in Endpoint
      BY <1>1, SendRSTType, ChangeStateType DEF State
    <3> QED BY <1>1, <3>1, <3>2, SendRSTType, SendRSTKept, ClosedKept, KeptTrans, KeptShape
  <2>3. CASE r.state \in Opened /\ ~IsServer
    <3>1. sendNUL(r) \in Endpoint
      BY <1>1, SendNULType
    <3>2. Shape(sendNUL(r)) 
      <4>1. CASE windowOpen(r)
        <5>1. Added(r, sendNUL(r), 1)
          BY <1>1, <4>1, SendNULAdded
        <5> QED BY <1>1, <2>3, <4>1, <5>1, UnackedLen DEF Added, windowOpen, Shape, Window, Opened
      <4>2. CASE ~windowOpen(r)
        <5>1. Added(r, sendNUL(r), 0)
          BY <1>1, <4>2, SendNULAdded
        <5> QED BY <1>1, <5>1, UnackedLen DEF Added, Shape, Window
      <4> QED BY <4>1, <4>2
    <3> DEFINE k == sendNUL(r)
               w == [k EXCEPT !.usrI = FALSE]
    <3>3. processNulTimeout(r) \in {k, changeState(w, "OPEN_OUTWIN_FULL")}
      BY <2>3 DEF processNulTimeout, outWinFull
    <3> HIDE DEF k
    <3>4. k \in Endpoint /\ Shape(k)
      BY <3>1, <3>2 DEF k
    <3>5. w \in Endpoint /\ Shape(w)
      BY <3>4, UsrIType, UsrIShape
    <3> HIDE DEF w
    <3>6. Shape(changeState(w, "OPEN_OUTWIN_FULL"))
      BY <3>5, ChangeStateFields DEF Shape, Window
    <3> QED BY <3>3, <3>4, <3>6
  <2> QED BY <2>1, <2>2, <2>3
<1>6. timeout(s, t) \in {processRetransmissionTimeout(r), processAckTimeout(r), processNulTimeout(r)}
  BY DEF timeout, r
<1> QED BY <1>2, <1>4, <1>5, <1>6

\* close() forgets the peer's window and what was kept for it.
LEMMA CloseShape ==
    ASSUME NEW s \in Endpoint, Shape(s)
    PROVE  /\ close(s).unAckedSegs = <<>> /\ close(s).peerOssMX = MaxUnacked
           /\ close(s).capa = s.capa /\ Window(close(s))
<1>1. /\ close(s).unAckedSegs = <<>> /\ close(s).peerOssMX = MaxUnacked
      /\ close(s).capa = s.capa
  BY DEF close, Endpoint
<1>2. MaxUnacked \in Nat /\ Len(<<>>) = 0
  BY EndpointAssumption DEF Pow2
<1> HIDE DEF close
<1> QED BY <1>1, <1>2 DEF Shape, Window

\* CLOSED::advance() before it sleeps.
LEMMA ClosedAdvanceShape ==
    ASSUME NEW s \in Endpoint, Shape(s)
    PROVE  Shape(closedAdvance(s))
<1> DEFINE c == close(s)
<1>1. c \in Endpoint /\ Window(c) /\ Len(c.unAckedSegs) = 0
  BY CloseType, CloseShape
<1>2. closedAdvance(s) \in {changeState(c, "LISTEN"), changeState(c, "CLOSED_SLEEP")}
  BY DEF closedAdvance
<1> HIDE DEF c
<1> QED BY <1>1, <1>2, ChangeStateFields DEF Shape, Window

\* A client begins a connection.
LEMMA ReopenShape ==
    ASSUME NEW s \in Endpoint, NEW isn \in SeqNo, Shape(s), s.state = "CLOSED_SLEEP"
    PROVE  Shape(reopen(s, isn))
<1> DEFINE i == increaseReopenDelay(s)
           y == sendSYN(i, FALSE, isn)
<1>1. i \in Endpoint /\ Core(i) = Core(s)
  BY ReopenDelayType, ReopenDelayCore
<1>2. Shape(i) /\ Len(i.unAckedSegs) = 0
  <2> HIDE DEF i
  <2>1. Shape(i) /\ i.state = s.state
    BY <1>1, CoreFields, CoreKept, KeptShape
  <2> QED BY <2>1 DEF Shape
<1> HIDE DEF i
<1>3. y \in Endpoint /\ Added(i, y, 1)
  BY <1>1, SendSYNType, SendSYNAdded
<1> HIDE DEF y
<1>4. Window(y) /\ Len(y.unAckedSegs) = 1
  BY <1>1, <1>2, <1>3, UnackedLen DEF Added, Shape, Window
<1>5. reopen(s, isn) = changeState(y, "CLNT_WAIT_SYN_ACK")
  BY DEF reopen, y, i
<1> DEFINE z == changeState(y, "CLNT_WAIT_SYN_ACK")
<1>6. /\ z.state = "CLNT_WAIT_SYN_ACK" /\ z.unAckedSegs = y.unAckedSegs
      /\ z.peerOssMX = y.peerOssMX /\ z.capa = y.capa
  BY <1>3, ChangeStateFields
<1> HIDE DEF z
<1>7. Shape(z)
  <2>1. Window(z)
    BY <1>4, <1>6 DEF Window
  <2>2. Len(z.unAckedSegs) = 1 /\ z.state \notin {"CLOSED_SLEEP", "LISTEN"}
    BY <1>4, <1>6
  <2> QED BY <2>1, <2>2 DEF Shape
<1> QED BY <1>5, <1>7 DEF z

\* PREP_OPEN::advance().
LEMMA PrepOpenAdvanceShape ==
    ASSUME NEW s \in Endpoint, Shape(s)
    PROVE  Shape(prepOpenAdvance(s))
<1> DEFINE w == [s EXCEPT !.usrI = TRUE]
<1>1. w \in Endpoint /\ Shape(w)
  BY UsrIType, UsrIShape
<1>2. prepOpenAdvance(s) = changeState(w, "OPEN")
  BY DEF prepOpenAdvance
<1> HIDE DEF w
<1> QED BY <1>1, <1>2, ChangeStateFields DEF Shape, Window

\* threadStop().
LEMMA ThreadStopShape ==
    ASSUME NEW s \in Endpoint, Shape(s)
    PROVE  Shape(threadStop(s))
<1> DEFINE r == IF s.state \in {"CLOSED", "CLOSED_SLEEP", "LISTEN"} THEN s ELSE sendRST(s)
           c == close(r)
           z == [c EXCEPT !.state = "CLOSED"]
<1>1. r \in Endpoint /\ Shape(r)
  BY SendRSTType, SendRSTKept, KeptShape
<1> HIDE DEF r
<1>2. c \in Endpoint /\ Window(c)
  BY <1>1, CloseType, CloseShape
<1> HIDE DEF c
<1>3. /\ z.state = "CLOSED" /\ z.unAckedSegs = c.unAckedSegs
      /\ z.peerOssMX = c.peerOssMX /\ z.capa = c.capa
  BY <1>2 DEF Endpoint
<1>4. threadStop(s) = z
  BY DEF threadStop, c, r
<1> HIDE DEF z
<1> QED BY <1>2, <1>3, <1>4 DEF Shape, Window

\* A new endpoint.
LEMMA InitShape ==
    ASSUME NEW a, NEW b, NEW u, NEW r
    PROVE  Shape(InitEndpoint(a, b, u, r))
<1> DEFINE s == InitEndpoint(a, b, u, r)
<1>1. /\ s.state = "CLOSED" /\ s.unAckedSegs = <<>> /\ s.peerOssMX = MaxUnacked
      /\ s.capa = MaxUnacked
  BY DEF InitEndpoint
<1>2. MaxUnacked \in Nat /\ Len(<<>>) = 0
  BY EndpointAssumption DEF Pow2
<1> HIDE DEF s
<1>3. Shape(s)
  BY <1>1, <1>2 DEF Shape, Window
<1> QED BY <1>3 DEF s

-----------------------------------------------------------------------------
(* The sequence numbers.                                                    *)

-----------------------------------------------------------------------------
(* Modular arithmetic.                                                     *)

\* Addition associates.
LEMMA Regroup == \A a, b, c \in Int : a + b + c - 1 = a + (b + c) - 1
OBVIOUS

\* The remainder.
LEMMA DivMod ==
    ASSUME NEW m \in Nat \ {0}, NEW a \in Int
    PROVE  \E q \in Int : a = m * q + (a % m)
<1>1. a \div m \in Int
  OBVIOUS
<1>2. a = m * (a \div m) + (a % m)
  OBVIOUS
<1> QED BY <1>1, <1>2

\* It is unique.
LEMMA ModUnique ==
    ASSUME NEW m \in Nat \ {0}, NEW a \in Int, NEW q \in Int, NEW r \in 0..(m - 1),
           a = m * q + r
    PROVE  a % m = r
OBVIOUS

\* A summand may be reduced first.
LEMMA ModPlus ==
    ASSUME NEW m \in Nat \ {0}, NEW a \in Int, NEW b \in Int
    PROVE  ((a % m) + b) % m = (a + b) % m
<1> DEFINE r == a % m
           c == r + b
           t == c % m
           e == a + b
<1>1. r \in Int /\ c \in Int /\ e \in Int /\ t \in 0..(m - 1)
  OBVIOUS
<1>2. PICK q \in Int : a = m * q + r
  BY DivMod
<1>3. PICK p \in Int : c = m * p + t
  <2> HIDE DEF c
  <2> QED BY <1>1, DivMod
<1> DEFINE f == q + p
<1>4. f \in Int /\ e = m * f + t
  <2>1. m * (q + p) = m * q + m * p /\ m * q \in Int /\ m * p \in Int
    OBVIOUS
  <2>2. c = r + b /\ e = a + b
    OBVIOUS
  <2> HIDE DEF r, c, t, e
  <2> QED BY <1>1, <1>2, <1>3, <2>1, <2>2
<1>5. e % m = t
  <2> HIDE DEF e, f, t
  <2> QED BY <1>1, <1>4, ModUnique
<1> QED BY <1>5

\* The same of sequence numbers.
LEMMA WrapPlus == \A a, b \in Int : Wrap(Wrap(a) + b) = Wrap(a + b)
<1>1. SeqMod \in Nat \ {0}
  BY EndpointAssumption
<1> QED BY <1>1, ModPlus DEF Wrap

\* A sequence number is its own remainder.
LEMMA WrapSeqNo == \A n \in SeqNo : n \in Int /\ Wrap(n) = n
<1> TAKE n \in SeqNo
<1>1. SeqMod \in Nat \ {0} /\ n \in 0..(SeqMod - 1) /\ n \in Int
  BY EndpointAssumption DEF SeqNo
<1>2. n = SeqMod * 0 + n
  BY <1>1
<1>3. n % SeqMod = n
  BY <1>1, <1>2, ModUnique
<1> QED BY <1>1, <1>3 DEF Wrap

-----------------------------------------------------------------------------
(* The invariants, of an endpoint s.                                       *)

\* The segments q are numbered, from n on.
Numbered(q, n) == \A i \in 1..Len(q) : q[i].seq = Wrap(n + i - 1)

\* UnackedInSequence without its condition.
InSequence(s) ==
    /\ Numbered(s.unAckedSegs, s.oldestU)
    /\ s.lastSeqSent = Wrap(s.oldestU + Len(s.unAckedSegs) - 1)

\* AckIsDelivered without its condition.
AckInStep(s) == s.lastSeqRecv = Wrap(s.oldestR - 1)

\* They depend on the core only.
LEMMA CoreInvariants ==
    ASSUME NEW s, NEW r, Core(r) = Core(s)
    PROVE  /\ InSequence(r) <=> InSequence(s)
           /\ AckInStep(r) <=> AckInStep(s)
BY CoreFields DEF InSequence, AckInStep

\* Marking a segment (BSY) does not change its number.
LEMMA MarkSeq ==
    ASSUME NEW s \in Endpoint, NEW g \in Seg
    PROVE  mark(s, g).seq = g.seq
BY DEF mark, Seg

-----------------------------------------------------------------------------
(* Tidy(s, r): on the way from s to r the numbers stay in order.  Every    *)
(* function is tidy but sendRST(), which takes a number for a segment that *)
(* is not kept.                                                            *)

Tidy(s, r) ==
    /\ r.state = s.state /\ r.rexMX = s.rexMX /\ r.peerOssMX = s.peerOssMX
    /\ InSequence(s) => InSequence(r)
    /\ AckInStep(s) => AckInStep(r)

\* Tidy steps compose.
LEMMA TidyTrans ==
    ASSUME NEW s, NEW r, NEW t, Tidy(s, r), Tidy(r, t)
    PROVE  Tidy(s, t)
BY DEF Tidy

\* A step outside the core is tidy.
LEMMA CoreTidy ==
    ASSUME NEW s, NEW r, Core(r) = Core(s)
    PROVE  Tidy(s, r)
BY CoreFields, CoreInvariants DEF Tidy

\* The number after the last one sent, when the kept segments are in sequence.
LEMMA NextNumber ==
    ASSUME NEW s \in Endpoint, InSequence(s), NEW i \in Int
    PROVE  Wrap(s.lastSeqSent + i) = Wrap(s.oldestU + Len(s.unAckedSegs) + i - 1)
<1> DEFINE a == s.oldestU + Len(s.unAckedSegs) - 1
<1>1. a \in Int /\ s.oldestU \in Int /\ Len(s.unAckedSegs) \in Int
  BY UnackedLen
<1>2. Wrap(Wrap(a) + i) = Wrap(a + i)
  <2> HIDE DEF a
  <2> QED BY <1>1, WrapPlus
<1>3. s.lastSeqSent = Wrap(a)
  BY DEF InSequence
<1>4. a + i = s.oldestU + Len(s.unAckedSegs) + i - 1
  BY <1>1
<1> QED BY <1>2, <1>3, <1>4

\* Two numbered sequences, the second from where the first ends.
LEMMA NumberedConcat ==
    ASSUME NEW u \in Seq(Seg), NEW m \in Seq(Seg), NEW n \in Int,
           Numbered(u, n), Numbered(m, n + Len(u))
    PROVE  Numbered(u \o m, n)
<1> DEFINE x == u \o m
<1>1. Len(u) \in Nat /\ Len(m) \in Nat
  BY LenProperties
<1>2. /\ Len(x) = Len(u) + Len(m)
      /\ \A i \in 1..(Len(u) + Len(m)) : x[i] = IF i <= Len(u) THEN u[i] ELSE m[i - Len(u)]
  BY ConcatProperties
<1> HIDE DEF x
<1> SUFFICES ASSUME NEW i \in 1..Len(x) PROVE x[i].seq = Wrap(n + i - 1)
  BY DEF Numbered, x
<1>3. i \in 1..(Len(u) + Len(m)) /\ i \in Int
  BY <1>2
<1>4. CASE i <= Len(u)
  <2>1. x[i] = u[i] /\ i \in 1..Len(u)
    BY <1>1, <1>2, <1>3, <1>4
  <2> QED BY <2>1 DEF Numbered
<1>5. CASE ~(i <= Len(u))
  <2> DEFINE j == i - Len(u)
  <2>1. x[i] = m[j] /\ j \in 1..Len(m)
    BY <1>1, <1>2, <1>3, <1>5
  <2>2. n + Len(u) + j - 1 = n + i - 1
    BY <1>1, <1>3
  <2> HIDE DEF j
  <2>3. m[j].seq = Wrap(n + Len(u) + j - 1)
    BY <2>1 DEF Numbered
  <2> QED BY <2>1, <2>2, <2>3
<1> QED BY <1>4, <1>5

\* What remains of a numbered sequence without its first n elements.
LEMMA NumberedSuffix ==
    ASSUME NEW u \in Seq(Seg), NEW o \in Int, NEW n \in 0..Len(u), Numbered(u, o)
    PROVE  Numbered(SubSeq(u, n + 1, Len(u)), Wrap(o + n))
<1> DEFINE x == SubSeq(u, n + 1, Len(u))
<1>1. Len(u) \in Nat /\ n \in Int
  BY LenProperties
<1>2. Len(x) = Len(u) - n /\ \A i \in 1..(Len(u) - n) : x[i] = u[n + i]
  <2>1. n + 1 \in 1..(Len(u) + 1) /\ Len(u) \in (n + 1 - 1)..Len(u)
    BY <1>1
  <2>2. /\ Len(x) = IF n + 1 <= Len(u) THEN Len(u) - (n + 1) + 1 ELSE 0
        /\ \A i \in 1..(Len(u) - (n + 1) + 1) : x[i] = u[(n + 1) + i - 1]
    BY <2>1, SubSeqProperties
  <2> HIDE DEF x
  <2>3. Len(u) - (n + 1) + 1 = Len(u) - n /\ \A i \in Int : (n + 1) + i - 1 = n + i
    BY <1>1
  <2>4. Len(x) = Len(u) - n
    BY <1>1, <2>2
  <2>5. ASSUME NEW i \in 1..(Len(u) - n) PROVE x[i] = u[n + i]
    <3>1. x[i] = u[(n + 1) + i - 1]
      BY <2>2, <2>3
    <3> QED BY <2>3, <3>1
  <2> QED BY <2>4, <2>5
<1> HIDE DEF x
<1> SUFFICES ASSUME NEW i \in 1..Len(x) PROVE x[i].seq = Wrap(Wrap(o + n) + i - 1)
  BY DEF Numbered, x
<1>3. i \in Int /\ i \in 1..(Len(u) - n) /\ n + i \in 1..Len(u)
  BY <1>1, <1>2
<1>4. x[i].seq = Wrap(o + (n + i) - 1)
  BY <1>2, <1>3 DEF Numbered
<1>5. Wrap(Wrap(o + n) + (i - 1)) = Wrap(o + n + (i - 1))
  BY <1>1, <1>3, WrapPlus
<1>6. Wrap(o + n) \in Int
  BY <1>1, WrapType, SeqNoInt
<1> DEFINE w == Wrap(o + n)
<1>7. w + (i - 1) = w + i - 1 /\ o + n + (i - 1) = o + (n + i) - 1
  <2> HIDE DEF w
  <2> QED BY <1>1, <1>3, <1>6 DEF w
<1> QED BY <1>4, <1>5, <1>7

\* Marking segments leaves their numbers alone.
LEMMA NumberedMark ==
    ASSUME NEW s \in Endpoint, NEW q \in Seq(Seg), NEW n, Numbered(q, n)
    PROVE  /\ [i \in DOMAIN q |-> mark(s, q[i])] \in Seq(Seg)
           /\ Len([i \in DOMAIN q |-> mark(s, q[i])]) = Len(q)
           /\ Numbered([i \in DOMAIN q |-> mark(s, q[i])], n)
<1> DEFINE m == [i \in DOMAIN q |-> mark(s, q[i])]
<1>1. m \in Seq(Seg)
  BY MapStampType
<1>2. DOMAIN q = 1..Len(q) /\ Len(q) \in Nat /\ DOMAIN m = DOMAIN q
  BY LenProperties
<1>3. Len(m) = Len(q)
  <2> HIDE DEF m
  <2> QED BY <1>1, <1>2, LenProperties
<1>4. \A i \in 1..Len(q) : m[i].seq = q[i].seq
  <2> TAKE i \in 1..Len(q)
  <2>1. i \in DOMAIN q /\ q[i] \in Seg
    BY <1>2, ElementOfSeq
  <2> QED BY <2>1, MarkSeq
<1>5. Numbered(m, n)
  <2> HIDE DEF m
  <2> QED BY <1>3, <1>4 DEF Numbered
<1> QED BY <1>1, <1>3, <1>5

\* Segments that are sent and kept, numbered onwards from the last one kept.
LEMMA KeepTidy ==
    ASSUME NEW s \in Endpoint, NEW gs \in Seq(Seg),
           Numbered(s.unAckedSegs, s.oldestU),
           Numbered(gs, s.oldestU + Len(s.unAckedSegs)),
           s.lastSeqSent = Wrap(s.oldestU + Len(s.unAckedSegs) + Len(gs) - 1)
    PROVE  InSequence(sendBufAndKeepForRetransmission(s, gs))
<1> DEFINE r == sendBuf(s, gs)
           m == [i \in DOMAIN gs |-> mark(s, gs[i])]
           x == r.unAckedSegs \o m
           p == IF Len(s.unAckedSegs) + Len(gs) - 1 > s.capa THEN "RingBuf Overflow" ELSE r.panic
           k == [r EXCEPT !.unAckedSegs = x, !.panic = p]
<1>1. r \in Endpoint /\ Core(r) = Core(s)
  BY SendBufType, SendBufCore
<1>2. /\ r.unAckedSegs = s.unAckedSegs /\ s.unAckedSegs \in Seq(Seg)
      /\ Len(s.unAckedSegs) \in Nat /\ Len(gs) \in Nat /\ s.oldestU \in Int
  <2> HIDE DEF r
  <2> QED BY <1>1, CoreFields, UnackedLen, LenProperties
<1>3. m \in Seq(Seg) /\ Len(m) = Len(gs) /\ Numbered(m, s.oldestU + Len(s.unAckedSegs))
  BY NumberedMark
<1>4. /\ x \in Seq(Seg) /\ Len(x) = Len(s.unAckedSegs) + Len(gs)
      /\ Numbered(x, s.oldestU)
  <2> DEFINE u == s.unAckedSegs
  <2>1. x = u \o m /\ u \in Seq(Seg)
    BY <1>2
  <2> HIDE DEF u, m, r
  <2>2. Numbered(u, s.oldestU) /\ Numbered(m, s.oldestU + Len(u))
    BY <1>3 DEF u
  <2>3. Numbered(u \o m, s.oldestU)
    BY <1>2, <1>3, <2>1, <2>2, NumberedConcat
  <2>4. u \o m \in Seq(Seg) /\ Len(u \o m) = Len(u) + Len(m)
    BY <1>3, <2>1, ConcatProperties
  <2> HIDE DEF x
  <2> QED BY <1>3, <2>1, <2>3, <2>4 DEF u
<1>5. p \in Fault
  <2> HIDE DEF r
  <2> QED BY <1>1 DEF Endpoint, Fault
<1>6. k \in Endpoint /\ k.unAckedSegs = x /\ k.oldestU = r.oldestU /\ k.lastSeqSent = r.lastSeqSent
  <2> HIDE DEF r, x, p
  <2> QED BY <1>1, <1>4, <1>5, ZenonT(60) DEF Endpoint
<1>7. InSequence(k)
  <2> HIDE DEF k, r, x
  <2>1. k.oldestU = s.oldestU /\ k.lastSeqSent = s.lastSeqSent
    BY <1>1, <1>6, CoreFields
  <2>2. s.oldestU + Len(s.unAckedSegs) + Len(gs) - 1 = s.oldestU + Len(x) - 1
    <3>1. s.oldestU \in Int /\ Len(s.unAckedSegs) \in Int /\ Len(gs) \in Int
      BY <1>2
    <3>2. s.oldestU + Len(s.unAckedSegs) + Len(gs) - 1
            = s.oldestU + (Len(s.unAckedSegs) + Len(gs)) - 1
      BY <3>1, Regroup, Zenon
    <3> QED BY <1>4, <3>2, Zenon
  <2> QED BY <1>4, <1>6, <2>1, <2>2 DEF InSequence
<1>8. Core(armRexAndNulTimer(k)) = Core(k)
  <2> HIDE DEF k
  <2> QED BY <1>6, ArmRexAndNulCore
<1>9. InSequence(armRexAndNulTimer(k))
  <2> HIDE DEF k
  <2> QED BY <1>7, <1>8, CoreInvariants
<1> QED BY <1>9 DEF sendBufAndKeepForRetransmission

\* Keeping segments changes no other number, nor the limits.
LEMMA KeepFields ==
    ASSUME NEW s \in Endpoint, NEW gs \in Seq(Seg)
    PROVE  LET r == sendBufAndKeepForRetransmission(s, gs)
           IN  /\ r.state = s.state /\ r.rexMX = s.rexMX /\ r.peerOssMX = s.peerOssMX
               /\ r.lastSeqRecv = s.lastSeqRecv /\ r.oldestR = s.oldestR
               /\ r.lastSeqSent = s.lastSeqSent /\ r.oldestU = s.oldestU
<1> DEFINE r == sendBuf(s, gs)
           x == r.unAckedSegs \o [i \in DOMAIN gs |-> mark(s, gs[i])]
           p == IF Len(s.unAckedSegs) + Len(gs) - 1 > s.capa THEN "RingBuf Overflow" ELSE r.panic
           k == [r EXCEPT !.unAckedSegs = x, !.panic = p]
<1>1. r \in Endpoint /\ Core(r) = Core(s)
  BY SendBufType, SendBufCore
<1>2. x \in Seq(Seg) /\ p \in Fault
  <2>1. r.unAckedSegs \in Seq(Seg) /\ r.panic \in Fault
    <3> HIDE DEF r
    <3> QED BY <1>1 DEF Endpoint
  <2> QED BY <2>1, MapStampType, ConcatProperties DEF Fault
<1>3. /\ k \in Endpoint
      /\ k.state = r.state /\ k.rexMX = r.rexMX /\ k.peerOssMX = r.peerOssMX
      /\ k.lastSeqRecv = r.lastSeqRecv /\ k.oldestR = r.oldestR
      /\ k.lastSeqSent = r.lastSeqSent /\ k.oldestU = r.oldestU
  <2> HIDE DEF r, x, p
  <2> QED BY <1>1, <1>2, ZenonT(60) DEF Endpoint
<1>4. sendBufAndKeepForRetransmission(s, gs) = armRexAndNulTimer(k)
  BY DEF sendBufAndKeepForRetransmission
<1> HIDE DEF k, r
<1>5. Core(armRexAndNulTimer(k)) = Core(k)
  BY <1>3, ArmRexAndNulCore
<1> QED BY <1>1, <1>3, <1>4, <1>5, CoreFields

\* Segments numbered onwards from lastSeqSent, n of them, are sent and kept.
LEMMA SendTidy ==
    ASSUME NEW s \in Endpoint, NEW r \in Endpoint, NEW gs \in Seq(Seg),
           r.state = s.state, r.rexMX = s.rexMX, r.peerOssMX = s.peerOssMX,
           r.lastSeqRecv = s.lastSeqRecv, r.oldestR = s.oldestR,
           r.unAckedSegs = s.unAckedSegs, r.oldestU = s.oldestU,
           r.lastSeqSent = Wrap(s.lastSeqSent + Len(gs)),
           \A i \in 1..Len(gs) : gs[i].seq = Wrap(s.lastSeqSent + i)
    PROVE  Tidy(s, sendBufAndKeepForRetransmission(r, gs))
<1> DEFINE k == sendBufAndKeepForRetransmission(r, gs)
<1>1. /\ k.state = s.state /\ k.rexMX = s.rexMX /\ k.peerOssMX = s.peerOssMX
      /\ k.lastSeqRecv = s.lastSeqRecv /\ k.oldestR = s.oldestR
  BY KeepFields
<1>2. ASSUME InSequence(s) PROVE InSequence(k)
  <2>0. Len(gs) \in Int /\ s.oldestU \in Int /\ Len(s.unAckedSegs) \in Int
    BY UnackedLen, LenProperties
  <2>1. Numbered(r.unAckedSegs, r.oldestU)
    BY <1>2 DEF InSequence
  <2>2. Numbered(gs, r.oldestU + Len(r.unAckedSegs))
    <3> SUFFICES ASSUME NEW i \in 1..Len(gs)
                 PROVE  gs[i].seq = Wrap(s.oldestU + Len(s.unAckedSegs) + i - 1)
      BY Zenon DEF Numbered
    <3>1. gs[i].seq = Wrap(s.lastSeqSent + i) /\ i \in Int
      OBVIOUS
    <3> QED BY <1>2, <3>1, NextNumber
  <2>3. r.lastSeqSent = Wrap(r.oldestU + Len(r.unAckedSegs) + Len(gs) - 1)
    BY <1>2, <2>0, NextNumber, Zenon
  <2> QED BY <2>1, <2>2, <2>3, KeepTidy
<1>3. AckInStep(s) => AckInStep(k)
  BY <1>1 DEF AckInStep
<1> QED BY <1>1, <1>2, <1>3 DEF Tidy

\* sendDAT().
LEMMA SendDATTidy ==
    ASSUME NEW s \in Endpoint, NEW n \in 1..Len(s.inpQ)
    PROVE  Tidy(s, sendDAT(s, n))
<1> DEFINE l == Wrap(s.lastSeqSent + n)
           q == SubSeq(s.inpQ, n + 1, Len(s.inpQ))
           gs == [i \in 1..n |-> MkSeg({"ACK"}, s.lastSeqSent + i, s.inpQ[i])]
           r == [s EXCEPT !.lastSeqSent = l, !.inpQ = q]
<1>1. s.inpQ \in Seq(Payload) /\ Len(s.inpQ) \in Nat /\ s.lastSeqSent \in Int
  <2>1. s.inpQ \in Seq(Payload) /\ s.lastSeqSent \in SeqNo
    BY DEF Endpoint
  <2> QED BY <2>1, LenProperties, EndpointAssumption DEF SeqNo
<1>2. l \in SeqNo /\ q \in Seq(Payload) /\ n \in Nat
  BY <1>1, WrapType, SubSeqProperties
<1>3. gs \in Seq(Seg) /\ Len(gs) = n
  <2>1. \A i \in 1..n : MkSeg({"ACK"}, s.lastSeqSent + i, s.inpQ[i]) \in Seg
    <3> TAKE i \in 1..n
    <3>1. s.inpQ[i] \in Payload \cup {NoPld}
      BY <1>1, ElementOfSeq
    <3>2. s.lastSeqSent + i \in Int /\ {"ACK"} \in SUBSET Flag
      BY <1>1 DEF Flag
    <3> QED BY <3>1, <3>2, MkSegType
  <2>2. gs \in Seq(Seg)
    BY <2>1, <1>2, IsASeq
  <2>3. DOMAIN gs = 1..n
    OBVIOUS
  <2> HIDE DEF gs
  <2> QED BY <1>2, <2>2, <2>3, LenProperties
<1>4. \A i \in 1..Len(gs) : gs[i].seq = Wrap(s.lastSeqSent + i)
  <2>1. \A i \in 1..n : gs[i].seq = Wrap(s.lastSeqSent + i)
    BY DEF MkSeg
  <2> QED BY <1>3, <2>1
<1>5. /\ r \in Endpoint
      /\ r.state = s.state /\ r.rexMX = s.rexMX /\ r.peerOssMX = s.peerOssMX
      /\ r.lastSeqRecv = s.lastSeqRecv /\ r.oldestR = s.oldestR
      /\ r.unAckedSegs = s.unAckedSegs /\ r.oldestU = s.oldestU /\ r.lastSeqSent = l
  <2> HIDE DEF l, q
  <2> QED BY <1>2 DEF Endpoint
<1>6. sendDAT(s, n) = sendBufAndKeepForRetransmission(r, gs)
  BY DEF sendDAT
<1>7. r.lastSeqSent = Wrap(s.lastSeqSent + Len(gs))
  BY <1>3, <1>5
<1> HIDE DEF r, gs
<1> QED BY <1>3, <1>4, <1>5, <1>6, <1>7, SendTidy

\* sendNUL().
LEMMA SendNULTidy ==
    ASSUME NEW s \in Endpoint
    PROVE  Tidy(s, sendNUL(s))
<1>1. CASE windowOpen(s)
  <2> DEFINE l == Wrap(s.lastSeqSent + 1)
             r == [s EXCEPT !.lastSeqSent = l]
             g == MkSeg({"ACK", "NUL"}, s.lastSeqSent + 1, NoPld)
             gs == <<g>>
  <2>1. r \in Endpoint /\ s.lastSeqSent + 1 \in Int
    BY NextSeqType
  <2>2. gs \in Seq(Seg) /\ Len(gs) = 1 /\ gs[1] = g
    <3>1. gs \in Seq(Seg)
      BY <2>1, OneSegType DEF Flag
    <3> HIDE DEF g
    <3> QED BY <3>1
  <2>3. \A i \in 1..Len(gs) : gs[i].seq = Wrap(s.lastSeqSent + i)
    <3>1. g.seq = Wrap(s.lastSeqSent + 1)
      BY DEF MkSeg
    <3> HIDE DEF g, gs
    <3> QED BY <2>2, <3>1
  <2>4. /\ r.state = s.state /\ r.rexMX = s.rexMX /\ r.peerOssMX = s.peerOssMX
        /\ r.lastSeqRecv = s.lastSeqRecv /\ r.oldestR = s.oldestR
        /\ r.unAckedSegs = s.unAckedSegs /\ r.oldestU = s.oldestU /\ r.lastSeqSent = l
    <3> HIDE DEF l
    <3> QED BY DEF Endpoint
  <2>5. sendNUL(s) = sendBufAndKeepForRetransmission(r, gs)
    BY <1>1 DEF sendNUL
  <2>6. r.lastSeqSent = Wrap(s.lastSeqSent + Len(gs))
    BY <2>2, <2>4
  <2> HIDE DEF r, gs
  <2> QED BY <2>1, <2>2, <2>3, <2>4, <2>5, <2>6, SendTidy
<1>2. CASE ~windowOpen(s)
  <2>1. Core(sendNUL(s)) = Core(s)
    BY <1>2, ArmType, TimerCore, SendACKCore DEF sendNUL, Timer
  <2> QED BY <2>1, CoreTidy
<1> QED BY <1>1, <1>2

\* A SYN is the first of a new sequence.
LEMMA SendSYNTidy ==
    ASSUME NEW s \in Endpoint, NEW a \in BOOLEAN, NEW isn \in SeqNo, Len(s.unAckedSegs) = 0
    PROVE  LET r == sendSYN(s, a, isn)
           IN  /\ InSequence(r) /\ r.rexMX = s.rexMX
               /\ AckInStep(s) => AckInStep(r)
<1> DEFINE fl == IF a THEN {"SYN", "ACK"} ELSE {"SYN"}
           par == [ossMX |-> MaxUnacked, rexMX |-> s.rexMX, cakMX |-> s.cakMX]
           g == MkSeg(fl, isn, NoPld)
           h == [g EXCEPT !.par = par]
           r == [s EXCEPT !.lastSeqSent = isn, !.oldestU = isn]
           k == sendBufAndKeepForRetransmission(r, <<h>>)
<1>0. isn \in Int /\ Wrap(isn) = isn
  BY WrapSeqNo
<1>1. fl \in SUBSET Flag
  BY DEF Flag
<1>2. par \in Par
  <2>1. s.rexMX \in Nat /\ s.cakMX \in Nat
    BY DEF Endpoint
  <2>2. MaxUnacked \in 1..(SeqMod - 1)
    BY EndpointAssumption DEF Pow2
  <2> QED BY <2>1, <2>2 DEF Par
<1>3. g \in Seg /\ g.seq = isn
  <2>1. g.seq = isn
    BY <1>0 DEF MkSeg
  <2> HIDE DEF fl
  <2> QED BY <1>0, <1>1, <2>1, MkSegType
<1>4. h \in Seg /\ h.seq = isn
  <2> HIDE DEF g, par
  <2> QED BY <1>2, <1>3 DEF Seg
<1> HIDE DEF h
<1>5. <<h>> \in Seq(Seg) /\ Len(<<h>>) = 1 /\ <<h>>[1] = h
  BY <1>4
<1>6. /\ r \in Endpoint /\ r.lastSeqSent = isn /\ r.oldestU = isn
      /\ r.unAckedSegs = s.unAckedSegs /\ r.rexMX = s.rexMX
      /\ r.lastSeqRecv = s.lastSeqRecv /\ r.oldestR = s.oldestR
  <2>1. r \in Endpoint
    BY ZenonT(60) DEF Endpoint
  <2>2. r.lastSeqSent = isn /\ r.oldestU = isn
    BY DEF Endpoint
  <2>3. /\ r.unAckedSegs = s.unAckedSegs /\ r.rexMX = s.rexMX
        /\ r.lastSeqRecv = s.lastSeqRecv /\ r.oldestR = s.oldestR
    BY DEF Endpoint
  <2> QED BY <2>1, <2>2, <2>3
<1> HIDE DEF r
<1>7. InSequence(k)
  <2>1. isn + 0 = isn /\ isn + 0 + 1 - 1 = isn
    BY <1>0
  <2>2. Numbered(r.unAckedSegs, r.oldestU)
    BY <1>6 DEF Numbered
  <2>3. Numbered(<<h>>, r.oldestU + Len(r.unAckedSegs))
    <3> DEFINE q == <<h>>
    <3> HIDE DEF q
    <3>1. Len(q) = 1 /\ q[1] = h
      BY <1>5 DEF q
    <3>2. \A i \in 1..Len(q) : i = 1
      BY <3>1
    <3>3. Numbered(q, isn + 0)
      BY <1>0, <1>4, <2>1, <3>1, <3>2 DEF Numbered
    <3> QED BY <1>6, <3>3 DEF q
  <2>4. r.lastSeqSent = Wrap(r.oldestU + Len(r.unAckedSegs) + Len(<<h>>) - 1)
    BY <1>0, <1>5, <1>6, <2>1
  <2> QED BY <1>5, <1>6, <2>2, <2>3, <2>4, KeepTidy
<1>8. k.rexMX = s.rexMX /\ (AckInStep(s) => AckInStep(k))
  <2>1. k.rexMX = r.rexMX /\ k.lastSeqRecv = r.lastSeqRecv /\ k.oldestR = r.oldestR
    BY <1>5, <1>6, KeepFields
  <2> HIDE DEF k
  <2> QED BY <1>6, <2>1 DEF AckInStep
<1>9. sendSYN(s, a, isn) = k
  BY DEF sendSYN, h, r
<1> QED BY <1>7, <1>8, <1>9

-----------------------------------------------------------------------------
(* Receiving.                                                              *)

\* An acknowledgement releases the segments it covers, and the retransmissions
\* are counted anew when it does.
LEMMA AckNumberTidy ==
    ASSUME NEW s \in Endpoint, NEW g \in Seg
    PROVE  LET a == processAckNumber(s, g)
           IN  Tidy(s, a) /\ (Len(a.unAckedSegs) = Len(s.unAckedSegs) \/ a.numRex = 0)
<1> DEFINE cum  == Wrap(g.ack - s.oldestU + 1)
           n    == IF cum <= Len(s.unAckedSegs) THEN cum ELSE 0
           left == SubSeq(s.unAckedSegs, n + 1, Len(s.unAckedSegs))
           o    == Wrap(s.oldestU + n)
           x    == IF n > 0 \/ left = <<>> THEN 0 ELSE s.numRex
           r    == [s EXCEPT !.unAckedSegs = left, !.oldestU = o, !.numRex = x]
<1>1. /\ s.unAckedSegs \in Seq(Seg) /\ Len(s.unAckedSegs) \in Nat
      /\ s.oldestU \in SeqNo /\ s.oldestU \in Int /\ s.numRex \in Nat
  BY UnackedLen DEF Endpoint
<1>2. g.ack \in Int
  BY SeqNoInt DEF Seg
<1>3. cum \in SeqNo
  BY <1>1, <1>2, WrapType
<1>4. n \in 0..Len(s.unAckedSegs) /\ n \in Int
  BY <1>1, <1>3, EndpointAssumption DEF SeqNo
<1> HIDE DEF n
<1>5. left \in Seq(Seg) /\ Len(left) = Len(s.unAckedSegs) - n
  BY <1>1, <1>4, SubSeqProperties
<1>6. o \in SeqNo /\ o \in Int /\ x \in Nat
  <2>1. s.oldestU + n \in Int
    BY <1>1, <1>4
  <2> QED BY <2>1, <1>1, WrapType, SeqNoInt
<1>7. /\ r \in Endpoint /\ r.unAckedSegs = left /\ r.oldestU = o /\ r.numRex = x
      /\ r.state = s.state /\ r.rexMX = s.rexMX /\ r.peerOssMX = s.peerOssMX
      /\ r.lastSeqSent = s.lastSeqSent
      /\ r.lastSeqRecv = s.lastSeqRecv /\ r.oldestR = s.oldestR
  <2> HIDE DEF left, o, x
  <2> QED BY <1>5, <1>6 DEF Endpoint
<1>8. ASSUME InSequence(s) PROVE InSequence(r)
  <2>1. Numbered(left, o)
    <3>1. Numbered(s.unAckedSegs, s.oldestU)
      BY <1>8 DEF InSequence
    <3> QED BY <1>1, <1>4, <3>1, NumberedSuffix
  <2> DEFINE e == Len(left) - 1
             f == s.oldestU + n
  <2>2. Wrap(Wrap(f) + e) = Wrap(f + e)
    <3>1. e \in Int /\ f \in Int
      BY <1>1, <1>4, <1>5
    <3> HIDE DEF e, f
    <3> QED BY <3>1, WrapPlus
  <2>3. f + e = s.oldestU + Len(s.unAckedSegs) - 1 /\ o + e = o + Len(left) - 1
    <3>1. n \in Int /\ Len(left) \in Int
      BY <1>1, <1>4, <1>5
    <3> HIDE DEF left, o, n
    <3> QED BY <1>1, <1>5, <1>6, <3>1, SMTT(60)
  <2>4. s.lastSeqSent = Wrap(o + Len(left) - 1)
    BY <1>8, <2>2, <2>3 DEF InSequence
  <2> HIDE DEF r, left, o
  <2> QED BY <1>7, <2>1, <2>4 DEF InSequence
<1>9. Tidy(s, r) /\ (Len(r.unAckedSegs) = Len(s.unAckedSegs) \/ r.numRex = 0)
  <2>1. n = 0 \/ x = 0
    BY <1>4
  <2> HIDE DEF r, left, x
  <2>2. Len(r.unAckedSegs) = Len(s.unAckedSegs) \/ r.numRex = 0
    BY <1>1, <1>5, <1>7, <2>1
  <2> QED BY <1>7, <1>8, <2>2 DEF Tidy, AckInStep
<1> HIDE DEF r
<1>10. Core(cancel(r, "REX")) = Core(r)
  BY <1>7, TimerCore DEF Timer
<1>11. processAckNumber(s, g) \in {s, cancel(r, "REX"), r}
  BY DEF processAckNumber, r, n
<1>12. Tidy(s, cancel(r, "REX"))
  BY <1>9, <1>10, CoreTidy, TidyTrans
<1>13. Tidy(s, s)
  BY DEF Tidy
<1> QED BY <1>9, <1>10, <1>11, <1>12, <1>13, CoreFields

\* The number acknowledged is that of the last segment delivered.
LEMMA DrainTidy ==
    ASSUME NEW s \in Endpoint
    PROVE  LET r == drainReassembleBuffer(s)
           IN  /\ Tidy(s, r) /\ AckInStep(r)
               /\ r.unAckedSegs = s.unAckedSegs /\ r.numRex = s.numRex
<1>1. \A a, b, c, d, e :
        LET r == [s EXCEPT !.outQ = a, !.unOrderedSegs = b, !.oldestR = c,
                           !.lastSeqRecv = d, !.usrO = e]
        IN  /\ r.peerOssMX = s.peerOssMX /\ r.rexMX = s.rexMX /\ r.state = s.state
            /\ r.unAckedSegs = s.unAckedSegs /\ r.oldestU = s.oldestU
            /\ r.lastSeqSent = s.lastSeqSent /\ r.numRex = s.numRex
            /\ r.oldestR = c /\ r.lastSeqRecv = d
  BY DEF Endpoint
<1> DEFINE r == drainReassembleBuffer(s)
           o == Wrap(s.oldestR + Cardinality(drainable(s)))
<1>2. /\ r.peerOssMX = s.peerOssMX /\ r.rexMX = s.rexMX /\ r.state = s.state
      /\ r.unAckedSegs = s.unAckedSegs /\ r.oldestU = s.oldestU
      /\ r.lastSeqSent = s.lastSeqSent /\ r.numRex = s.numRex
      /\ r.oldestR = o /\ r.lastSeqRecv = Wrap(o - 1)
  BY <1>1 DEF drainReassembleBuffer
<1> HIDE DEF r
<1>3. AckInStep(r)
  BY <1>2 DEF AckInStep
<1>4. InSequence(s) => InSequence(r)
  BY <1>2 DEF InSequence
<1> QED BY <1>2, <1>3, <1>4 DEF Tidy, r

\* GaveUp(s, r): the connection was closed with everything still outstanding.
GaveUp(s, r) ==
    /\ r.state = "CLOSED" /\ r.rexMX = s.rexMX /\ r.peerOssMX = s.peerOssMX
    /\ Len(r.unAckedSegs) = Len(s.unAckedSegs)

\* A reset takes a number, nothing else.
LEMMA SendRSTFields ==
    ASSUME NEW s \in Endpoint
    PROVE  LET r == sendRST(s)
           IN  /\ r.state = s.state /\ r.rexMX = s.rexMX /\ r.peerOssMX = s.peerOssMX
               /\ r.unAckedSegs = s.unAckedSegs /\ r.oldestU = s.oldestU
               /\ r.lastSeqRecv = s.lastSeqRecv /\ r.oldestR = s.oldestR
<1> DEFINE n == [s EXCEPT !.lastSeqSent = Wrap(@ + 1)]
<1>1. /\ n \in Endpoint
      /\ n.state = s.state /\ n.rexMX = s.rexMX /\ n.peerOssMX = s.peerOssMX
      /\ n.unAckedSegs = s.unAckedSegs /\ n.oldestU = s.oldestU
      /\ n.lastSeqRecv = s.lastSeqRecv /\ n.oldestR = s.oldestR
  <2>1. n \in Endpoint
    BY NextSeqType
  <2>2. \A l : LET m == [s EXCEPT !.lastSeqSent = l]
              IN  /\ m.state = s.state /\ m.rexMX = s.rexMX /\ m.peerOssMX = s.peerOssMX
                  /\ m.unAckedSegs = s.unAckedSegs /\ m.oldestU = s.oldestU
                  /\ m.lastSeqRecv = s.lastSeqRecv /\ m.oldestR = s.oldestR
    BY DEF Endpoint
  <2> QED BY <2>1, <2>2
<1>2. Core(sendRST(s)) = Core(n)
  BY <1>1, SendBufCore DEF sendRST
<1> HIDE DEF n
<1> QED BY <1>1, <1>2, CoreFields

\* Retransmission sends what is kept as it is, or gives up when the limit is
\* reached.
LEMMA RexTimeoutTidy ==
    ASSUME NEW s \in Endpoint
    PROVE  LET r == processRetransmissionTimeout(s)
           IN  /\ Tidy(s, r) \/ (GaveUp(s, r) /\ s.numRex + 1 > s.rexMX)
               /\ Len(r.unAckedSegs) = Len(s.unAckedSegs)
<1> DEFINE x == s.numRex + 1
           r == [s EXCEPT !.numRex = x]
           again == sendBuf(r, r.unAckedSegs)
           m == [i \in DOMAIN again.unAckedSegs |-> mark(r, again.unAckedSegs[i])]
           k == [again EXCEPT !.unAckedSegs = m]
<1>1. x \in Nat
  BY DEF Endpoint
<1>2. /\ r \in Endpoint /\ r.numRex = s.numRex + 1
      /\ r.state = s.state /\ r.rexMX = s.rexMX /\ r.peerOssMX = s.peerOssMX
      /\ r.unAckedSegs = s.unAckedSegs /\ r.oldestU = s.oldestU
      /\ r.lastSeqSent = s.lastSeqSent /\ r.lastSeqRecv = s.lastSeqRecv /\ r.oldestR = s.oldestR
  <2>1. [s EXCEPT !.numRex = x].numRex = x
    <3> HIDE DEF x
    <3> QED BY DEF Endpoint
  <2>2. [s EXCEPT !.numRex = x] \in Endpoint
    <3> HIDE DEF x
    <3> QED BY <1>1 DEF Endpoint
  <2> QED BY <2>1, <2>2 DEF Endpoint
<1> HIDE DEF r
<1>3. Tidy(s, r)
  BY <1>2 DEF Tidy, InSequence, AckInStep
<1>4. again \in Endpoint /\ Core(again) = Core(r)
  BY <1>2, UnackedLen, SendBufType, SendBufCore
<1> HIDE DEF again
<1>5. /\ m \in Seq(Seg) /\ Len(m) = Len(again.unAckedSegs)
      /\ \A n : Numbered(again.unAckedSegs, n) => Numbered(m, n)
  <2>1. again.unAckedSegs \in Seq(Seg)
    BY <1>4, UnackedLen
  <2>2. m \in Seq(Seg)
    BY <1>2, <2>1, MapStampType
  <2>3. DOMAIN m = 1..Len(again.unAckedSegs) /\ Len(again.unAckedSegs) \in Nat
    BY <2>1, LenProperties
  <2>4. Len(m) = Len(again.unAckedSegs)
    <3> HIDE DEF m
    <3> QED BY <2>2, <2>3, LenProperties
  <2>5. ASSUME NEW n, Numbered(again.unAckedSegs, n) PROVE Numbered(m, n)
    BY <1>2, <2>1, <2>5, NumberedMark
  <2> QED BY <2>2, <2>4, <2>5
<1> HIDE DEF m
<1>6. /\ k \in Endpoint /\ k.unAckedSegs = m
      /\ k.state = again.state /\ k.rexMX = again.rexMX /\ k.peerOssMX = again.peerOssMX
      /\ k.oldestU = again.oldestU /\ k.lastSeqSent = again.lastSeqSent
      /\ k.lastSeqRecv = again.lastSeqRecv /\ k.oldestR = again.oldestR
  BY <1>4, <1>5, ZenonT(60) DEF Endpoint
<1> HIDE DEF k
<1>7. Tidy(again, k)
  <2>1. InSequence(again) => InSequence(k)
    BY <1>5, <1>6 DEF InSequence
  <2> QED BY <1>6, <2>1 DEF Tidy, AckInStep
<1>8. /\ Tidy(s, armRexAndNulTimer(k))
      /\ Len(armRexAndNulTimer(k).unAckedSegs) = Len(s.unAckedSegs)
  <2>1. Tidy(r, again) /\ Tidy(k, armRexAndNulTimer(k))
    BY <1>4, <1>6, ArmRexAndNulCore, CoreTidy
  <2>2. armRexAndNulTimer(k).unAckedSegs = k.unAckedSegs /\ again.unAckedSegs = r.unAckedSegs
    BY <1>4, <1>6, ArmRexAndNulCore, CoreFields
  <2> QED BY <1>2, <1>3, <1>5, <1>6, <1>7, <2>1, <2>2, TidyTrans
<1>9. GaveUp(s, changeState(sendRST(r), "CLOSED"))
  BY <1>2, SendRSTType, SendRSTFields, ChangeStateFields DEF GaveUp
<1>10. CASE r.numRex > r.rexMX
  <2>1. r.numRex \in Nat /\ r.rexMX \in Nat
    BY <1>2 DEF Endpoint
  <2>2. ~(r.numRex <= r.rexMX)
    BY <1>10, <2>1
  <2>3. processRetransmissionTimeout(s) = changeState(sendRST(r), "CLOSED")
    BY <1>10, <2>2 DEF processRetransmissionTimeout, r
  <2> QED BY <1>2, <1>9, <1>10, <2>3 DEF GaveUp
<1>11. CASE ~(r.numRex > r.rexMX)
  <2>1. processRetransmissionTimeout(s) \in {r, armRexAndNulTimer(k)}
    BY <1>11 DEF processRetransmissionTimeout, r, again, m, k
  <2> QED BY <1>2, <1>3, <1>8, <2>1
<1> QED BY <1>10, <1>11

\* Sending data or an acknowledgement.
LEMMA SendDATorACKTidy ==
    ASSUME NEW s \in Endpoint, NEW q
    PROVE  Tidy(s, sendDATorACK(q, s))
<1>1. CASE hasBufToSend(q, s)
  <2>1. s.inpQ \in Seq(Payload) /\ s.inpQ # <<>>
    BY <1>1 DEF hasBufToSend, Endpoint
  <2>2. 1 \in 1..Len(s.inpQ)
    BY <2>1, EmptySeq, LenProperties
  <2> QED BY <1>1, <2>2, SendDATTidy DEF sendDATorACK
<1>2. CASE ~hasBufToSend(q, s)
  BY <1>2, SendACKCore, CoreTidy DEF sendDATorACK
<1> QED BY <1>1, <1>2

\* The tail of handleRxEvent().
LEMMA CountAndAckTidy ==
    ASSUME NEW s \in Endpoint, NEW q
    PROVE  Tidy(s, countAndAck(q, s))
<1> DEFINE n == [s EXCEPT !.numCak = @ + 1]
<1>1. n \in Endpoint /\ Core(n) = Core(s)
  BY NumCakType, MinorCore
<1> HIDE DEF n
<1>2. PICK r \in {sendDATorACK(q, n), arm(n, "ACK"), n} :
         countAndAck(q, s) = IF IsServer THEN arm(r, "NUL") ELSE r
  BY DEF countAndAck, n
<1>3. r \in Endpoint /\ Tidy(n, r)
  <2>1. sendDATorACK(q, n) \in Endpoint /\ Tidy(n, sendDATorACK(q, n))
    BY <1>1, SendDATorACKType, SendDATorACKTidy
  <2>2. arm(n, "ACK") \in Endpoint /\ Tidy(n, arm(n, "ACK"))
    BY <1>1, ArmType, TimerCore, CoreTidy DEF Timer
  <2>3. Tidy(n, n)
    BY DEF Tidy
  <2> QED BY <1>1, <2>1, <2>2, <2>3
<1>4. Tidy(s, n) /\ Tidy(r, arm(r, "NUL"))
  BY <1>1, <1>3, TimerCore, CoreTidy DEF Timer
<1>5. Tidy(s, r)
  BY <1>3, <1>4, TidyTrans
<1>6. Tidy(s, arm(r, "NUL"))
  BY <1>4, <1>5, TidyTrans
<1> QED BY <1>2, <1>5, <1>6

\* An accepted segment leaves the numbers in order, or retransmission gives up.
\* That needs a limit of at least 1: then giving up means that this segment has
\* released nothing.
LEMMA AcceptSegmentTidy ==
    ASSUME NEW s \in Endpoint, NEW g \in Seg, NEW q, s.rexMX >= 1
    PROVE  LET r == acceptSegment(q, s, g)
           IN  Tidy(s, r) \/ (GaveUp(s, r) /\ Len(r.unAckedSegs) > 0)
<1> DEFINE a    == processAckNumber(s, g)
           in   == (hasPayload(g) \/ "NUL" \in g.flags) /\ canAccept(a, g.seq)
           d    == IF ~in THEN a
                   ELSE IF q \in Opened THEN drainReassembleBuffer(store(a, g)) ELSE store(a, g)
           busy == "BSY" \in g.flags
           c    == IF busy /\ ~d.peerBSY THEN cancel(d, "REX") ELSE d
           b    == [c EXCEPT !.peerBSY = busy]
<1>1. /\ a \in Endpoint /\ Tidy(s, a)
      /\ Len(a.unAckedSegs) = Len(s.unAckedSegs) \/ a.numRex = 0
  BY AckNumberType, AckNumberTidy
<1>2. d \in Endpoint /\ Tidy(s, d) /\ d.unAckedSegs = a.unAckedSegs /\ d.numRex = a.numRex
  <2> HIDE DEF a
  <2>1. in => store(a, g) \in Endpoint /\ Core(store(a, g)) = Core(a)
    BY <1>1, StoreType, StoreCore
  <2>2. in => /\ Tidy(s, store(a, g)) /\ store(a, g).unAckedSegs = a.unAckedSegs
              /\ store(a, g).numRex = a.numRex
    BY <1>1, <2>1, CoreFields, CoreTidy, TidyTrans
  <2>3. in => LET e == drainReassembleBuffer(store(a, g))
              IN  /\ e \in Endpoint /\ Tidy(s, e) /\ e.unAckedSegs = a.unAckedSegs
                  /\ e.numRex = a.numRex
    BY <2>1, <2>2, DrainType, DrainTidy, TidyTrans
  <2> QED BY <1>1, <2>1, <2>2, <2>3
<1> HIDE DEF a, d
<1>3. c \in Endpoint /\ Core(c) = Core(d)
  BY <1>2, CancelType, TimerCore DEF Timer
<1> HIDE DEF c
<1>4. b \in Endpoint /\ Core(b) = Core(c)
  <2>1. busy \in BOOLEAN
    OBVIOUS
  <2> HIDE DEF busy
  <2>2. b \in Endpoint
    BY <1>3, <2>1, ZenonT(60) DEF Endpoint
  <2>3. Core(b) = Core(c)
    BY <1>3, MinorCore
  <2> QED BY <2>2, <2>3
<1> HIDE DEF b
<1>5. Tidy(s, b) /\ b.unAckedSegs = a.unAckedSegs /\ b.numRex = a.numRex
  <2>1. Core(b) = Core(d)
    BY <1>3, <1>4
  <2> QED BY <1>2, <2>1, CoreFields, CoreTidy, TidyTrans
<1>6. Tidy(s, countAndAck(q, b))
  BY <1>4, <1>5, CountAndAckTidy, TidyTrans
<1>7. ASSUME b.unAckedSegs # <<>>
      PROVE  LET r == processRetransmissionTimeout(b)
             IN  Tidy(s, r) \/ (GaveUp(s, r) /\ Len(r.unAckedSegs) > 0)
  <2> DEFINE r == processRetransmissionTimeout(b)
  <2>1. Tidy(b, r) \/ (GaveUp(b, r) /\ b.numRex + 1 > b.rexMX)
    BY <1>4, RexTimeoutTidy
  <2> HIDE DEF r
  <2>2. CASE Tidy(b, r)
    BY <1>5, <2>2, TidyTrans DEF r
  <2>3. CASE GaveUp(b, r) /\ b.numRex + 1 > b.rexMX
    <3>1. b.rexMX = s.rexMX /\ b.peerOssMX = s.peerOssMX
      BY <1>5 DEF Tidy
    <3>2. b.numRex # 0
      <4>1. b.numRex \in Nat /\ b.rexMX \in Nat
        BY <1>4 DEF Endpoint
      <4> QED BY <2>3, <3>1, <4>1
    <3>3. Len(b.unAckedSegs) = Len(s.unAckedSegs)
      BY <1>1, <1>5, <3>2
    <3>4. Len(b.unAckedSegs) > 0
      <4>1. b.unAckedSegs \in Seq(Seg)
        BY <1>4, UnackedLen
      <4> QED BY <1>7, <4>1, EmptySeq, LenProperties
    <3>5. GaveUp(s, r) /\ Len(r.unAckedSegs) > 0
      BY <2>3, <3>1, <3>3, <3>4 DEF GaveUp
    <3> QED BY <3>5 DEF r
  <2> QED BY <2>1, <2>2, <2>3
<1>8. \/ acceptSegment(q, s, g) = countAndAck(q, b)
      \/ acceptSegment(q, s, g) = processRetransmissionTimeout(b) /\ b.unAckedSegs # <<>>
  BY DEF acceptSegment, b, c, d, a
<1> QED BY <1>6, <1>7, <1>8

-----------------------------------------------------------------------------
(* The inductive invariant.                                                *)

InConn == {"CLNT_WAIT_SYN_ACK", "SERV_WAIT_SYN_ACK", "PREP_OPEN"} \cup Opened

\* Beside the numbers of a connection: OPEN_OUTWIN_FULL is entered and left with
\* the window, and retransmission has a limit of at least 1.  Giving up takes a
\* number for the reset; then neither handler that overrides the state may take
\* the connection for open again.
Order(s) ==
    /\ s.state \in InConn => InSequence(s)
    /\ s.state \in InConn \ {"CLNT_WAIT_SYN_ACK"} => AckInStep(s)
    /\ s.state = "OPEN_OUTWIN_FULL" => ~windowOpen(s)
    /\ s.rexMX >= 1

\* It depends on the core only.
LEMMA CoreOrder ==
    ASSUME NEW s, NEW r, Core(r) = Core(s), Order(s)
    PROVE  Order(r)
BY CoreFields, CoreInvariants DEF Order, windowOpen

\* Tidy steps preserve it, if the window stays full.
LEMMA TidyOrder ==
    ASSUME NEW s, NEW r, Tidy(s, r), Order(s),
           s.state = "OPEN_OUTWIN_FULL" => ~windowOpen(r)
    PROVE  Order(r)
BY DEF Tidy, Order

\* Without a connection there is nothing to keep in order.
LEMMA ClosedOrder ==
    ASSUME NEW s, s.state \in {"CLOSED", "CLOSED_SLEEP", "LISTEN"}, s.rexMX >= 1
    PROVE  Order(s)
BY DEF Order, InConn, Opened

\* A change of state of an endpoint whose numbers are in order.
LEMMA ChangeStateOrder ==
    ASSUME NEW s \in Endpoint, NEW q, InSequence(s), AckInStep(s), s.rexMX >= 1,
           q = "OPEN_OUTWIN_FULL" => ~windowOpen(s)
    PROVE  Order(changeState(s, q))
<1> DEFINE r == changeState(s, q)
<1>1. /\ r.state = q /\ r.lastSeqSent = s.lastSeqSent /\ r.lastSeqRecv = s.lastSeqRecv
      /\ r.unAckedSegs = s.unAckedSegs /\ r.oldestU = s.oldestU /\ r.oldestR = s.oldestR
      /\ r.peerOssMX = s.peerOssMX /\ r.rexMX = s.rexMX
  BY ChangeStateFields
<1> HIDE DEF r
<1>2. InSequence(r) /\ AckInStep(r)
  BY <1>1 DEF InSequence, AckInStep
<1>3. Order(r)
  BY <1>1, <1>2 DEF Order, windowOpen
<1> QED BY <1>3 DEF r

\* The segment after the SYN is expected, the SYN is acknowledged.
LEMMA SeedRecvFields ==
    ASSUME NEW s \in Endpoint, NEW n \in SeqNo
    PROVE  LET r == seedRecv(s, n)
           IN  /\ AckInStep(r)
               /\ r.state = s.state /\ r.rexMX = s.rexMX /\ r.lastSeqSent = s.lastSeqSent
               /\ r.unAckedSegs = s.unAckedSegs /\ r.oldestU = s.oldestU
<1> DEFINE o == Wrap(n + 1)
           r == [s EXCEPT !.lastSeqRecv = n, !.oldestR = o]
<1>1. n \in Int /\ Wrap(n) = n
  BY WrapSeqNo
<1>2. n = Wrap(o - 1)
  <2>1. n + 1 \in Int /\ n + 1 + (-1) = n /\ -1 \in Int
    BY <1>1
  <2>2. Wrap(Wrap(n + 1) + (-1)) = Wrap(n + 1 + (-1))
    BY <2>1, WrapPlus
  <2>3. o \in Int
    BY <2>1, WrapType, SeqNoInt
  <2>4. o - 1 = o + (-1)
    <3> HIDE DEF o
    <3> QED BY <2>3
  <2> QED BY <1>1, <2>1, <2>2, <2>4
<1>3. /\ r.lastSeqRecv = n /\ r.oldestR = o
      /\ r.state = s.state /\ r.rexMX = s.rexMX /\ r.lastSeqSent = s.lastSeqSent
      /\ r.unAckedSegs = s.unAckedSegs /\ r.oldestU = s.oldestU
  <2> HIDE DEF o
  <2> QED BY DEF Endpoint
<1>4. AckInStep(r)
  <2> HIDE DEF r, o
  <2> QED BY <1>2, <1>3 DEF AckInStep
<1>5. seedRecv(s, n) = r
  BY DEF seedRecv
<1> QED BY <1>3, <1>4, <1>5

\* The parameters of a SYN are not the numbers' business.
LEMMA ParamsFields ==
    ASSUME NEW s \in Endpoint, NEW par \in Par, s.rexMX >= 1, par.rexMX >= 1
    PROVE  LET r == extractConnectionParams(s, par)
           IN  /\ r.rexMX >= 1
               /\ r.state = s.state /\ r.lastSeqSent = s.lastSeqSent
               /\ r.unAckedSegs = s.unAckedSegs /\ r.oldestU = s.oldestU
<1> DEFINE o == par.ossMX
           c == IF par.ossMX > s.capa THEN RingCapa(par.ossMX) ELSE s.capa
           x == IF IsServer THEN s.rexMX ELSE par.rexMX
           y == IF IsServer THEN s.cakMX ELSE par.cakMX
           r == [s EXCEPT !.peerOssMX = o, !.capa = c, !.rexMX = x, !.cakMX = y]
<1>1. x >= 1
  OBVIOUS
<1>2. /\ r.rexMX = x /\ r.state = s.state /\ r.lastSeqSent = s.lastSeqSent
      /\ r.unAckedSegs = s.unAckedSegs /\ r.oldestU = s.oldestU
  <2> HIDE DEF o, c, x, y
  <2> QED BY DEF Endpoint
<1>3. extractConnectionParams(s, par) = r
  BY DEF extractConnectionParams
<1> HIDE DEF r, x
<1> QED BY <1>1, <1>2, <1>3

\* Stays(s, e): the numbers, the window and what is kept are the same; the
\* connection may have been closed.
Stays(s, e) ==
    /\ InSequence(s) => InSequence(e)
    /\ AckInStep(s) => AckInStep(e)
    /\ Len(e.unAckedSegs) = Len(s.unAckedSegs) /\ e.peerOssMX = s.peerOssMX
    /\ e.state \in {s.state, "CLOSED"}

\* A step outside the core stays, and so does closing.
LEMMA CoreStays ==
    ASSUME NEW s, NEW e, Core(e) = Core(s)
    PROVE  Stays(s, e)
BY CoreFields, CoreInvariants DEF Stays

\* The same of closing without a reset.
LEMMA ClosedStays ==
    ASSUME NEW s \in Endpoint
    PROVE  Stays(s, changeState(s, "CLOSED"))
<1> DEFINE r == changeState(s, "CLOSED")
<1>1. /\ r.state = "CLOSED" /\ r.lastSeqSent = s.lastSeqSent /\ r.lastSeqRecv = s.lastSeqRecv
      /\ r.unAckedSegs = s.unAckedSegs /\ r.oldestU = s.oldestU /\ r.oldestR = s.oldestR
      /\ r.peerOssMX = s.peerOssMX
  BY ChangeStateFields
<1> HIDE DEF r
<1>2. Stays(s, r)
  BY <1>1 DEF Stays, InSequence, AckInStep
<1> QED BY <1>2 DEF r

\* The states that expect a SYN.
Wanted == {"LISTEN", "CLNT_WAIT_SYN_ACK"}

\* handleSYN().
LEMMA HandleSYNOrder ==
    ASSUME NEW s \in Endpoint, NEW g \in Seg, g.par \in Par, g.par.rexMX >= 1,
           NEW isn \in SeqNo, Shape(s), Order(s)
    PROVE  LET e == handleSYN(s, g, isn).ep
           IN  /\ Order(e)
               /\ s.state \in Wanted => e.state # "OPEN_OUTWIN_FULL"
               /\ s.state \notin Wanted => Stays(s, e)
<1> DEFINE r == extractConnectionParams(s, g.par)
           e == seedRecv(r, g.seq)
           f == forceACK(e)
           y == sendSYN(e, TRUE, isn)
           z == [y EXCEPT !.numCak = @ - 1]
<1>0. s.rexMX >= 1 /\ g.seq \in SeqNo
  BY DEF Order, Seg
<1>1. /\ r \in Endpoint /\ r.rexMX >= 1 /\ r.state = s.state
      /\ r.lastSeqSent = s.lastSeqSent /\ r.unAckedSegs = s.unAckedSegs /\ r.oldestU = s.oldestU
  BY <1>0, ParamsType, ParamsFields
<1> HIDE DEF r
<1>2. /\ e \in Endpoint /\ AckInStep(e) /\ e.rexMX >= 1 /\ e.state = s.state
      /\ e.lastSeqSent = s.lastSeqSent /\ e.unAckedSegs = s.unAckedSegs /\ e.oldestU = s.oldestU
  BY <1>0, <1>1, SeedRecvType, SeedRecvFields
<1> HIDE DEF e
<1>3. f \in Endpoint /\ Core(f) = Core(e)
  BY <1>2, NumCakType, ForceACKCore
<1>4. y \in Endpoint
  BY <1>2, SendSYNType
<1> HIDE DEF f, y
<1>5. z \in Endpoint /\ Core(z) = Core(y)
  BY <1>4, NumCakType, MinorCore
<1> HIDE DEF z
<1>6. CASE s.state = "LISTEN"
  <2>1. handleSYN(s, g, isn) = Accept(changeState(z, "SERV_WAIT_SYN_ACK"))
    BY <1>6 DEF handleSYN, z, y, e, r
  <2>2. Len(e.unAckedSegs) = 0
    BY <1>2, <1>6 DEF Shape
  <2>3. InSequence(y) /\ AckInStep(y) /\ y.rexMX >= 1
    BY <1>2, <2>2, SendSYNTidy DEF y
  <2>4. InSequence(z) /\ AckInStep(z) /\ z.rexMX >= 1
    BY <1>5, <2>3, CoreFields, CoreInvariants
  <2>5. Order(changeState(z, "SERV_WAIT_SYN_ACK"))
    BY <1>5, <2>4, ChangeStateOrder
  <2>6. changeState(z, "SERV_WAIT_SYN_ACK").state = "SERV_WAIT_SYN_ACK"
    BY <1>5, ChangeStateFields
  <2> QED BY <1>6, <2>1, <2>5, <2>6, Verdict DEF Wanted
<1>7. CASE s.state = "CLNT_WAIT_SYN_ACK"
  <2>1. handleSYN(s, g, isn) \in {Reject(changeState(sendRST(r), "CLOSED")),
                                  Accept(changeState(f, "PREP_OPEN")), Accept(f)}
    BY <1>7 DEF handleSYN, f, e, r
  <2>2. InSequence(s)
    BY <1>7 DEF Order, InConn
  <2>3. InSequence(e)
    BY <1>2, <2>2 DEF InSequence
  <2>4. InSequence(f) /\ AckInStep(f) /\ f.rexMX >= 1 /\ f.state = "CLNT_WAIT_SYN_ACK"
    BY <1>2, <1>3, <1>7, <2>3, CoreFields, CoreInvariants
  <2>5. Order(f) /\ f.state # "OPEN_OUTWIN_FULL"
    BY <2>4 DEF Order
  <2> DEFINE p == changeState(f, "PREP_OPEN")
             c == changeState(sendRST(r), "CLOSED")
  <2>6. Order(p) /\ p.state # "OPEN_OUTWIN_FULL"
    BY <1>3, <2>4, ChangeStateOrder, ChangeStateFields
  <2>7. c.state = "CLOSED" /\ c.rexMX >= 1
    BY <1>1, SendRSTType, SendRSTFields, ChangeStateFields
  <2> HIDE DEF p, c
  <2>8. Order(c) /\ c.state # "OPEN_OUTWIN_FULL"
    BY <2>7, ClosedOrder
  <2> QED BY <1>7, <2>1, <2>5, <2>6, <2>8, Verdict, ZenonT(60) DEF Wanted, p, c
<1>8. CASE s.state \notin Wanted
  <2>1. handleSYN(s, g, isn) = Accept(forceACK(s))
    BY <1>8 DEF handleSYN, Wanted
  <2>2. Order(forceACK(s)) /\ Stays(s, forceACK(s))
    BY ForceACKCore, CoreOrder, CoreStays
  <2> QED BY <1>8, <2>1, <2>2, Verdict
<1> QED BY <1>6, <1>7, <1>8 DEF Wanted

\* handleOTH().
LEMMA HandleOTHOrder ==
    ASSUME NEW s \in Endpoint, NEW g \in Seg, Order(s)
    PROVE  LET e == handleOTH(s, g).ep
           IN  /\ Order(e)
               /\ s.state \in Wanted => e.state # "OPEN_OUTWIN_FULL"
               /\ s.state \notin Wanted => Stays(s, e)
<1> DEFINE n == [s EXCEPT !.numCak = @ - 1]
           c == changeState(s, "CLOSED")
           d == changeState(sendRST(s), "CLOSED")
<1>1. s.rexMX >= 1
  BY DEF Order
<1>2. Core(n) = Core(s) /\ Core(forceACK(s)) = Core(s)
  BY MinorCore, ForceACKCore
<1>3. /\ c.state = "CLOSED" /\ c.rexMX >= 1 /\ Stays(s, c)
      /\ d.state = "CLOSED" /\ d.rexMX >= 1
  BY <1>1, SendRSTType, SendRSTFields, ChangeStateFields, ClosedStays
<1>4. CASE s.state \in Wanted
  <2>1. handleOTH(s, g) \in {Accept(d), Reject(s)}
    BY <1>4 DEF handleOTH, Wanted
  <2> HIDE DEF d
  <2>2. Order(d)
    BY <1>3, ClosedOrder
  <2> QED BY <1>3, <1>4, <2>1, <2>2, Verdict, ZenonT(60) DEF Wanted
<1>5. CASE s.state \notin Wanted
  <2>1. handleOTH(s, g) \in {Accept(n), Accept(forceACK(s)), Reject(s), Accept(c), Accept(s)}
    <3> HIDE DEF n
    <3> QED BY <1>5 DEF handleOTH, Wanted, n
  <2> HIDE DEF n, c
  <2>2. Order(n) /\ Order(forceACK(s)) /\ Order(c)
    BY <1>2, <1>3, CoreOrder, ClosedOrder
  <2>3. Stays(s, n) /\ Stays(s, forceACK(s)) /\ Stays(s, s) /\ Stays(s, c)
    BY <1>2, <1>3, CoreStays
  <2> QED BY <1>5, <2>1, <2>2, <2>3, Verdict
<1> QED BY <1>4, <1>5

\* handleRxEvent() of every state.
LEMMA HandleRxEventOrder ==
    ASSUME NEW s \in Endpoint, NEW g \in Seg,
           "SYN" \in g.flags => g.par \in Par /\ g.par.rexMX >= 1,
           NEW isn \in SeqNo, Shape(s), Order(s)
    PROVE  Order(handleRxEvent(s, g, isn))
<1> DEFINE v == IF "SYN" \in g.flags THEN handleSYN(s, g, isn) ELSE handleOTH(s, g)
           e == v.ep
           r == notClosedRx(s, g, isn)
<1>1. /\ e \in Endpoint /\ Order(e)
      /\ s.state \in Wanted => e.state # "OPEN_OUTWIN_FULL"
      /\ s.state \notin Wanted => Stays(s, e)
  <2>1. CASE "SYN" \in g.flags
    BY <2>1, HandleSYNType, HandleSYNOrder
  <2>2. CASE "SYN" \notin g.flags
    BY <2>2, HandleOTHType, HandleOTHOrder
  <2> QED BY <2>1, <2>2
<1>2. r \in {acceptSegment(s.state, e, g), e}
  <2> HIDE DEF v
  <2> QED BY DEF notClosedRx, v
<1> HIDE DEF e
<1>3. r \in Endpoint /\ (Tidy(e, r) \/ (GaveUp(e, r) /\ Len(r.unAckedSegs) > 0))
  <2>1. Tidy(e, e)
    BY DEF Tidy
  <2>2. e.rexMX >= 1
    BY <1>1 DEF Order
  <2> QED BY <1>1, <1>2, <2>1, <2>2, AcceptSegmentType, AcceptSegmentTidy
<1> HIDE DEF r
<1>4. r.rexMX >= 1
  BY <1>1, <1>3 DEF Tidy, GaveUp, Order
<1>5. ASSUME GaveUp(e, r) PROVE Order(r)
  BY <1>4, <1>5, ClosedOrder DEF GaveUp
<1>6. CASE s.state \in Wanted
  <2>1. handleRxEvent(s, g, isn) = r
    BY <1>6 DEF handleRxEvent, Wanted, r
  <2>2. ASSUME Tidy(e, r) PROVE Order(r)
    BY <1>1, <1>6, <2>2, TidyOrder
  <2> QED BY <1>3, <1>5, <2>1, <2>2
<1>7. CASE s.state = "SERV_WAIT_SYN_ACK" /\ r.unAckedSegs = <<>>
  <2>1. handleRxEvent(s, g, isn) = arm(changeState(resetReopenDelay(r), "PREP_OPEN"), "NUL")
    BY <1>7 DEF handleRxEvent, r
  <2>2. Tidy(e, r)
    BY <1>3, <1>7, Len(<<>>) = 0
  <2>3. InSequence(r) /\ AckInStep(r)
    <3>1. InSequence(s) /\ AckInStep(s)
      BY <1>7 DEF Order, InConn
    <3> QED BY <1>1, <1>7, <2>2, <3>1 DEF Wanted, Stays, Tidy
  <2> DEFINE w == resetReopenDelay(r)
  <2>4. w \in Endpoint /\ Core(w) = Core(r)
    BY <1>3, ReopenDelayType, ReopenDelayCore
  <2> HIDE DEF w
  <2>5. InSequence(w) /\ AckInStep(w) /\ w.rexMX >= 1
    BY <1>4, <2>3, <2>4, CoreFields, CoreInvariants
  <2>6. changeState(w, "PREP_OPEN") \in Endpoint /\ Order(changeState(w, "PREP_OPEN"))
    BY <2>4, <2>5, ChangeStateType, ChangeStateOrder DEF State
  <2>7. Order(arm(changeState(w, "PREP_OPEN"), "NUL"))
    BY <2>6, TimerCore, CoreOrder DEF Timer
  <2> QED BY <2>1, <2>7 DEF w
<1>8. CASE s.state = "OPEN_OUTWIN_FULL" /\ windowOpen(r)
  <2> DEFINE w == [r EXCEPT !.usrI = TRUE]
  <2>1. handleRxEvent(s, g, isn) = changeState(w, "OPEN")
    BY <1>8 DEF handleRxEvent, r
  <2>2. Tidy(e, r)
    <3>1. ~windowOpen(s) /\ Stays(s, e)
      BY <1>1, <1>8 DEF Order, Wanted
    <3>2. ~GaveUp(e, r)
      BY <1>8, <3>1 DEF GaveUp, Stays, windowOpen
    <3> QED BY <1>3, <3>2
  <2>3. InSequence(r) /\ AckInStep(r)
    <3>1. InSequence(s) /\ AckInStep(s)
      BY <1>8 DEF Order, InConn, Opened
    <3> QED BY <1>1, <1>8, <2>2, <3>1 DEF Wanted, Stays, Tidy
  <2>4. w \in Endpoint /\ Core(w) = Core(r)
    BY <1>3, UsrIType, MinorCore
  <2> HIDE DEF w
  <2>5. InSequence(w) /\ AckInStep(w) /\ w.rexMX >= 1
    BY <1>4, <2>3, <2>4, CoreFields, CoreInvariants
  <2>6. Order(changeState(w, "OPEN"))
    BY <2>4, <2>5, ChangeStateOrder
  <2> QED BY <2>1, <2>6
<1>9. CASE /\ s.state \notin Wanted
           /\ ~(s.state = "SERV_WAIT_SYN_ACK" /\ r.unAckedSegs = <<>>)
           /\ ~(s.state = "OPEN_OUTWIN_FULL" /\ windowOpen(r))
  <2>1. handleRxEvent(s, g, isn) = r
    BY <1>9 DEF handleRxEvent, r
  <2>2. ASSUME Tidy(e, r) PROVE Order(r)
    <3>1. e.state = "OPEN_OUTWIN_FULL" => ~windowOpen(r)
      BY <1>1, <1>9 DEF Stays
    <3> QED BY <1>1, <2>2, <3>1, TidyOrder
  <2> QED BY <1>3, <1>5, <2>1, <2>2
<1> QED BY <1>6, <1>7, <1>8, <1>9

-----------------------------------------------------------------------------
(* User events, timeouts, and changes of state.                            *)

\* What has been added does not open the window.
LEMMA AddedWindow ==
    ASSUME NEW s \in Endpoint, NEW r \in Endpoint, NEW n \in Nat, Added(s, r, n), ~windowOpen(s)
    PROVE  ~windowOpen(r)
BY UnackedLen DEF Added, windowOpen

\* Stopping the user's input because the window is full.
LEMMA OutWinFullOrder ==
    ASSUME NEW s \in Endpoint, s.state \in Opened, Order(s), ~windowOpen(s)
    PROVE  Order(outWinFull(s))
<1> DEFINE w == [s EXCEPT !.usrI = FALSE]
<1>1. w \in Endpoint /\ Core(w) = Core(s)
  BY UsrIType, MinorCore
<1>2. outWinFull(s) = changeState(w, "OPEN_OUTWIN_FULL")
  BY DEF outWinFull
<1> HIDE DEF w
<1>3. InSequence(s) /\ AckInStep(s) /\ s.rexMX >= 1
  BY DEF Order, InConn, Opened
<1>4. InSequence(w) /\ AckInStep(w) /\ w.rexMX >= 1 /\ ~windowOpen(w)
  BY <1>1, <1>3, CoreFields, CoreInvariants DEF windowOpen
<1> QED BY <1>1, <1>2, <1>4, ChangeStateOrder

\* handleUsrInputEvent().
LEMMA UsrInputOrder ==
    ASSUME NEW s \in Endpoint, Order(s)
    PROVE  Order(handleUsrInputEvent(s))
<1> DEFINE room == s.peerOssMX - Len(s.unAckedSegs)
           n == IF Len(s.inpQ) < room THEN Len(s.inpQ) ELSE room
           r == IF n > 0 THEN sendDAT(s, n) ELSE s
<1>1. Len(s.inpQ) \in Nat /\ room \in Int
  <2>1. s.inpQ \in Seq(Payload)
    BY DEF Endpoint
  <2>2. Len(s.inpQ) \in Nat
    BY <2>1, LenProperties
  <2> QED BY <2>2, UnackedLen
<1>2. n > 0 => n \in 1..Len(s.inpQ)
  <2> HIDE DEF room
  <2> QED BY <1>1
<1>3. /\ r \in Endpoint /\ Tidy(s, r)
      /\ s.state = "OPEN_OUTWIN_FULL" => ~windowOpen(r)
  <2>1. CASE n > 0
    <3>1. r = sendDAT(s, n) /\ r \in Endpoint /\ Tidy(s, r) /\ Added(s, r, n) /\ n \in Nat
      <4> HIDE DEF n
      <4> QED BY <1>1, <1>2, <2>1, SendDATType, SendDATTidy, SendDATAdded
    <3> HIDE DEF r, n
    <3> QED BY <3>1, AddedWindow DEF Order
  <2>2. CASE ~(n > 0)
    BY <2>2 DEF Tidy, Order
  <2> QED BY <2>1, <2>2
<1> HIDE DEF r, n
<1>4. Order(r) /\ r.state = s.state
  BY <1>3, TidyOrder DEF Tidy
<1>5. CASE s.state \notin Opened
  <2>1. handleUsrInputEvent(s) = Panic(s, "UsrInputEvent")
    BY <1>5 DEF handleUsrInputEvent
  <2> QED BY <2>1, PanicCore, CoreOrder
<1>6. CASE s.state \in Opened /\ windowOpen(r)
  <2>1. handleUsrInputEvent(s) = r
    BY <1>6 DEF handleUsrInputEvent, r, n
  <2> QED BY <1>4, <2>1
<1>7. CASE s.state \in Opened /\ ~windowOpen(r)
  <2>1. handleUsrInputEvent(s) = outWinFull(r)
    BY <1>7 DEF handleUsrInputEvent, r, n
  <2> QED BY <1>3, <1>4, <1>7, <2>1, OutWinFullOrder
<1> QED BY <1>5, <1>6, <1>7

\* handleUsrOutputEvent().
LEMMA UsrOutputOrder ==
    ASSUME NEW s \in Endpoint, Order(s)
    PROVE  Order(handleUsrOutputEvent(s))
<1> DEFINE o == [s EXCEPT !.usrO = FALSE]
           r == drainReassembleBuffer(o)
<1>1. o \in Endpoint /\ Core(o) = Core(s)
  BY MinorCore, ZenonT(60) DEF Endpoint
<1> HIDE DEF o
<1>2. /\ r \in Endpoint /\ Tidy(o, r) /\ r.unAckedSegs = o.unAckedSegs
      /\ r.peerOssMX = o.peerOssMX
  BY <1>1, DrainType, DrainTidy DEF Tidy
<1>3. handleUsrOutputEvent(s) \in {Panic(s, "UsrOutputEvent"), r, sendACK(r)}
  BY DEF handleUsrOutputEvent, o
<1> HIDE DEF r
<1>4. Order(r)
  <2>1. Order(o)
    BY <1>1, CoreOrder
  <2> QED BY <1>2, <2>1, TidyOrder DEF Order, windowOpen
<1> QED BY <1>2, <1>3, <1>4, PanicCore, SendACKCore, CoreOrder

\* The three timeouts.
LEMMA TimeoutOrder ==
    ASSUME NEW s \in Endpoint, NEW t \in Timer, Order(s)
    PROVE  Order(timeout(s, t))
<1> DEFINE r == cancel(s, t)
<1>1. r \in Endpoint /\ Order(r)
  BY CancelType, TimerCore, CoreOrder
<1>2. timeout(s, t) \in {processRetransmissionTimeout(r), processAckTimeout(r), processNulTimeout(r)}
  BY DEF timeout
<1> HIDE DEF r
<1>3. Order(processRetransmissionTimeout(r))
  <2> DEFINE x == processRetransmissionTimeout(r)
  <2>1. /\ x \in Endpoint /\ Len(x.unAckedSegs) = Len(r.unAckedSegs)
        /\ Tidy(r, x) \/ GaveUp(r, x)
    BY <1>1, RexTimeoutType, RexTimeoutTidy
  <2> HIDE DEF x
  <2>2. ASSUME Tidy(r, x) PROVE Order(x)
    BY <1>1, <2>1, <2>2, TidyOrder DEF Tidy, Order, windowOpen
  <2>3. ASSUME GaveUp(r, x) PROVE Order(x)
    BY <1>1, <2>3, ClosedOrder DEF GaveUp, Order
  <2>4. Order(x)
    BY <2>1, <2>2, <2>3
  <2> QED BY <2>4 DEF x
<1>4. Order(Panic(r, "ACKTimeout")) /\ Order(Panic(r, "NULTimeout"))
  BY <1>1, PanicCore, CoreOrder
<1>5. Order(processAckTimeout(r))
  <2>1. CASE hasBufToSend(r.state, r)
    <3>1. r.state # "OPEN_OUTWIN_FULL" /\ Tidy(r, sendDATorACK(r.state, r))
      BY <1>1, <2>1, SendDATorACKTidy DEF hasBufToSend, Order
    <3>2. Order(sendDATorACK(r.state, r))
      BY <1>1, <3>1, TidyOrder
    <3> QED BY <1>4, <3>2 DEF processAckTimeout
  <2>2. CASE ~hasBufToSend(r.state, r)
    <3>1. Order(sendDATorACK(r.state, r))
      BY <1>1, <2>2, SendACKCore, CoreOrder DEF sendDATorACK
    <3> QED BY <1>4, <3>1 DEF processAckTimeout
  <2> QED BY <2>1, <2>2
<1>6. Order(processNulTimeout(r))
  <2>1. CASE r.state \notin Opened
    BY <1>4, <2>1 DEF processNulTimeout
  <2>2. CASE r.state \in Opened /\ IsServer
    <3> DEFINE c == changeState(sendRST(r), "CLOSED")
    <3>1. processNulTimeout(r) = c
      BY <2>2 DEF processNulTimeout
    <3>2. c.state = "CLOSED" /\ c.rexMX = r.rexMX
      BY <1>1, SendRSTType, SendRSTFields, ChangeStateFields
    <3> HIDE DEF c
    <3> QED BY <1>1, <3>1, <3>2, ClosedOrder DEF Order
  <2>3. CASE r.state \in Opened /\ ~IsServer
    <3> DEFINE k == sendNUL(r)
    <3>1. k \in Endpoint /\ Tidy(r, k)
      BY <1>1, SendNULType, SendNULTidy
    <3>2. ~windowOpen(r) => Added(r, k, 0)
      BY <1>1, SendNULAdded
    <3>3. processNulTimeout(r) = IF windowOpen(r) THEN k ELSE outWinFull(k)
      BY <2>3 DEF processNulTimeout
    <3> HIDE DEF k
    <3>4. CASE windowOpen(r)
      <4>1. r.state # "OPEN_OUTWIN_FULL"
        BY <1>1, <3>4 DEF Order
      <4> QED BY <1>1, <3>1, <3>3, <3>4, <4>1, TidyOrder
    <3>5. CASE ~windowOpen(r)
      <4>1. ~windowOpen(k)
        BY <1>1, <3>1, <3>2, <3>5, AddedWindow
      <4>2. Order(k) /\ k.state \in Opened
        BY <1>1, <2>3, <3>1, <4>1, TidyOrder DEF Tidy
      <4> QED BY <3>1, <3>3, <3>5, <4>1, <4>2, OutWinFullOrder
    <3> QED BY <3>4, <3>5
  <2> QED BY <2>1, <2>2, <2>3
<1> QED BY <1>2, <1>3, <1>5, <1>6

\* close() restores the configured limit.
LEMMA CloseLimit ==
    ASSUME NEW s \in Endpoint
    PROVE  close(s).rexMX = RexMax
BY DEF close, Endpoint

\* CLOSED::advance() before it sleeps.
LEMMA ClosedAdvanceOrder ==
    ASSUME NEW s \in Endpoint, RexMax >= 1
    PROVE  Order(closedAdvance(s))
<1> DEFINE c == close(s)
<1>1. c \in Endpoint /\ c.rexMX >= 1
  BY CloseType, CloseLimit
<1>2. closedAdvance(s) \in {changeState(c, "LISTEN"), changeState(c, "CLOSED_SLEEP")}
  BY DEF closedAdvance
<1> HIDE DEF c
<1> QED BY <1>1, <1>2, ChangeStateFields, ClosedOrder

\* A client begins a connection.
LEMMA ReopenOrder ==
    ASSUME NEW s \in Endpoint, NEW isn \in SeqNo, Shape(s), Order(s), s.state = "CLOSED_SLEEP"
    PROVE  Order(reopen(s, isn))
<1> DEFINE i == increaseReopenDelay(s)
           y == sendSYN(i, FALSE, isn)
           z == changeState(y, "CLNT_WAIT_SYN_ACK")
<1>1. i \in Endpoint /\ Core(i) = Core(s)
  BY ReopenDelayType, ReopenDelayCore
<1>2. reopen(s, isn) = z
  BY DEF reopen
<1> HIDE DEF i
<1>3. Len(i.unAckedSegs) = 0 /\ i.rexMX >= 1
  BY <1>1, CoreFields DEF Shape, Order
<1>4. y \in Endpoint /\ InSequence(y) /\ y.rexMX >= 1
  BY <1>1, <1>3, SendSYNType, SendSYNTidy
<1> HIDE DEF y
<1>5. /\ z.state = "CLNT_WAIT_SYN_ACK" /\ z.lastSeqSent = y.lastSeqSent
      /\ z.unAckedSegs = y.unAckedSegs /\ z.oldestU = y.oldestU /\ z.rexMX = y.rexMX
  BY <1>4, ChangeStateFields
<1> HIDE DEF z
<1>6. Order(z)
  BY <1>4, <1>5 DEF Order, InSequence
<1> QED BY <1>2, <1>6

\* PREP_OPEN::advance().
LEMMA PrepOpenAdvanceOrder ==
    ASSUME NEW s \in Endpoint, Order(s), s.state = "PREP_OPEN"
    PROVE  Order(prepOpenAdvance(s))
<1> DEFINE w == [s EXCEPT !.usrI = TRUE]
<1>1. w \in Endpoint /\ Core(w) = Core(s)
  BY UsrIType, MinorCore
<1>2. prepOpenAdvance(s) = changeState(w, "OPEN")
  BY DEF prepOpenAdvance
<1> HIDE DEF w
<1>3. InSequence(s) /\ AckInStep(s) /\ s.rexMX >= 1
  BY DEF Order, InConn
<1>4. InSequence(w) /\ AckInStep(w) /\ w.rexMX >= 1
  BY <1>1, <1>3, CoreFields, CoreInvariants
<1> QED BY <1>1, <1>2, <1>4, ChangeStateOrder

\* threadStop().
LEMMA ThreadStopOrder ==
    ASSUME NEW s \in Endpoint, RexMax >= 1
    PROVE  Order(threadStop(s))
<1> DEFINE r == IF s.state \in {"CLOSED", "CLOSED_SLEEP", "LISTEN"} THEN s ELSE sendRST(s)
           c == close(r)
           z == [c EXCEPT !.state = "CLOSED"]
<1>1. r \in Endpoint
  BY SendRSTType
<1> HIDE DEF r
<1>2. c \in Endpoint /\ c.rexMX >= 1
  BY <1>1, CloseType, CloseLimit
<1>3. threadStop(s) = z
  BY DEF threadStop, r
<1> HIDE DEF c
<1>4. z.state = "CLOSED" /\ z.rexMX = c.rexMX
  BY <1>2 DEF Endpoint
<1> HIDE DEF z
<1> QED BY <1>2, <1>3, <1>4, ClosedOrder

\* A new endpoint.
LEMMA InitOrder ==
    ASSUME NEW a, NEW b, NEW u, NEW r, RexMax >= 1
    PROVE  Order(InitEndpoint(a, b, u, r))
<1> DEFINE s == InitEndpoint(a, b, u, r)
<1>1. s.state = "CLOSED" /\ s.rexMX = RexMax
  BY DEF InitEndpoint
<1> HIDE DEF s
<1>2. Order(s)
  BY <1>1, ClosedOrder
<1> QED BY <1>2 DEF s

-----------------------------------------------------------------------------
(* What the functions do to the fields these invariants are about.         *)

\* The fields most functions leave alone: of both directions, of the sender and
\* of the receiver.
Rest(s) == <<s.peerOssMX, s.rexMX, s.cakMX, s.peerBSY, s.usrI, s.panic>>
Recv(s) == <<s.usrO, s.unOrderedSegs>>

\* Equal tuples have equal fields.
LEMMA RestFields ==
    ASSUME NEW s, NEW r
    PROVE  /\ Rest(r) = Rest(s) =>
                /\ r.peerOssMX = s.peerOssMX /\ r.rexMX = s.rexMX /\ r.cakMX = s.cakMX
                /\ r.peerBSY = s.peerBSY /\ r.usrI = s.usrI /\ r.panic = s.panic
           /\ Recv(r) = Recv(s) => r.usrO = s.usrO /\ r.unOrderedSegs = s.unOrderedSegs
BY DEF Rest, Recv

\* The fields of an endpoint these lemmas need the types of.
LEMMA EventTypes ==
    ASSUME NEW s \in Endpoint
    PROVE  /\ s.numCak \in Int /\ s.cakMX \in Nat /\ s.rexMX \in Nat /\ s.numRex \in Nat
           /\ s.armed \in SUBSET Timer /\ s.peerBSY \in BOOLEAN
           /\ s.usrI \in BOOLEAN /\ s.usrO \in BOOLEAN /\ s.inpQ \in Seq(Payload)
           /\ s.state \in State
BY DEF Endpoint

\* RssiTimer::cancel() and arm_rel() change the timer list only.
LEMMA TimerFields ==
    ASSUME NEW s \in Endpoint, NEW t \in Timer
    PROVE  /\ Rest(cancel(s, t)) = Rest(s) /\ Recv(cancel(s, t)) = Recv(s)
           /\ cancel(s, t).state = s.state /\ cancel(s, t).unAckedSegs = s.unAckedSegs
           /\ cancel(s, t).numCak = s.numCak /\ cancel(s, t).armed = s.armed \ {t}
           /\ Rest(arm(s, t)) = Rest(s) /\ Recv(arm(s, t)) = Recv(s)
           /\ arm(s, t).state = s.state /\ arm(s, t).unAckedSegs = s.unAckedSegs
           /\ arm(s, t).numCak = s.numCak /\ arm(s, t).armed = s.armed \cup {t}
BY DEF Rest, Recv, cancel, arm, Endpoint

\* The timers a segment that is kept sets: REX unless the peer is busy, and NUL,
\* by a client.
Rearmed(s) == (IF s.peerBSY THEN {} ELSE {"REX"}) \cup (IF IsServer THEN {} ELSE {"NUL"})

\* r is s after a segment that is not kept: what was received is acknowledged.
Replies(s, r) ==
    /\ Rest(r) = Rest(s) /\ Recv(r) = Recv(s) /\ r.state = s.state
    /\ r.unAckedSegs = s.unAckedSegs
    /\ r.numCak = 0 /\ r.armed = s.armed \ {"ACK"}

\* r is s after segments that are kept for retransmission.
Pushes(s, r) ==
    /\ Rest(r) = Rest(s) /\ Recv(r) = Recv(s) /\ r.state = s.state
    /\ r.unAckedSegs # <<>>
    /\ r.numCak = 0 /\ r.armed = (s.armed \ {"ACK"}) \cup Rearmed(s)

\* sendBuf() acknowledges: it cancels the ACK timer and restarts the count.
LEMMA SendBufReplies ==
    ASSUME NEW s \in Endpoint, NEW gs
    PROVE  Replies(s, sendBuf(s, gs))
<1> DEFINE c == cancel(s, "ACK")
           x == c.tx \o [i \in DOMAIN gs |-> stamp(s, gs[i])]
<1>1. c \in Endpoint /\ Rest(c) = Rest(s) /\ Recv(c) = Recv(s) /\ c.state = s.state
      /\ c.unAckedSegs = s.unAckedSegs /\ c.armed = s.armed \ {"ACK"}
  BY CancelType, TimerFields DEF Timer
<1>2. sendBuf(s, gs) = [c EXCEPT !.numCak = 0, !.tx = x]
  BY DEF sendBuf
<1>3. Replies(c, [c EXCEPT !.numCak = 0, !.tx = x]) \/ "ACK" \in c.armed
  <2> HIDE DEF c, x
  <2>1. /\ Rest([c EXCEPT !.numCak = 0, !.tx = x]) = Rest(c)
        /\ Recv([c EXCEPT !.numCak = 0, !.tx = x]) = Recv(c)
    BY <1>1 DEF Rest, Recv, Endpoint
  <2> QED BY <1>1, <2>1 DEF Replies, Endpoint
<1> QED BY <1>1, <1>2, <1>3 DEF Replies

\* sendACK() and sendRST() are a sendBuf().
LEMMA SendReplies ==
    ASSUME NEW s \in Endpoint
    PROVE  Replies(s, sendACK(s)) /\ Replies(s, sendRST(s))
<1>1. Replies(s, sendACK(s))
  BY SendBufReplies DEF sendACK
<1> DEFINE r == [s EXCEPT !.lastSeqSent = Wrap(@ + 1)]
<1>2. r \in Endpoint
  BY NextSeqType
<1>3. /\ Rest(r) = Rest(s) /\ Recv(r) = Recv(s) /\ r.state = s.state
      /\ r.unAckedSegs = s.unAckedSegs /\ r.armed = s.armed
  BY DEF Rest, Recv, Endpoint
<1>4. Replies(r, sendRST(s))
  BY <1>2, SendBufReplies DEF sendRST
<1> QED BY <1>1, <1>3, <1>4 DEF Replies

\* armRexAndNulTimer() changes the timer list only.
LEMMA RearmFields ==
    ASSUME NEW s \in Endpoint
    PROVE  LET r == armRexAndNulTimer(s)
           IN  /\ Rest(r) = Rest(s) /\ Recv(r) = Recv(s) /\ r.state = s.state
               /\ r.unAckedSegs = s.unAckedSegs /\ r.numCak = s.numCak
               /\ r.armed = s.armed \cup Rearmed(s)
<1> DEFINE m == IF s.peerBSY THEN s ELSE arm(s, "REX")
<1>1. /\ m \in Endpoint /\ Rest(m) = Rest(s) /\ Recv(m) = Recv(s) /\ m.state = s.state
      /\ m.unAckedSegs = s.unAckedSegs /\ m.numCak = s.numCak
      /\ m.armed = s.armed \cup (IF s.peerBSY THEN {} ELSE {"REX"})
  BY ArmType, TimerFields DEF Timer
<1>2. armRexAndNulTimer(s) = IF IsServer THEN m ELSE arm(m, "NUL")
  BY DEF armRexAndNulTimer
<1>3. CASE IsServer
  BY <1>1, <1>2, <1>3 DEF Rearmed
<1>4. CASE ~IsServer
  <2> HIDE DEF m
  <2>1. /\ Rest(arm(m, "NUL")) = Rest(m) /\ Recv(arm(m, "NUL")) = Recv(m)
        /\ arm(m, "NUL").state = m.state /\ arm(m, "NUL").unAckedSegs = m.unAckedSegs
        /\ arm(m, "NUL").numCak = m.numCak /\ arm(m, "NUL").armed = m.armed \cup {"NUL"}
    BY <1>1, TimerFields DEF Timer
  <2> QED BY <1>1, <1>2, <1>4, <2>1 DEF Rearmed
<1> QED BY <1>3, <1>4

\* sendBuf() and RingBuf::push(): with room in the ring buffer nothing is thrown.
LEMMA KeepPushes ==
    ASSUME NEW s \in Endpoint, NEW gs \in Seq(Seg), gs # <<>>,
           Len(s.unAckedSegs) + Len(gs) - 1 <= s.capa
    PROVE  Pushes(s, sendBufAndKeepForRetransmission(s, gs))
<1> DEFINE r == sendBuf(s, gs)
           m == [i \in DOMAIN gs |-> mark(s, gs[i])]
           x == r.unAckedSegs \o m
           p == IF Len(s.unAckedSegs) + Len(gs) - 1 > s.capa THEN "RingBuf Overflow" ELSE r.panic
           k == [r EXCEPT !.unAckedSegs = x, !.panic = p]
<1>1. r \in Endpoint /\ Replies(s, r)
  BY SendBufType, SendBufReplies
<1>2. p = r.panic
  <2>1. Len(s.unAckedSegs) + Len(gs) - 1 \in Int /\ s.capa \in Int
    BY UnackedLen, LenProperties
  <2>2. ~(Len(s.unAckedSegs) + Len(gs) - 1 > s.capa)
    BY <2>1
  <2> HIDE DEF r
  <2> QED BY <2>2
<1>3. m \in Seq(Seg) /\ m # <<>>
  <2>1. m \in Seq(Seg)
    BY MapStampType
  <2>2. DOMAIN m = DOMAIN gs
    OBVIOUS
  <2>3. Len(gs) \in Nat /\ Len(gs) # 0 /\ DOMAIN gs = 1..Len(gs)
    BY EmptySeq, LenProperties
  <2>4. 1 \in DOMAIN m
    <3> HIDE DEF m
    <3> QED BY <2>2, <2>3
  <2> HIDE DEF m
  <2> QED BY <2>1, <2>4
<1>4. x \in Seq(Seg) /\ x # <<>>
  <2> DEFINE u == r.unAckedSegs
  <2>1. u \in Seq(Seg)
    <3> HIDE DEF r
    <3> QED BY <1>1, UnackedLen
  <2>2. u \o m \in Seq(Seg) /\ u \o m # <<>>
    <3> HIDE DEF u, m
    <3> QED BY <1>3, <2>1, ConcatProperties, ConcatEmptySeq, EmptySeq, LenProperties
  <2> QED BY <2>2
<1>5. /\ k \in Endpoint /\ k.unAckedSegs = x /\ k.panic = p
      /\ k.state = r.state /\ k.numCak = r.numCak /\ k.armed = r.armed
      /\ Rest(k) = Rest(r) /\ Recv(k) = Recv(r)
  <2>1. p \in Fault
    <3> HIDE DEF r, p
    <3> QED BY <1>1, <1>2 DEF Endpoint
  <2> HIDE DEF r, x, p
  <2>2. k \in Endpoint /\ k.unAckedSegs = x /\ k.panic = p
    BY <1>1, <1>4, <2>1, ZenonT(60) DEF Endpoint
  <2>3. /\ k.state = r.state /\ k.numCak = r.numCak /\ k.armed = r.armed
        /\ k.peerOssMX = r.peerOssMX /\ k.rexMX = r.rexMX /\ k.cakMX = r.cakMX
        /\ k.peerBSY = r.peerBSY /\ k.usrI = r.usrI /\ k.usrO = r.usrO
        /\ k.unOrderedSegs = r.unOrderedSegs
    BY <1>1 DEF Endpoint
  <2> HIDE DEF k
  <2> QED BY <1>2, <2>2, <2>3 DEF Rest, Recv
<1>6. sendBufAndKeepForRetransmission(s, gs) = armRexAndNulTimer(k)
  BY DEF sendBufAndKeepForRetransmission
<1> HIDE DEF k, x, r, p, m
<1>7. /\ Rest(armRexAndNulTimer(k)) = Rest(k) /\ Recv(armRexAndNulTimer(k)) = Recv(k)
      /\ armRexAndNulTimer(k).state = k.state
      /\ armRexAndNulTimer(k).unAckedSegs = k.unAckedSegs
      /\ armRexAndNulTimer(k).numCak = k.numCak
      /\ armRexAndNulTimer(k).armed = k.armed \cup Rearmed(k)
  BY <1>5, RearmFields
<1>8. Rearmed(k) = Rearmed(s)
  BY <1>1, <1>5, RestFields DEF Rearmed, Replies
<1> QED BY <1>1, <1>4, <1>5, <1>6, <1>7, <1>8 DEF Pushes, Replies

\* What is changed before the segment is handed over does not matter here.
LEMMA PushesFrom ==
    ASSUME NEW s, NEW n, NEW r, Pushes(n, r), Rest(n) = Rest(s), Recv(n) = Recv(s),
           n.state = s.state, n.armed = s.armed
    PROVE  Pushes(s, r)
BY RestFields DEF Pushes, Rearmed

\* sendDAT() of n payloads, with room for them in the window.
LEMMA SendDATPushes ==
    ASSUME NEW s \in Endpoint, Window(s), NEW n \in 1..Len(s.inpQ),
           Len(s.unAckedSegs) + n <= s.peerOssMX
    PROVE  Pushes(s, sendDAT(s, n))
<1> DEFINE l == Wrap(s.lastSeqSent + n)
           q == SubSeq(s.inpQ, n + 1, Len(s.inpQ))
           gs == [i \in 1..n |-> MkSeg({"ACK"}, s.lastSeqSent + i, s.inpQ[i])]
           r == [s EXCEPT !.lastSeqSent = l, !.inpQ = q]
<1>1. s.inpQ \in Seq(Payload) /\ Len(s.inpQ) \in Nat /\ s.lastSeqSent \in Int
  BY UnackedLen, EventTypes, LenProperties
<1>2. l \in SeqNo /\ q \in Seq(Payload) /\ n \in Nat
  BY <1>1, WrapType, SubSeqProperties
<1>3. gs \in Seq(Seg) /\ Len(gs) = n
  <2>1. \A i \in 1..n : MkSeg({"ACK"}, s.lastSeqSent + i, s.inpQ[i]) \in Seg
    <3> TAKE i \in 1..n
    <3>1. s.inpQ[i] \in Payload \cup {NoPld}
      BY <1>1, ElementOfSeq
    <3>2. s.lastSeqSent + i \in Int /\ {"ACK"} \in SUBSET Flag
      BY <1>1 DEF Flag
    <3> QED BY <3>1, <3>2, MkSegType
  <2>2. gs \in Seq(Seg)
    BY <2>1, <1>2, IsASeq
  <2>3. DOMAIN gs = 1..n
    OBVIOUS
  <2> HIDE DEF gs
  <2> QED BY <1>2, <2>2, <2>3, LenProperties
<1>4. r \in Endpoint
  <2> HIDE DEF l, q
  <2> QED BY <1>2 DEF Endpoint
<1>5. /\ Rest(r) = Rest(s) /\ Recv(r) = Recv(s) /\ r.state = s.state /\ r.armed = s.armed
      /\ r.unAckedSegs = s.unAckedSegs /\ r.capa = s.capa
  <2> HIDE DEF l, q
  <2> QED BY DEF Rest, Recv, Endpoint
<1>6. sendDAT(s, n) = sendBufAndKeepForRetransmission(r, gs)
  BY DEF sendDAT
<1> HIDE DEF r, gs
<1>7. gs # <<>> /\ Len(r.unAckedSegs) + Len(gs) - 1 <= r.capa
  BY <1>3, <1>5, UnackedLen, EmptySeq DEF Window
<1>8. Pushes(r, sendDAT(s, n))
  BY <1>3, <1>4, <1>6, <1>7, KeepPushes
<1> QED BY <1>5, <1>8, PushesFrom

\* sendNUL(), with room in the window; without, it is an acknowledgement that
\* sets the NUL timer.
LEMMA SendNULFields ==
    ASSUME NEW s \in Endpoint, Window(s)
    PROVE  /\ windowOpen(s) => Pushes(s, sendNUL(s))
           /\ ~windowOpen(s) => Replies(arm(s, "NUL"), sendNUL(s))
<1>1. ASSUME windowOpen(s) PROVE Pushes(s, sendNUL(s))
  <2> DEFINE n == [s EXCEPT !.lastSeqSent = Wrap(@ + 1)]
             gs == <<MkSeg({"ACK", "NUL"}, s.lastSeqSent + 1, NoPld)>>
  <2>1. n \in Endpoint /\ s.lastSeqSent + 1 \in Int
    BY NextSeqType
  <2>2. gs \in Seq(Seg) /\ Len(gs) = 1 /\ gs # <<>>
    <3>1. gs \in Seq(Seg)
      BY <2>1, OneSegType DEF Flag
    <3> QED BY <3>1
  <2>3. /\ Rest(n) = Rest(s) /\ Recv(n) = Recv(s) /\ n.state = s.state /\ n.armed = s.armed
        /\ n.unAckedSegs = s.unAckedSegs /\ n.capa = s.capa
    BY DEF Rest, Recv, Endpoint
  <2>4. sendNUL(s) = sendBufAndKeepForRetransmission(n, gs)
    BY <1>1 DEF sendNUL
  <2> HIDE DEF n, gs
  <2>5. Len(n.unAckedSegs) + Len(gs) - 1 <= n.capa
    BY <1>1, <2>2, <2>3, UnackedLen DEF windowOpen, Window
  <2>6. Pushes(n, sendNUL(s))
    BY <2>1, <2>2, <2>4, <2>5, KeepPushes
  <2> QED BY <2>3, <2>6, PushesFrom
<1>2. ASSUME ~windowOpen(s) PROVE Replies(arm(s, "NUL"), sendNUL(s))
  <2>1. sendNUL(s) = sendACK(arm(s, "NUL"))
    BY <1>2 DEF sendNUL
  <2> QED BY <2>1, ArmType, SendReplies DEF Timer
<1> QED BY <1>1, <1>2

\* sendSYN(), the first segment of a connection.
LEMMA SendSYNPushes ==
    ASSUME NEW s \in Endpoint, Window(s), NEW a \in BOOLEAN, NEW isn \in SeqNo,
           Len(s.unAckedSegs) = 0
    PROVE  Pushes(s, sendSYN(s, a, isn))
<1> DEFINE fl == IF a THEN {"SYN", "ACK"} ELSE {"SYN"}
           par == [ossMX |-> MaxUnacked, rexMX |-> s.rexMX, cakMX |-> s.cakMX]
           g == MkSeg(fl, isn, NoPld)
           h == [g EXCEPT !.par = par]
           r == [s EXCEPT !.lastSeqSent = isn, !.oldestU = isn]
<1>1. fl \in SUBSET Flag
  BY DEF Flag
<1>2. par \in Par
  <2>1. s.rexMX \in Nat /\ s.cakMX \in Nat
    BY EventTypes
  <2>2. MaxUnacked \in 1..(SeqMod - 1)
    BY EndpointAssumption DEF Pow2
  <2> QED BY <2>1, <2>2 DEF Par
<1>3. g \in Seg
  BY <1>1, SeqNoInt, MkSegType
<1>4. h \in Seg
  <2> HIDE DEF g, par
  <2> QED BY <1>2, <1>3 DEF Seg
<1>5. r \in Endpoint
  BY ZenonT(60) DEF Endpoint
<1>6. /\ Rest(r) = Rest(s) /\ Recv(r) = Recv(s) /\ r.state = s.state /\ r.armed = s.armed
      /\ r.unAckedSegs = s.unAckedSegs /\ r.capa = s.capa
  BY DEF Rest, Recv, Endpoint
<1>7. sendSYN(s, a, isn) = sendBufAndKeepForRetransmission(r, <<h>>)
  BY DEF sendSYN
<1> HIDE DEF h, r
<1>8. <<h>> \in Seq(Seg) /\ Len(<<h>>) = 1 /\ <<h>> # <<>>
  BY <1>4
<1>9. Pushes(r, sendSYN(s, a, isn))
  <2>1. s.capa \in Nat /\ Len(r.unAckedSegs) = 0 /\ r.capa = s.capa
    BY <1>6, UnackedLen
  <2>2. Len(r.unAckedSegs) + Len(<<h>>) - 1 <= r.capa
    BY <1>8, <2>1
  <2> QED BY <1>5, <1>7, <1>8, <2>2, KeepPushes
<1> QED BY <1>6, <1>9, PushesFrom

\* changeState() changes the state, and what the connection events report.
LEMMA ChangeStateRest ==
    ASSUME NEW s \in Endpoint, NEW q
    PROVE  LET r == changeState(s, q)
           IN  /\ Rest(r) = Rest(s) /\ Recv(r) = Recv(s) /\ r.state = q
               /\ r.unAckedSegs = s.unAckedSegs /\ r.numCak = s.numCak /\ r.armed = s.armed
BY DEF changeState, Rest, Recv, Endpoint

-----------------------------------------------------------------------------
(* The parts of the invariant.                                             *)

\* The REX timer runs exactly when there is something to retransmit that the
\* peer would take.
RexIff(s) == "REX" \in s.armed <=> (s.unAckedSegs # <<>> /\ ~s.peerBSY)

\* Between two events the count is within its limit, and the ACK timer runs
\* exactly when there is something to acknowledge.
AckOk(s) == s.numCak \in 0..s.cakMX /\ (s.numCak > 0 <=> "ACK" \in s.armed)

\* Within handleRxEvent(), before the segment is counted: the acknowledgement is
\* forced, or counting it leads to AckOk().
PreAck(s) ==
    \/ s.numCak = s.cakMX
    \/ /\ s.numCak \in (-1)..s.cakMX
       /\ s.numCak >= 1 => "ACK" \in s.armed
       /\ s.numCak = -1 => "ACK" \notin s.armed

\* The head of the reassembly buffer waits for nothing but the user.
Out(s) == s.unOrderedSegs[0] # Empty => s.usrO

\* Whatever is sent, what was received is acknowledged and the timers follow.
LEMMA SentSteady ==
    ASSUME NEW s, NEW r, s.cakMX \in Nat, Replies(s, r) \/ Pushes(s, r)
    PROVE  /\ Rest(r) = Rest(s) /\ Recv(r) = Recv(s) /\ r.state = s.state
           /\ AckOk(r) /\ r.numCak = 0
           /\ RexIff(s) => RexIff(r)
           /\ "NUL" \in s.armed => "NUL" \in r.armed
<1>0. Rest(r) = Rest(s) /\ Recv(r) = Recv(s) /\ r.state = s.state
  BY DEF Replies, Pushes
<1>1. r.cakMX = s.cakMX /\ r.peerBSY = s.peerBSY
  BY <1>0, RestFields
<1>2. r.numCak = 0 /\ "ACK" \notin r.armed
  BY DEF Replies, Pushes, Rearmed
<1>3. AckOk(r)
  BY <1>1, <1>2 DEF AckOk
<1>4. RexIff(s) => RexIff(r)
  BY <1>1 DEF Replies, Pushes, Rearmed, RexIff
<1>5. "NUL" \in s.armed => "NUL" \in r.armed
  BY DEF Replies, Pushes, Rearmed
<1> QED BY <1>0, <1>2, <1>3, <1>4, <1>5

\* sendDATorACK() sends within the window.
LEMMA SendDATorACKFields ==
    ASSUME NEW s \in Endpoint, NEW q, Window(s)
    PROVE  \/ Replies(s, sendDATorACK(q, s))
           \/ Pushes(s, sendDATorACK(q, s))
<1>1. CASE hasBufToSend(q, s)
  <2>1. s.inpQ \in Seq(Payload) /\ s.inpQ # <<>> /\ windowOpen(s)
    BY <1>1, EventTypes DEF hasBufToSend
  <2>2. 1 \in 1..Len(s.inpQ)
    BY <2>1, EmptySeq, LenProperties
  <2>3. Len(s.unAckedSegs) + 1 <= s.peerOssMX
    BY <2>1, UnackedLen DEF windowOpen
  <2>4. Pushes(s, sendDAT(s, 1))
    BY <2>2, <2>3, SendDATPushes
  <2> QED BY <1>1, <2>4 DEF sendDATorACK
<1>2. CASE ~hasBufToSend(q, s)
  BY <1>2, SendReplies DEF sendDATorACK
<1> QED BY <1>1, <1>2

\* The tail of handleRxEvent(): every segment is acknowledged, or the ACK timer
\* runs; a server sets the NUL timer again.
LEMMA CountAndAckSteady ==
    ASSUME NEW s \in Endpoint, NEW q, Window(s)
    PROVE  LET r == countAndAck(q, s)
           IN  /\ Rest(r) = Rest(s) /\ Recv(r) = Recv(s) /\ r.state = s.state
               /\ PreAck(s) => AckOk(r)
               /\ RexIff(s) => RexIff(r)
               /\ "NUL" \in s.armed \/ IsServer => "NUL" \in r.armed
<1> DEFINE x == s.numCak + 1
           n == [s EXCEPT !.numCak = x]
           m == CASE n.numCak > n.cakMX -> sendDATorACK(q, n)
                  [] n.numCak <= n.cakMX /\ n.numCak = 1 -> arm(n, "ACK")
                  [] OTHER -> n
<1>0. s.numCak \in Int /\ s.cakMX \in Nat /\ x \in Int
  BY EventTypes
<1>1. /\ n \in Endpoint /\ Rest(n) = Rest(s) /\ Recv(n) = Recv(s) /\ n.state = s.state
      /\ n.numCak = x /\ n.armed = s.armed /\ n.unAckedSegs = s.unAckedSegs
  <2> HIDE DEF x
  <2> QED BY <1>0 DEF Rest, Recv, Endpoint
<1>2. Window(n)
  <2>1. n.capa = s.capa /\ n.peerOssMX = s.peerOssMX
    <3> HIDE DEF x
    <3> QED BY DEF Endpoint
  <2> QED BY <1>1, <2>1 DEF Window
<1>3. countAndAck(q, s) = IF IsServer THEN arm(m, "NUL") ELSE m
  BY DEF countAndAck
<1> HIDE DEF n
<1>4. n.cakMX = s.cakMX /\ n.peerBSY = s.peerBSY
  BY <1>1, RestFields
<1>5. /\ m \in Endpoint /\ Rest(m) = Rest(n) /\ Recv(m) = Recv(n) /\ m.state = n.state
      /\ PreAck(s) => AckOk(m)
      /\ RexIff(n) => RexIff(m)
      /\ "NUL" \in n.armed => "NUL" \in m.armed
  <2>1. CASE n.numCak > n.cakMX
    <3>0. ~(n.numCak <= n.cakMX)
      BY <1>0, <1>1, <1>4, <2>1
    <3>1. m = sendDATorACK(q, n)
      BY <2>1, <3>0
    <3>2. Replies(n, m) \/ Pushes(n, m)
      BY <1>1, <1>2, <3>1, SendDATorACKFields
    <3>3. m \in Endpoint
      BY <1>1, <3>1, SendDATorACKType
    <3> HIDE DEF m
    <3> QED BY <1>0, <1>4, <3>2, <3>3, SentSteady
  <2>2. CASE ~(n.numCak > n.cakMX) /\ n.numCak = 1
    <3>1. m = arm(n, "ACK")
      BY <1>0, <1>1, <1>4, <2>2
    <3> HIDE DEF m
    <3>2. /\ m \in Endpoint /\ Rest(m) = Rest(n) /\ Recv(m) = Recv(n) /\ m.state = n.state
          /\ m.numCak = n.numCak /\ m.armed = n.armed \cup {"ACK"}
          /\ m.unAckedSegs = n.unAckedSegs
      BY <1>1, <3>1, ArmType, TimerFields DEF Timer
    <3>3. m.cakMX = s.cakMX /\ m.peerBSY = n.peerBSY
      BY <1>4, <3>2, RestFields
    <3>4. AckOk(m)
      BY <1>0, <1>1, <1>4, <2>2, <3>2, <3>3 DEF AckOk
    <3> QED BY <3>2, <3>3, <3>4 DEF RexIff
  <2>3. CASE ~(n.numCak > n.cakMX) /\ n.numCak # 1
    <3>1. m = n
      BY <2>3
    <3>2. PreAck(s) => AckOk(n)
      BY <1>0, <1>1, <1>4, <2>3 DEF PreAck, AckOk
    <3> HIDE DEF m
    <3> QED BY <1>1, <3>1, <3>2
  <2> QED BY <2>1, <2>2, <2>3
<1> HIDE DEF m
<1>6. RexIff(s) => RexIff(n)
  BY <1>1, <1>4 DEF RexIff
<1>7. CASE ~IsServer
  BY <1>1, <1>3, <1>5, <1>6, <1>7
<1>8. CASE IsServer
  <2> DEFINE r == arm(m, "NUL")
  <2>1. /\ Rest(r) = Rest(m) /\ Recv(r) = Recv(m) /\ r.state = m.state
        /\ r.unAckedSegs = m.unAckedSegs /\ r.numCak = m.numCak
        /\ r.armed = m.armed \cup {"NUL"}
    BY <1>5, TimerFields DEF Timer
  <2> HIDE DEF r
  <2>2. r.cakMX = m.cakMX /\ r.peerBSY = m.peerBSY
    BY <2>1, RestFields
  <2>3. AckOk(m) => AckOk(r)
    BY <2>1, <2>2 DEF AckOk
  <2>4. RexIff(m) => RexIff(r)
    BY <2>1, <2>2 DEF RexIff
  <2> QED BY <1>1, <1>3, <1>5, <1>6, <1>8, <2>1, <2>3, <2>4 DEF r
<1> QED BY <1>7, <1>8

\* processRetransmissionTimeout(): everything is sent again and the timer set, or
\* the connection is given up.
LEMMA RexTimeoutSteady ==
    ASSUME NEW s \in Endpoint
    PROVE  LET r == processRetransmissionTimeout(s)
           IN  /\ Rest(r) = Rest(s) /\ Recv(r) = Recv(s)
               /\ "NUL" \in s.armed => "NUL" \in r.armed
               /\ s.unAckedSegs # <<>> => r.unAckedSegs # <<>> /\ AckOk(r)
               /\ \/ /\ r.state = s.state
                     /\ s.unAckedSegs # <<>> =>
                          ("REX" \in r.armed <=> ("REX" \in s.armed \/ ~s.peerBSY))
                  \/ r.state = "CLOSED" /\ s.numRex + 1 > s.rexMX
               /\ s.numRex + 1 > s.rexMX => r.state = "CLOSED"
<1> DEFINE x == s.numRex + 1
           r == [s EXCEPT !.numRex = x]
           again == sendBuf(r, r.unAckedSegs)
           m == [i \in DOMAIN again.unAckedSegs |-> mark(r, again.unAckedSegs[i])]
           k == [again EXCEPT !.unAckedSegs = m]
           z == processRetransmissionTimeout(s)
<1>1. x \in Nat /\ s.rexMX \in Nat /\ s.cakMX \in Nat
  BY EventTypes
<1>2. /\ r \in Endpoint /\ r.numRex = x /\ Rest(r) = Rest(s) /\ Recv(r) = Recv(s)
      /\ r.state = s.state /\ r.unAckedSegs = s.unAckedSegs
      /\ r.armed = s.armed /\ r.numCak = s.numCak
  <2> HIDE DEF x
  <2> QED BY <1>1 DEF Rest, Recv, Endpoint
<1> HIDE DEF r
<1>3. r.rexMX = s.rexMX /\ r.peerBSY = s.peerBSY /\ r.cakMX = s.cakMX
  BY <1>2, RestFields
<1>4. again \in Endpoint /\ Replies(r, again)
  BY <1>2, UnackedLen, SendBufType, SendBufReplies
<1> HIDE DEF again
<1>5. CASE x > s.rexMX
  <2> DEFINE t == sendRST(r)
  <2>1. z = changeState(t, "CLOSED")
    <3>1. ~(r.numRex <= r.rexMX) /\ r.numRex > r.rexMX
      BY <1>1, <1>2, <1>3, <1>5
    <3> QED BY <3>1 DEF processRetransmissionTimeout, r
  <2>2. t \in Endpoint /\ Replies(r, t)
    BY <1>2, SendRSTType, SendReplies
  <2> HIDE DEF t, z
  <2>3. /\ Rest(t) = Rest(r) /\ Recv(t) = Recv(r) /\ AckOk(t)
        /\ "NUL" \in r.armed => "NUL" \in t.armed
    BY <1>1, <1>3, <2>2, SentSteady
  <2>4. /\ Rest(z) = Rest(t) /\ Recv(z) = Recv(t) /\ z.state = "CLOSED"
        /\ z.unAckedSegs = t.unAckedSegs /\ z.numCak = t.numCak /\ z.armed = t.armed
    BY <2>1, <2>2, ChangeStateRest
  <2>5. AckOk(z)
    BY <2>3, <2>4, RestFields DEF AckOk
  <2>6. t.unAckedSegs = r.unAckedSegs
    BY <2>2 DEF Replies
  <2> QED BY <1>2, <1>5, <2>3, <2>4, <2>5, <2>6 DEF z, x
<1>6. CASE ~(x > s.rexMX) /\ s.unAckedSegs = <<>>
  <2>1. z = r
    <3>1. r.numRex <= r.rexMX /\ ~(r.numRex > r.rexMX) /\ r.unAckedSegs = <<>>
      BY <1>1, <1>2, <1>3, <1>6
    <3> QED BY <3>1 DEF processRetransmissionTimeout, r
  <2> HIDE DEF z
  <2> QED BY <1>2, <1>6, <2>1 DEF z, x
<1>7. CASE ~(x > s.rexMX) /\ s.unAckedSegs # <<>>
  <2>1. z = armRexAndNulTimer(k)
    <3>1. r.numRex <= r.rexMX /\ ~(r.numRex > r.rexMX) /\ r.unAckedSegs # <<>>
      BY <1>1, <1>2, <1>3, <1>7
    <3> QED BY <3>1 DEF processRetransmissionTimeout, r, again, m, k
  <2>2. again.unAckedSegs \in Seq(Seg) /\ again.unAckedSegs # <<>>
    BY <1>2, <1>4, <1>7, UnackedLen DEF Replies
  <2>3. m \in Seq(Seg) /\ m # <<>>
    <3>1. m \in Seq(Seg)
      BY <1>2, <2>2, MapStampType
    <3>2. 1 \in DOMAIN m
      <4>1. 1 \in DOMAIN again.unAckedSegs
        BY <2>2, EmptySeq, LenProperties
      <4> QED BY <4>1
    <3> HIDE DEF m
    <3> QED BY <3>1, <3>2
  <2> HIDE DEF m
  <2>4. /\ k \in Endpoint /\ k.unAckedSegs = m
        /\ Rest(k) = Rest(again) /\ Recv(k) = Recv(again) /\ k.state = again.state
        /\ k.numCak = again.numCak /\ k.armed = again.armed
    <3>1. k \in Endpoint /\ k.unAckedSegs = m
      BY <1>4, <2>3, ZenonT(60) DEF Endpoint
    <3> QED BY <1>4, <3>1 DEF Rest, Recv, Endpoint
  <2> HIDE DEF k, z
  <2>5. /\ Rest(z) = Rest(k) /\ Recv(z) = Recv(k) /\ z.state = k.state
        /\ z.unAckedSegs = k.unAckedSegs /\ z.numCak = k.numCak
        /\ z.armed = k.armed \cup Rearmed(k)
    BY <2>1, <2>4, RearmFields
  <2>6. Rearmed(k) = Rearmed(s)
    BY <1>3, <1>4, <2>4, RestFields DEF Rearmed, Replies
  <2>7. Rest(z) = Rest(s) /\ Recv(z) = Recv(s) /\ z.state = s.state /\ z.unAckedSegs # <<>>
    BY <1>2, <1>4, <2>3, <2>4, <2>5 DEF Replies
  <2>8. z.armed = (s.armed \ {"ACK"}) \cup Rearmed(s) /\ z.numCak = 0
    BY <1>2, <1>4, <2>4, <2>5, <2>6 DEF Replies
  <2>9. z.cakMX = s.cakMX
    BY <2>7, RestFields
  <2>10. AckOk(z)
    BY <1>1, <2>8, <2>9 DEF AckOk, Rearmed
  <2>11. /\ "REX" \in z.armed <=> ("REX" \in s.armed \/ ~s.peerBSY)
         /\ "NUL" \in s.armed => "NUL" \in z.armed
    BY <2>8 DEF Rearmed
  <2> QED BY <1>7, <2>7, <2>10, <2>11 DEF z, x
<1> QED BY <1>5, <1>6, <1>7

\* processAckNumber(): the REX timer is cancelled with the last segment.
LEMMA AckNumberSteady ==
    ASSUME NEW s \in Endpoint, NEW g \in Seg
    PROVE  LET a == processAckNumber(s, g)
           IN  /\ Rest(a) = Rest(s) /\ Recv(a) = Recv(s) /\ a.state = s.state
               /\ a.numCak = s.numCak /\ a.armed \ {"REX"} = s.armed \ {"REX"}
               /\ RexIff(s) => RexIff(a)
<1> DEFINE cum  == Wrap(g.ack - s.oldestU + 1)
           n    == IF cum <= Len(s.unAckedSegs) THEN cum ELSE 0
           left == SubSeq(s.unAckedSegs, n + 1, Len(s.unAckedSegs))
           o    == Wrap(s.oldestU + n)
           x    == IF n > 0 \/ left = <<>> THEN 0 ELSE s.numRex
           r    == [s EXCEPT !.unAckedSegs = left, !.oldestU = o, !.numRex = x]
           a    == processAckNumber(s, g)
<1>1. /\ s.unAckedSegs \in Seq(Seg) /\ Len(s.unAckedSegs) \in Nat
      /\ s.oldestU \in SeqNo /\ s.oldestU \in Int /\ s.numRex \in Nat /\ g.ack \in Int
  BY UnackedLen, EventTypes, SeqNoInt DEF Seg
<1>2. n \in 0..Len(s.unAckedSegs) /\ n \in Int
  <2>1. cum \in SeqNo
    BY <1>1, WrapType
  <2> QED BY <1>1, <2>1, EndpointAssumption DEF SeqNo
<1> HIDE DEF n
<1>3. left \in Seq(Seg) /\ Len(left) = Len(s.unAckedSegs) - n
  BY <1>1, <1>2, SubSeqProperties
<1>4. s.unAckedSegs = <<>> => left = <<>>
  <2> HIDE DEF left
  <2> QED BY <1>1, <1>2, <1>3, EmptySeq
<1>5. o \in SeqNo /\ x \in Nat
  <2>1. s.oldestU + n \in Int
    BY <1>1, <1>2
  <2> QED BY <1>1, <2>1, WrapType
<1>6. /\ r \in Endpoint /\ Rest(r) = Rest(s) /\ Recv(r) = Recv(s) /\ r.state = s.state
      /\ r.numCak = s.numCak /\ r.armed = s.armed /\ r.unAckedSegs = left
  <2> HIDE DEF left, o, x
  <2> QED BY <1>3, <1>5 DEF Rest, Recv, Endpoint
<1> DEFINE c == cancel(r, "REX")
<1>7. a = s \/ (left = <<>> /\ a = c) \/ (left # <<>> /\ a = r)
  BY DEF processAckNumber, n
<1> HIDE DEF r, left, a
<1>8. /\ Rest(c) = Rest(r) /\ Recv(c) = Recv(r) /\ c.state = r.state /\ c.numCak = r.numCak
      /\ c.armed = r.armed \ {"REX"} /\ c.unAckedSegs = r.unAckedSegs
  BY <1>6, TimerFields DEF Timer
<1> HIDE DEF c
<1>9. r.peerBSY = s.peerBSY /\ c.peerBSY = s.peerBSY
  BY <1>6, <1>8, RestFields
<1>10. CASE a = s
  BY <1>10 DEF a
<1>11. CASE left = <<>> /\ a = c
  BY <1>6, <1>8, <1>9, <1>11 DEF RexIff, a
<1>12. CASE left # <<>> /\ a = r
  BY <1>4, <1>6, <1>9, <1>12 DEF RexIff, a
<1> QED BY <1>7, <1>10, <1>11, <1>12

\* store() changes the reassembly buffer only.
LEMMA StoreRest ==
    ASSUME NEW s \in Endpoint, NEW g
    PROVE  LET r == store(s, g)
           IN  /\ Rest(r) = Rest(s) /\ r.usrO = s.usrO /\ r.state = s.state
               /\ r.unAckedSegs = s.unAckedSegs /\ r.numCak = s.numCak /\ r.armed = s.armed
<1>1. \A u : LET r == [s EXCEPT !.unOrderedSegs = u]
             IN  /\ Rest(r) = Rest(s) /\ r.usrO = s.usrO /\ r.state = s.state
                 /\ r.unAckedSegs = s.unAckedSegs /\ r.numCak = s.numCak /\ r.armed = s.armed
  BY DEF Rest, Endpoint
<1> QED BY <1>1 DEF store

\* drainReassembleBuffer(): what it leaves at the head waits for the user.
LEMMA DrainSteady ==
    ASSUME NEW s \in Endpoint
    PROVE  LET r == drainReassembleBuffer(s)
           IN  /\ Rest(r) = Rest(s) /\ Out(r) /\ r.state = s.state
               /\ r.unAckedSegs = s.unAckedSegs /\ r.numCak = s.numCak /\ r.armed = s.armed
<1> DEFINE r == drainReassembleBuffer(s)
           k == Cardinality(drainable(s))
           b == [i \in 0..(MaxUnacked - 1) |->
                   IF i + k < MaxUnacked THEN s.unOrderedSegs[i + k] ELSE Empty]
           q == s.outQ \o payloads(s, {i \in drainable(s) : isData(s, i)})
           o == Wrap(s.oldestR + k)
           l == Wrap(o - 1)
           e == s.usrO \/ (k < MaxUnacked /\ s.unOrderedSegs[k] # Empty)
<1>1. r = [s EXCEPT !.outQ = q, !.unOrderedSegs = b, !.oldestR = o,
                    !.lastSeqRecv = l, !.usrO = e]
  BY DEF drainReassembleBuffer
<1>2. /\ Rest(r) = Rest(s) /\ r.state = s.state
      /\ r.unAckedSegs = s.unAckedSegs /\ r.numCak = s.numCak /\ r.armed = s.armed
      /\ r.unOrderedSegs = b
      /\ r.usrO = e
  <2> HIDE DEF r, q, b, o, l, e
  <2>1. /\ r.peerOssMX = s.peerOssMX /\ r.rexMX = s.rexMX /\ r.cakMX = s.cakMX
        /\ r.peerBSY = s.peerBSY /\ r.usrI = s.usrI /\ r.panic = s.panic /\ r.state = s.state
        /\ r.unAckedSegs = s.unAckedSegs /\ r.numCak = s.numCak /\ r.armed = s.armed
        /\ r.unOrderedSegs = b /\ r.usrO = e
    BY <1>1 DEF Endpoint
  <2> QED BY <2>1 DEF Rest
<1>3. k \in 0..MaxUnacked /\ MaxUnacked \in Nat /\ MaxUnacked >= 1
  BY DrainableType, EndpointAssumption DEF Pow2
<1>4. b[0] # Empty => k < MaxUnacked /\ s.unOrderedSegs[k] # Empty
  <2> HIDE DEF k
  <2> QED BY <1>3
<1> QED BY <1>2, <1>4 DEF Out

\* GaveIn(s, r): the retransmission was given up with segments outstanding.  That
\* this segment released some of them means that there is no retransmission.
GaveIn(s, r) ==
    /\ r.state = "CLOSED" /\ r.unAckedSegs # <<>>
    /\ Len(r.unAckedSegs) < Len(s.unAckedSegs) => s.rexMX = 0

\* What handleRxEvent() does with an accepted segment: it is acknowledged in time,
\* and the timers follow.
LEMMA AcceptSegmentSteady ==
    ASSUME NEW s \in Endpoint, NEW g \in Seg, NEW q, Window(s)
    PROVE  LET r == acceptSegment(q, s, g)
           IN  /\ r.usrI = s.usrI /\ r.panic = s.panic /\ r.rexMX = s.rexMX
               /\ r.peerOssMX = s.peerOssMX /\ r.cakMX = s.cakMX
               /\ PreAck(s) => AckOk(r)
               /\ "NUL" \in s.armed \/ (IsServer /\ ~s.peerBSY) => "NUL" \in r.armed
               /\ RexIff(s) => RexIff(r) \/ GaveIn(s, r)
               /\ q \notin Opened => r.usrO = s.usrO
               /\ ~(hasPayload(g) \/ "NUL" \in g.flags) => Recv(r) = Recv(s)
               /\ q \in Opened /\ Out(s) => Out(r)
<1> DEFINE a    == processAckNumber(s, g)
           has  == hasPayload(g) \/ "NUL" \in g.flags
           in   == has /\ canAccept(a, g.seq)
           d    == IF ~in THEN a
                   ELSE IF q \in Opened THEN drainReassembleBuffer(store(a, g)) ELSE store(a, g)
           busy == "BSY" \in g.flags
           c    == IF busy /\ ~d.peerBSY THEN cancel(d, "REX") ELSE d
           b    == [c EXCEPT !.peerBSY = busy]
           r    == acceptSegment(q, s, g)
<1>0. s.numCak \in Int /\ s.cakMX \in Nat /\ s.rexMX \in Nat /\ s.peerBSY \in BOOLEAN
  BY EventTypes
<1>1. /\ a \in Endpoint /\ Kept(s, a)
      /\ Rest(a) = Rest(s) /\ Recv(a) = Recv(s) /\ a.state = s.state
      /\ a.numCak = s.numCak /\ a.armed \ {"REX"} = s.armed \ {"REX"}
      /\ RexIff(s) => RexIff(a)
      /\ Len(a.unAckedSegs) = Len(s.unAckedSegs) \/ a.numRex = 0
  BY AckNumberType, AckNumberSteady, AckNumberKept, AckNumberTidy
<1>2. /\ d \in Endpoint /\ Kept(a, d) /\ Rest(d) = Rest(a) /\ d.state = a.state
      /\ d.unAckedSegs = a.unAckedSegs /\ d.numRex = a.numRex
      /\ d.numCak = a.numCak /\ d.armed = a.armed
      /\ q \notin Opened => d.usrO = a.usrO
      /\ ~has => Recv(d) = Recv(a)
      /\ q \in Opened /\ Out(a) => Out(d)
  <2> HIDE DEF a
  <2> DEFINE t == store(a, g)
             e == drainReassembleBuffer(t)
  <2>1. CASE ~in
    <3>1. d = a /\ Kept(a, a)
      BY <1>1, <2>1, CoreKept
    <3> QED BY <1>1, <3>1
  <2>2. ASSUME in
        PROVE  /\ t \in Endpoint /\ Core(t) = Core(a) /\ Rest(t) = Rest(a)
               /\ t.usrO = a.usrO /\ t.state = a.state
               /\ t.unAckedSegs = a.unAckedSegs /\ t.numCak = a.numCak /\ t.armed = a.armed
    BY <1>1, <2>2, StoreType, StoreCore, StoreRest
  <2>3. ASSUME in PROVE Kept(a, t) /\ t.numRex = a.numRex
    <3> HIDE DEF t
    <3> QED BY <1>1, <2>2, <2>3, CoreKept, CoreFields
  <2>4. CASE in /\ q \notin Opened
    <3>1. d = t
      BY <2>4
    <3> HIDE DEF t, d
    <3> QED BY <2>2, <2>3, <2>4, <3>1
  <2>5. CASE in /\ q \in Opened
    <3>1. d = e
      BY <2>5
    <3>2. t \in Endpoint
      BY <2>2, <2>5
    <3> HIDE DEF t
    <3>3. /\ e \in Endpoint /\ Kept(t, e) /\ Rest(e) = Rest(t) /\ Out(e) /\ e.state = t.state
          /\ e.unAckedSegs = t.unAckedSegs /\ e.numCak = t.numCak /\ e.armed = t.armed
          /\ e.numRex = t.numRex
      BY <3>2, DrainType, DrainKept, DrainSteady, DrainTidy
    <3> HIDE DEF e, d
    <3>4. Kept(a, e)
      BY <1>1, <2>3, <2>5, <3>2, <3>3, KeptTrans
    <3> QED BY <2>2, <2>3, <2>5, <3>1, <3>3, <3>4
  <2> QED BY <2>1, <2>4, <2>5
<1> HIDE DEF a, d
<1>3. d.peerBSY = s.peerBSY /\ d.usrI = s.usrI /\ d.panic = s.panic /\ d.rexMX = s.rexMX
      /\ d.peerOssMX = s.peerOssMX /\ d.cakMX = s.cakMX
  BY <1>1, <1>2, RestFields
<1>4. RexIff(s) => RexIff(d)
  <2>1. d.peerBSY = a.peerBSY
    BY <1>2, RestFields
  <2> QED BY <1>1, <1>2, <2>1 DEF RexIff
<1>5. /\ c \in Endpoint /\ Core(c) = Core(d) /\ Rest(c) = Rest(d) /\ Recv(c) = Recv(d)
      /\ c.state = d.state /\ c.unAckedSegs = d.unAckedSegs /\ c.numCak = d.numCak
      /\ c.armed = IF busy /\ ~d.peerBSY THEN d.armed \ {"REX"} ELSE d.armed
  BY <1>2, CancelType, TimerCore, TimerFields DEF Timer
<1> HIDE DEF c
<1>6. /\ b \in Endpoint /\ Core(b) = Core(c) /\ Recv(b) = Recv(c) /\ b.peerBSY = busy
      /\ b.usrI = c.usrI /\ b.panic = c.panic /\ b.rexMX = c.rexMX
      /\ b.peerOssMX = c.peerOssMX /\ b.cakMX = c.cakMX
      /\ b.state = c.state /\ b.unAckedSegs = c.unAckedSegs
      /\ b.numCak = c.numCak /\ b.armed = c.armed
  <2>1. busy \in BOOLEAN
    OBVIOUS
  <2> HIDE DEF busy
  <2>2. b \in Endpoint
    BY <1>5, <2>1, ZenonT(60) DEF Endpoint
  <2>3. Core(b) = Core(c)
    BY <1>5, MinorCore
  <2>4. /\ b.peerBSY = busy /\ b.usrI = c.usrI /\ b.panic = c.panic /\ b.rexMX = c.rexMX
        /\ b.peerOssMX = c.peerOssMX /\ b.cakMX = c.cakMX
        /\ b.state = c.state /\ b.unAckedSegs = c.unAckedSegs
        /\ b.numCak = c.numCak /\ b.armed = c.armed
        /\ Recv(b) = Recv(c)
    BY <1>5 DEF Recv, Endpoint
  <2> QED BY <2>2, <2>3, <2>4
<1>7. r = IF d.peerBSY /\ ~busy /\ b.unAckedSegs # <<>>
          THEN processRetransmissionTimeout(b) ELSE countAndAck(q, b)
  BY DEF acceptSegment, d, a, c
<1> HIDE DEF b, r
\* The sums of the steps so far.
<1>8. /\ b.usrI = s.usrI /\ b.panic = s.panic /\ b.rexMX = s.rexMX
      /\ b.peerOssMX = s.peerOssMX /\ b.cakMX = s.cakMX
      /\ b.numCak = s.numCak /\ b.armed \ {"REX"} = s.armed \ {"REX"}
      /\ b.unAckedSegs = a.unAckedSegs /\ b.numRex = a.numRex
      /\ b.unAckedSegs = d.unAckedSegs
  <2>1. /\ c.usrI = d.usrI /\ c.panic = d.panic /\ c.rexMX = d.rexMX
        /\ c.peerOssMX = d.peerOssMX /\ c.cakMX = d.cakMX
    BY <1>5, RestFields
  <2>2. b.numRex = d.numRex
    BY <1>5, <1>6, CoreFields
  <2> QED BY <1>1, <1>2, <1>3, <1>5, <1>6, <2>1, <2>2
<1>9. Window(b)
  <2>1. Core(b) = Core(d)
    BY <1>5, <1>6
  <2>2. Kept(s, d) /\ Kept(d, b)
    BY <1>1, <1>2, <1>6, <2>1, KeptTrans, CoreKept
  <2> QED BY <1>2, <1>6, <2>2, UnackedLen DEF Kept, Window
<1>10. PreAck(s) => PreAck(b)
  <2>1. "ACK" \in b.armed <=> "ACK" \in s.armed
    BY <1>8
  <2> QED BY <1>8, <2>1 DEF PreAck
<1>11. "NUL" \in b.armed <=> "NUL" \in s.armed
  BY <1>8
<1>12. /\ q \notin Opened => b.usrO = s.usrO
       /\ ~has => Recv(b) = Recv(s)
       /\ q \in Opened /\ Out(s) => Out(b)
  <2>1. Recv(b) = Recv(d)
    BY <1>5, <1>6
  <2>2. /\ b.usrO = d.usrO /\ b.unOrderedSegs = d.unOrderedSegs
        /\ a.usrO = s.usrO /\ a.unOrderedSegs = s.unOrderedSegs
    BY <1>1, <2>1, RestFields
  <2> QED BY <1>1, <1>2, <2>1, <2>2 DEF Out
<1>13. CASE d.peerBSY /\ ~busy /\ b.unAckedSegs # <<>>
  <2>1. r = processRetransmissionTimeout(b)
    BY <1>7, <1>13
  <2>2. /\ Rest(r) = Rest(b) /\ Recv(r) = Recv(b)
        /\ "NUL" \in b.armed => "NUL" \in r.armed
        /\ r.unAckedSegs # <<>> /\ AckOk(r)
        /\ \/ r.state = b.state /\ ("REX" \in r.armed <=> ("REX" \in b.armed \/ ~b.peerBSY))
           \/ r.state = "CLOSED" /\ b.numRex + 1 > b.rexMX
        /\ Len(r.unAckedSegs) = Len(b.unAckedSegs)
    BY <1>6, <1>13, <2>1, RexTimeoutSteady, RexTimeoutTidy
  <2>3. /\ r.usrI = b.usrI /\ r.panic = b.panic /\ r.rexMX = b.rexMX
        /\ r.peerOssMX = b.peerOssMX /\ r.cakMX = b.cakMX /\ r.peerBSY = b.peerBSY
        /\ r.usrO = b.usrO /\ r.unOrderedSegs = b.unOrderedSegs
    BY <2>2, RestFields
  <2>4. RexIff(r) \/ GaveIn(s, r)
    <3>1. CASE "REX" \in r.armed <=> ("REX" \in b.armed \/ ~b.peerBSY)
      BY <1>6, <1>13, <2>2, <2>3, <3>1 DEF RexIff
    <3>2. CASE r.state = "CLOSED" /\ b.numRex + 1 > b.rexMX
      <4>1. b.numRex \in Nat /\ Len(s.unAckedSegs) \in Nat /\ Len(r.unAckedSegs) = Len(a.unAckedSegs)
        BY <1>6, <1>8, <2>2, EventTypes, UnackedLen
      <4>2. Len(r.unAckedSegs) < Len(s.unAckedSegs) => b.numRex = 0
        <5>1. Len(r.unAckedSegs) = Len(s.unAckedSegs) \/ b.numRex = 0
          BY <1>1, <1>8, <4>1
        <5>2. ~(Len(s.unAckedSegs) < Len(s.unAckedSegs))
          BY <4>1
        <5> QED BY <5>1, <5>2
      <4>3. Len(r.unAckedSegs) < Len(s.unAckedSegs) => s.rexMX = 0
        BY <1>0, <1>8, <3>2, <4>2
      <4> QED BY <2>2, <3>2, <4>3 DEF GaveIn
    <3> QED BY <2>2, <3>1, <3>2
  <2>5. d.peerBSY = TRUE /\ s.peerBSY
    BY <1>0, <1>3, <1>13
  <2>6. Out(b) => Out(r)
    BY <2>3 DEF Out
  <2> QED BY <1>8, <1>11, <1>12, <2>2, <2>3, <2>4, <2>5, <2>6 DEF r
<1>14. CASE ~(d.peerBSY /\ ~busy /\ b.unAckedSegs # <<>>)
  <2>1. r = countAndAck(q, b)
    BY <1>7, <1>14
  <2>2. /\ Rest(r) = Rest(b) /\ Recv(r) = Recv(b)
        /\ PreAck(b) => AckOk(r)
        /\ RexIff(b) => RexIff(r)
        /\ "NUL" \in b.armed \/ IsServer => "NUL" \in r.armed
    BY <1>6, <1>9, <2>1, CountAndAckSteady
  <2>3. /\ r.usrI = b.usrI /\ r.panic = b.panic /\ r.rexMX = b.rexMX
        /\ r.peerOssMX = b.peerOssMX /\ r.cakMX = b.cakMX
        /\ r.usrO = b.usrO /\ r.unOrderedSegs = b.unOrderedSegs
    BY <2>2, RestFields
  <2>4. RexIff(d) => RexIff(b)
    <3>1. d.peerBSY \in BOOLEAN
      BY <1>2, EventTypes
    <3>2. b.armed = IF busy /\ ~d.peerBSY THEN d.armed \ {"REX"} ELSE d.armed
      BY <1>5, <1>6
    <3>3. CASE busy
      BY <1>6, <1>8, <3>1, <3>2, <3>3 DEF RexIff
    <3>4. CASE ~busy
      BY <1>6, <1>8, <1>14, <3>1, <3>2, <3>4 DEF RexIff
    <3> QED BY <3>3, <3>4
  <2>5. Out(b) => Out(r)
    BY <2>3 DEF Out
  <2> QED BY <1>4, <1>8, <1>10, <1>11, <1>12, <2>2, <2>3, <2>4, <2>5 DEF r
<1> QED BY <1>13, <1>14

-----------------------------------------------------------------------------
(* The inductive invariant.                                                *)

\* States in which the thread waits for a connection to be made.
Handshake == {"LISTEN", "CLNT_WAIT_SYN_ACK", "SERV_WAIT_SYN_ACK"}

\* The timers of a connection.  Without retransmission (a limit of 0) the handler
\* of OPEN_OUTWIN_FULL may take a connection for open that was given up.
Timed(s) ==
    s.panic = "none" /\ s.state \in InConn =>
        /\ "NUL" \in s.armed
        /\ (s.state \in Opened => s.rexMX >= 1) => RexIff(s)

\* What was received is acknowledged, or will be.
Counted(s) == s.panic = "none" /\ s.state \in InConn => AckOk(s)

\* The read event of inpQ is enabled in OPEN, and in no other state that waits.
Fed(s) ==
    /\ s.state = "OPEN" => s.usrI
    /\ s.state = "OPEN_OUTWIN_FULL" => ~s.usrI /\ ~windowOpen(s)
    /\ s.state \in Handshake \cup {"PREP_OPEN", "CLOSED_SLEEP"} => ~s.usrI

\* The write event of outQ is enabled while something waits for it, and never
\* before the connection is open; a client stores nothing before that.
Drained(s) ==
    /\ s.state \in Opened /\ ~IsServer => Out(s)
    /\ s.state \in {"CLOSED_SLEEP", "CLNT_WAIT_SYN_ACK", "PREP_OPEN"} /\ ~IsServer =>
         s.unOrderedSegs[0] = Empty
    /\ s.state \in Handshake \cup {"CLOSED_SLEEP"} => ~s.usrO

\* The thread has died of nothing but a timeout during the handshake.
Alive(s) ==
    s.panic # "none" =>
        /\ s.panic \in {"ACKTimeout", "NULTimeout"}
        /\ s.state \in {"SERV_WAIT_SYN_ACK", "CLNT_WAIT_SYN_ACK"}

\* Nothing is left of the last connection when the next one is waited for.
Idle(s) ==
    s.state \in {"LISTEN", "CLOSED_SLEEP"} => s.armed = {} /\ s.numCak = 0 /\ s.peerBSY = FALSE

\* Which of the states a server and a client go through.
Role(s) ==
    /\ s.state \in {"LISTEN", "SERV_WAIT_SYN_ACK"} => IsServer
    /\ s.state \in {"CLOSED_SLEEP", "CLNT_WAIT_SYN_ACK"} => ~IsServer

Steady(s) ==
    Timed(s) /\ Counted(s) /\ Fed(s) /\ Drained(s) /\ Alive(s) /\ Idle(s) /\ Role(s)

\* A closed connection owes nothing.
LEMMA ClosedSteady ==
    ASSUME NEW s, s.state = "CLOSED", s.panic = "none"
    PROVE  Steady(s)
BY DEF Steady, Timed, Counted, Fed, Drained, Alive, Idle, Role, InConn, Handshake, Opened

\* What the thread has while it waits in a connection.
LEMMA SteadyConn ==
    ASSUME NEW s, Steady(s), s.panic = "none", s.state \in InConn
    PROVE  /\ "NUL" \in s.armed /\ AckOk(s)
           /\ (s.state \in Opened => s.rexMX >= 1) => RexIff(s)
BY DEF Steady, Timed, Counted

-----------------------------------------------------------------------------
(* The verdicts of handleSYN() and handleOTH().                            *)

\* The parameters of a SYN do not touch the timers or the events.
LEMMA ParamsRest ==
    ASSUME NEW s \in Endpoint, NEW par
    PROVE  LET r == extractConnectionParams(s, par)
           IN  /\ r.state = s.state /\ r.armed = s.armed /\ r.numCak = s.numCak
               /\ r.unAckedSegs = s.unAckedSegs /\ r.peerBSY = s.peerBSY
               /\ r.usrI = s.usrI /\ r.panic = s.panic /\ Recv(r) = Recv(s)
<1> DEFINE a == IF par.ossMX > s.capa THEN RingCapa(par.ossMX) ELSE s.capa
           b == IF IsServer THEN s.rexMX ELSE par.rexMX
           c == IF IsServer THEN s.cakMX ELSE par.cakMX
           p == par.ossMX
           r == [s EXCEPT !.peerOssMX = p, !.capa = a, !.rexMX = b, !.cakMX = c]
<1>1. extractConnectionParams(s, par) = r
  BY DEF extractConnectionParams
<1>2. /\ r.state = s.state /\ r.armed = s.armed /\ r.numCak = s.numCak
      /\ r.unAckedSegs = s.unAckedSegs /\ r.peerBSY = s.peerBSY
      /\ r.usrI = s.usrI /\ r.panic = s.panic
      /\ r.usrO = s.usrO /\ r.unOrderedSegs = s.unOrderedSegs
  <2> HIDE DEF a, b, c, p
  <2> QED BY DEF Endpoint
<1> HIDE DEF r
<1> QED BY <1>1, <1>2 DEF Recv

\* Neither does the number a SYN starts with.
LEMMA SeedFields ==
    ASSUME NEW s \in Endpoint, NEW n
    PROVE  LET r == seedRecv(s, n)
           IN  /\ Rest(r) = Rest(s) /\ Recv(r) = Recv(s)
               /\ r.state = s.state /\ r.armed = s.armed /\ r.numCak = s.numCak
               /\ r.unAckedSegs = s.unAckedSegs
BY DEF seedRecv, Rest, Recv, Endpoint

\* The count is all that changes here.
LEMMA NumCakFields ==
    ASSUME NEW s \in Endpoint, NEW n
    PROVE  LET r == [s EXCEPT !.numCak = n]
           IN  /\ Rest(r) = Rest(s) /\ Recv(r) = Recv(s) /\ r.numCak = n
               /\ r.state = s.state /\ r.armed = s.armed /\ r.unAckedSegs = s.unAckedSegs
BY DEF Rest, Recv, Endpoint

\* In a connection, and in SERV_WAIT_SYN_ACK: a SYN is answered, an RST closes,
\* a pure ACK is not counted.
LEMMA ConnVerdict ==
    ASSUME NEW s \in Endpoint, NEW g \in Seg, NEW isn \in SeqNo, AckOk(s),
           s.state \in {"SERV_WAIT_SYN_ACK"} \cup Opened,
           NEW v, v = IF "SYN" \in g.flags THEN handleSYN(s, g, isn) ELSE handleOTH(s, g)
    PROVE  /\ Rest(v.ep) = Rest(s) /\ Recv(v.ep) = Recv(s)
           /\ v.ep.armed = s.armed /\ v.ep.unAckedSegs = s.unAckedSegs
           /\ v.ep.state \in {s.state, "CLOSED"}
           /\ v.ok => PreAck(v.ep)
           /\ ~v.ok => v.ep = s
<1>0. s.state \notin {"LISTEN", "CLNT_WAIT_SYN_ACK"} /\ s.numCak \in Int /\ s.cakMX \in Nat
  BY EventTypes DEF Opened
<1> DEFINE f == [s EXCEPT !.numCak = s.cakMX]
           l == [s EXCEPT !.numCak = s.numCak - 1]
           c == changeState(s, "CLOSED")
<1>1. v \in {Accept(f), Accept(l), Accept(c), Accept(s), Reject(s)}
  <2>1. CASE "SYN" \in g.flags
    BY <1>0, <2>1 DEF handleSYN, forceACK
  <2>2. CASE "SYN" \notin g.flags
    <3>1. v = CASE isPureAck(g) /\ ~hasPayload(g) -> Accept(l)
                [] "NUL" \in g.flags -> IF IsServer /\ ~hasPayload(g) THEN Accept(f) ELSE Reject(s)
                [] "RST" \in g.flags /\ "NUL" \notin g.flags -> Accept(c)
                [] OTHER -> IF hasPayload(g) THEN Accept(s) ELSE Reject(s)
      BY <1>0, <2>2 DEF handleOTH, forceACK
    <3> HIDE DEF f, l, c
    <3> QED BY <3>1
  <2> QED BY <2>1, <2>2
<1>2. /\ Rest(f) = Rest(s) /\ Recv(f) = Recv(s) /\ f.numCak = s.cakMX
      /\ f.state = s.state /\ f.armed = s.armed /\ f.unAckedSegs = s.unAckedSegs
  BY NumCakFields
<1>3. /\ Rest(l) = Rest(s) /\ Recv(l) = Recv(s) /\ l.numCak = s.numCak - 1
      /\ l.state = s.state /\ l.armed = s.armed /\ l.unAckedSegs = s.unAckedSegs
  BY NumCakFields
<1>4. /\ Rest(c) = Rest(s) /\ Recv(c) = Recv(s) /\ c.numCak = s.numCak
      /\ c.state = "CLOSED" /\ c.armed = s.armed /\ c.unAckedSegs = s.unAckedSegs
  BY ChangeStateRest
<1> HIDE DEF f, l, c
<1>5. f.cakMX = s.cakMX /\ l.cakMX = s.cakMX /\ c.cakMX = s.cakMX
  BY <1>2, <1>3, <1>4, RestFields
<1>6. PreAck(f) /\ PreAck(l) /\ PreAck(c) /\ PreAck(s)
  <2>1. PreAck(f)
    BY <1>2, <1>5 DEF PreAck
  <2>2. s.numCak \in 0..s.cakMX /\ (s.numCak > 0 <=> "ACK" \in s.armed)
    BY DEF AckOk
  <2>3. PreAck(s) /\ PreAck(c)
    BY <1>0, <1>4, <1>5, <2>2 DEF PreAck
  <2>4. PreAck(l)
    BY <1>0, <1>3, <1>5, <2>2 DEF PreAck
  <2> QED BY <2>1, <2>3, <2>4
<1>7. (v.ok = TRUE /\ v.ep \in {f, l, c, s}) \/ (v.ok = FALSE /\ v.ep = s)
  BY <1>1, Verdict
<1> QED BY <1>2, <1>3, <1>4, <1>6, <1>7

\* LISTEN: a SYN is answered with a SYN, and the timers of the new connection run.
LEMMA ListenVerdict ==
    ASSUME NEW s \in Endpoint, NEW g \in Seg, NEW isn \in SeqNo, Shape(s), Idle(s),
           s.state = "LISTEN", "SYN" \in g.flags, g.par \in Par
    PROVE  LET v == handleSYN(s, g, isn)
           IN  /\ v.ok /\ v.ep.state = "SERV_WAIT_SYN_ACK"
               /\ PreAck(v.ep) /\ RexIff(v.ep) /\ v.ep.peerBSY = FALSE
               /\ v.ep.usrI = s.usrI /\ v.ep.usrO = s.usrO /\ v.ep.panic = s.panic
<1> DEFINE e == extractConnectionParams(s, g.par)
           r == seedRecv(e, g.seq)
           y == sendSYN(r, TRUE, isn)
           m == y.numCak - 1
           l == [y EXCEPT !.numCak = m]
           w == changeState(l, "SERV_WAIT_SYN_ACK")
<1>1. handleSYN(s, g, isn) = Accept(w)
  BY DEF handleSYN
<1>2. /\ e \in Endpoint /\ Shape(e) /\ e.armed = {} /\ e.unAckedSegs = s.unAckedSegs
      /\ e.peerBSY = FALSE /\ e.usrI = s.usrI /\ e.panic = s.panic /\ Recv(e) = Recv(s)
  <2>1. Len(s.unAckedSegs) <= 1
    BY DEF Shape
  <2>2. e \in Endpoint /\ Shape(e)
    BY <2>1, ParamsType, ParamsShape
  <2>3. s.armed = {} /\ s.peerBSY = FALSE
    BY DEF Idle
  <2>4. /\ e.armed = s.armed /\ e.unAckedSegs = s.unAckedSegs /\ e.peerBSY = s.peerBSY
        /\ e.usrI = s.usrI /\ e.panic = s.panic /\ Recv(e) = Recv(s)
    BY ParamsRest
  <2> HIDE DEF e
  <2> QED BY <2>2, <2>3, <2>4
<1> HIDE DEF e
<1>3. /\ r \in Endpoint /\ Rest(r) = Rest(e) /\ Recv(r) = Recv(e) /\ r.armed = e.armed
      /\ r.unAckedSegs = e.unAckedSegs /\ Kept(e, r)
  BY <1>2, SeedRecvType, SeedFields, SeedRecvKept DEF Seg
<1> HIDE DEF r
<1>4. Window(r) /\ Len(r.unAckedSegs) = 0
  <2>1. Shape(r)
    BY <1>2, <1>3, KeptShape
  <2> QED BY <1>2, <1>3, <2>1 DEF Shape
<1>5. y \in Endpoint /\ Pushes(r, y)
  BY <1>3, <1>4, SendSYNType, SendSYNPushes
<1> HIDE DEF y
<1>6. /\ Rest(y) = Rest(e) /\ Recv(y) = Recv(e) /\ y.numCak = 0 /\ y.unAckedSegs # <<>>
      /\ y.armed = Rearmed(r)
  BY <1>2, <1>3, <1>5 DEF Pushes
<1>7. /\ l \in Endpoint /\ Rest(l) = Rest(y) /\ Recv(l) = Recv(y) /\ l.numCak = -1
      /\ l.armed = y.armed /\ l.unAckedSegs = y.unAckedSegs
  <2>1. l \in Endpoint
    BY <1>5, NumCakType
  <2>2. m = -1
    BY <1>6
  <2> HIDE DEF m
  <2> QED BY <1>5, <2>1, <2>2, NumCakFields
<1> HIDE DEF l
<1>8. /\ Rest(w) = Rest(l) /\ Recv(w) = Recv(l) /\ w.numCak = l.numCak
      /\ w.state = "SERV_WAIT_SYN_ACK" /\ w.armed = l.armed /\ w.unAckedSegs = l.unAckedSegs
  BY <1>7, ChangeStateRest
<1> HIDE DEF w
<1>9. /\ w.peerBSY = FALSE /\ w.usrI = s.usrI /\ w.panic = s.panic /\ w.usrO = s.usrO
      /\ r.peerBSY = FALSE /\ w.cakMX = y.cakMX /\ y.cakMX \in Nat
  BY <1>2, <1>3, <1>5, <1>6, <1>7, <1>8, RestFields, EventTypes
<1>10. "ACK" \notin w.armed /\ "REX" \in w.armed
  BY <1>6, <1>7, <1>8, <1>9 DEF Rearmed
<1>11. PreAck(w) /\ RexIff(w)
  BY <1>6, <1>7, <1>8, <1>9, <1>10 DEF PreAck, RexIff
<1>12. handleSYN(s, g, isn).ok = TRUE /\ handleSYN(s, g, isn).ep = w
  BY <1>1, Verdict
<1> QED BY <1>8, <1>9, <1>11, <1>12

\* CLNT_WAIT_SYN_ACK: a SYN with an ACK is acknowledged at once.
LEMMA ClientVerdict ==
    ASSUME NEW s \in Endpoint, NEW g \in Seg, NEW isn \in SeqNo,
           s.state = "CLNT_WAIT_SYN_ACK", "SYN" \in g.flags, g.par \in Par
    PROVE  LET v == handleSYN(s, g, isn)
           IN  /\ v.ep.panic = s.panic
               /\ ~v.ok => v.ep.state = "CLOSED"
               /\ v.ok => /\ PreAck(v.ep) /\ v.ep.armed = s.armed
                          /\ v.ep.unAckedSegs = s.unAckedSegs /\ v.ep.peerBSY = s.peerBSY
                          /\ v.ep.usrI = s.usrI /\ Recv(v.ep) = Recv(s)
                          /\ v.ep.state \in {"CLNT_WAIT_SYN_ACK", "PREP_OPEN"}
<1> DEFINE e == extractConnectionParams(s, g.par)
           r == seedRecv(e, g.seq)
           f == forceACK(r)
           t == sendRST(e)
           w == changeState(f, "PREP_OPEN")
           z == changeState(t, "CLOSED")
<1>1. handleSYN(s, g, isn) \in {Reject(z), Accept(w), Accept(f)}
  BY DEF handleSYN
<1>2. /\ e \in Endpoint /\ e.armed = s.armed /\ e.unAckedSegs = s.unAckedSegs
      /\ e.state = s.state
      /\ e.peerBSY = s.peerBSY /\ e.usrI = s.usrI /\ e.panic = s.panic /\ Recv(e) = Recv(s)
  <2>1. e \in Endpoint
    BY ParamsType
  <2> QED BY <2>1, ParamsRest
<1> HIDE DEF e
<1>3. /\ r \in Endpoint /\ Rest(r) = Rest(e) /\ Recv(r) = Recv(e) /\ r.armed = e.armed
      /\ r.unAckedSegs = e.unAckedSegs /\ r.state = e.state
  BY <1>2, SeedRecvType, SeedFields DEF Seg
<1> HIDE DEF r
<1>4. /\ f \in Endpoint /\ Rest(f) = Rest(r) /\ Recv(f) = Recv(r) /\ f.armed = r.armed
      /\ f.unAckedSegs = r.unAckedSegs /\ f.state = r.state /\ f.numCak = r.cakMX
  BY <1>3, NumCakType, NumCakFields DEF forceACK
<1> HIDE DEF f
<1>5. /\ Rest(w) = Rest(f) /\ Recv(w) = Recv(f) /\ w.numCak = f.numCak
      /\ w.state = "PREP_OPEN" /\ w.armed = f.armed /\ w.unAckedSegs = f.unAckedSegs
  BY <1>4, ChangeStateRest
<1>6. t \in Endpoint /\ Rest(t) = Rest(e)
  BY <1>2, SendRSTType, SendReplies DEF Replies
<1> HIDE DEF t
<1>7. Rest(z) = Rest(t) /\ z.state = "CLOSED"
  BY <1>6, ChangeStateRest
<1> HIDE DEF w, z
<1>8. /\ f.cakMX = r.cakMX /\ w.cakMX = r.cakMX /\ f.panic = s.panic /\ w.panic = s.panic
      /\ f.peerBSY = s.peerBSY /\ w.peerBSY = s.peerBSY /\ f.usrI = s.usrI /\ w.usrI = s.usrI
      /\ z.panic = s.panic
  BY <1>2, <1>3, <1>4, <1>5, <1>6, <1>7, RestFields
<1>9. PreAck(f) /\ PreAck(w)
  BY <1>4, <1>5, <1>8 DEF PreAck
<1> DEFINE v == handleSYN(s, g, isn)
<1>10. (v.ok = FALSE /\ v.ep = z) \/ (v.ok = TRUE /\ v.ep \in {w, f})
  BY <1>1, Verdict
<1> HIDE DEF v
<1>11. CASE v.ok = FALSE /\ v.ep = z
  BY <1>7, <1>8, <1>11 DEF v
<1>12. CASE v.ok = TRUE /\ v.ep \in {w, f}
  BY <1>2, <1>3, <1>4, <1>5, <1>8, <1>9, <1>12 DEF v
<1> QED BY <1>10, <1>11, <1>12

\* Before a connection: anything but a SYN is ignored, or resets.
LEMMA WaitVerdict ==
    ASSUME NEW s \in Endpoint, NEW g \in Seg, s.state \in {"LISTEN", "CLNT_WAIT_SYN_ACK"}
    PROVE  LET v == handleOTH(s, g)
           IN  \/ ~v.ok /\ v.ep = s
               \/ v.ok /\ v.ep.state = "CLOSED" /\ v.ep.panic = s.panic
<1> DEFINE t == sendRST(s)
           z == changeState(t, "CLOSED")
<1>1. handleOTH(s, g) \in {Accept(z), Reject(s)}
  BY DEF handleOTH
<1>2. t \in Endpoint /\ Rest(t) = Rest(s)
  BY SendRSTType, SendReplies DEF Replies
<1> HIDE DEF t
<1>3. Rest(z) = Rest(t) /\ z.state = "CLOSED"
  BY <1>2, ChangeStateRest
<1> HIDE DEF z
<1>4. z.panic = s.panic
  BY <1>2, <1>3, RestFields
<1> QED BY <1>1, <1>3, <1>4, Verdict

-----------------------------------------------------------------------------
(* The handlers preserve the invariant.                                    *)

\* What the invariant asks for in each state of a connection.
LEMMA SteadyIn ==
    ASSUME NEW z, z.panic = "none", "NUL" \in z.armed, AckOk(z)
    PROVE  /\ /\ z.state = "OPEN" /\ z.usrI /\ (z.rexMX >= 1 => RexIff(z))
              /\ ~IsServer => Out(z)
              => Steady(z)
           /\ /\ z.state = "OPEN_OUTWIN_FULL" /\ ~z.usrI /\ ~windowOpen(z)
              /\ z.rexMX >= 1 => RexIff(z)
              /\ ~IsServer => Out(z)
              => Steady(z)
           /\ /\ z.state = "SERV_WAIT_SYN_ACK" /\ IsServer /\ ~z.usrI /\ ~z.usrO /\ RexIff(z)
              => Steady(z)
           /\ /\ z.state = "CLNT_WAIT_SYN_ACK" /\ ~IsServer /\ ~z.usrI /\ ~z.usrO /\ RexIff(z)
              /\ z.unOrderedSegs[0] = Empty
              => Steady(z)
           /\ /\ z.state = "PREP_OPEN" /\ ~z.usrI /\ RexIff(z)
              /\ ~IsServer => z.unOrderedSegs[0] = Empty
              => Steady(z)
BY DEF Steady, Timed, Counted, Fed, Drained, Alive, Idle, Role, InConn, Handshake, Opened

\* handleRxEvent() in LISTEN.
LEMMA ListenSteady ==
    ASSUME NEW s \in Endpoint, NEW g \in Seg, NEW isn \in SeqNo, Shape(s), Steady(s),
           "SYN" \in g.flags => g.par \in Par,
           s.panic = "none", s.state = "LISTEN"
    PROVE  Steady(handleRxEvent(s, g, isn))
<1> DEFINE v == IF "SYN" \in g.flags THEN handleSYN(s, g, isn) ELSE handleOTH(s, g)
           w == v.ep
           r == acceptSegment("LISTEN", w, g)
<1>1. handleRxEvent(s, g, isn) = IF v.ok THEN r ELSE w
  BY DEF handleRxEvent, notClosedRx
<1>2. w \in Endpoint /\ Shape(w)
  <2>1. CASE "SYN" \in g.flags
    BY <2>1, HandleSYNType, HandleSYNShape
  <2>2. CASE "SYN" \notin g.flags
    BY <2>2, HandleOTHType, HandleOTHShape
  <2> QED BY <2>1, <2>2
<1> HIDE DEF w
<1>3. r.state \in {w.state, "CLOSED"}
  BY <1>2, AcceptSegmentShape DEF Opened
<1>4. /\ r.usrI = w.usrI /\ r.panic = w.panic /\ r.usrO = w.usrO
      /\ PreAck(w) => AckOk(r)
      /\ "NUL" \in w.armed \/ (IsServer /\ ~w.peerBSY) => "NUL" \in r.armed
      /\ RexIff(w) => RexIff(r) \/ GaveIn(w, r)
  BY <1>2, AcceptSegmentSteady DEF Shape, Opened
<1> HIDE DEF r
<1>5. Idle(s) /\ IsServer /\ ~s.usrI /\ ~s.usrO
  BY DEF Steady, Idle, Role, Fed, Drained, Handshake
<1>6. CASE "SYN" \in g.flags
  <2>1. /\ v.ok /\ w.state = "SERV_WAIT_SYN_ACK" /\ PreAck(w) /\ RexIff(w) /\ w.peerBSY = FALSE
        /\ w.usrI = s.usrI /\ w.usrO = s.usrO /\ w.panic = s.panic
    BY <1>5, <1>6, ListenVerdict DEF w
  <2>2. CASE r.state = "CLOSED"
    BY <1>1, <1>4, <2>1, <2>2, ClosedSteady
  <2>3. CASE r.state = "SERV_WAIT_SYN_ACK"
    <3>1. RexIff(r)
      BY <1>4, <2>1, <2>3 DEF GaveIn
    <3> QED BY <1>1, <1>4, <1>5, <2>1, <2>3, <3>1, SteadyIn
  <2> QED BY <1>3, <2>1, <2>2, <2>3
<1>7. CASE "SYN" \notin g.flags
  <2>1. \/ ~v.ok /\ w = s
        \/ v.ok /\ w.state = "CLOSED" /\ w.panic = s.panic
    BY <1>7, WaitVerdict DEF w
  <2> QED BY <1>1, <1>3, <1>4, <2>1, ClosedSteady
<1> QED BY <1>6, <1>7

\* handleRxEvent() in CLNT_WAIT_SYN_ACK.  A SYN carries no data.
LEMMA ClientSteady ==
    ASSUME NEW s \in Endpoint, NEW g \in Seg, NEW isn \in SeqNo, Shape(s), Steady(s),
           "SYN" \in g.flags => g.par \in Par /\ ~hasPayload(g) /\ "NUL" \notin g.flags,
           s.panic = "none", s.state = "CLNT_WAIT_SYN_ACK"
    PROVE  Steady(handleRxEvent(s, g, isn))
<1> DEFINE v == IF "SYN" \in g.flags THEN handleSYN(s, g, isn) ELSE handleOTH(s, g)
           w == v.ep
           r == acceptSegment("CLNT_WAIT_SYN_ACK", w, g)
<1>1. handleRxEvent(s, g, isn) = IF v.ok THEN r ELSE w
  BY DEF handleRxEvent, notClosedRx
<1>2. w \in Endpoint /\ Shape(w)
  <2>1. CASE "SYN" \in g.flags
    BY <2>1, HandleSYNType, HandleSYNShape
  <2>2. CASE "SYN" \notin g.flags
    BY <2>2, HandleOTHType, HandleOTHShape
  <2> QED BY <2>1, <2>2
<1> HIDE DEF w
<1>3. r.state \in {w.state, "CLOSED"}
  BY <1>2, AcceptSegmentShape DEF Opened
<1>4. /\ r.usrI = w.usrI /\ r.panic = w.panic /\ r.usrO = w.usrO
      /\ PreAck(w) => AckOk(r)
      /\ "NUL" \in w.armed => "NUL" \in r.armed
      /\ RexIff(w) => RexIff(r) \/ GaveIn(w, r)
      /\ ~(hasPayload(g) \/ "NUL" \in g.flags) => Recv(r) = Recv(w)
  BY <1>2, AcceptSegmentSteady DEF Shape, Opened
<1> HIDE DEF r
<1>5. ~IsServer /\ ~s.usrI /\ ~s.usrO /\ s.unOrderedSegs[0] = Empty
  BY DEF Steady, Role, Fed, Drained, Handshake
<1>6. "NUL" \in s.armed /\ RexIff(s)
  BY SteadyConn DEF InConn, Opened
<1>7. CASE "SYN" \in g.flags
  <2>1. /\ w.panic = s.panic
        /\ ~v.ok => w.state = "CLOSED"
        /\ v.ok => /\ PreAck(w) /\ w.armed = s.armed
                   /\ w.unAckedSegs = s.unAckedSegs /\ w.peerBSY = s.peerBSY
                   /\ w.usrI = s.usrI /\ Recv(w) = Recv(s)
                   /\ w.state \in {"CLNT_WAIT_SYN_ACK", "PREP_OPEN"}
    BY <1>7, ClientVerdict DEF w
  <2>2. CASE ~v.ok
    BY <1>1, <2>1, <2>2, ClosedSteady
  <2>3. CASE v.ok /\ r.state = "CLOSED"
    BY <1>1, <1>4, <2>1, <2>3, ClosedSteady
  <2>4. CASE v.ok /\ r.state # "CLOSED"
    <3>1. RexIff(w)
      BY <1>6, <2>1, <2>4 DEF RexIff
    <3>2. RexIff(r) /\ AckOk(r) /\ "NUL" \in r.armed
      BY <1>4, <1>6, <2>1, <2>4, <3>1 DEF GaveIn
    <3>3. Recv(r) = Recv(s)
      BY <1>4, <1>7, <2>1, <2>4
    <3>4. r.unOrderedSegs[0] = Empty /\ ~r.usrO /\ ~r.usrI
      BY <1>4, <1>5, <2>1, <2>4, <3>3, RestFields
    <3>5. r.panic = "none" /\ r.state \in {"CLNT_WAIT_SYN_ACK", "PREP_OPEN"}
      BY <1>3, <1>4, <2>1, <2>4
    <3> QED BY <1>1, <1>5, <2>4, <3>2, <3>4, <3>5, SteadyIn
  <2> QED BY <2>2, <2>3, <2>4
<1>8. CASE "SYN" \notin g.flags
  <2>1. \/ ~v.ok /\ w = s
        \/ v.ok /\ w.state = "CLOSED" /\ w.panic = s.panic
    BY <1>8, WaitVerdict DEF w
  <2> QED BY <1>1, <1>3, <1>4, <2>1, ClosedSteady
<1> QED BY <1>7, <1>8

\* The common part of handleRxEvent() in a connection, and in SERV_WAIT_SYN_ACK.
LEMMA ConnRx ==
    ASSUME NEW s \in Endpoint, NEW g \in Seg, NEW isn \in SeqNo, Shape(s), Steady(s),
           "SYN" \in g.flags => g.par \in Par,
           s.panic = "none", s.state \in {"SERV_WAIT_SYN_ACK"} \cup Opened
    PROVE  LET r == notClosedRx(s, g, isn)
           IN  /\ r \in Endpoint /\ r.state \in {s.state, "CLOSED"}
               /\ r.panic = "none" /\ r.usrI = s.usrI /\ r.rexMX = s.rexMX
               /\ r.peerOssMX = s.peerOssMX
               /\ "NUL" \in r.armed /\ AckOk(r)
               /\ RexIff(s) => RexIff(r) \/ GaveIn(s, r)
               /\ s.state \notin Opened => r.usrO = s.usrO
               /\ s.state \in Opened /\ Out(s) => Out(r)
<1> DEFINE v == IF "SYN" \in g.flags THEN handleSYN(s, g, isn) ELSE handleOTH(s, g)
           w == v.ep
           a == acceptSegment(s.state, w, g)
<1>1. notClosedRx(s, g, isn) = IF v.ok THEN a ELSE w
  BY DEF notClosedRx
<1>2. "NUL" \in s.armed /\ AckOk(s)
  BY SteadyConn DEF InConn
<1>3. /\ Rest(w) = Rest(s) /\ Recv(w) = Recv(s)
      /\ w.armed = s.armed /\ w.unAckedSegs = s.unAckedSegs
      /\ w.state \in {s.state, "CLOSED"}
      /\ v.ok => PreAck(w)
      /\ ~v.ok => w = s
  <2> HIDE DEF v
  <2>1. v = IF "SYN" \in g.flags THEN handleSYN(s, g, isn) ELSE handleOTH(s, g)
    BY DEF v
  <2> QED BY <1>2, <2>1, ConnVerdict
<1>4. w \in Endpoint /\ Shape(w)
  <2>1. CASE "SYN" \in g.flags
    BY <2>1, HandleSYNType, HandleSYNShape
  <2>2. CASE "SYN" \notin g.flags
    BY <2>2, HandleOTHType, HandleOTHShape
  <2> QED BY <2>1, <2>2
<1> HIDE DEF w
<1>5. a \in Endpoint /\ a.state \in {w.state, "CLOSED"}
  BY <1>3, <1>4, AcceptSegmentType, AcceptSegmentShape
<1>6. /\ a.usrI = w.usrI /\ a.panic = w.panic /\ a.rexMX = w.rexMX /\ a.peerOssMX = w.peerOssMX
      /\ PreAck(w) => AckOk(a)
      /\ "NUL" \in w.armed => "NUL" \in a.armed
      /\ RexIff(w) => RexIff(a) \/ GaveIn(w, a)
      /\ s.state \notin Opened => a.usrO = w.usrO
      /\ s.state \in Opened /\ Out(w) => Out(a)
  BY <1>4, AcceptSegmentSteady DEF Shape
<1> HIDE DEF a
<1>7. /\ w.usrI = s.usrI /\ w.panic = s.panic /\ w.rexMX = s.rexMX /\ w.peerOssMX = s.peerOssMX
      /\ w.peerBSY = s.peerBSY /\ w.usrO = s.usrO /\ w.unOrderedSegs = s.unOrderedSegs
  BY <1>3, RestFields
<1>8. /\ RexIff(s) => RexIff(w)
      /\ Out(s) => Out(w)
      /\ GaveIn(w, a) => GaveIn(s, a)
  BY <1>3, <1>7 DEF RexIff, Out, GaveIn
<1>9. CASE v.ok
  BY <1>1, <1>2, <1>3, <1>5, <1>6, <1>7, <1>8, <1>9
<1>10. CASE ~v.ok
  BY <1>1, <1>2, <1>3, <1>10
<1> QED BY <1>9, <1>10

\* handleRxEvent() in SERV_WAIT_SYN_ACK: the connection is open when the SYN is
\* acknowledged, even by a segment that would have closed it.
LEMMA ServerSteady ==
    ASSUME NEW s \in Endpoint, NEW g \in Seg, NEW isn \in SeqNo, Shape(s), Steady(s),
           "SYN" \in g.flags => g.par \in Par,
           s.panic = "none", s.state = "SERV_WAIT_SYN_ACK"
    PROVE  Steady(handleRxEvent(s, g, isn))
<1> DEFINE r == notClosedRx(s, g, isn)
           d == resetReopenDelay(r)
           c == changeState(d, "PREP_OPEN")
           z == arm(c, "NUL")
<1>1. handleRxEvent(s, g, isn) = IF r.unAckedSegs = <<>> THEN z ELSE r
  BY DEF handleRxEvent
<1>2. RexIff(s) /\ IsServer /\ ~s.usrI /\ ~s.usrO
  <2>1. RexIff(s)
    BY SteadyConn DEF InConn, Opened
  <2> QED BY <2>1 DEF Steady, Role, Fed, Drained, Handshake
<1>3. /\ r \in Endpoint /\ r.state \in {s.state, "CLOSED"}
      /\ r.panic = "none" /\ r.usrI = s.usrI
      /\ "NUL" \in r.armed /\ AckOk(r)
      /\ RexIff(r) \/ GaveIn(s, r)
      /\ r.usrO = s.usrO
  <2>1. s.state \in {"SERV_WAIT_SYN_ACK"} \cup Opened /\ s.state \notin Opened
    BY DEF Opened
  <2> QED BY <1>2, <2>1, ConnRx
<1> HIDE DEF r
<1>4. CASE r.unAckedSegs # <<>> /\ r.state = "CLOSED"
  BY <1>1, <1>3, <1>4, ClosedSteady
<1>5. CASE r.unAckedSegs # <<>> /\ r.state # "CLOSED"
  <2>1. RexIff(r) /\ r.state = "SERV_WAIT_SYN_ACK"
    BY <1>3, <1>5 DEF GaveIn
  <2> QED BY <1>1, <1>2, <1>3, <1>5, <2>1, SteadyIn
<1>6. CASE r.unAckedSegs = <<>>
  <2>1. RexIff(r)
    BY <1>3, <1>6 DEF GaveIn
  <2>2. /\ d \in Endpoint /\ Rest(d) = Rest(r) /\ d.unAckedSegs = r.unAckedSegs
        /\ d.numCak = r.numCak /\ d.armed = r.armed
    <3>1. d \in Endpoint
      BY <1>3, ReopenDelayType
    <3> QED BY <1>3, <3>1 DEF resetReopenDelay, Rest, Endpoint
  <2> HIDE DEF d
  <2>3. /\ c \in Endpoint /\ Rest(c) = Rest(d) /\ c.state = "PREP_OPEN"
        /\ c.unAckedSegs = d.unAckedSegs /\ c.numCak = d.numCak /\ c.armed = d.armed
    BY <2>2, ChangeStateType, ChangeStateRest DEF State
  <2> HIDE DEF c
  <2>4. /\ Rest(z) = Rest(c) /\ z.state = c.state /\ z.unAckedSegs = c.unAckedSegs
        /\ z.numCak = c.numCak /\ z.armed = c.armed \cup {"NUL"}
    BY <2>3, TimerFields DEF Timer
  <2> HIDE DEF z
  <2>5. Rest(z) = Rest(r) /\ z.state = "PREP_OPEN" /\ z.unAckedSegs = r.unAckedSegs
        /\ z.numCak = r.numCak /\ z.armed = r.armed
    BY <1>3, <2>2, <2>3, <2>4
  <2>6. z.panic = "none" /\ ~z.usrI /\ z.peerBSY = r.peerBSY /\ z.cakMX = r.cakMX
    BY <1>2, <1>3, <2>5, RestFields
  <2>7. RexIff(z) /\ AckOk(z)
    BY <1>3, <2>1, <2>5, <2>6 DEF RexIff, AckOk
  <2> QED BY <1>1, <1>2, <1>3, <1>6, <2>5, <2>6, <2>7, SteadyIn
<1> QED BY <1>4, <1>5, <1>6

\* The user's input is enabled, or disabled, and the state follows.
LEMMA UsrIFields ==
    ASSUME NEW s \in Endpoint, NEW b \in BOOLEAN, NEW q \in State
    PROVE  LET r == changeState([s EXCEPT !.usrI = b], q)
           IN  /\ r.usrI = b /\ r.state = q /\ Recv(r) = Recv(s)
               /\ r.peerOssMX = s.peerOssMX /\ r.rexMX = s.rexMX /\ r.cakMX = s.cakMX
               /\ r.peerBSY = s.peerBSY /\ r.panic = s.panic
               /\ r.unAckedSegs = s.unAckedSegs /\ r.numCak = s.numCak /\ r.armed = s.armed
<1> DEFINE u == [s EXCEPT !.usrI = b]
           r == changeState(u, q)
<1>1. /\ u \in Endpoint /\ u.usrI = b /\ Recv(u) = Recv(s)
      /\ u.peerOssMX = s.peerOssMX /\ u.rexMX = s.rexMX /\ u.cakMX = s.cakMX
      /\ u.peerBSY = s.peerBSY /\ u.panic = s.panic
      /\ u.unAckedSegs = s.unAckedSegs /\ u.numCak = s.numCak /\ u.armed = s.armed
  <2>1. u \in Endpoint
    BY UsrIType
  <2> QED BY <2>1 DEF Recv, Endpoint
<1> HIDE DEF u
<1>2. /\ Rest(r) = Rest(u) /\ Recv(r) = Recv(u) /\ r.state = q
      /\ r.unAckedSegs = u.unAckedSegs /\ r.numCak = u.numCak /\ r.armed = u.armed
  BY <1>1, ChangeStateRest
<1> HIDE DEF r
<1> QED BY <1>1, <1>2, RestFields DEF r, u

\* What depends on the fields above only.
LEMMA SteadyFrom ==
    ASSUME NEW s, NEW r, Recv(r) = Recv(s), r.peerOssMX = s.peerOssMX, r.cakMX = s.cakMX,
           r.peerBSY = s.peerBSY, r.unAckedSegs = s.unAckedSegs, r.numCak = s.numCak,
           r.armed = s.armed
    PROVE  /\ RexIff(s) => RexIff(r)
           /\ AckOk(s) => AckOk(r)
           /\ Out(s) => Out(r)
           /\ windowOpen(r) <=> windowOpen(s)
BY RestFields DEF RexIff, AckOk, Out, windowOpen

\* handleRxEvent() in OPEN and OPEN_OUTWIN_FULL.
LEMMA OpenSteady ==
    ASSUME NEW s \in Endpoint, NEW g \in Seg, NEW isn \in SeqNo, Shape(s), Steady(s),
           "SYN" \in g.flags => g.par \in Par,
           s.panic = "none", s.state \in Opened
    PROVE  Steady(handleRxEvent(s, g, isn))
<1> DEFINE r == notClosedRx(s, g, isn)
           z == changeState([r EXCEPT !.usrI = TRUE], "OPEN")
<1>1. handleRxEvent(s, g, isn) = IF s.state = "OPEN_OUTWIN_FULL" /\ windowOpen(r) THEN z ELSE r
  BY DEF handleRxEvent, Opened
<1>2. /\ s.rexMX >= 1 => RexIff(s)
      /\ ~IsServer => Out(s)
      /\ s.state = "OPEN" => s.usrI
      /\ s.state = "OPEN_OUTWIN_FULL" => ~s.usrI /\ ~windowOpen(s)
  <2>1. s.rexMX >= 1 => RexIff(s)
    BY SteadyConn DEF InConn
  <2> QED BY <2>1 DEF Steady, Fed, Drained
<1>3. /\ r \in Endpoint /\ r.state \in {s.state, "CLOSED"}
      /\ r.panic = "none" /\ r.usrI = s.usrI /\ r.rexMX = s.rexMX /\ r.peerOssMX = s.peerOssMX
      /\ "NUL" \in r.armed /\ AckOk(r)
      /\ RexIff(s) => RexIff(r) \/ GaveIn(s, r)
      /\ Out(s) => Out(r)
  BY ConnRx
<1> HIDE DEF r
<1>4. CASE s.state = "OPEN_OUTWIN_FULL" /\ windowOpen(r)
  <2>1. /\ z.usrI = TRUE /\ z.state = "OPEN" /\ Recv(z) = Recv(r)
        /\ z.peerOssMX = r.peerOssMX /\ z.rexMX = r.rexMX /\ z.cakMX = r.cakMX
        /\ z.peerBSY = r.peerBSY /\ z.panic = r.panic
        /\ z.unAckedSegs = r.unAckedSegs /\ z.numCak = r.numCak /\ z.armed = r.armed
    <3>1. "OPEN" \in State /\ TRUE \in BOOLEAN /\ r \in Endpoint
      BY <1>3 DEF State, Opened
    <3> QED BY <3>1, UsrIFields, Zenon
  <2> HIDE DEF z
  <2>2. s.rexMX >= 1 => RexIff(r)
    <3>1. Len(r.unAckedSegs) < Len(s.unAckedSegs)
      BY <1>2, <1>3, <1>4, UnackedLen DEF windowOpen
    <3>2. s.rexMX >= 1 => s.rexMX # 0
      BY EventTypes
    <3> QED BY <1>2, <1>3, <3>1, <3>2 DEF GaveIn
  <2>3. AckOk(z) /\ (z.rexMX >= 1 => RexIff(z)) /\ (~IsServer => Out(z))
    BY <1>2, <1>3, <2>1, <2>2, SteadyFrom
  <2> QED BY <1>1, <1>3, <1>4, <2>1, <2>3, SteadyIn
<1>5. CASE ~(s.state = "OPEN_OUTWIN_FULL" /\ windowOpen(r))
  <2>1. CASE r.state = "CLOSED"
    BY <1>1, <1>3, <1>5, <2>1, ClosedSteady
  <2>2. CASE r.state # "CLOSED"
    <3>1. r.state = s.state /\ (r.rexMX >= 1 => RexIff(r)) /\ (~IsServer => Out(r))
      BY <1>2, <1>3, <2>2 DEF GaveIn
    <3>2. CASE r.state = "OPEN"
      BY <1>1, <1>2, <1>3, <1>5, <3>1, <3>2, SteadyIn
    <3>3. CASE r.state = "OPEN_OUTWIN_FULL"
      BY <1>1, <1>2, <1>3, <1>5, <3>1, <3>3, SteadyIn
    <3> QED BY <3>1, <3>2, <3>3 DEF Opened
  <2> QED BY <2>1, <2>2
<1> QED BY <1>4, <1>5

\* handleRxEvent() of every state.
LEMMA RxSteady ==
    ASSUME NEW s \in Endpoint, NEW g \in Seg, NEW isn \in SeqNo, Shape(s), Steady(s),
           "SYN" \in g.flags => g.par \in Par /\ ~hasPayload(g) /\ "NUL" \notin g.flags,
           s.panic = "none", s.state \in Handshake \cup Opened
    PROVE  Steady(handleRxEvent(s, g, isn))
BY ListenSteady, ClientSteady, ServerSteady, OpenSteady DEF Handshake

-----------------------------------------------------------------------------
(* User events and timeouts in an open connection.                         *)

\* An open connection, whatever is still to be acknowledged.
Ready(s) ==
    /\ s.panic = "none" /\ s.state \in Opened /\ Fed(s)
    /\ s.rexMX >= 1 => RexIff(s)
    /\ ~IsServer => Out(s)

\* The invariant makes it so.
LEMMA SteadyReady ==
    ASSUME NEW s, Steady(s), s.panic = "none", s.state \in Opened
    PROVE  Ready(s) /\ "NUL" \in s.armed /\ AckOk(s)
<1>1. "NUL" \in s.armed /\ AckOk(s) /\ (s.rexMX >= 1 => RexIff(s))
  BY SteadyConn DEF InConn
<1> QED BY <1>1 DEF Steady, Drained, Ready

\* What is sent while the window is open, or without being kept, leaves the
\* connection steady.
LEMMA ReadySent ==
    ASSUME NEW s \in Endpoint, NEW r, Ready(s), Replies(s, r) \/ Pushes(s, r),
           "NUL" \in r.armed, s.state = "OPEN" \/ r.unAckedSegs = s.unAckedSegs
    PROVE  Steady(r) /\ Ready(r) /\ AckOk(r)
<1>1. /\ Rest(r) = Rest(s) /\ Recv(r) = Recv(s) /\ r.state = s.state
      /\ AckOk(r) /\ (RexIff(s) => RexIff(r))
  BY EventTypes, SentSteady
<1>2. /\ r.usrI = s.usrI /\ r.panic = s.panic /\ r.rexMX = s.rexMX /\ r.peerOssMX = s.peerOssMX
      /\ r.usrO = s.usrO /\ r.unOrderedSegs = s.unOrderedSegs
  BY <1>1, RestFields
<1>3. Fed(r)
  BY <1>1, <1>2 DEF Ready, Fed, windowOpen, Opened, Handshake
<1>4. Ready(r)
  BY <1>1, <1>2, <1>3 DEF Ready, Out
<1>5. CASE r.state = "OPEN"
  BY <1>1, <1>4, <1>5, SteadyIn DEF Ready, Fed
<1>6. CASE r.state = "OPEN_OUTWIN_FULL"
  BY <1>1, <1>4, <1>6, SteadyIn DEF Ready, Fed
<1> QED BY <1>1, <1>4, <1>5, <1>6 DEF Ready, Opened

\* The change to OPEN_OUTWIN_FULL.
LEMMA WinFullSteady ==
    ASSUME NEW s \in Endpoint, Ready(s), "NUL" \in s.armed, AckOk(s), ~windowOpen(s)
    PROVE  Steady(outWinFull(s))
<1> DEFINE z == changeState([s EXCEPT !.usrI = FALSE], "OPEN_OUTWIN_FULL")
<1>1. /\ z.usrI = FALSE /\ z.state = "OPEN_OUTWIN_FULL" /\ Recv(z) = Recv(s)
      /\ z.peerOssMX = s.peerOssMX /\ z.rexMX = s.rexMX /\ z.cakMX = s.cakMX
      /\ z.peerBSY = s.peerBSY /\ z.panic = s.panic
      /\ z.unAckedSegs = s.unAckedSegs /\ z.numCak = s.numCak /\ z.armed = s.armed
  <2>1. "OPEN_OUTWIN_FULL" \in State /\ FALSE \in BOOLEAN
    BY DEF State, Opened
  <2> QED BY <2>1, UsrIFields, Zenon
<1>0. outWinFull(s) = z
  BY DEF outWinFull
<1> HIDE DEF z
<1>2. /\ AckOk(z) /\ (RexIff(s) => RexIff(z)) /\ (Out(s) => Out(z)) /\ ~windowOpen(z)
  BY <1>1, SteadyFrom
<1>3. Steady(z)
  BY <1>1, <1>2, SteadyIn DEF Ready
<1> QED BY <1>0, <1>3

\* handleUsrInputEvent(): it is called in OPEN only.
LEMMA UsrInputSteady ==
    ASSUME NEW s \in Endpoint, Shape(s), Steady(s), s.panic = "none",
           s.state \in Handshake \cup Opened, s.usrI
    PROVE  Steady(handleUsrInputEvent(s))
<1> DEFINE room == s.peerOssMX - Len(s.unAckedSegs)
           n == IF Len(s.inpQ) < room THEN Len(s.inpQ) ELSE room
           r == IF n > 0 THEN sendDAT(s, n) ELSE s
<1>0. s.state = "OPEN" /\ s.state \in Opened
  BY DEF Steady, Fed, Opened
<1>1. handleUsrInputEvent(s) = IF windowOpen(r) THEN r ELSE outWinFull(r)
  BY <1>0 DEF handleUsrInputEvent
<1>2. Ready(s) /\ "NUL" \in s.armed /\ AckOk(s)
  BY <1>0, SteadyReady
<1>3. Len(s.inpQ) \in Nat /\ room \in Nat
  <2>1. Len(s.inpQ) \in Nat
    BY EventTypes, LenProperties
  <2> QED BY <2>1, UnackedLen DEF Shape, Window
<1>4. n <= room /\ n \in Nat /\ (n > 0 => n \in 1..Len(s.inpQ))
  <2> HIDE DEF room
  <2> QED BY <1>3
<1>5. r \in Endpoint /\ Ready(r) /\ "NUL" \in r.armed /\ AckOk(r) /\ Steady(r)
  <2>1. CASE n > 0
    <3>1. r = sendDAT(s, n)
      BY <2>1
    <3>2. Len(s.unAckedSegs) + n <= s.peerOssMX
      <4> HIDE DEF n
      <4> QED BY <1>4, UnackedLen
    <3> HIDE DEF n, r, room
    <3>3. r \in Endpoint /\ Pushes(s, r)
      BY <1>4, <2>1, <3>1, <3>2, SendDATType, SendDATPushes DEF Shape
    <3>4. "NUL" \in r.armed
      BY <1>2, <3>3 DEF Pushes
    <3> QED BY <1>0, <1>2, <3>3, <3>4, ReadySent
  <2>2. CASE ~(n > 0)
    BY <1>2, <2>2
  <2> QED BY <2>1, <2>2
<1> HIDE DEF r
<1> QED BY <1>1, <1>5, WinFullSteady

\* handleUsrOutputEvent(): what could not be drained waits for the next event.
LEMMA UsrOutputSteady ==
    ASSUME NEW s \in Endpoint, Steady(s), s.panic = "none",
           s.state \in Handshake \cup Opened, s.usrO
    PROVE  Steady(handleUsrOutputEvent(s))
<1> DEFINE o == [s EXCEPT !.usrO = FALSE]
           r == drainReassembleBuffer(o)
           a == sendACK(r)
<1>0. s.state \in Opened
  BY DEF Steady, Drained
<1>1. handleUsrOutputEvent(s) = IF r.usrO THEN r ELSE a
  BY <1>0 DEF handleUsrOutputEvent
<1>2. Ready(s) /\ "NUL" \in s.armed /\ AckOk(s)
  BY <1>0, SteadyReady
<1>3. /\ o \in Endpoint /\ Rest(o) = Rest(s) /\ o.state = s.state
      /\ o.unAckedSegs = s.unAckedSegs /\ o.numCak = s.numCak /\ o.armed = s.armed
  BY DEF Endpoint, Rest
<1> HIDE DEF o
<1>4. /\ r \in Endpoint /\ Rest(r) = Rest(o) /\ Out(r) /\ r.state = o.state
      /\ r.unAckedSegs = o.unAckedSegs /\ r.numCak = o.numCak /\ r.armed = o.armed
  BY <1>3, DrainType, DrainSteady
<1> HIDE DEF r
<1>5. /\ r.usrI = s.usrI /\ r.panic = s.panic /\ r.rexMX = s.rexMX /\ r.peerOssMX = s.peerOssMX
      /\ r.peerBSY = s.peerBSY /\ r.cakMX = s.cakMX
  BY <1>3, <1>4, RestFields
<1>6. "NUL" \in r.armed /\ AckOk(r) /\ (RexIff(s) => RexIff(r))
  BY <1>2, <1>3, <1>4, <1>5 DEF AckOk, RexIff
<1>7. Fed(r)
  BY <1>2, <1>3, <1>4, <1>5 DEF Ready, Fed, windowOpen
<1>8. Ready(r)
  BY <1>2, <1>3, <1>4, <1>5, <1>6, <1>7 DEF Ready
<1>9. Steady(r)
  <2>1. CASE r.state = "OPEN"
    BY <1>6, <1>8, <2>1, SteadyIn DEF Ready, Fed
  <2>2. CASE r.state = "OPEN_OUTWIN_FULL"
    BY <1>6, <1>8, <2>2, SteadyIn DEF Ready, Fed
  <2> QED BY <1>8, <2>1, <2>2 DEF Ready, Opened
<1>10. Steady(a)
  <2>1. Replies(r, a)
    BY <1>4, SendReplies
  <2> HIDE DEF a
  <2>2. "NUL" \in a.armed /\ a.unAckedSegs = r.unAckedSegs
    BY <1>6, <2>1 DEF Replies
  <2> QED BY <1>4, <1>8, <2>1, <2>2, ReadySent
<1> QED BY <1>1, <1>9, <1>10

\* A step that changes the timers and the count only.
LEMMA SteadySame ==
    ASSUME NEW s, NEW z, Steady(s), s.state \in InConn, s.panic = "none",
           Rest(z) = Rest(s), Recv(z) = Recv(s), z.state = s.state,
           Len(z.unAckedSegs) = Len(s.unAckedSegs), "NUL" \in z.armed, AckOk(z),
           (z.state \in Opened => z.rexMX >= 1) => RexIff(z)
    PROVE  Steady(z)
<1>1. /\ z.usrI = s.usrI /\ z.panic = s.panic /\ z.peerOssMX = s.peerOssMX
      /\ z.usrO = s.usrO /\ z.unOrderedSegs = s.unOrderedSegs
  BY RestFields
<1>2. Timed(z) /\ Counted(z)
  BY DEF Timed, Counted
<1>3. Fed(z) /\ Drained(z) /\ Alive(z) /\ Role(z)
  BY <1>1 DEF Steady, Fed, Drained, Alive, Role, windowOpen, Out
<1>4. Idle(z)
  BY DEF Idle, InConn, Opened
<1> QED BY <1>2, <1>3, <1>4 DEF Steady

\* A change to CLOSED after an RST.
LEMMA ResetSteady ==
    ASSUME NEW s \in Endpoint, s.panic = "none"
    PROVE  Steady(changeState(sendRST(s), "CLOSED"))
<1> DEFINE t == sendRST(s)
           z == changeState(t, "CLOSED")
<1>1. t \in Endpoint /\ Rest(t) = Rest(s)
  BY SendRSTType, SendReplies DEF Replies
<1> HIDE DEF t
<1>2. Rest(z) = Rest(t) /\ z.state = "CLOSED"
  BY <1>1, ChangeStateRest
<1> HIDE DEF z
<1>3. z.panic = "none"
  BY <1>1, <1>2, RestFields
<1> QED BY <1>2, <1>3, ClosedSteady DEF z, t

\* An exception in the handshake: the thread is gone, its state remains.
LEMMA PanicSteady ==
    ASSUME NEW s \in Endpoint, NEW t \in Timer, Steady(s),
           s.state \in {"SERV_WAIT_SYN_ACK", "CLNT_WAIT_SYN_ACK"},
           NEW what \in {"ACKTimeout", "NULTimeout"}
    PROVE  Steady(Panic(cancel(s, t), what))
<1> DEFINE c == cancel(s, t)
           z == Panic(c, what)
<1>1. c \in Endpoint /\ Rest(c) = Rest(s) /\ Recv(c) = Recv(s) /\ c.state = s.state
  BY CancelType, TimerFields
<1> HIDE DEF c
<1>2. z.panic = what /\ z.usrI = c.usrI /\ Recv(z) = Recv(c) /\ z.state = c.state
  BY <1>1 DEF Panic, Recv, Endpoint
<1> HIDE DEF z
<1>3. /\ z.usrI = s.usrI /\ z.usrO = s.usrO /\ z.unOrderedSegs = s.unOrderedSegs
      /\ z.state = s.state
  BY <1>1, <1>2, RestFields
<1>4. z.panic # "none" /\ z.panic \in {"ACKTimeout", "NULTimeout"}
  BY <1>2
<1>5. Timed(z) /\ Counted(z) /\ Alive(z)
  BY <1>3, <1>4 DEF Timed, Counted, Alive
<1>6. Fed(z) /\ Drained(z) /\ Role(z) /\ Idle(z)
  BY <1>3 DEF Steady, Fed, Drained, Role, Idle, Opened, Handshake
<1>7. Steady(z)
  BY <1>5, <1>6 DEF Steady
<1> QED BY <1>7 DEF z, c

\* processRetransmissionTimeout() when its timer expires.
LEMMA RexExpiry ==
    ASSUME NEW s \in Endpoint, Steady(s), s.panic = "none", s.state \in InConn,
           "REX" \in s.armed
    PROVE  Steady(processRetransmissionTimeout(cancel(s, "REX")))
<1> DEFINE r == cancel(s, "REX")
           z == processRetransmissionTimeout(r)
<1>1. /\ r \in Endpoint /\ Rest(r) = Rest(s) /\ Recv(r) = Recv(s) /\ r.state = s.state
      /\ r.unAckedSegs = s.unAckedSegs /\ r.armed = s.armed \ {"REX"}
  BY CancelType, TimerFields DEF Timer
<1> HIDE DEF r
<1>2. /\ Rest(z) = Rest(r) /\ Recv(z) = Recv(r)
      /\ "NUL" \in r.armed => "NUL" \in z.armed
      /\ r.unAckedSegs # <<>> => z.unAckedSegs # <<>> /\ AckOk(z)
      /\ \/ /\ z.state = r.state
            /\ r.unAckedSegs # <<>> => ("REX" \in z.armed <=> ("REX" \in r.armed \/ ~r.peerBSY))
         \/ z.state = "CLOSED" /\ r.numRex + 1 > r.rexMX
      /\ r.numRex + 1 > r.rexMX => z.state = "CLOSED"
      /\ Len(z.unAckedSegs) = Len(r.unAckedSegs)
  BY <1>1, RexTimeoutSteady, RexTimeoutTidy
<1> HIDE DEF z
<1>3. /\ r.peerBSY = s.peerBSY /\ r.rexMX = s.rexMX /\ z.peerBSY = s.peerBSY
      /\ z.panic = s.panic
  BY <1>1, <1>2, RestFields
<1>4. "NUL" \in s.armed /\ ((s.state \in Opened => s.rexMX >= 1) => RexIff(s))
  BY SteadyConn
<1>5. CASE z.state = "CLOSED"
  BY <1>3, <1>5, ClosedSteady DEF z, r
<1>6. CASE z.state # "CLOSED"
  <2>1. z.state = s.state /\ s.rexMX >= 1
    <3>1. r.numRex \in Nat /\ r.rexMX \in Nat
      BY <1>1, EventTypes
    <3>2. ~(r.numRex + 1 > r.rexMX)
      BY <1>2, <1>6
    <3> QED BY <1>1, <1>2, <1>3, <1>6, <3>1, <3>2
  <2>2. s.unAckedSegs # <<>> /\ ~s.peerBSY
    BY <1>4, <2>1 DEF RexIff
  <2>3. RexIff(z) /\ AckOk(z)
    BY <1>1, <1>2, <1>3, <1>6, <2>1, <2>2 DEF RexIff
  <2>4. Steady(z)
    BY <1>1, <1>2, <1>4, <2>1, <2>3, SteadySame
  <2> QED BY <2>4 DEF z, r
<1> QED BY <1>5, <1>6

\* processAckTimeout(): what was received is acknowledged, with data if there is any.
LEMMA AckExpiry ==
    ASSUME NEW s \in Endpoint, Shape(s), Steady(s), s.panic = "none", s.state \in InConn,
           s.state # "PREP_OPEN"
    PROVE  Steady(processAckTimeout(cancel(s, "ACK")))
<1> DEFINE r == cancel(s, "ACK")
           z == sendDATorACK(r.state, r)
<1>1. /\ r \in Endpoint /\ Rest(r) = Rest(s) /\ Recv(r) = Recv(s) /\ r.state = s.state
      /\ r.unAckedSegs = s.unAckedSegs /\ r.armed = s.armed \ {"ACK"} /\ Shape(r)
  BY CancelType, TimerFields, TimerCore, CoreKept, KeptShape DEF Timer
<1>2. CASE s.state \notin Opened
  <2>1. processAckTimeout(r) = Panic(r, "ACKTimeout")
    BY <1>1, <1>2 DEF processAckTimeout
  <2>2. s.state \in {"SERV_WAIT_SYN_ACK", "CLNT_WAIT_SYN_ACK"}
    BY <1>2 DEF InConn
  <2> QED BY <2>1, <2>2, PanicSteady DEF Timer
<1>3. CASE s.state \in Opened
  <2>1. processAckTimeout(r) = z
    BY <1>1, <1>3 DEF processAckTimeout
  <2> HIDE DEF r
  <2>2. /\ r.usrI = s.usrI /\ r.panic = s.panic /\ r.rexMX = s.rexMX /\ r.peerOssMX = s.peerOssMX
        /\ r.peerBSY = s.peerBSY /\ r.usrO = s.usrO /\ r.unOrderedSegs = s.unOrderedSegs
    BY <1>1, RestFields
  <2>3. Ready(s) /\ "NUL" \in s.armed
    BY <1>3, SteadyReady
  <2>4. Ready(r) /\ "NUL" \in r.armed
    <3>1. Fed(r)
      BY <1>1, <2>2, <2>3 DEF Ready, Fed, windowOpen
    <3>2. RexIff(s) => RexIff(r)
      BY <1>1, <2>2 DEF RexIff
    <3> QED BY <1>1, <1>3, <2>2, <2>3, <3>1, <3>2 DEF Ready, Out
  <2>5. Replies(r, z) \/ Pushes(r, z)
    BY <1>1, SendDATorACKFields DEF Shape
  <2>6. r.state # "OPEN" => Replies(r, z)
    <3>1. r.state # "OPEN" => ~windowOpen(r)
      BY <2>4 DEF Ready, Fed, Opened
    <3>2. r.state # "OPEN" => z = sendACK(r)
      BY <3>1 DEF sendDATorACK, hasBufToSend
    <3> QED BY <1>1, <3>2, SendReplies
  <2> HIDE DEF z
  <2>7. "NUL" \in z.armed
    BY <2>4, <2>5 DEF Replies, Pushes
  <2>8. r.state = "OPEN" \/ z.unAckedSegs = r.unAckedSegs
    BY <2>6 DEF Replies
  <2>9. Steady(z)
    BY <1>1, <2>4, <2>5, <2>7, <2>8, ReadySent
  <2> QED BY <2>1, <2>9 DEF r
<1> QED BY <1>2, <1>3

\* processNulTimeout(): a server closes, a client asks whether the peer is there.
LEMMA NulExpiry ==
    ASSUME NEW s \in Endpoint, Shape(s), Steady(s), s.panic = "none", s.state \in InConn,
           s.state # "PREP_OPEN"
    PROVE  Steady(processNulTimeout(cancel(s, "NUL")))
<1> DEFINE r == cancel(s, "NUL")
           z == sendNUL(r)
<1>1. /\ r \in Endpoint /\ Rest(r) = Rest(s) /\ Recv(r) = Recv(s) /\ r.state = s.state
      /\ r.unAckedSegs = s.unAckedSegs /\ r.armed = s.armed \ {"NUL"} /\ Shape(r)
  BY CancelType, TimerFields, TimerCore, CoreKept, KeptShape DEF Timer
<1>2. CASE s.state \notin Opened
  <2>1. processNulTimeout(r) = Panic(r, "NULTimeout")
    BY <1>1, <1>2 DEF processNulTimeout
  <2>2. s.state \in {"SERV_WAIT_SYN_ACK", "CLNT_WAIT_SYN_ACK"}
    BY <1>2 DEF InConn
  <2> QED BY <2>1, <2>2, PanicSteady DEF Timer
<1> HIDE DEF r
<1>3. /\ r.usrI = s.usrI /\ r.panic = s.panic /\ r.rexMX = s.rexMX /\ r.peerOssMX = s.peerOssMX
      /\ r.peerBSY = s.peerBSY /\ r.usrO = s.usrO /\ r.unOrderedSegs = s.unOrderedSegs
  BY <1>1, RestFields
<1>4. CASE s.state \in Opened /\ IsServer
  <2>1. processNulTimeout(r) = changeState(sendRST(r), "CLOSED")
    BY <1>1, <1>4 DEF processNulTimeout
  <2> QED BY <1>1, <1>3, <2>1, ResetSteady DEF r
<1>5. CASE s.state \in Opened /\ ~IsServer
  <2>1. processNulTimeout(r) = IF windowOpen(r) THEN z ELSE outWinFull(z)
    BY <1>1, <1>5 DEF processNulTimeout
  <2>2. Ready(s)
    BY <1>5, SteadyReady
  <2>3. Ready(r)
    <3>1. Fed(r)
      BY <1>1, <1>3, <2>2 DEF Ready, Fed, windowOpen
    <3>2. RexIff(s) => RexIff(r)
      BY <1>1, <1>3 DEF RexIff
    <3> QED BY <1>1, <1>3, <1>5, <2>2, <3>1, <3>2 DEF Ready, Out
  <2>4. z \in Endpoint
    BY <1>1, SendNULType
  <2>5. CASE windowOpen(r)
    <3>1. Pushes(r, z)
      BY <1>1, <2>5, SendNULFields DEF Shape
    <3> HIDE DEF z
    <3>2. "NUL" \in z.armed
      BY <1>5, <3>1 DEF Pushes, Rearmed
    <3>3. r.state = "OPEN"
      BY <2>3, <2>5 DEF Ready, Fed, Opened
    <3>4. Steady(z)
      BY <1>1, <2>3, <3>1, <3>2, <3>3, ReadySent
    <3> QED BY <2>1, <2>5, <3>4 DEF r
  <2>6. CASE ~windowOpen(r)
    <3> DEFINE b == arm(r, "NUL")
    <3>1. Replies(b, z)
      BY <1>1, <2>6, SendNULFields DEF Shape
    <3>2. /\ b \in Endpoint /\ Rest(b) = Rest(r) /\ Recv(b) = Recv(r) /\ b.state = r.state
          /\ b.unAckedSegs = r.unAckedSegs /\ b.armed = r.armed \cup {"NUL"}
      BY <1>1, ArmType, TimerFields DEF Timer
    <3> HIDE DEF b, z
    <3>3. /\ b.usrI = r.usrI /\ b.panic = r.panic /\ b.rexMX = r.rexMX /\ b.peerOssMX = r.peerOssMX
          /\ b.peerBSY = r.peerBSY /\ b.usrO = r.usrO /\ b.unOrderedSegs = r.unOrderedSegs
      BY <3>2, RestFields
    <3>4. Ready(b)
      <4>1. Fed(b)
        BY <2>3, <3>2, <3>3 DEF Ready, Fed, windowOpen
      <4>2. RexIff(r) => RexIff(b)
        BY <3>2, <3>3 DEF RexIff
      <4> QED BY <2>3, <3>2, <3>3, <4>1, <4>2 DEF Ready, Out
    <3>5. "NUL" \in z.armed /\ z.unAckedSegs = b.unAckedSegs /\ z.peerOssMX = b.peerOssMX
      BY <3>1, <3>2, RestFields DEF Replies
    <3>6. Ready(z) /\ AckOk(z)
      BY <3>1, <3>2, <3>4, <3>5, ReadySent
    <3>7. ~windowOpen(z)
      BY <2>6, <3>2, <3>3, <3>5 DEF windowOpen
    <3> QED BY <2>1, <2>4, <2>6, <3>5, <3>6, <3>7, WinFullSteady DEF r
  <2> QED BY <2>5, <2>6
<1> QED BY <1>2, <1>4, <1>5

\* The three timeouts, in the states in which a timer can run.
LEMMA TimeoutSteady ==
    ASSUME NEW s \in Endpoint, NEW t \in Timer, Shape(s), Steady(s), s.panic = "none",
           s.state \in Handshake \cup Opened, t \in s.armed
    PROVE  Steady(timeout(s, t))
<1>1. s.state \in InConn /\ s.state # "PREP_OPEN"
  BY DEF Steady, Idle, Handshake, InConn, Opened
<1>2. CASE t = "REX"
  BY <1>1, <1>2, RexExpiry DEF timeout
<1>3. CASE t = "ACK"
  BY <1>1, <1>3, AckExpiry DEF timeout
<1>4. CASE t = "NUL"
  BY <1>1, <1>4, NulExpiry DEF timeout
<1> QED BY <1>2, <1>3, <1>4 DEF Timer

-----------------------------------------------------------------------------
(* From one connection to the next.                                        *)

\* close() stops the timers, forgets what was to be acknowledged, disables the
\* user's events and empties the reassembly buffer.
LEMMA CloseFields ==
    ASSUME NEW s \in Endpoint
    PROVE  LET c == close(s)
           IN  /\ c.armed = {} /\ c.numCak = 0 /\ c.peerBSY = FALSE
               /\ c.usrI = FALSE /\ c.usrO = FALSE /\ c.panic = s.panic
               /\ c.unOrderedSegs[0] = Empty
<1>1. /\ close(s).armed = {} /\ close(s).numCak = 0 /\ close(s).peerBSY = FALSE
      /\ close(s).usrI = FALSE /\ close(s).usrO = FALSE /\ close(s).panic = s.panic
      /\ close(s).unOrderedSegs = NothingReceived
  <2> DEFINE u == Wrap(s.oldestU + Len(s.unAckedSegs))
             n == NothingReceived
  <2>1. close(s) = [s EXCEPT !.outQ = <<>>, !.inpQ = <<>>, !.usrI = FALSE, !.usrO = FALSE,
              !.armed = {}, !.before = {},
              !.rexMX = RexMax, !.cakMX = CumAckMax,
              !.oldestU = u,
              !.unAckedSegs = <<>>, !.unOrderedSegs = n,
              !.numRex = 0, !.numCak = 0, !.peerBSY = FALSE,
              !.peerOssMX = MaxUnacked]
    BY DEF close
  <2> HIDE DEF u, n
  <2>2. /\ close(s).armed = {} /\ close(s).numCak = 0 /\ close(s).peerBSY = FALSE
        /\ close(s).usrI = FALSE /\ close(s).usrO = FALSE /\ close(s).panic = s.panic
        /\ close(s).unOrderedSegs = n
    BY <2>1 DEF Endpoint
  <2> QED BY <2>2 DEF n
<1>2. 0 \in 0..(MaxUnacked - 1)
  BY EndpointAssumption DEF Pow2
<1>3. NothingReceived[0] = Empty
  BY <1>2 DEF NothingReceived
<1> QED BY <1>1, <1>3

\* CLOSED::advance() before it sleeps.
LEMMA ClosedAdvanceSteady ==
    ASSUME NEW s \in Endpoint, s.panic = "none"
    PROVE  Steady(closedAdvance(s))
<1> DEFINE c == close(s)
           q == IF IsServer THEN "LISTEN" ELSE "CLOSED_SLEEP"
           z == changeState(c, q)
<1>1. closedAdvance(s) = z
  BY DEF closedAdvance
<1>2. /\ c \in Endpoint /\ c.armed = {} /\ c.numCak = 0 /\ c.peerBSY = FALSE
      /\ c.usrI = FALSE /\ c.usrO = FALSE /\ c.panic = "none" /\ c.unOrderedSegs[0] = Empty
  BY CloseType, CloseFields
<1> HIDE DEF c, q
<1>3. /\ Rest(z) = Rest(c) /\ Recv(z) = Recv(c) /\ z.state = q
      /\ z.numCak = c.numCak /\ z.armed = c.armed
  BY <1>2, ChangeStateRest
<1> HIDE DEF z
<1>4. /\ z.usrI = FALSE /\ z.usrO = FALSE /\ z.panic = "none" /\ z.unOrderedSegs[0] = Empty
      /\ z.armed = {} /\ z.numCak = 0 /\ z.peerBSY = FALSE
  BY <1>2, <1>3, RestFields
<1>5. /\ z.state \in {"LISTEN", "CLOSED_SLEEP"}
      /\ z.state = "LISTEN" => IsServer
      /\ z.state = "CLOSED_SLEEP" => ~IsServer
  BY <1>3 DEF q
<1>6. Timed(z) /\ Counted(z) /\ Alive(z)
  BY <1>4, <1>5 DEF Timed, Counted, Alive, InConn, Opened
<1>7. Fed(z) /\ Drained(z) /\ Idle(z) /\ Role(z)
  BY <1>4, <1>5 DEF Fed, Drained, Idle, Role, Opened, Handshake
<1> QED BY <1>1, <1>6, <1>7 DEF Steady

\* A client begins a connection: its SYN starts the timers.
LEMMA ReopenSteady ==
    ASSUME NEW s \in Endpoint, NEW isn \in SeqNo, Shape(s), Steady(s), s.panic = "none",
           s.state = "CLOSED_SLEEP"
    PROVE  Steady(reopen(s, isn))
<1> DEFINE i == increaseReopenDelay(s)
           y == sendSYN(i, FALSE, isn)
           z == changeState(y, "CLNT_WAIT_SYN_ACK")
<1>0. /\ ~IsServer /\ s.armed = {} /\ s.peerBSY = FALSE /\ ~s.usrI /\ ~s.usrO
      /\ s.unOrderedSegs[0] = Empty /\ Len(s.unAckedSegs) = 0
  BY DEF Steady, Role, Idle, Fed, Drained, Shape
<1>1. i \in Endpoint /\ Core(i) = Core(s)
  BY ReopenDelayType, ReopenDelayCore
<1>2. Rest(i) = Rest(s) /\ Recv(i) = Recv(s) /\ i.armed = s.armed
  <2> DEFINE d == IF s.reopenDelay < ReopenMax THEN s.reopenDelay + 2 ELSE s.reopenDelay
  <2>1. i = [s EXCEPT !.reopenDelay = d]
    BY DEF increaseReopenDelay
  <2> HIDE DEF d, i
  <2> QED BY <2>1 DEF Endpoint, Rest, Recv
<1> HIDE DEF i
<1>3. Window(i) /\ Len(i.unAckedSegs) = 0
  <2>1. Shape(i) /\ i.state = s.state
    BY <1>1, CoreFields, CoreKept, KeptShape
  <2> QED BY <2>1 DEF Shape
<1>4. y \in Endpoint /\ Pushes(i, y)
  BY <1>1, <1>3, SendSYNType, SendSYNPushes
<1> HIDE DEF y
<1>5. /\ Rest(z) = Rest(y) /\ Recv(z) = Recv(y) /\ z.state = "CLNT_WAIT_SYN_ACK"
      /\ z.unAckedSegs = y.unAckedSegs /\ z.numCak = y.numCak /\ z.armed = y.armed
  BY <1>4, ChangeStateRest
<1>6. reopen(s, isn) = z
  BY DEF reopen, y, i
<1> HIDE DEF z
<1>7. Rest(z) = Rest(s) /\ Recv(z) = Recv(s) /\ z.numCak = 0 /\ z.unAckedSegs # <<>>
      /\ z.armed = Rearmed(i)
  BY <1>0, <1>2, <1>4, <1>5 DEF Pushes
<1>8. /\ z.usrI = s.usrI /\ z.usrO = s.usrO /\ z.unOrderedSegs = s.unOrderedSegs
      /\ z.panic = s.panic /\ z.peerBSY = s.peerBSY /\ i.peerBSY = s.peerBSY
      /\ z.cakMX = s.cakMX /\ s.cakMX \in Nat
  BY <1>2, <1>7, RestFields, EventTypes
<1>9. "NUL" \in z.armed /\ "REX" \in z.armed /\ "ACK" \notin z.armed
  BY <1>0, <1>7, <1>8 DEF Rearmed
<1>10. AckOk(z) /\ RexIff(z)
  BY <1>0, <1>7, <1>8, <1>9 DEF AckOk, RexIff
<1> QED BY <1>0, <1>5, <1>6, <1>8, <1>9, <1>10, SteadyIn

\* PREP_OPEN::advance(): the user's input is enabled.
LEMMA PrepOpenAdvanceSteady ==
    ASSUME NEW s \in Endpoint, Steady(s), s.panic = "none", s.state = "PREP_OPEN"
    PROVE  Steady(prepOpenAdvance(s))
<1> DEFINE z == changeState([s EXCEPT !.usrI = TRUE], "OPEN")
<1>1. /\ z.usrI = TRUE /\ z.state = "OPEN" /\ Recv(z) = Recv(s)
      /\ z.peerOssMX = s.peerOssMX /\ z.rexMX = s.rexMX /\ z.cakMX = s.cakMX
      /\ z.peerBSY = s.peerBSY /\ z.panic = s.panic
      /\ z.unAckedSegs = s.unAckedSegs /\ z.numCak = s.numCak /\ z.armed = s.armed
  <2>1. "OPEN" \in State /\ TRUE \in BOOLEAN
    BY DEF State, Opened
  <2> QED BY <2>1, UsrIFields, Zenon
<1>2. prepOpenAdvance(s) = z
  BY DEF prepOpenAdvance
<1> HIDE DEF z
<1>3. "NUL" \in s.armed /\ AckOk(s) /\ RexIff(s)
  BY SteadyConn DEF InConn, Opened
<1>4. ~IsServer => Out(s)
  BY DEF Steady, Drained, Out
<1>5. AckOk(z) /\ RexIff(z) /\ (~IsServer => Out(z))
  BY <1>1, <1>3, <1>4, SteadyFrom
<1> QED BY <1>1, <1>2, <1>3, <1>5, SteadyIn

\* threadStop().
LEMMA ThreadStopSteady ==
    ASSUME NEW s \in Endpoint, s.panic = "none"
    PROVE  Steady(threadStop(s))
<1> DEFINE r == IF s.state \in {"CLOSED", "CLOSED_SLEEP", "LISTEN"} THEN s ELSE sendRST(s)
           c == close(r)
           z == [c EXCEPT !.state = "CLOSED"]
<1>1. r \in Endpoint /\ r.panic = "none"
  BY SendRSTType, SendReplies, RestFields DEF Replies
<1> HIDE DEF r
<1>2. c \in Endpoint /\ c.panic = "none"
  BY <1>1, CloseType, CloseFields
<1> HIDE DEF c
<1>3. z.state = "CLOSED" /\ z.panic = c.panic
  BY <1>2 DEF Endpoint
<1>4. threadStop(s) = z
  BY DEF threadStop, c, r
<1> HIDE DEF z
<1> QED BY <1>2, <1>3, <1>4, ClosedSteady

\* A new endpoint.
LEMMA InitSteady ==
    ASSUME NEW a, NEW b, NEW u, NEW r
    PROVE  Steady(InitEndpoint(a, b, u, r))
<1> DEFINE s == InitEndpoint(a, b, u, r)
<1>1. s.state = "CLOSED" /\ s.panic = "none"
  BY DEF InitEndpoint
<1> HIDE DEF s
<1>2. Steady(s)
  BY <1>1, ClosedSteady
<1> QED BY <1>2 DEF s

\* What the users do to the queues, and that the segments sent are on their way,
\* does not concern the invariant.
LEMMA QueueSteady ==
    ASSUME NEW s \in Endpoint, Steady(s), NEW q
    PROVE  /\ Steady([s EXCEPT !.tx = q])
           /\ Steady([s EXCEPT !.inpQ = q])
           /\ Steady([s EXCEPT !.outQ = q])
<1>1. ASSUME NEW z, z.state = s.state, z.panic = s.panic, z.armed = s.armed,
             z.rexMX = s.rexMX, z.cakMX = s.cakMX, z.peerOssMX = s.peerOssMX,
             z.unAckedSegs = s.unAckedSegs, z.peerBSY = s.peerBSY, z.numCak = s.numCak,
             z.usrI = s.usrI, z.usrO = s.usrO, z.unOrderedSegs = s.unOrderedSegs
      PROVE  Steady(z)
  <2>1. Timed(z) /\ Counted(z)
    BY <1>1 DEF Steady, Timed, Counted, RexIff, AckOk
  <2>2. Fed(z) /\ Drained(z)
    BY <1>1 DEF Steady, Fed, Drained, windowOpen, Out
  <2>3. Alive(z) /\ Idle(z) /\ Role(z)
    BY <1>1 DEF Steady, Alive, Idle, Role
  <2> QED BY <2>1, <2>2, <2>3 DEF Steady
<1>2. Steady([s EXCEPT !.tx = q])
  BY <1>1 DEF Endpoint
<1>3. Steady([s EXCEPT !.inpQ = q])
  BY <1>1 DEF Endpoint
<1>4. Steady([s EXCEPT !.outQ = q])
  BY <1>1 DEF Endpoint
<1> QED BY <1>2, <1>3, <1>4
=============================================================================
