---------------------------- MODULE RssiEndpoint ----------------------------
(***************************************************************************)
(* One RSSI endpoint (class CRssi): the functions its thread calls, as     *)
(* operators that map the endpoint's state, a record s, to the state after *)
(* the call.  A module that has such a record as a variable (RssiNode), or *)
(* two of them and a network (RssiLink), turns the handlers into actions.  *)
(*                                                                         *)
(* The record's fields keep the names of CRssi's members.  In addition     *)
(*   armed, before  the timers in the RssiTimerList and which of them      *)
(*                  certainly expires before which;                        *)
(*   usrI, usrO     whether the handlers of the read event of inpQ and of  *)
(*                  the write event of outQ are enabled;                   *)
(*   conn           what the connection-state event sources report;        *)
(*   panic          the InternalError the thread died of, if any;          *)
(*   tx             the segments the current step handed to the module     *)
(*                  upstream (UDP), in order.                              *)
(***************************************************************************)
EXTENDS Integers, Sequences, FiniteSets

CONSTANTS
    IsServer,     \* isServer_
    SeqMod,       \* number of sequence numbers (256: SeqNo is an uint8_t)
    MaxUnacked,   \* maxUnackedSegs_ = 1 << ldMaxUnackedSegs
    OutDepth,     \* capacity of outQ
    InpDepth,     \* capacity of inpQ
    RexMax,       \* configured rexMax_ (proposed or, by a server, imposed)
    CumAckMax,    \* configured cumAckMax_
    RexTO, CakTO, NulTO,    \* the timeouts; only their order matters
    ReopenMax,    \* where increaseReopenDelay() stops (10 seconds)
    Isn,          \* the initial sequence numbers the clock can yield
    Payload,      \* user data of a segment
    NoPld, NoPar, \* "no payload", "no SYN parameters"
    Empty, Nul    \* a slot of the reassembly buffer that is free, or holds a NUL

Pow2 == {1, 2, 4, 8, 16, 32, 64, 128, 256}

ASSUME EndpointAssumption ==
    /\ IsServer \in BOOLEAN
    /\ SeqMod \in 2..256
    /\ MaxUnacked \in Pow2 /\ 2 * MaxUnacked <= SeqMod
    /\ OutDepth \in Nat \ {0} /\ InpDepth \in Nat \ {0}
    /\ RexMax \in Nat /\ CumAckMax \in Nat
    /\ ReopenMax \in Nat /\ ReopenMax % 2 = 0 /\ ReopenMax >= 2
    /\ RexTO \in Nat /\ CakTO \in Nat /\ NulTO \in Nat
    /\ Isn \subseteq 0..(SeqMod - 1) /\ Isn # {}
    /\ {NoPld, Empty, Nul} \cap Payload = {} /\ Empty # Nul

SeqNo  == 0..(SeqMod - 1)
Flag   == {"SYN", "ACK", "NUL", "RST", "BSY"}
Timer  == {"REX", "ACK", "NUL"}
Opened == {"OPEN", "OPEN_OUTWIN_FULL"}

\* CLOSED_SLEEP is stateCLOSED while a client sleeps in CLOSED::advance().
State  == {"CLOSED", "CLOSED_SLEEP", "LISTEN", "CLNT_WAIT_SYN_ACK",
           "SERV_WAIT_SYN_ACK", "PREP_OPEN"} \cup Opened

\* The parameters of a SYN.  A peer's window may exceed MaxUnacked.
Par == [ossMX : 1..(SeqMod - 1), rexMX : Nat, cakMX : Nat]

\* A segment.  A damaged or malformed one is dropped unseen: it is lost.
Seg == [flags : SUBSET Flag, seq : SeqNo, ack : SeqNo,
        pld : Payload \cup {NoPld}, par : Par \cup {NoPar}]

Slot == Payload \cup {Empty, Nul}

\* The InternalErrors an endpoint may throw.
Fault == {"none", "RingBuf Overflow", "UsrInputEvent", "UsrOutputEvent",
          "ACKTimeout", "NULTimeout"}

ReopenDelay == {d \in 0..ReopenMax : d % 2 = 0}

\* The state of an endpoint.
Endpoint ==
    [state : State, lastSeqSent : SeqNo, lastSeqRecv : SeqNo,
     unAckedSegs : Seq(Seg), oldestU : SeqNo, capa : Pow2,
     unOrderedSegs : [0..(MaxUnacked - 1) -> Slot], oldestR : SeqNo,
     peerOssMX : 1..(SeqMod - 1), rexMX : Nat, cakMX : Nat,
     numRex : Nat, numCak : Int, peerBSY : BOOLEAN,
     armed : SUBSET Timer, before : SUBSET (Timer \X Timer),
     usrI : BOOLEAN, usrO : BOOLEAN,
     inpQ : Seq(Payload), outQ : Seq(Payload),
     conn : {"OPEN", "CLOSED"}, reopenDelay : ReopenDelay,
     panic : Fault, tx : Seq(Seg)]

Wrap(n) == n % SeqMod

-----------------------------------------------------------------------------
(* Timers.  The list is sorted by expiration, so timer t is not processed  *)
(* while a timer u precedes it.  Expiration times are abstracted to the    *)
(* order that is certain: u was armed before t with a timeout no longer    *)
(* than t's.  Any other order of two armed timers is possible.             *)

TO == [REX |-> RexTO, ACK |-> CakTO,
       NUL |-> IF IsServer THEN NulTO ELSE NulTO \div 3]

cancel(s, t) ==
    [s EXCEPT !.armed  = @ \ {t},
              !.before = {p \in @ : p[1] # t /\ p[2] # t}]

arm(s, t) ==
    [s EXCEPT !.armed  = @ \cup {t},
              !.before = {p \in @ : p[1] # t /\ p[2] # t}
                         \cup {<<u, t>> : u \in {v \in s.armed \ {t} : TO[v] <= TO[t]}}]

isFirstToExpire(s, t) ==
    t \in s.armed /\ \A u \in s.armed : <<u, t>> \notin s.before

-----------------------------------------------------------------------------
(* Sending.                                                                *)

outQFull(s) == Len(s.outQ) >= OutDepth

\* sendBuf() writes BSY and the acknowledgement number into the buffer itself.
\* A BSY flag is never cleared: it is still set when the buffer is sent again.
\* The acknowledgement number is rewritten every time (0 in a kept segment).
mark(s, g)  == [g EXCEPT !.flags = IF outQFull(s) THEN @ \cup {"BSY"} ELSE @]
stamp(s, g) == [mark(s, g) EXCEPT !.ack = s.lastSeqRecv]

\* sendBuf() of every segment of the non-empty sequence gs.  Whether the
\* upstream queue has room (outgoingDropped_) is the network's affair.
sendBuf(s, gs) ==
    [cancel(s, "ACK") EXCEPT
        !.numCak = 0,
        !.tx     = @ \o [i \in DOMAIN gs |-> stamp(s, gs[i])]]

armRexAndNulTimer(s) ==
    LET r == IF s.peerBSY THEN s ELSE arm(s, "REX")
    IN  IF IsServer THEN r ELSE arm(r, "NUL")

\* sendBuf() and RingBuf::push() of every segment of gs.
sendBufAndKeepForRetransmission(s, gs) ==
    LET r == sendBuf(s, gs)
    IN  armRexAndNulTimer(
          [r EXCEPT !.unAckedSegs = @ \o [i \in DOMAIN gs |-> mark(s, gs[i])],
                    !.panic = IF Len(s.unAckedSegs) + Len(gs) - 1 > s.capa
                              THEN "RingBuf Overflow" ELSE @])

MkSeg(flags, seq, pld) ==
    [flags |-> flags, seq |-> Wrap(seq), ack |-> 0, pld |-> pld, par |-> NoPar]

\* n > 0 segments with the payloads at the head of inpQ.
sendDAT(s, n) ==
    sendBufAndKeepForRetransmission(
        [s EXCEPT !.lastSeqSent = Wrap(@ + n), !.inpQ = SubSeq(@, n + 1, Len(@))],
        [i \in 1..n |-> MkSeg({"ACK"}, s.lastSeqSent + i, s.inpQ[i])])

\* Mutant: an ACK consumes a sequence number.
sendACK_counted(s) ==
    sendBuf([s EXCEPT !.lastSeqSent = Wrap(@ + 1)],
            <<MkSeg({"ACK"}, s.lastSeqSent + 1, NoPld)>>)

sendACK(s) == sendBuf(s, <<MkSeg({"ACK"}, s.lastSeqSent + 1, NoPld)>>)

\* Mutant: the sequence number is wider than the header's.
sendRST_wide(s) ==
    sendBuf([s EXCEPT !.lastSeqSent = @ + 1],
            <<MkSeg({"ACK", "RST"}, s.lastSeqSent + 1, NoPld)>>)

sendRST(s) ==
    sendBuf([s EXCEPT !.lastSeqSent = Wrap(@ + 1)],
            <<MkSeg({"ACK", "RST"}, s.lastSeqSent + 1, NoPld)>>)

\* Mutant: one segment more than the peer announced.
windowOpen_offByOne(s) == Len(s.unAckedSegs) <= s.peerOssMX

windowOpen(s) == Len(s.unAckedSegs) < s.peerOssMX

sendNUL(s) ==
    IF windowOpen(s)
    THEN sendBufAndKeepForRetransmission(
            [s EXCEPT !.lastSeqSent = Wrap(@ + 1)],
            <<MkSeg({"ACK", "NUL"}, s.lastSeqSent + 1, NoPld)>>)
    ELSE sendACK(arm(s, "NUL"))

\* isn is what the clock yields for the first sequence number.
sendSYN(s, doAck, isn) ==
    sendBufAndKeepForRetransmission(
        [s EXCEPT !.lastSeqSent = isn, !.oldestU = isn],
        <<[MkSeg(IF doAck THEN {"SYN", "ACK"} ELSE {"SYN"}, isn, NoPld) EXCEPT
              !.par = [ossMX |-> MaxUnacked, rexMX |-> s.rexMX, cakMX |-> s.cakMX]]>>)

-----------------------------------------------------------------------------
(* State changes.                                                          *)

ConnState(q) == CASE q \in Opened                     -> "OPEN"
                  [] q \in {"CLOSED", "CLOSED_SLEEP"} -> "CLOSED"
                  [] OTHER                            -> "NONE"

changeState(s, q) ==
    [s EXCEPT !.state = q,
              !.conn  = IF ConnState(q) \notin {"NONE", ConnState(s.state)}
                        THEN ConnState(q) ELSE @]

NothingReceived == [i \in 0..(MaxUnacked - 1) |-> Empty]

\* Mutant: the user's input remains enabled.
close_keepInput(s) ==
    [s EXCEPT !.outQ = <<>>, !.inpQ = <<>>, !.usrO = FALSE,
              !.armed = {}, !.before = {},
              !.rexMX = RexMax, !.cakMX = CumAckMax,
              !.oldestU = Wrap(@ + Len(s.unAckedSegs)),
              !.unAckedSegs = <<>>, !.unOrderedSegs = NothingReceived,
              !.numRex = 0, !.numCak = 0, !.peerBSY = FALSE,
              !.peerOssMX = MaxUnacked]

\* Mutant: what was not acknowledged is kept for the next connection.
close_keepUnacked(s) ==
    [s EXCEPT !.outQ = <<>>, !.inpQ = <<>>, !.usrI = FALSE, !.usrO = FALSE,
              !.armed = {}, !.before = {},
              !.rexMX = RexMax, !.cakMX = CumAckMax,
              !.unOrderedSegs = NothingReceived,
              !.numRex = 0, !.numCak = 0, !.peerBSY = FALSE,
              !.peerOssMX = MaxUnacked]

close(s) ==
    [s EXCEPT !.outQ = <<>>, !.inpQ = <<>>, !.usrI = FALSE, !.usrO = FALSE,
              !.armed = {}, !.before = {},
              !.rexMX = RexMax, !.cakMX = CumAckMax,
              !.oldestU = Wrap(@ + Len(s.unAckedSegs)),
              !.unAckedSegs = <<>>, !.unOrderedSegs = NothingReceived,
              !.numRex = 0, !.numCak = 0, !.peerBSY = FALSE,
              !.peerOssMX = MaxUnacked]

increaseReopenDelay(s) == [s EXCEPT !.reopenDelay = IF @ < ReopenMax THEN @ + 2 ELSE @]
resetReopenDelay(s)    == [s EXCEPT !.reopenDelay = 2]

\* CLOSED::advance() up to the client's nanosleep(), and from there on.
closedAdvance(s) ==
    IF IsServer THEN changeState(close(s), "LISTEN")
                ELSE changeState(close(s), "CLOSED_SLEEP")

reopen(s, isn) ==
    changeState(sendSYN(increaseReopenDelay(s), FALSE, isn), "CLNT_WAIT_SYN_ACK")

\* Mutant: the user's input is not enabled.
prepOpenAdvance_deaf(s) == changeState(s, "OPEN")

prepOpenAdvance(s) == changeState([s EXCEPT !.usrI = TRUE], "OPEN")

\* The caller of threadStop() runs this once the RSSI thread has ended.
threadStop(s) ==
    LET r == IF s.state \in {"CLOSED", "CLOSED_SLEEP", "LISTEN"} THEN s ELSE sendRST(s)
    IN  [close(r) EXCEPT !.state = "CLOSED"]

-----------------------------------------------------------------------------
(* Receiving.                                                              *)

RingCapa(n) == CHOOSE c \in Pow2 : c >= n /\ \A d \in Pow2 : d >= n => c <= d

\* A client accepts the server's parameters, a server keeps its own.
extractConnectionParams(s, par) ==
    [s EXCEPT !.peerOssMX = par.ossMX,
              !.capa  = IF par.ossMX > @ THEN RingCapa(par.ossMX) ELSE @,
              !.rexMX = IF IsServer THEN @ ELSE par.rexMX,
              !.cakMX = IF IsServer THEN @ ELSE par.cakMX]

forceACK(s) == [s EXCEPT !.numCak = s.cakMX]

\* Mutant: one segment more than acknowledged is released.
processAckNumber_offByOne(s, g) ==
    LET cum  == Wrap(g.ack - s.oldestU + 2)
        n    == IF cum <= Len(s.unAckedSegs) THEN cum ELSE 0
        left == SubSeq(s.unAckedSegs, n + 1, Len(s.unAckedSegs))
        r    == [s EXCEPT !.unAckedSegs = left, !.oldestU = Wrap(@ + n),
                          !.numRex = IF n > 0 \/ left = <<>> THEN 0 ELSE @]
    IN  CASE "ACK" \notin g.flags                -> s
          [] "ACK" \in g.flags /\ left = <<>> -> cancel(r, "REX")
          [] OTHER                             -> r

\* processAckNumber() and RingBuf::ack(): an acknowledgement of more than was
\* sent is ignored.
processAckNumber(s, g) ==
    LET cum  == Wrap(g.ack - s.oldestU + 1)
        n    == IF cum <= Len(s.unAckedSegs) THEN cum ELSE 0
        left == SubSeq(s.unAckedSegs, n + 1, Len(s.unAckedSegs))
        r    == [s EXCEPT !.unAckedSegs = left, !.oldestU = Wrap(@ + n),
                          !.numRex = IF n > 0 \/ left = <<>> THEN 0 ELSE @]
    IN  CASE "ACK" \notin g.flags                -> s
          [] "ACK" \in g.flags /\ left = <<>> -> cancel(r, "REX")
          [] OTHER                             -> r

offset(s, seq)    == Wrap(seq - s.oldestR)
canAccept(s, seq) == offset(s, seq) < MaxUnacked

\* Mutant: a NUL is kept as if it were data.
store_nulAsData(s, g) == [s EXCEPT !.unOrderedSegs[offset(s, g.seq)] = g.pld]

store(s, g) ==
    [s EXCEPT !.unOrderedSegs[offset(s, g.seq)] =
                  IF "NUL" \in g.flags THEN Nul ELSE g.pld]

\* OPEN::drainReassembleBuffer(), the loop in closed form: the slots it pops
\* are the longest prefix without a gap whose payloads fit into outQ.
isData(s, i) == s.unOrderedSegs[i] \notin {Empty, Nul}

drainable(s) ==
    {i \in 0..(MaxUnacked - 1) : \A j \in 0..i :
        /\ s.unOrderedSegs[j] # Empty
        /\ isData(s, j) => Cardinality({h \in 0..(j - 1) : isData(s, h)})
                             < OutDepth - Len(s.outQ)}

\* The n-th of the payloads at the slots D.
payloads(s, D) ==
    LET nth(n) == CHOOSE i \in D : Cardinality({h \in D : h <= i}) = n
    IN  [n \in 1..Cardinality(D) |-> s.unOrderedSegs[nth(n)]]

drainReassembleBuffer(s) ==
    LET k      == Cardinality(drainable(s))
        oldest == Wrap(s.oldestR + k)
    IN  [s EXCEPT
            !.outQ = @ \o payloads(s, {i \in drainable(s) : isData(s, i)}),
            !.unOrderedSegs = [i \in 0..(MaxUnacked - 1) |->
                                 IF i + k < MaxUnacked THEN s.unOrderedSegs[i + k] ELSE Empty],
            !.oldestR = oldest,
            !.lastSeqRecv = Wrap(oldest - 1),
            !.usrO = @ \/ (k < MaxUnacked /\ s.unOrderedSegs[k] # Empty)]

\* Verdict of a handleSYN() or handleOTH(): its return value and the state.
Accept(s) == [ok |-> TRUE,  ep |-> s]
Reject(s) == [ok |-> FALSE, ep |-> s]

\* Mutant: the SYN is expected once more.
seedRecv_offByOne(s, seq) == [s EXCEPT !.lastSeqRecv = seq, !.oldestR = seq]

seedRecv(s, seq) == [s EXCEPT !.lastSeqRecv = seq, !.oldestR = Wrap(seq + 1)]

handleSYN(s, g, isn) ==
    LET r == extractConnectionParams(s, g.par)
        f == forceACK(seedRecv(r, g.seq))
        y == sendSYN(seedRecv(r, g.seq), TRUE, isn)
    IN  CASE s.state = "LISTEN" ->
               Accept(changeState([y EXCEPT !.numCak = @ - 1], "SERV_WAIT_SYN_ACK"))
          [] s.state = "CLNT_WAIT_SYN_ACK" /\ "ACK" \notin g.flags ->
               Reject(changeState(sendRST(r), "CLOSED"))
          [] s.state = "CLNT_WAIT_SYN_ACK" /\ "ACK" \in g.flags ->
               Accept(IF g.ack = s.lastSeqSent THEN changeState(f, "PREP_OPEN") ELSE f)
          [] OTHER -> Accept(forceACK(s))

hasPayload(g) == g.pld # NoPld
isPureAck(g)  == g.flags \ {"BSY"} = {"ACK"}

\* WAIT_SYN::handleOTH() and NOTCLOSED::handleOTH().
handleOTH(s, g) ==
    IF s.state \in {"LISTEN", "CLNT_WAIT_SYN_ACK"}
    THEN IF "RST" \in g.flags /\ canAccept(s, g.seq) /\ ~hasPayload(g)
         THEN Accept(changeState(sendRST(s), "CLOSED"))
         ELSE Reject(s)
    ELSE CASE isPureAck(g) /\ ~hasPayload(g) -> Accept([s EXCEPT !.numCak = @ - 1])
           [] "NUL" \in g.flags ->
                IF IsServer /\ ~hasPayload(g) THEN Accept(forceACK(s)) ELSE Reject(s)
           [] "RST" \in g.flags /\ "NUL" \notin g.flags -> Accept(changeState(s, "CLOSED"))
           [] OTHER -> IF hasPayload(g) THEN Accept(s) ELSE Reject(s)

\* Mutant: the timer is not armed again.
processRetransmissionTimeout_once(s) ==
    LET r == [s EXCEPT !.numRex = @ + 1]
        again == sendBuf(r, r.unAckedSegs)
    IN  CASE r.numRex > r.rexMX -> changeState(sendRST(r), "CLOSED")
          [] r.numRex <= r.rexMX /\ r.unAckedSegs = <<>> -> r
          [] OTHER -> again

\* Mutant: retransmission never gives up.
processRetransmissionTimeout_forever(s) ==
    LET again == sendBuf(s, s.unAckedSegs)
    IN  IF s.unAckedSegs = <<>> THEN s ELSE armRexAndNulTimer(again)

processRetransmissionTimeout(s) ==
    LET r == [s EXCEPT !.numRex = @ + 1]
        again == sendBuf(r, r.unAckedSegs)
    IN  CASE r.numRex > r.rexMX -> changeState(sendRST(r), "CLOSED")
          [] r.numRex <= r.rexMX /\ r.unAckedSegs = <<>> -> r
          [] OTHER -> armRexAndNulTimer(
                 [again EXCEPT !.unAckedSegs = [i \in DOMAIN @ |-> mark(r, @[i])]])

\* q is the state whose handler is running: s.state may have changed since.
hasBufToSend(q, s) == q \in Opened /\ windowOpen(s) /\ s.inpQ # <<>>

sendDATorACK(q, s) == IF hasBufToSend(q, s) THEN sendDAT(s, 1) ELSE sendACK(s)

\* Mutant: the ACK timer is not armed.
countAndAck_lazy(q, s) ==
    LET n == [s EXCEPT !.numCak = @ + 1]
        r == IF n.numCak > n.cakMX THEN sendDATorACK(q, n) ELSE n
    IN  IF IsServer THEN arm(r, "NUL") ELSE r

\* The tail of handleRxEvent(): acknowledge now, soon, or later.
countAndAck(q, s) ==
    LET n == [s EXCEPT !.numCak = @ + 1]
        r == CASE n.numCak > n.cakMX -> sendDATorACK(q, n)
               [] n.numCak <= n.cakMX /\ n.numCak = 1 -> arm(n, "ACK")
               [] OTHER -> n
    IN  IF IsServer THEN arm(r, "NUL") ELSE r

\* What handleRxEvent() does with a segment handleSYN()/handleOTH() accepted.
acceptSegment(q, s, g) ==
    LET a    == processAckNumber(s, g)
        in   == (hasPayload(g) \/ "NUL" \in g.flags) /\ canAccept(a, g.seq)
        d    == IF ~in THEN a
                ELSE IF q \in Opened THEN drainReassembleBuffer(store(a, g)) ELSE store(a, g)
        busy == "BSY" \in g.flags
        b    == [(IF busy /\ ~d.peerBSY THEN cancel(d, "REX") ELSE d) EXCEPT !.peerBSY = busy]
    IN  IF d.peerBSY /\ ~busy /\ b.unAckedSegs # <<>>
        THEN processRetransmissionTimeout(b)
        ELSE countAndAck(q, b)

notClosedRx(s, g, isn) ==
    LET v == IF "SYN" \in g.flags THEN handleSYN(s, g, isn) ELSE handleOTH(s, g)
    IN  IF v.ok THEN acceptSegment(s.state, v.ep, g) ELSE v.ep

\* handleRxEvent() of each state.  The two overriding handlers look at the
\* window only, whatever state the common part has changed to.
handleRxEvent(s, g, isn) ==
    LET r == notClosedRx(s, g, isn)
    IN  CASE s.state = "SERV_WAIT_SYN_ACK" /\ r.unAckedSegs = <<>> ->
               arm(changeState(resetReopenDelay(r), "PREP_OPEN"), "NUL")
          [] s.state = "OPEN_OUTWIN_FULL" /\ windowOpen(r) ->
               changeState([r EXCEPT !.usrI = TRUE], "OPEN")
          [] OTHER -> r

-----------------------------------------------------------------------------
(* User events and timeouts.                                               *)

Panic(s, what) == [s EXCEPT !.panic = what]

outWinFull(s) == changeState([s EXCEPT !.usrI = FALSE], "OPEN_OUTWIN_FULL")

handleUsrInputEvent(s) ==
    LET room == s.peerOssMX - Len(s.unAckedSegs)
        n    == IF Len(s.inpQ) < room THEN Len(s.inpQ) ELSE room
        r    == IF n > 0 THEN sendDAT(s, n) ELSE s
    IN  CASE s.state \notin Opened                -> Panic(s, "UsrInputEvent")
          [] s.state \in Opened /\ windowOpen(r) -> r
          [] OTHER                               -> outWinFull(r)

\* Mutant: the handler is disabled after draining, not before.
handleUsrOutputEvent_late(s) ==
    LET r == [drainReassembleBuffer(s) EXCEPT !.usrO = FALSE]
    IN  IF s.state \notin Opened THEN Panic(s, "UsrOutputEvent") ELSE sendACK(r)

handleUsrOutputEvent(s) ==
    LET r == drainReassembleBuffer([s EXCEPT !.usrO = FALSE])
    IN  CASE s.state \notin Opened         -> Panic(s, "UsrOutputEvent")
          [] s.state \in Opened /\ r.usrO -> r
          [] OTHER                        -> sendACK(r)

processAckTimeout(s) ==
    IF s.state \in Opened THEN sendDATorACK(s.state, s) ELSE Panic(s, "ACKTimeout")

processNulTimeout(s) ==
    CASE s.state \notin Opened -> Panic(s, "NULTimeout")
      [] s.state \in Opened /\ IsServer -> changeState(sendRST(s), "CLOSED")
      [] OTHER -> IF windowOpen(s) THEN sendNUL(s) ELSE outWinFull(sendNUL(s))

\* NOTCLOSED::advance() when no event arrives before the first timer expires.
timeout(s, t) ==
    LET r == cancel(s, t)
    IN  CASE t = "REX" -> processRetransmissionTimeout(r)
          [] t = "ACK" -> processAckTimeout(r)
          [] OTHER     -> processNulTimeout(r)

-----------------------------------------------------------------------------
(* The state of a new CRssi.  The sequence numbers are not initialized.    *)

InitEndpoint(sent, recv, u, r) ==
    [state |-> "CLOSED", lastSeqSent |-> sent, lastSeqRecv |-> recv,
     unAckedSegs |-> <<>>, oldestU |-> u, capa |-> MaxUnacked,
     unOrderedSegs |-> NothingReceived, oldestR |-> r,
     peerOssMX |-> MaxUnacked, rexMX |-> RexMax, cakMX |-> CumAckMax,
     numRex |-> 0, numCak |-> 0, peerBSY |-> FALSE,
     armed |-> {}, before |-> {}, usrI |-> TRUE, usrO |-> TRUE,
     inpQ |-> <<>>, outQ |-> <<>>, conn |-> "CLOSED", reopenDelay |-> 0,
     panic |-> "none", tx |-> <<>>]
=============================================================================
