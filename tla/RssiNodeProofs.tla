--------------------------- MODULE RssiNodeProofs ---------------------------
(***************************************************************************)
(* What is proved of RssiNode, for every value of its constants: the type  *)
(* invariant (TypeCorrect); that an endpoint never has more segments       *)
(* outstanding than its peer announced, nor than its ring buffer holds     *)
(* (WindowRespect); that those are numbered without a gap                  *)
(* (UnackedSequence), and that what is acknowledged is what was delivered  *)
(* (AckDelivered); that the timers, the pending acknowledgements and the   *)
(* user's events are in step with the connection (Timers, AcksInTime,      *)
(* InputFlow, OutputFlow, HandshakePanic).  Each step is a handler of      *)
(* RssiEndpoint: the lemmas about those are in RssiEndpointProofs.         *)
(***************************************************************************)
EXTENDS RssiNode, RssiEndpointProofs

\* The segments of a peer are segments, and its SYNs carry parameters.
LEMMA PeerSegType == \A g \in PeerSeg : g \in Seg /\ ("SYN" \in g.flags => g.par \in Par)
<1>1. PeerSeg \subseteq Seg
  BY NodeAssumption DEF PeerSeg, Seg, Flag
<1>2. \A g \in PeerSeg : "SYN" \in g.flags => g.par \in Par
  BY NodeAssumption DEF PeerSeg
<1> QED BY <1>1, <1>2

\* What a step leaves in ep once the segments it sent are on their way.
LEMMA SentType ==
    ASSUME NEW s \in Endpoint, Sent(s)
    PROVE  ep' \in Endpoint
<1>1. [s EXCEPT !.tx = <<>>] \in Endpoint
  <2> DEFINE z == <<>>
  <2>1. z \in Seq(Seg)
    OBVIOUS
  <2>2. [s EXCEPT !.tx = z] \in Endpoint
    <3> HIDE DEF z
    <3> QED BY <2>1 DEF Endpoint
  <2> QED BY <2>2
<1> QED BY <1>1 DEF Sent

\* No step takes a field out of its type.
LEMMA TypeStep == TypeOK /\ [Next]_vars => TypeOK'
<1> SUFFICES ASSUME TypeOK, [Next]_vars PROVE TypeOK'
  OBVIOUS
<1>0. ep \in Endpoint /\ run \in BOOLEAN
  BY DEF TypeOK
<1>1. CASE ThreadStart
  BY <1>0, <1>1 DEF ThreadStart, TypeOK
<1>2. CASE ThreadStop
  BY <1>0, <1>2, ThreadStopType, SentType DEF ThreadStop, TypeOK
<1>3. CASE ClosedAdvance
  BY <1>0, <1>3, ClosedAdvanceType, SentType DEF ClosedAdvance, TypeOK
<1>4. CASE Reopen
  <2>1. PICK isn \in Isn : Sent(reopen(ep, isn))
    BY <1>4 DEF Reopen
  <2>2. isn \in SeqNo
    BY EndpointAssumption DEF SeqNo
  <2>3. ep' \in Endpoint
    BY <1>0, <2>1, <2>2, ReopenType, SentType
  <2> QED BY <1>0, <1>4, <2>3 DEF Reopen, TypeOK
<1>5. CASE PrepOpenAdvance
  BY <1>0, <1>5, PrepOpenAdvanceType, SentType DEF PrepOpenAdvance, TypeOK
<1>6. ASSUME NEW g \in PeerSeg, RxEvent(g) PROVE TypeOK'
  <2>1. PICK isn \in Isn : Sent(handleRxEvent(ep, g, isn))
    BY <1>6 DEF RxEvent
  <2>2. isn \in SeqNo
    BY EndpointAssumption DEF SeqNo
  <2>3. ep' \in Endpoint
    BY <1>0, <2>1, <2>2, PeerSegType, HandleRxEventType, SentType
  <2> QED BY <1>0, <1>6, <2>3 DEF RxEvent, TypeOK
<1>7. CASE UsrInputEvent
  BY <1>0, <1>7, UsrInputType, SentType DEF UsrInputEvent, TypeOK
<1>8. CASE UsrOutputEvent
  BY <1>0, <1>8, UsrOutputType, SentType DEF UsrOutputEvent, TypeOK
<1>9. ASSUME NEW t \in Timer, Timeout(t) PROVE TypeOK'
  BY <1>0, <1>9, TimeoutType, SentType DEF Timeout, TypeOK
<1>10. ASSUME NEW p \in Payload, UsrPush(p) PROVE TypeOK'
  <2> DEFINE q == Append(ep.inpQ, p)
  <2>1. q \in Seq(Payload)
    <3>1. ep.inpQ \in Seq(Payload)
      BY <1>0 DEF Endpoint
    <3> QED BY <3>1, AppendProperties
  <2>2. [ep EXCEPT !.inpQ = q] \in Endpoint
    <3> HIDE DEF q
    <3> QED BY <1>0, <2>1 DEF Endpoint
  <2> QED BY <1>0, <1>10, <2>2 DEF UsrPush, TypeOK
<1>11. CASE UsrPop
  <2> DEFINE q == Tail(ep.outQ)
  <2>1. q \in Seq(Payload)
    <3>1. ep.outQ \in Seq(Payload) /\ ep.outQ # <<>>
      BY <1>0, <1>11 DEF Endpoint, UsrPop
    <3> QED BY <3>1, HeadTailProperties
  <2>2. [ep EXCEPT !.outQ = q] \in Endpoint
    <3> HIDE DEF q
    <3> QED BY <1>0, <2>1 DEF Endpoint
  <2> QED BY <1>0, <1>11, <2>2 DEF UsrPop, TypeOK
<1>12. CASE UNCHANGED vars
  BY <1>0, <1>12 DEF vars, TypeOK
<1> QED BY <1>1, <1>2, <1>3, <1>4, <1>5, <1>6, <1>7, <1>8, <1>9, <1>10, <1>11, <1>12 DEF Next

\* Whatever arrives, the fields of the endpoint keep their types.
THEOREM TypeCorrect == Spec => []TypeOK
<1>1. Init => TypeOK
  <2> SUFFICES ASSUME Init PROVE TypeOK
    OBVIOUS
  <2>1. PICK a, b, c, d \in Garbage : ep = InitEndpoint(a, b, c, d)
    BY DEF Init
  <2>2. ep \in Endpoint
    BY <2>1, InitType, NodeAssumption
  <2> QED BY <2>2 DEF Init, TypeOK
<1> QED BY <1>1, TypeStep, PTL DEF Spec

\* Sending is all that Sent() adds to a handler.
LEMMA SentShape ==
    ASSUME NEW s \in Endpoint, Shape(s), Sent(s)
    PROVE  Shape(ep)'
<1>1. ep' \in Endpoint
  BY SentType
<1>2. Core(ep') = Core(s)
  BY MinorCore DEF Sent
<1> QED BY <1>1, <1>2, CoreKept, KeptShape

\* The window, and what makes it inductive, in every reachable state.
LEMMA ShapeInvariant == Spec => []Shape(ep)
<1>1. Init => Shape(ep)
  <2> SUFFICES ASSUME Init PROVE Shape(ep)
    OBVIOUS
  <2>1. PICK a, b, c, d \in Garbage : ep = InitEndpoint(a, b, c, d)
    BY DEF Init
  <2> QED BY <2>1, InitShape
<1>2. TypeOK /\ Shape(ep) /\ [Next]_vars => Shape(ep)'
  <2> SUFFICES ASSUME TypeOK, Shape(ep), [Next]_vars PROVE Shape(ep)'
    OBVIOUS
  <2>0. ep \in Endpoint /\ Shape(ep)
    BY DEF TypeOK
  <2>1. CASE ThreadStart
    BY <2>0, <2>1 DEF ThreadStart
  <2>2. CASE ThreadStop
    BY <2>0, <2>2, ThreadStopType, ThreadStopShape, SentShape DEF ThreadStop
  <2>3. CASE ClosedAdvance
    BY <2>0, <2>3, ClosedAdvanceType, ClosedAdvanceShape, SentShape DEF ClosedAdvance
  <2>4. CASE Reopen
    <3>1. PICK isn \in Isn : Sent(reopen(ep, isn))
      BY <2>4 DEF Reopen
    <3>2. isn \in SeqNo /\ ep.state = "CLOSED_SLEEP"
      BY <2>4, EndpointAssumption DEF SeqNo, Reopen
    <3> QED BY <2>0, <3>1, <3>2, ReopenType, ReopenShape, SentShape
  <2>5. CASE PrepOpenAdvance
    BY <2>0, <2>5, PrepOpenAdvanceType, PrepOpenAdvanceShape, SentShape DEF PrepOpenAdvance
  <2>6. ASSUME NEW g \in PeerSeg, RxEvent(g) PROVE Shape(ep)'
    <3>1. PICK isn \in Isn : Sent(handleRxEvent(ep, g, isn))
      BY <2>6 DEF RxEvent
    <3>2. isn \in SeqNo
      BY EndpointAssumption DEF SeqNo
    <3> QED BY <2>0, <3>1, <3>2, PeerSegType, HandleRxEventType, HandleRxEventShape, SentShape
  <2>7. CASE UsrInputEvent
    BY <2>0, <2>7, UsrInputType, UsrInputShape, SentShape DEF UsrInputEvent
  <2>8. CASE UsrOutputEvent
    BY <2>0, <2>8, UsrOutputType, UsrOutputShape, SentShape DEF UsrOutputEvent
  <2>9. ASSUME NEW t \in Timer, Timeout(t) PROVE Shape(ep)'
    BY <2>0, <2>9, TimeoutType, TimeoutShape, SentShape DEF Timeout
  <2>10. ASSUME NEW p \in Payload, UsrPush(p) PROVE Shape(ep)'
    <3>1. ep' \in Endpoint
      BY TypeStep DEF TypeOK
    <3>2. Core(ep') = Core(ep)
      BY <2>0, <2>10, MinorCore DEF UsrPush
    <3> QED BY <2>0, <3>1, <3>2, CoreKept, KeptShape
  <2>11. CASE UsrPop
    <3>1. ep' \in Endpoint
      BY TypeStep DEF TypeOK
    <3>2. Core(ep') = Core(ep)
      BY <2>0, <2>11, MinorCore DEF UsrPop
    <3> QED BY <2>0, <3>1, <3>2, CoreKept, KeptShape
  <2>12. CASE UNCHANGED vars
    BY <2>0, <2>12 DEF vars
  <2> QED BY <2>1, <2>2, <2>3, <2>4, <2>5, <2>6, <2>7, <2>8, <2>9, <2>10, <2>11, <2>12 DEF Next
<1>3. Spec => []TypeOK
  BY TypeCorrect
<1> QED BY <1>1, <1>2, <1>3, PTL DEF Spec

\* The window a peer announced in its SYN is never exceeded, whatever arrives
\* and in whatever order timeouts and user events are handled, and the ring
\* buffer has room for it (RingBuf::push() does not overflow).
THEOREM WindowRespect == Spec => []WindowRespected
<1>1. Shape(ep) => WindowRespected
  BY DEF Shape, Window, WindowRespected
<1> QED BY <1>1, ShapeInvariant, PTL

\* The condition of the following theorems: retransmission is limited to at
\* least one attempt, here and by the peer's SYN.  (A limit of 0 lets a connection
\* that was given up while its window was full be taken for open again, by the
\* handler of OPEN_OUTWIN_FULL, after the reset has taken a sequence number.)
RexLimited == RexMax >= 1 /\ \A p \in PeerPar : p.rexMX >= 1

\* What a peer's SYN says of the limit.
LEMMA PeerSegLimit ==
    ASSUME RexLimited, NEW g \in PeerSeg
    PROVE  "SYN" \in g.flags => g.par \in Par /\ g.par.rexMX >= 1
<1>1. "SYN" \in g.flags => g.par \in PeerPar
  BY DEF PeerSeg
<1> QED BY <1>1, NodeAssumption DEF RexLimited

\* Sending is all that Sent() adds to a handler.
LEMMA SentOrder ==
    ASSUME NEW s \in Endpoint, Order(s), Sent(s)
    PROVE  Order(ep)'
<1>1. Core(ep') = Core(s)
  BY MinorCore DEF Sent
<1> QED BY <1>1, CoreOrder

\* Every action keeps the numbers in order.
LEMMA OrderStep ==
    ASSUME RexLimited, TypeOK, Shape(ep), Order(ep), [Next]_vars
    PROVE  Order(ep)'
<1>0. ep \in Endpoint /\ Shape(ep) /\ Order(ep) /\ RexMax >= 1
  BY DEF TypeOK, RexLimited
<1>1. CASE ThreadStart
  BY <1>0, <1>1 DEF ThreadStart
<1>2. CASE ThreadStop
  BY <1>0, <1>2, ThreadStopType, ThreadStopOrder, SentOrder DEF ThreadStop
<1>3. CASE ClosedAdvance
  BY <1>0, <1>3, ClosedAdvanceType, ClosedAdvanceOrder, SentOrder DEF ClosedAdvance
<1>4. CASE Reopen
  <2>1. PICK isn \in Isn : Sent(reopen(ep, isn))
    BY <1>4 DEF Reopen
  <2>2. isn \in SeqNo /\ ep.state = "CLOSED_SLEEP"
    BY <1>4, EndpointAssumption DEF SeqNo, Reopen
  <2> QED BY <1>0, <2>1, <2>2, ReopenType, ReopenOrder, SentOrder
<1>5. CASE PrepOpenAdvance
  BY <1>0, <1>5, PrepOpenAdvanceType, PrepOpenAdvanceOrder, SentOrder DEF PrepOpenAdvance
<1>6. ASSUME NEW g \in PeerSeg, RxEvent(g) PROVE Order(ep)'
  <2>1. PICK isn \in Isn : Sent(handleRxEvent(ep, g, isn))
    BY <1>6 DEF RxEvent
  <2>2. isn \in SeqNo
    BY EndpointAssumption DEF SeqNo
  <2>3. "SYN" \in g.flags => g.par \in Par /\ g.par.rexMX >= 1
    BY PeerSegLimit
  <2>4. g \in Seg
    BY PeerSegType
  <2>5. Order(handleRxEvent(ep, g, isn)) /\ handleRxEvent(ep, g, isn) \in Endpoint
    BY <1>0, <2>2, <2>3, <2>4, HandleRxEventType, HandleRxEventOrder
  <2> QED BY <2>1, <2>5, SentOrder
<1>7. CASE UsrInputEvent
  BY <1>0, <1>7, UsrInputType, UsrInputOrder, SentOrder DEF UsrInputEvent
<1>8. CASE UsrOutputEvent
  BY <1>0, <1>8, UsrOutputType, UsrOutputOrder, SentOrder DEF UsrOutputEvent
<1>9. ASSUME NEW t \in Timer, Timeout(t) PROVE Order(ep)'
  BY <1>0, <1>9, TimeoutType, TimeoutOrder, SentOrder DEF Timeout
<1>10. ASSUME NEW p \in Payload, UsrPush(p) PROVE Order(ep)'
  <2>1. Core(ep') = Core(ep)
    BY <1>0, <1>10, MinorCore DEF UsrPush
  <2> QED BY <1>0, <2>1, CoreOrder
<1>11. CASE UsrPop
  <2>1. Core(ep') = Core(ep)
    BY <1>0, <1>11, MinorCore DEF UsrPop
  <2> QED BY <1>0, <2>1, CoreOrder
<1>12. CASE UNCHANGED vars
  BY <1>0, <1>12 DEF vars
<1> QED BY <1>1, <1>2, <1>3, <1>4, <1>5, <1>6, <1>7, <1>8, <1>9, <1>10, <1>11, <1>12 DEF Next

\* The numbers are in order in every reachable state.
LEMMA OrderInvariant ==
    ASSUME RexLimited
    PROVE  Spec => [](TypeOK /\ Order(ep))
<1>1. Init => Order(ep)
  <2> SUFFICES ASSUME Init PROVE Order(ep)
    OBVIOUS
  <2>1. PICK a, b, c, d \in Garbage : ep = InitEndpoint(a, b, c, d)
    BY DEF Init
  <2> QED BY <2>1, InitOrder DEF RexLimited
<1>2. TypeOK /\ Shape(ep) /\ Order(ep) /\ [Next]_vars => Order(ep)'
  BY OrderStep
<1>3. Spec => []TypeOK
  BY TypeCorrect
<1>4. Spec => []Shape(ep)
  BY ShapeInvariant
<1> QED BY <1>1, <1>2, <1>3, <1>4, PTL DEF Spec

\* With a retransmission limit, the segments a CRssi keeps for retransmission
\* carry consecutive numbers up to lastSeqSent, whatever arrives and in whatever
\* order timeouts and user events are handled: an acknowledgement releases
\* exactly the segments it covers.
THEOREM UnackedSequence == RexLimited => (Spec => []UnackedInSequence)
<1> SUFFICES ASSUME RexLimited PROVE Spec => []UnackedInSequence
  OBVIOUS
<1>1. TypeOK /\ Order(ep) => UnackedInSequence
  <2> SUFFICES ASSUME TypeOK, Order(ep), ep.state \in Connected
               PROVE  /\ \A i \in DOMAIN ep.unAckedSegs :
                           ep.unAckedSegs[i].seq = Wrap(ep.oldestU + i - 1)
                      /\ ep.lastSeqSent = Wrap(ep.oldestU + Len(ep.unAckedSegs) - 1)
    BY DEF UnackedInSequence
  <2>1. DOMAIN ep.unAckedSegs = 1..Len(ep.unAckedSegs)
    BY UnackedLen DEF TypeOK
  <2>2. InSequence(ep)
    BY DEF Order, Connected, Waiting, InConn
  <2> QED BY <2>1, <2>2 DEF InSequence, Numbered
<1> QED BY <1>1, OrderInvariant, PTL

\* The number a CRssi acknowledges is the last one it has delivered in order,
\* from the SYN on, whatever arrives.
THEOREM AckDelivered == RexLimited => (Spec => []AckIsDelivered)
<1> SUFFICES ASSUME RexLimited PROVE Spec => []AckIsDelivered
  OBVIOUS
<1>1. TypeOK /\ Order(ep) => AckIsDelivered
  BY DEF Order, Connected, Waiting, InConn, AckIsDelivered, AckInStep
<1> QED BY <1>1, OrderInvariant, PTL

-----------------------------------------------------------------------------
(* The timers, the pending acknowledgements and the user's events.         *)

\* The SYN of a peer carries parameters and nothing else.
LEMMA PeerSynEmpty ==
    ASSUME NEW g \in PeerSeg
    PROVE  "SYN" \in g.flags => g.par \in Par /\ ~hasPayload(g) /\ "NUL" \notin g.flags
<1>1. "SYN" \in g.flags => g.pld = NoPld /\ "NUL" \notin g.flags
  BY DEF PeerSeg
<1> QED BY <1>1, PeerSegType DEF hasPayload

\* Sending is all that Sent() adds to a handler.
LEMMA SentKeepsSteady ==
    ASSUME NEW s \in Endpoint, Steady(s), Sent(s)
    PROVE  Steady(ep)'
<1>1. ep' = [s EXCEPT !.tx = <<>>]
  BY DEF Sent
<1>2. Steady([s EXCEPT !.tx = <<>>])
  BY QueueSteady
<1> QED BY <1>1, <1>2

\* The states in which the thread waits for an event, under two names.
LEMMA WaitingStates == Waiting = Handshake \cup Opened /\ Connected = InConn
BY DEF Waiting, Handshake, Connected, InConn, Opened

\* Every action leaves the endpoint steady.
LEMMA SteadyStep ==
    ASSUME TypeOK, Shape(ep), Steady(ep), [Next]_vars
    PROVE  Steady(ep)'
<1>0. ep \in Endpoint /\ Shape(ep) /\ Steady(ep)
  BY DEF TypeOK
<1>1. CASE ThreadStart
  BY <1>0, <1>1 DEF ThreadStart
<1>2. CASE ThreadStop
  BY <1>0, <1>2, ThreadStopType, ThreadStopSteady, SentKeepsSteady DEF ThreadStop, Live
<1>3. CASE ClosedAdvance
  BY <1>0, <1>3, ClosedAdvanceType, ClosedAdvanceSteady, SentKeepsSteady DEF ClosedAdvance, Live
<1>4. CASE Reopen
  <2>1. PICK isn \in Isn : Sent(reopen(ep, isn))
    BY <1>4 DEF Reopen
  <2>2. isn \in SeqNo /\ ep.state = "CLOSED_SLEEP" /\ ep.panic = "none"
    BY <1>4, EndpointAssumption DEF SeqNo, Reopen, Live
  <2> QED BY <1>0, <2>1, <2>2, ReopenType, ReopenSteady, SentKeepsSteady
<1>5. CASE PrepOpenAdvance
  BY <1>0, <1>5, PrepOpenAdvanceType, PrepOpenAdvanceSteady, SentKeepsSteady
     DEF PrepOpenAdvance, Live
<1>6. ASSUME NEW g \in PeerSeg, RxEvent(g) PROVE Steady(ep)'
  <2>1. PICK isn \in Isn : Sent(handleRxEvent(ep, g, isn))
    BY <1>6 DEF RxEvent
  <2>2. isn \in SeqNo
    BY EndpointAssumption DEF SeqNo
  <2>3. ep.panic = "none" /\ ep.state \in Handshake \cup Opened
    BY <1>6, WaitingStates DEF RxEvent, Live
  <2>4. g \in Seg /\ ("SYN" \in g.flags => g.par \in Par /\ ~hasPayload(g) /\ "NUL" \notin g.flags)
    BY PeerSegType, PeerSynEmpty
  <2>5. Steady(handleRxEvent(ep, g, isn)) /\ handleRxEvent(ep, g, isn) \in Endpoint
    BY <1>0, <2>2, <2>3, <2>4, HandleRxEventType, RxSteady
  <2> QED BY <2>1, <2>5, SentKeepsSteady
<1>7. CASE UsrInputEvent
  <2>1. ep.panic = "none" /\ ep.state \in Handshake \cup Opened /\ ep.usrI
    BY <1>7, WaitingStates DEF UsrInputEvent, Live
  <2> QED BY <1>0, <1>7, <2>1, UsrInputType, UsrInputSteady, SentKeepsSteady DEF UsrInputEvent
<1>8. CASE UsrOutputEvent
  <2>1. ep.panic = "none" /\ ep.state \in Handshake \cup Opened /\ ep.usrO
    BY <1>8, WaitingStates DEF UsrOutputEvent, Live
  <2> QED BY <1>0, <1>8, <2>1, UsrOutputType, UsrOutputSteady, SentKeepsSteady DEF UsrOutputEvent
<1>9. ASSUME NEW t \in Timer, Timeout(t) PROVE Steady(ep)'
  <2>1. ep.panic = "none" /\ ep.state \in Handshake \cup Opened /\ t \in ep.armed
    BY <1>9, WaitingStates DEF Timeout, Live, isFirstToExpire
  <2> QED BY <1>0, <1>9, <2>1, TimeoutType, TimeoutSteady, SentKeepsSteady DEF Timeout
<1>10. ASSUME NEW p \in Payload, UsrPush(p) PROVE Steady(ep)'
  BY <1>0, <1>10, QueueSteady DEF UsrPush
<1>11. CASE UsrPop
  BY <1>0, <1>11, QueueSteady DEF UsrPop
<1>12. CASE UNCHANGED vars
  BY <1>0, <1>12 DEF vars
<1> QED BY <1>1, <1>2, <1>3, <1>4, <1>5, <1>6, <1>7, <1>8, <1>9, <1>10, <1>11, <1>12 DEF Next

\* The endpoint is steady in every reachable state.
LEMMA SteadyInvariant == Spec => [](TypeOK /\ Steady(ep))
<1>1. Init => Steady(ep)
  <2> SUFFICES ASSUME Init PROVE Steady(ep)
    OBVIOUS
  <2>1. PICK a, b, c, d \in Garbage : ep = InitEndpoint(a, b, c, d)
    BY DEF Init
  <2> QED BY <2>1, InitSteady
<1>2. TypeOK /\ Shape(ep) /\ Steady(ep) /\ [Next]_vars => Steady(ep)'
  BY SteadyStep
<1>3. Spec => []TypeOK
  BY TypeCorrect
<1>4. Spec => []Shape(ep)
  BY ShapeInvariant
<1> QED BY <1>1, <1>2, <1>3, <1>4, PTL DEF Spec

\* Every segment received is acknowledged in time, whatever arrives: the count of
\* the ones still to acknowledge never exceeds its limit, and while it is not zero
\* the ACK timer runs.
THEOREM AcksInTime == Spec => []AcksPending
<1>1. TypeOK /\ Steady(ep) => AcksPending
  BY WaitingStates DEF Steady, Counted, AcksPending, AckOk
<1> QED BY <1>1, SteadyInvariant, PTL

\* The read event of inpQ is enabled in OPEN, and in no other state in which the
\* thread waits; in OPEN_OUTWIN_FULL the window is full.
THEOREM InputFlow == Spec => []InputFlows
<1>1. TypeOK /\ Steady(ep) => InputFlows
  BY WaitingStates DEF Steady, Fed, InputFlows, Opened
<1> QED BY <1>1, SteadyInvariant, PTL

\* At a client nothing waits at the head of the reassembly buffer while the write
\* event of outQ is disabled.
THEOREM OutputFlow == Spec => []OutputFlows
<1>1. TypeOK /\ Steady(ep) => OutputFlows
  BY DEF Steady, Drained, Out, OutputFlows
<1> QED BY <1>1, SteadyInvariant, PTL

\* No event and no timeout arrives in a state whose handler throws, and the ring
\* buffer does not overflow, except that an ACK or NUL timeout can end the thread
\* during the handshake.
THEOREM HandshakePanic == Spec => []PanicOnlyInHandshake
<1>1. TypeOK /\ Steady(ep) => PanicOnlyInHandshake
  BY DEF Steady, Alive, PanicOnlyInHandshake
<1> QED BY <1>1, SteadyInvariant, PTL

\* With a retransmission limit, the NUL timer runs whenever there is a connection,
\* and the REX timer exactly while there is something to retransmit to a peer that
\* is not busy.
THEOREM Timers == RexLimited => (Spec => []TimersArmed)
<1> SUFFICES ASSUME RexLimited PROVE Spec => []TimersArmed
  OBVIOUS
<1>1. (TypeOK /\ Steady(ep)) /\ (TypeOK /\ Order(ep)) => TimersArmed
  <2>1. Order(ep) /\ ep.state \in InConn => ep.rexMX >= 1
    BY DEF Order
  <2> QED BY <2>1, WaitingStates DEF Steady, Timed, RexIff, TimersArmed
<1> QED BY <1>1, SteadyInvariant, OrderInvariant, PTL
=============================================================================
