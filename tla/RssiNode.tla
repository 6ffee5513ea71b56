------------------------------ MODULE RssiNode ------------------------------
(***************************************************************************)
(* One RSSI endpoint facing a peer and a network about which nothing is    *)
(* assumed: any segment a CRssi can send, with any sequence and            *)
(* acknowledgement number, may arrive at any time (lost, duplicated,       *)
(* delayed and reordered segments, a peer that restarted, segments of an   *)
(* earlier connection).  What holds here holds whatever the peer does.     *)
(***************************************************************************)
EXTENDS RssiEndpoint

CONSTANTS PeerPar,    \* the SYN parameters the peer may send
          PeerIsn,    \* the sequence numbers its SYNs may have
          Garbage     \* the values of an uninitialized sequence number

ASSUME NodeAssumption ==
    PeerPar \subseteq Par /\ PeerIsn \subseteq SeqNo /\ Garbage \subseteq SeqNo

VARIABLES ep,         \* the endpoint (CRssi)
          run         \* the RSSI thread is running
vars == <<ep, run>>

\* The segments of a peer that is a CRssi itself.
PeerSeg ==
    LET Hdr(fs, seqs, plds, pars) ==
          [flags : fs \cup {f \cup {"BSY"} : f \in fs},
           seq : seqs, ack : SeqNo, pld : plds, par : pars]
    IN  Hdr({{"SYN"}, {"SYN", "ACK"}}, PeerIsn, {NoPld}, PeerPar)
          \cup Hdr({{"ACK"}}, SeqNo, Payload \cup {NoPld}, {NoPar})
          \cup Hdr({{"ACK", "NUL"}, {"ACK", "RST"}}, SeqNo, {NoPld}, {NoPar})

\* States in which the thread blocks in processEvent().
Waiting == {"LISTEN", "CLNT_WAIT_SYN_ACK", "SERV_WAIT_SYN_ACK"} \cup Opened

Live == run /\ ep.panic = "none"

Sent(s) == ep' = [s EXCEPT !.tx = <<>>]

Init ==
    /\ \E a, b, c, d \in Garbage : ep = InitEndpoint(a, b, c, d)
    /\ run = FALSE

ThreadStart == ~run /\ ep.panic = "none" /\ run' = TRUE /\ UNCHANGED ep

\* The thread is cancelled where it blocks, or while it sleeps.
ThreadStop ==
    /\ Live /\ ep.state \in Waiting \cup {"CLOSED_SLEEP"}
    /\ Sent(threadStop(ep))
    /\ run' = FALSE

ClosedAdvance == Live /\ ep.state = "CLOSED" /\ Sent(closedAdvance(ep)) /\ UNCHANGED run

Reopen ==
    /\ Live /\ ep.state = "CLOSED_SLEEP"
    /\ \E isn \in Isn : Sent(reopen(ep, isn))
    /\ UNCHANGED run

PrepOpenAdvance == Live /\ ep.state = "PREP_OPEN" /\ Sent(prepOpenAdvance(ep)) /\ UNCHANGED run

RxEvent(g) ==
    /\ Live /\ ep.state \in Waiting
    /\ \E isn \in Isn : Sent(handleRxEvent(ep, g, isn))
    /\ UNCHANGED run

UsrInputEvent ==
    /\ Live /\ ep.state \in Waiting /\ ep.usrI /\ ep.inpQ # <<>>
    /\ Sent(handleUsrInputEvent(ep))
    /\ UNCHANGED run

UsrOutputEvent ==
    /\ Live /\ ep.state \in Waiting /\ ep.usrO /\ ~outQFull(ep)
    /\ Sent(handleUsrOutputEvent(ep))
    /\ UNCHANGED run

Timeout(t) ==
    /\ Live /\ ep.state \in Waiting /\ isFirstToExpire(ep, t)
    /\ Sent(timeout(ep, t))
    /\ UNCHANGED run

\* The users' threads, at the other ends of the queues.  What is pushed between
\* the change to CLOSED and close() is not modelled: close() discards it.
UsrPush(p) ==
    /\ Live /\ ep.state # "CLOSED" /\ Len(ep.inpQ) < InpDepth
    /\ ep' = [ep EXCEPT !.inpQ = Append(@, p)]
    /\ UNCHANGED run

UsrPop ==
    /\ Live /\ ep.outQ # <<>>
    /\ ep' = [ep EXCEPT !.outQ = Tail(@)]
    /\ UNCHANGED run

Next ==
    \/ ThreadStart \/ ThreadStop
    \/ ClosedAdvance \/ Reopen \/ PrepOpenAdvance
    \/ \E g \in PeerSeg : RxEvent(g)
    \/ UsrInputEvent \/ UsrOutputEvent
    \/ \E t \in Timer : Timeout(t)
    \/ \E p \in Payload : UsrPush(p)
    \/ UsrPop

Spec == Init /\ [][Next]_vars

-----------------------------------------------------------------------------
(* Properties.                                                             *)

\* The fields of CRssi keep their types; sequence numbers stay within 8 bits
\* (SeqMod) and the reopen delay within its limit.
TypeOK == ep \in Endpoint /\ run \in BOOLEAN

\* The states in which a connection exists or is being made.
Connected == (Waiting \ {"LISTEN"}) \cup {"PREP_OPEN"}

\* The segments kept for retransmission are the ones the peer has not
\* acknowledged, in sequence, none missing: the i-th of them carries the i-th
\* number from oldestU, and lastSeqSent is the number of the last.  An
\* acknowledgement therefore releases exactly the segments it covers.
UnackedInSequence ==
    ep.state \in Connected =>
        /\ \A i \in DOMAIN ep.unAckedSegs : ep.unAckedSegs[i].seq = Wrap(ep.oldestU + i - 1)
        /\ ep.lastSeqSent = Wrap(ep.oldestU + Len(ep.unAckedSegs) - 1)

\* The window the peer announced is respected, and the ring buffer, resized
\* when the SYN arrives, always has room for it.
WindowRespected ==
    /\ Len(ep.unAckedSegs) <= ep.peerOssMX
    /\ ep.peerOssMX <= ep.capa

\* Something will happen: NOTCLOSED::advance() never finds the timer list empty
\* (it throws "no timer active" then).  In a connection the NUL timer is always
\* armed, and the REX timer exactly when there is something to
\* retransmit that a peer which is not busy would take.
TimersArmed ==
    ep.panic = "none" /\ ep.state \in Connected =>
        /\ "NUL" \in ep.armed
        /\ "REX" \in ep.armed <=> ep.unAckedSegs # <<>> /\ ~ep.peerBSY

\* Every received segment is acknowledged in time: between two events the
\* count of segments still to acknowledge is within its limit, and when it is
\* not zero then the ACK timer is running.
AcksPending ==
    ep.panic = "none" /\ ep.state \in Connected =>
        /\ ep.numCak \in 0..ep.cakMX
        /\ ep.numCak > 0 <=> "ACK" \in ep.armed

\* The user's input is stopped exactly while the peer's window is full.
InputFlows ==
    /\ ep.state = "OPEN" => ep.usrI
    /\ ep.state = "OPEN_OUTWIN_FULL" => ~ep.usrI /\ ~windowOpen(ep)
    /\ ep.state \in Waiting /\ ep.usrI => ep.state = "OPEN"

\* The acknowledgement number, cumulative, covers exactly what the user has got:
\* segments that wait behind a gap or a full outQ are not acknowledged.
AckIsDelivered ==
    ep.state \in Connected \ {"CLNT_WAIT_SYN_ACK"} => ep.lastSeqRecv = Wrap(ep.oldestR - 1)

\* What waits at the head of the reassembly buffer is drained when the user has
\* made room.  (A server may store its first segment in SERV_WAIT_SYN_ACK, where
\* drainReassembleBuffer() does nothing: it waits for the next segment.)
OutputFlows ==
    ep.state \in Opened /\ ep.unOrderedSegs[0] # Empty => ep.usrO \/ IsServer

\* Of all the "unexpected in this state" exceptions only two can be thrown,
\* and only while the connection is being established.
PanicOnlyInHandshake ==
    ep.panic # "none" =>
        /\ ep.panic \in {"ACKTimeout", "NULTimeout"}
        /\ ep.state \in {"SERV_WAIT_SYN_ACK", "CLNT_WAIT_SYN_ACK"}
=============================================================================
