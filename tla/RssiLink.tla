------------------------------ MODULE RssiLink ------------------------------
(***************************************************************************)
(* An RSSI client and an RSSI server, the users at both ends, and between  *)
(* the two a network (UDP) that loses, reorders and duplicates segments.   *)
(*                                                                         *)
(* Either end goes through any number of connections.  What the client     *)
(* sent before it sleeps in CLOSED::advance() (two seconds or more) is     *)
(* assumed not to arrive after that sleep; what the server sent may.       *)
(***************************************************************************)
EXTENDS Integers, Sequences, FiniteSets

SX == INSTANCE SequencesExt

CONSTANTS SeqMod, MaxUnacked, OutDepth, InpDepth, RexMax, CumAckMax,
          RexTO, CakTO, NulTO, ReopenMax, NoPld, NoPar, Empty, Nul,
          NetDepth,     \* segments one direction of the network holds
          Tick,         \* seconds between two SYNs of the client (at least 2)
          Plans         \* what happens at most, a set of records: the payloads each
                        \* user pushes and the connections each side begins, push
                        \* and syn \in [End -> Nat], the segments that the network
                        \* duplicates, dup, and the NUL timeouts (the client's with
                        \* a full window not counted), nul

End == {"C", "S"}
Peer(e) == IF e = "C" THEN "S" ELSE "C"

\* Payloads are numbered: 1, 2, ... in the order the user pushes them.
Payload == UNION {1..(p.push["C"] + p.push["S"]) : p \in Plans}

VARIABLES ep,       \* [End -> endpoint]
          net,      \* [End -> segments on their way to this end]
          pushed,   \* [End -> payloads the user has pushed]
          last,     \* [End -> the last payload put into outQ]
          got,      \* [End -> payloads the user has popped]
          syns,     \* [End -> SYNs sent, not counting retransmissions]
          nuls, dups,
          plan      \* the plan of this behaviour
vars == <<ep, net, pushed, last, got, syns, nuls, dups, plan>>

\* sendSYN() takes the time of day in seconds, a server its complement, as the
\* first sequence number.  Two connections of an end are Tick seconds apart:
\* a client sleeps that long, of a server it is assumed.
IsnOf(e) ==
    LET clock == Tick * syns[e]
    IN  (IF e = "S" THEN -1 - clock ELSE clock) % SeqMod

C == INSTANCE RssiEndpoint WITH IsServer <- FALSE, Isn <- 0..(SeqMod - 1)
S == INSTANCE RssiEndpoint WITH IsServer <- TRUE,  Isn <- 0..(SeqMod - 1)

Waiting == {"LISTEN", "CLNT_WAIT_SYN_ACK", "SERV_WAIT_SYN_ACK"} \cup C!Opened

\* Segments that find the queue full are dropped.
Room(q) == IF Len(q) > NetDepth THEN SubSeq(q, 1, NetDepth) ELSE q

\* Endpoint e takes a step to s and sends s.tx; its own input becomes in.
Step(e, s, in) ==
    /\ ep' = [ep EXCEPT ![e] = [s EXCEPT !.tx = <<>>]]
    /\ net' = [net EXCEPT ![e] = in, ![Peer(e)] = Room(@ \o s.tx)]
    /\ last' = [last EXCEPT ![e] = IF Len(s.outQ) > Len(ep[e].outQ)
                                   THEN s.outQ[Len(s.outQ)] ELSE @]

SentSyn(s) == \E i \in DOMAIN s.tx : "SYN" \in s.tx[i].flags

Init ==
    /\ ep = [e \in End |-> C!InitEndpoint(0, 0, 0, 0)]
    /\ net = [e \in End |-> <<>>]
    /\ pushed = [e \in End |-> 0]
    /\ last = [e \in End |-> 0]
    /\ got = [e \in End |-> <<>>]
    /\ syns = [e \in End |-> 0]
    /\ nuls = 0 /\ dups = 0 /\ plan \in Plans

Live(e) == ep[e].panic = "none"

ClosedAdvance(e) ==
    /\ Live(e) /\ ep[e].state = "CLOSED"
    /\ Step(e, IF e = "C" THEN C!closedAdvance(ep[e]) ELSE S!closedAdvance(ep[e]), net[e])
    /\ UNCHANGED <<got, pushed, syns, nuls, dups, plan>>

\* The client wakes up; what it had sent before it fell asleep is gone.
Reopen ==
    /\ Live("C") /\ ep["C"].state = "CLOSED_SLEEP" /\ syns["C"] < plan.syn["C"]
    /\ ep' = [ep EXCEPT !["C"] = [C!reopen(@, IsnOf("C")) EXCEPT !.tx = <<>>]]
    /\ net' = [net EXCEPT !["S"] = C!reopen(ep["C"], IsnOf("C")).tx]
    /\ syns' = [syns EXCEPT !["C"] = @ + 1]
    /\ UNCHANGED <<got, last, pushed, nuls, dups, plan>>

PrepOpenAdvance(e) ==
    /\ Live(e) /\ ep[e].state = "PREP_OPEN"
    /\ Step(e, C!prepOpenAdvance(ep[e]), net[e])
    /\ UNCHANGED <<got, pushed, syns, nuls, dups, plan>>

Without(q, i) == SubSeq(q, 1, i - 1) \o SubSeq(q, i + 1, Len(q))

RxEvent(e, i) ==
    LET g == net[e][i]
        s == IF e = "C" THEN C!handleRxEvent(ep[e], g, IsnOf(e))
                        ELSE S!handleRxEvent(ep[e], g, IsnOf(e))
        fresh == e = "S" /\ ep[e].state = "LISTEN" /\ s.state = "SERV_WAIT_SYN_ACK"
    IN  /\ Live(e) /\ ep[e].state \in Waiting
        /\ fresh => syns[e] < plan.syn[e]
        /\ Step(e, s, Without(net[e], i))
        /\ syns' = IF fresh THEN [syns EXCEPT ![e] = @ + 1] ELSE syns
        /\ UNCHANGED <<got, pushed, nuls, dups, plan>>

Lose(e, i) ==
    /\ net' = [net EXCEPT ![e] = Without(@, i)]
    /\ UNCHANGED <<got, ep, pushed, last, syns, nuls, dups, plan>>

Duplicate(e, i) ==
    /\ dups < plan.dup /\ Len(net[e]) < NetDepth
    /\ net' = [net EXCEPT ![e] = Append(@, @[i])]
    /\ dups' = dups + 1
    /\ UNCHANGED <<got, ep, pushed, last, syns, nuls, plan>>

UsrInputEvent(e) ==
    /\ Live(e) /\ ep[e].state \in Waiting /\ ep[e].usrI /\ ep[e].inpQ # <<>>
    /\ Step(e, IF e = "C" THEN C!handleUsrInputEvent(ep[e])
                          ELSE S!handleUsrInputEvent(ep[e]), net[e])
    /\ UNCHANGED <<got, pushed, syns, nuls, dups, plan>>

UsrOutputEvent(e) ==
    /\ Live(e) /\ ep[e].state \in Waiting /\ ep[e].usrO /\ ~C!outQFull(ep[e])
    /\ Step(e, IF e = "C" THEN C!handleUsrOutputEvent(ep[e])
                          ELSE S!handleUsrOutputEvent(ep[e]), net[e])
    /\ UNCHANGED <<got, pushed, syns, nuls, dups, plan>>

Timeout(e, t) ==
    LET nul == t = "NUL" /\ (e = "S" \/ C!windowOpen(ep[e]))
    IN  /\ Live(e) /\ ep[e].state \in Waiting /\ C!isFirstToExpire(ep[e], t)
        /\ nul => nuls < plan.nul
        /\ Step(e, IF e = "C" THEN C!timeout(ep[e], t) ELSE S!timeout(ep[e], t), net[e])
        /\ nuls' = IF nul THEN nuls + 1 ELSE nuls
        /\ UNCHANGED <<got, pushed, syns, dups, plan>>

\* As in RssiNode, nothing is pushed that close() discards right away.
UsrPush(e) ==
    /\ Live(e) /\ ep[e].state # "CLOSED" /\ Len(ep[e].inpQ) < InpDepth
    /\ pushed[e] < plan.push[e]
    /\ pushed' = [pushed EXCEPT ![e] = @ + 1]
    /\ ep' = [ep EXCEPT ![e].inpQ = Append(@, pushed'[e])]
    /\ UNCHANGED <<got, net, last, syns, nuls, dups, plan>>

UsrPop(e) ==
    /\ Live(e) /\ ep[e].outQ # <<>>
    /\ got' = [got EXCEPT ![e] = Append(@, Head(ep[e].outQ))]
    /\ ep' = [ep EXCEPT ![e].outQ = Tail(@)]
    /\ UNCHANGED <<net, pushed, last, syns, nuls, dups, plan>>

\* What endpoint e's thread does of its own: an event handler or a timer.
Thread(e) ==
    \/ ClosedAdvance(e) \/ PrepOpenAdvance(e)
    \/ UsrInputEvent(e) \/ UsrOutputEvent(e)
    \/ \E t \in C!Timer : Timeout(e, t)
    \/ \E i \in DOMAIN net[e] : RxEvent(e, i)

Next ==
    \/ Reopen
    \/ \E e \in End :
        \/ Thread(e) \/ UsrPush(e) \/ UsrPop(e)
        \/ \E i \in DOMAIN net[e] : Lose(e, i) \/ Duplicate(e, i)

Spec == Init /\ [][Next]_vars

\* The thread of e has something to do: no more than ENABLED <<Thread(e)>>_vars,
\* in a form TLC evaluates fast.
TimerReady(e, t) ==
    /\ C!isFirstToExpire(ep[e], t)
    /\ t = "NUL" => IF e = "S" \/ C!windowOpen(ep[e]) THEN nuls < plan.nul
                                                    ELSE Len(net[Peer(e)]) < NetDepth

Ready(e) ==
    /\ Live(e)
    /\ \/ ep[e].state \in {"CLOSED", "PREP_OPEN"}
       \/ /\ ep[e].state \in Waiting
          /\ \/ ep[e].usrI /\ ep[e].inpQ # <<>>
             \/ ep[e].usrO /\ ~C!outQFull(ep[e])
             \/ net[e] # <<>> /\ (ep[e].state = "LISTEN" => syns[e] < plan.syn[e])
             \/ \E t \in C!Timer : TimerReady(e, t)

\* The threads run (weak fairness), and the users read what they receive.
Fairness ==
    \A e \in End :
        /\ []<>~Ready(e) \/ []<><<Thread(e)>>_vars
        /\ WF_vars(UsrPop(e))

FairSpec == Spec /\ Fairness

-----------------------------------------------------------------------------
(* Properties.                                                             *)

\* Payloads the peer of e will go on sending until e has got them ...
Held(e) ==
    LET data == [i \in DOMAIN ep[Peer(e)].unAckedSegs |-> ep[Peer(e)].unAckedSegs[i].pld]
        undelivered(p) == p # NoPld /\ p > last[e]
    IN  SelectSeq(data, undelivered) \o ep[Peer(e)].inpQ

\* ... and those that are on their way although the peer has given them up.
Stray(e) ==
    LET flying == {net[e][i].pld : i \in DOMAIN net[e]}
                    \cup {ep[e].unOrderedSegs[i] : i \in DOMAIN ep[e].unOrderedSegs}
    IN  {p \in flying \ {NoPld, Empty, Nul} : p > last[e] /\ p \notin SX!ToSet(Held(e))}

\* The link implements two reliable streams.  A payload is in the stream while
\* it is in inpQ or unAckedSegs of its sender and not yet in outQ of its
\* receiver, or in that outQ.
Stream == INSTANCE ReliableStream WITH
    sent  <- pushed,
    q     <- [e \in End |-> ep[e].outQ \o SX!SetToSortSeq(Stray(e), <) \o Held(e)],
    frail <- [e \in End |-> Stray(e)],
    up    <- [e \in End |-> ep[e].state # "CLOSED"]

\* Whatever the network loses, reorders or duplicates, while both ends are up
\* every payload CProtoModRssi::push() accepted is returned by pop() at the other
\* end exactly once and in order (processAckNumber(), canAccept(), store(),
\* drainReassembleBuffer() and the retransmissions together).
StreamSpec == Stream!Spec

InFlight(e, p) ==
    /\ ep[e].state \in C!Opened
    /\ \E i \in DOMAIN ep[e].unAckedSegs : ep[e].unAckedSegs[i].pld = p

\* A payload that was sent does not stay unacknowledged for ever: the peer
\* acknowledges it, or retransmission gives up and the connection is closed.
Resolved == \A e \in End : \A p \in Payload : InFlight(e, p) ~> ~InFlight(e, p)
=============================================================================
