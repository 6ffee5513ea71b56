------------------------------ MODULE TDestMux2 ------------------------------
(***************************************************************************)
(* CProtoModTDestMux2 (cpsw_proto_mod_tdestmux2.cc) and the ports of       *)
(* protocol modules (cpsw_proto_mod.cc).                                   *)
(*                                                                         *)
(* The sender is the muxer thread of the module: it serves the input       *)
(* queues of its ports in turn, one fragment at a time, and sleeps on an   *)
(* event set when a whole round brought no work.  The receiver is the      *)
(* thread of CProtoModByteMux at the other end: it assembles the fragments *)
(* of every port and pushes complete frames into the port's output queue,  *)
(* from which the programs that hold the port open read.                   *)
(*                                                                         *)
(* RSSI between the two is a FIFO that may lose fragments, any run of them *)
(* and whenever it likes: a push upstream fails, or RSSI accepts it and    *)
(* throws the fragment away with a connection that breaks.  It opens the   *)
(* next connection by itself and the ports notice nothing.                 *)
(*                                                                         *)
(* Queues are bounded sequences (BufQueue shows that they are), but a pop  *)
(* that may fail is modelled by what it does to the queue's counter.  A    *)
(* step is one access to state that threads share.                         *)
(***************************************************************************)
EXTENDS Integers, Sequences, FiniteSets

CONSTANTS NumWork,      \* ports, numWork_
          Users,        \* programs that open and close ports at the receiver
          Doors,        \* Doors[u]: the ports that u may open
          Chains,       \* sizes of the buffers of frame n of port p, see Chain
          Mtu,          \* myMTUCached_
          FragMod,      \* fragment numbers are taken modulo this (2^16)
          InpDepth, OutDepth, LinkDepth,    \* depths of queues
          Plans         \* bounds, a set of records: the frames pushed into each
                        \* port, push \in [Ports -> Nat], the fragments lost, lose,
                        \* and the users who take part, users

ASSUME MuxAssumption == NumWork \in Nat \ {0} /\ FragMod \in Nat /\ FragMod > 1

\* A buffer larger than the MTU is an InternalError ("Unable to fragment").
ASSUME ChainAssumption ==
    /\ Mtu \in Nat
    /\ Chains \in Seq(Seq(0..Mtu)) /\ Chains # <<>>
    /\ \A i \in DOMAIN Chains : Chains[i] # <<>>

ASSUME UserAssumption == IsFiniteSet(Users) /\ OutDepth \in Nat

Ports  == 0..(NumWork - 1)
NoPort == -1

VARIABLES prod,     \* program that pushes into port p: [pushed, notify]
          inq,      \* inputQueue_ of port p: frames, as sequences of buffers
          work,     \* work_: [bc, fragNo]
          mux,      \* muxer thread: [pc, current, noWorkCount, frag]
          link,     \* fragments in RSSI
          lost,     \* fragments lost
          asm,      \* assembleBuffer_ and fragNo_ of port p: [bufs, fragNo]
          rx,       \* demultiplexer thread: [pc, port, frame]
          outq,     \* outputQueue_ of port p
          user,     \* user u: [pc, port]
          last,     \* number of the frame last read from port p
          trail,    \* what RSSI lost of port p: [open, gap, torn], see Missing
          plan      \* the plan of this behaviour
sender   == <<prod, inq, work, mux>>
receiver == <<asm, rx>>
fate     == <<lost, trail, plan>>
ports    == <<outq, user, last>>
vars == <<sender, link, fate, receiver, ports>>

-----------------------------------------------------------------------------
(* The sender.                                                             *)

\* A frame is a chain of buffers; the model knows whose each one is.
Chain(p, n) ==
    LET sizes == Chains[((p + n) % Len(Chains)) + 1]
    IN  [i \in DOMAIN sizes |-> [port |-> p, frame |-> n, buf |-> i, size |-> sizes[i]]]

Size(bc, j) ==
    LET sum[k \in 0..j] == IF k = 0 THEN 0 ELSE sum[k - 1] + bc[k].size
    IN  sum[j]

\* CTDestPort2::push(): the frame goes into the input queue ...
Push(p) ==
    /\ ~prod[p].notify /\ prod[p].pushed < plan.push[p]
    /\ Len(inq[p]) < InpDepth
    /\ inq' = [inq EXCEPT ![p] = Append(@, Chain(p, prod[p].pushed + 1))]
    /\ prod' = [prod EXCEPT ![p] = [pushed |-> @.pushed + 1, notify |-> TRUE]]
    /\ UNCHANGED <<work, mux, link, fate, receiver, ports>>

\* ... and the event set is notified: a thread that waits polls again.
Notify(p) ==
    /\ prod[p].notify
    /\ prod' = [prod EXCEPT ![p].notify = FALSE]
    /\ mux' = [mux EXCEPT !.pc = IF @ = "wait" THEN "turn" ELSE @]
    /\ UNCHANGED <<inq, work, link, fate, receiver, ports>>

\* Waits for the next notification without looking.
Wait_blind ==
    /\ mux.pc = "turn" /\ mux.noWorkCount = NumWork
    /\ mux' = [mux EXCEPT !.pc = "wait", !.noWorkCount = 0]
    /\ UNCHANGED <<prod, inq, work, link, fate, receiver, ports>>

\* process(): a whole round brought no work.  processEvent() polls the input
\* queues of all ports, and waits if they are all empty (under the mutex of the
\* event set, which notify() takes, too).
Wait ==
    /\ mux.pc = "turn" /\ mux.noWorkCount = NumWork
    /\ mux' = IF \E p \in Ports : inq[p] # <<>> THEN [mux EXCEPT !.noWorkCount = 0]
                                                 ELSE [mux EXCEPT !.pc = "wait"]
    /\ UNCHANGED <<prod, inq, work, link, fate, receiver, ports>>

\* The fragment that sendFrag() takes off chain bc: all of it, or as many
\* buffers as fit.
FragLen(bc) ==
    IF Size(bc, Len(bc)) <= Mtu THEN Len(bc)
    ELSE CHOOSE j \in 1..(Len(bc) - 1) : Size(bc, j) <= Mtu /\ Size(bc, j + 1) > Mtu

\* sendFrag() up to the push upstream.  The header carries fragNo_ in 16 bits;
\* its first-fragment flag looks at the whole of fragNo_.
sendFrag(p, w) ==
    LET n == FragLen(w.bc)
    IN  /\ work' = [work EXCEPT ![p] = [bc |-> SubSeq(w.bc, n + 1, Len(w.bc)),
                                        fragNo |-> w.fragNo + 1]]
        /\ mux' = [pc |-> "push", current |-> p, noWorkCount |-> 0,
                   frag |-> [dest |-> p, no |-> w.fragNo % FragMod, sof |-> w.fragNo = 0,
                             eof |-> n = Len(w.bc), bufs |-> SubSeq(w.bc, 1, n)]]

NoFrag == [dest |-> NoPort, no |-> 0, sof |-> FALSE, eof |-> FALSE, bufs |-> <<>>]

\* process(): the next port has its turn.
Turn ==
    /\ mux.pc = "turn" /\ mux.noWorkCount < NumWork
    /\ LET p == (mux.current + 1) % NumWork
       IN  \/ /\ work[p].bc # <<>>
              /\ sendFrag(p, work[p])
              /\ UNCHANGED inq
           \/ /\ work[p].bc = <<>> /\ inq[p] # <<>>
              /\ inq' = [inq EXCEPT ![p] = Tail(@)]
              /\ sendFrag(p, [bc |-> Head(inq[p]), fragNo |-> 0])
           \/ /\ work[p].bc = <<>> /\ inq[p] = <<>>
              /\ mux' = [mux EXCEPT !.current = p, !.noWorkCount = @ + 1]
              /\ UNCHANGED <<inq, work>>
    /\ UNCHANGED <<prod, link, fate, receiver, ports>>

\* What a fragment that is not lost, and one that is, leave in the trail of a port.
\* open is the frame of the last fragment that was not lost, unless that was its
\* end (0); gap says that fragments have been lost since, and torn are the frames
\* after a fragment of which more than one in a row was lost.
Arrives(t, g) == [t EXCEPT !.open = IF g.eof THEN 0 ELSE g.bufs[1].frame, !.gap = FALSE]
Missing(t) == [t EXCEPT !.gap = TRUE, !.torn = IF t.gap THEN @ \union {t.open} ELSE @]

\* The push upstream.  It waits for room; or the fragment is lost.
PushUp ==
    LET g == mux.frag
    IN  /\ mux.pc = "push"
        /\ mux' = [mux EXCEPT !.pc = "turn", !.frag = NoFrag]
        /\ \/ /\ Len(link) < LinkDepth
              /\ link' = Append(link, g)
              /\ trail' = [trail EXCEPT ![g.dest] = Arrives(@, g)]
              /\ UNCHANGED lost
           \/ /\ lost < plan.lose
              /\ lost' = lost + 1
              /\ trail' = [trail EXCEPT ![g.dest] = Missing(@)]
              /\ UNCHANGED link
        /\ UNCHANGED <<prod, inq, work, plan, receiver, ports>>

-----------------------------------------------------------------------------
(* The receiver.                                                           *)

\* A port is open as long as somebody holds a door: openCount_ counts them.
isOpen(p) == \E u \in Users : user[u].pc \in {"in", "retry"} /\ user[u].port = p

\* The counter of the output queue.  A pop takes one off it and has a frame if the
\* counter was positive; otherwise it has failed and puts the one back, in another
\* step: until then the counter is short and other pops may fail although there
\* is a frame in the queue.
Short(p) == {u \in Users : user[u].pc \in {"retry", "restore"} /\ user[u].port = p}
Slots(p) == Len(outq[p]) - Cardinality(Short(p))
                         - IF rx.pc = "restore" /\ rx.port = p THEN 1 ELSE 0

NoAssembly == [bufs |-> <<>>, fragNo |-> 0]

\* Takes any fragment for the next one.
Assemble_anyNumber(a, g) ==
    CASE g.sof -> [bufs |-> g.bufs, fragNo |-> 0]
      [] ~g.sof /\ a.bufs # <<>> -> [bufs |-> a.bufs \o g.bufs, fragNo |-> a.fragNo + 1]
      [] OTHER -> NoAssembly

\* What becomes of the assembly a when fragment g arrives.
Assemble(a, g) ==
    CASE g.sof -> [bufs |-> g.bufs, fragNo |-> 0]
      [] ~g.sof /\ a.bufs # <<>> /\ (a.fragNo + 1) % FragMod = g.no ->
            [bufs |-> a.bufs \o g.bufs, fragNo |-> a.fragNo + 1]
      [] OTHER -> NoAssembly

\* threadBody() pops a fragment; pushDown() finds the port; its pushDownstream()
\* adds the fragment and, when it is the last one, begins to push the frame into
\* the output queue, unless nobody has the port open.
Demux ==
    /\ rx.pc = "pop" /\ link # <<>>
    /\ link' = Tail(link)
    /\ LET g == Head(link)
           a == Assemble(asm[g.dest], g)
           whole == g.eof /\ a.bufs # <<>>
       IN  /\ asm' = [asm EXCEPT ![g.dest] = IF whole THEN NoAssembly ELSE a]
           /\ rx' = IF whole /\ isOpen(g.dest)
                    THEN [pc |-> "push", port |-> g.dest, frame |-> a.bufs] ELSE rx
    /\ UNCHANGED <<sender, fate, ports>>

RxIdle == [pc |-> "pop", port |-> NoPort, frame |-> <<>>]

\* The push waits for room, however long.
DemuxPush ==
    /\ rx.pc = "push" /\ Len(outq[rx.port]) < OutDepth
    /\ outq' = [outq EXCEPT ![rx.port] = Append(@, rx.frame)]
    /\ rx' = [rx EXCEPT !.pc = "isOpen", !.frame = <<>>]
    /\ UNCHANGED <<sender, link, fate, asm, user, last>>

\* "just went offline - drain": while ( ! isOpen() && tryPop() ).
DemuxIsOpen ==
    /\ rx.pc = "isOpen"
    /\ rx' = IF isOpen(rx.port) THEN RxIdle ELSE [rx EXCEPT !.pc = "tryPop"]
    /\ UNCHANGED <<sender, link, fate, asm, ports>>

DemuxTryPop ==
    /\ rx.pc = "tryPop"
    /\ IF Slots(rx.port) > 0
       THEN /\ outq' = [outq EXCEPT ![rx.port] = Tail(@)]
            /\ rx' = [rx EXCEPT !.pc = "isOpen"]
       ELSE rx' = [rx EXCEPT !.pc = "restore"] /\ UNCHANGED outq
    /\ UNCHANGED <<sender, link, fate, asm, user, last>>

\* The pop has failed, and the drain is over.
DemuxRestore ==
    /\ rx.pc = "restore"
    /\ rx' = RxIdle
    /\ UNCHANGED <<sender, link, fate, asm, ports>>

-----------------------------------------------------------------------------
(* The users of the ports.                                                 *)

SetUser(u, pc, p) == user' = [user EXCEPT ![u] = [pc |-> pc, port |-> p]]

\* IPortImpl::open(), under the spinlock of the port.
Open(u, p) ==
    /\ u \in plan.users /\ user[u].pc = "out" /\ p \in Doors[u]
    /\ SetUser(u, "in", p)
    /\ UNCHANGED <<sender, link, fate, receiver, outq, last>>

\* CPortImpl::pop() through the door.
Read(u) ==
    LET p == user[u].port
    IN  /\ user[u].pc = "in" /\ Slots(p) > 0
        /\ last' = [last EXCEPT ![p] = Head(outq[p])[1].frame]
        /\ outq' = [outq EXCEPT ![p] = Tail(@)]
        /\ UNCHANGED <<sender, link, fate, receiver, user>>

\* A pop that finds no frame; the program waits or tries again later.
ReadFails(u) ==
    /\ user[u].pc = "in" /\ Slots(user[u].port) <= 0
    /\ SetUser(u, "retry", user[u].port)
    /\ UNCHANGED <<sender, link, fate, receiver, outq, last>>

ReadRestore(u) ==
    /\ user[u].pc = "retry"
    /\ SetUser(u, "in", user[u].port)
    /\ UNCHANGED <<sender, link, fate, receiver, outq, last>>

\* Leaves what is in the queue where it is.
Close_noDrain(u) ==
    /\ user[u].pc = "in"
    /\ SetUser(u, "out", NoPort)
    /\ UNCHANGED <<sender, link, fate, receiver, outq, last>>

\* CloseManager: the count goes down, under the spinlock ...
Close(u) ==
    /\ user[u].pc = "in"
    /\ SetUser(u, "tryPop", user[u].port)
    /\ UNCHANGED <<sender, link, fate, receiver, outq, last>>

\* ... and the queue is drained: while ( tryPop() && ! isOpen() ).  It is not
\* only the last one that does so.
CloseTryPop(u) ==
    LET p == user[u].port
    IN  /\ user[u].pc = "tryPop"
        /\ IF Slots(p) > 0
           THEN SetUser(u, "isOpen", p) /\ outq' = [outq EXCEPT ![p] = Tail(@)]
           ELSE SetUser(u, "restore", p) /\ UNCHANGED outq
        /\ UNCHANGED <<sender, link, fate, receiver, last>>

CloseIsOpen(u) ==
    /\ user[u].pc = "isOpen"
    /\ IF isOpen(user[u].port) THEN SetUser(u, "out", NoPort)
                               ELSE SetUser(u, "tryPop", user[u].port)
    /\ UNCHANGED <<sender, link, fate, receiver, outq, last>>

CloseRestore(u) ==
    /\ user[u].pc = "restore"
    /\ SetUser(u, "out", NoPort)
    /\ UNCHANGED <<sender, link, fate, receiver, outq, last>>

-----------------------------------------------------------------------------
Init ==
    /\ prod = [p \in Ports |-> [pushed |-> 0, notify |-> FALSE]]
    /\ inq = [p \in Ports |-> <<>>]
    /\ work = [p \in Ports |-> [bc |-> <<>>, fragNo |-> 0]]
    /\ mux = [pc |-> "turn", current |-> 0, noWorkCount |-> 0, frag |-> NoFrag]
    /\ link = <<>> /\ lost = 0
    /\ trail = [p \in Ports |-> [open |-> 0, gap |-> FALSE, torn |-> {}]]
    /\ asm = [p \in Ports |-> NoAssembly]
    /\ rx = RxIdle
    /\ outq = [p \in Ports |-> <<>>]
    /\ user = [u \in Users |-> [pc |-> "out", port |-> NoPort]]
    /\ last = [p \in Ports |-> 0]
    /\ plan \in Plans

Drain(u)  == CloseTryPop(u) \/ CloseIsOpen(u) \/ CloseRestore(u)
MuxStep   == Wait \/ Turn \/ PushUp
DemuxStep == Demux \/ DemuxPush \/ DemuxIsOpen \/ DemuxTryPop \/ DemuxRestore

Next ==
    \/ MuxStep \/ DemuxStep
    \/ \E p \in Ports : Push(p) \/ Notify(p) \/ \E u \in Users : Open(u, p)
    \/ \E u \in Users : Read(u) \/ ReadFails(u) \/ ReadRestore(u) \/ Close(u) \/ Drain(u)

Spec == Init /\ [][Next]_vars

\* The threads run, a push goes on to notify, a program that closes a port
\* gets through, and one that has a port open reads from it or closes it.
FairSpec ==
    /\ Spec
    /\ WF_vars(MuxStep) /\ WF_vars(DemuxStep)
    /\ \A p \in Ports : WF_vars(Notify(p))
    /\ \A u \in Users : WF_vars(Read(u)) /\ WF_vars(ReadRestore(u)) /\ WF_vars(Drain(u))

-----------------------------------------------------------------------------
(* Properties.                                                             *)

Handed(p) ==
    outq[p] \o (IF rx.pc = "push" /\ rx.port = p THEN <<rx.frame>> ELSE <<>>)

\* Whatever the order in which the muxer interleaves the fragments of the ports,
\* whatever RSSI loses, and although fragment numbers wrap around: the frames that
\* arrive at a port are in order, and everything in them was pushed into that port.
\* Such a frame is the one that its first buffer begins, whole, unless two or more
\* of its fragments in a row were lost after one that was not: the loss of a single
\* fragment is always noticed (sendFrag() and pushDownstream()).
FramesWhole ==
    \A p \in Ports : \A i \in DOMAIN Handed(p) :
        LET f == Handed(p)[i]
            n == f[1].frame
        IN  /\ n > IF i = 1 THEN last[p] ELSE Handed(p)[i - 1][1].frame
            /\ \/ f = Chain(p, n)
               \/ /\ n \in trail[p].torn
                  /\ f[1] = Chain(p, n)[1]
                  /\ \A j \in DOMAIN f : f[j].port = p

\* What the receiver takes for granted of RSSI: a frame that arrives is one that was
\* pushed.
NeverJoined ==
    \A p \in Ports : \A i \in DOMAIN Handed(p) :
        Handed(p)[i] = Chain(p, Handed(p)[i][1].frame)

\* Somebody is in the loop that drains the queue of port p.
Drains(p) ==
    \/ rx.pc \in {"isOpen", "tryPop"} /\ rx.port = p
    \/ \E u \in Users : user[u].pc \in {"isOpen", "tryPop"} /\ user[u].port = p

Openers(p) == {u \in Users : p \in Doors[u]}

\* What may stay in the queue of a port that nobody has open, once everybody who
\* drained it is done.  Drains that get into each other's way give up although
\* there are frames left, but no more of them than there are programs that use the
\* port: and one less if another frame is already on its way into the queue.
FewLeft ==
    \A p \in Ports :
        ~isOpen(p) /\ ~Drains(p) =>
            Len(outq[p]) + (IF rx.pc = "push" /\ rx.port = p THEN 1 ELSE 0)
                <= Cardinality(Openers(p))

\* "If nobody holds the interface 'open' then traffic should be discarded instead of
\* clogging the queue and eventually stalling RSSI": the demultiplexer does not wait
\* for room in the queue of a port that is not open and that nobody drains.
Unclogged ==
    rx.pc = "push" /\ Len(outq[rx.port]) >= OutDepth =>
        isOpen(rx.port) \/ Drains(rx.port)

\* Frames pushed into any of the ports flow to the end: the muxer does not sleep
\* while there is work, and the demultiplexer does not stay blocked in a full
\* queue when programs close the port, open it again or give up their doors.
Quiet ==
    /\ \A p \in Ports : inq[p] = <<>> /\ work[p].bc = <<>>
    /\ mux.pc # "push" /\ link = <<>> /\ rx.pc = "pop"
Flows == []<>Quiet
==============================================================================
