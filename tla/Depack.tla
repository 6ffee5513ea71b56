------------------------------- MODULE Depack -------------------------------
(***************************************************************************)
(* CProtoModDepack (cpsw_proto_mod_depack.cc): the depacketizer of version *)
(* 0.  A frame is sent as numbered fragments; the receiver reassembles     *)
(* them in a window of FrameWin frames, each with a window of FragWin      *)
(* fragments, and hands complete frames down in order.                     *)
(*                                                                         *)
(* The sender is processOutput() of the same module at the other end, the  *)
(* network (UDP) loses, repeats and reorders fragments: any fragment of    *)
(* the last Late + 1 frames may arrive, at any time, again and again, or   *)
(* never.  Time is left out: a timeout that runs may expire.               *)
(*                                                                         *)
(* Frames have an identity, which the program does not know, besides the   *)
(* frame number they carry: number = identity % FrameMod.                  *)
(***************************************************************************)
EXTENDS Integers, Sequences, FiniteSets

CONSTANTS FrameMod,     \* frame numbers are taken modulo this (2^12)
          FragMax,      \* the last fragment number (2^24 - 1)
          FrameWin,     \* frameWinSize_
          FragWin,      \* fragWinSize_
          Mtu, Hdr,     \* MTU of the module upstream, size of a header
          Chains,       \* sizes of the buffers of frame f: Chains[(f % Len(Chains)) + 1]
          First,        \* the first frame of the sender is one of these
          MaxFrames,    \* bound: frames sent
          MaxRestarts,  \* bound: times the sender starts over at frame number 0
          Late,         \* a fragment is overtaken by at most so many later frames
          Burst         \* at most so many frames in a row vanish in the network

ASSUME WindowAssumption ==
    /\ FrameWin \in Nat \ {0} /\ FragWin \in Nat \ {0} /\ FragMax \in Nat
    /\ FrameMod \in Nat /\ FrameMod > 2 * FrameWin /\ FrameMod % (2 * FrameWin) = 0

\* Any buffer of a frame fits into a fragment of its own (processOutput() throws
\* if it does not), and fragment numbers suffice.
ASSUME ChainAssumption ==
    /\ Mtu \in Nat /\ Hdr \in Nat /\ First \subseteq Nat
    /\ Chains \in Seq(Seq(Nat)) /\ Chains # <<>>
    /\ \A c \in DOMAIN Chains :
           /\ Chains[c] # <<>> /\ Len(Chains[c]) <= FragMax
           /\ \A j \in DOMAIN Chains[c] : Chains[c][j] + (IF j > 1 THEN Hdr ELSE 0) <= Mtu
ASSUME BoundAssumption == {MaxFrames, MaxRestarts, Late, Burst} \subseteq Nat

NoFrame == FrameMod * FrameMod          \* CFrame::NO_FRAME
NoFrag  == -2                           \* CFrame::NO_FRAG
NoBuf   == [frame |-> -1, frag |-> -1, first |-> 0, last |-> 0, eof |-> FALSE]

VARIABLES dp,       \* the receiver: [oldestFrame, frameWin, out, panic]; out has,
                    \* for each frame that left the window, what was handed down
                    \* of it: <<>> if it was given up
          sent,     \* the last Late + 1 frames sent, the newest last: [frame, frags],
                    \* the identity and the fragments sent so far
          frames, restarts,     \* frames sent, restarts of the sender
          unseen    \* the newest frames of which no fragment has arrived that
                    \* the window of an empty frame has room for
vars == <<dp, sent, frames, restarts, unseen>>

-----------------------------------------------------------------------------
(* The sender.                                                             *)

Chain(f) == Chains[(f % Len(Chains)) + 1]

Size(c, i, j) ==
    LET sum[k \in (i - 1)..j] == IF k < i THEN 0 ELSE sum[k - 1] + c[k]
    IN  sum[j]

\* fitsInMTU() of buffers i to j; a fragment that is not the first has had a
\* header put in front of its first buffer.
fitsInMTU(c, frag, i, j) == Size(c, i, j) + (IF frag > 0 THEN Hdr ELSE 0) <= Mtu

\* The last buffer of the fragment that processOutput() takes off a chain.
LastBuf(c, frag, i) ==
    CHOOSE j \in i..Len(c) :
        /\ fitsInMTU(c, frag, i, j)
        /\ j < Len(c) => ~fitsInMTU(c, frag, i, j + 1)

Fragment(f, frag, i) ==
    LET j == LastBuf(Chain(f), frag, i)
    IN  [frame |-> f, frag |-> frag, first |-> i, last |-> j, eof |-> j = Len(Chain(f))]

Newest == sent[Len(sent)]

\* The first buffer that is not sent yet.
NextBuf(tx) == IF tx.frags = <<>> THEN 1 ELSE tx.frags[Len(tx.frags)].last + 1
Done == NextBuf(Newest) > Len(Chain(Newest.frame))

\* One turn of the loop in push(): processOutput() and the push upstream.
SendFragment ==
    /\ ~Done
    /\ sent' = [sent EXCEPT ![Len(sent)] =
                    [frame |-> @.frame,
                     frags |-> Append(@.frags, Fragment(@.frame, Len(@.frags), NextBuf(@)))]]
    /\ UNCHANGED <<dp, frames, restarts, unseen>>

StartFrame(f, flying) ==
    /\ Done /\ frames < MaxFrames
    /\ sent' = Append(flying, [frame |-> f, frags |-> <<>>])
    /\ frames' = frames + 1
    /\ UNCHANGED dp

\* newFrameID() numbers the frames one after another ...
NewFrame ==
    /\ unseen < Burst /\ unseen' = unseen + 1
    /\ StartFrame(Newest.frame + 1, IF Len(sent) > Late THEN Tail(sent) ELSE sent)
    /\ UNCHANGED restarts

\* ... and starts at 0 when the sender is restarted.  This takes longer than
\* fragments stay in the network and than the timeout of a frame.
Restart ==
    /\ restarts < MaxRestarts /\ restarts' = restarts + 1
    /\ \A i \in DOMAIN dp.frameWin : ~dp.frameWin[i].running
    /\ StartFrame(((Newest.frame \div FrameMod) + 1) * FrameMod, <<>>)
    /\ unseen' = 1

-----------------------------------------------------------------------------
(* The receiver.                                                           *)

EmptyFrame ==
    [frameID |-> NoFrame, oldestFrag |-> 0, lastFrag |-> NoFrag, isComplete |-> FALSE,
     running |-> FALSE, prod |-> <<>>, fragWin |-> [i \in 0..(FragWin - 1) |-> NoBuf]]

toFrameIdx(n) == n % FrameWin
toFragIdx(n)  == n % FragWin
moduloFrameSz(n) == n % FrameMod

\* Only the sign bit is looked at: a negative argument whose sign bit is clear
\* stays as it is.
signExtendFrameNo(x) ==
    IF x % FrameMod >= FrameMod \div 2 THEN (x % FrameMod) - FrameMod ELSE x

\* The frame at a distance of i from the oldest.
Slot(s, i) == s.frameWin[toFrameIdx(s.oldestFrame + i)]

Releasable(s, i, onlyComplete) ==
    Slot(s, i).running /\ (onlyComplete => Slot(s, i).isComplete)

\* What is handed down of a frame that leaves the window.
HandedDown(fr) == IF fr.isComplete THEN fr.prod ELSE <<>>

\* Leaves the fragments of the frame in its window.
Release_keepsFrags(s, n) ==
    LET gone == [i \in 1..n |-> HandedDown(Slot(s, i - 1))]
        idx  == {toFrameIdx(s.oldestFrame + i) : i \in 0..(n - 1)}
    IN  [s EXCEPT !.out = @ \o gone,
                  !.frameWin = [i \in DOMAIN @ |->
                      IF i \in idx THEN [EmptyFrame EXCEPT !.fragWin = s.frameWin[i].fragWin]
                                   ELSE @[i]],
                  !.oldestFrame = IF n = 0 THEN @ ELSE moduloFrameSz(@ + n)]

\* The n oldest frames leave the window; the complete ones are handed down
\* (pushDown() waits until there is room).
Release(s, n) ==
    LET gone == [i \in 1..n |-> HandedDown(Slot(s, i - 1))]
        idx  == {toFrameIdx(s.oldestFrame + i) : i \in 0..(n - 1)}
    IN  [s EXCEPT !.out = @ \o gone,
                  !.frameWin = [i \in DOMAIN @ |-> IF i \in idx THEN EmptyFrame ELSE @[i]],
                  !.oldestFrame = IF n = 0 THEN @ ELSE moduloFrameSz(@ + n)]

releaseOldestFrame(s, onlyComplete) ==
    IF s.oldestFrame # NoFrame /\ Releasable(s, 0, onlyComplete) THEN Release(s, 1) ELSE s

\* releaseOldestFrame() until it returns false.
releaseFrames(s, onlyComplete) ==
    IF s.oldestFrame = NoFrame THEN s
    ELSE Release(s, CHOOSE n \in 0..FrameWin :
                        /\ \A i \in 0..(n - 1) : Releasable(s, i, onlyComplete)
                        /\ n < FrameWin => ~Releasable(s, n, onlyComplete))

Distance(s, no) ==
    LET d == signExtendFrameNo(no - s.oldestFrame) IN IF d < 0 THEN -d ELSE d

frameSync(s, no) ==
    IF Distance(s, no) > FrameWin
    THEN [releaseFrames(s, FALSE) EXCEPT !.oldestFrame = moduloFrameSz(no + 1)]
    ELSE s

\* The consecutive fragments at the low end of the window join the product.
updateChain(fr) ==
    LET n == CHOOSE m \in 0..FragWin :
                /\ \A i \in 0..(m - 1) : fr.fragWin[toFragIdx(fr.oldestFrag + i)] # NoBuf
                /\ m < FragWin => fr.fragWin[toFragIdx(fr.oldestFrag + m)] = NoBuf
        taken == {toFragIdx(fr.oldestFrag + i) : i \in 0..(n - 1)}
        count == fr.oldestFrag + n          \* nFrags_, too
    IN  [fr EXCEPT !.oldestFrag = count,
                   !.prod = @ \o [i \in 1..n |-> fr.fragWin[toFragIdx(fr.oldestFrag + i - 1)]],
                   !.fragWin = [i \in DOMAIN @ |-> IF i \in taken THEN NoBuf ELSE @[i]],
                   !.isComplete = @ \/ count = fr.lastFrag + 1 \/ count = FragMax]

\* Fragment g is put into frame fr.
Store(fr, g) ==
    LET last == IF (g.eof \/ g.frag = FragMax) /\ fr.lastFrag = NoFrag THEN g.frag
                                                                      ELSE fr.lastFrag
    IN  updateChain([fr EXCEPT !.fragWin[toFragIdx(g.frag)] = g, !.lastFrag = last])

\* Only the timeout of the frame itself.
StartTimeouts_own(s, idx) == [s EXCEPT !.frameWin[idx].running = TRUE]

\* The timeouts of all frames up to the one in slot idx start.
StartTimeouts(s, idx) ==
    LET n == (idx - toFrameIdx(s.oldestFrame)) % FrameWin
        started == {toFrameIdx(s.oldestFrame + i) : i \in 0..n}
    IN  [s EXCEPT !.frameWin = [i \in DOMAIN @ |->
                                    [s.frameWin[i] EXCEPT !.running = @ \/ i \in started]]]

\* The fragment is outside of the window of the frame; it is there already, or
\* comes after the last one.
Outside(fr, g) == g.frag < fr.oldestFrag \/ g.frag >= fr.oldestFrag + FragWin
Useless(fr, g) ==
    \/ fr.fragWin[toFragIdx(g.frag)] # NoBuf
    \/ fr.lastFrag # NoFrag /\ g.frag > fr.lastFrag

\* processBuffer() from the computation of the slot on.
Accept(s, g, no) ==
    LET idx == toFrameIdx(no)
        fr  == s.frameWin[idx]
    IN  CASE Outside(fr, g) -> s
          [] ~Outside(fr, g) /\ fr.frameID = NoFrame ->
                [StartTimeouts(s, idx) EXCEPT
                    !.frameWin[idx] = Store([@ EXCEPT !.frameID = no], g)]
          [] ~Outside(fr, g) /\ fr.frameID = no ->
                IF Useless(fr, g) THEN s ELSE [s EXCEPT !.frameWin[idx] = Store(fr, g)]
          [] ~Outside(fr, g) /\ fr.frameID \notin {NoFrame, no} -> [s EXCEPT !.panic = TRUE]

\* Evicts nothing when the frame just past the window arrives.
processBuffer_noEviction(s, g) ==
    LET no     == moduloFrameSz(g.frame)
        synced == s.oldestFrame = NoFrame /\ g.frag = 0
        t      == IF synced THEN [s EXCEPT !.oldestFrame = no] ELSE s
        relOff == moduloFrameSz(no - t.oldestFrame)
    IN  IF no < t.oldestFrame THEN frameSync(t, no)
        ELSE IF relOff > FrameWin THEN frameSync(t, no)
        ELSE Accept(t, g, no)

processBuffer(s, g) ==
    LET no     == moduloFrameSz(g.frame)
        synced == s.oldestFrame = NoFrame /\ g.frag = 0
        t      == IF synced THEN [s EXCEPT !.oldestFrame = no] ELSE s
        relOff == moduloFrameSz(no - t.oldestFrame)
    IN  IF no < t.oldestFrame THEN frameSync(t, no)
        ELSE IF relOff > FrameWin THEN frameSync(t, no)
        ELSE Accept(IF relOff = FrameWin THEN releaseOldestFrame(t, FALSE) ELSE t, g, no)

\* threadBody(): a fragment arrives ...
Receive(i, g) ==
    /\ ~dp.panic
    /\ dp' = LET s == processBuffer(dp, g) IN IF s.panic THEN s ELSE releaseFrames(s, TRUE)
    /\ unseen' = IF g.frag < FragWin /\ Len(sent) - i < unseen THEN Len(sent) - i ELSE unseen
    /\ UNCHANGED <<sent, frames, restarts>>

\* Holds on to the oldest frame until it is complete.
Timeout_complete ==
    /\ ~dp.panic /\ dp.oldestFrame # NoFrame /\ Slot(dp, 0).running
    /\ dp' = releaseFrames(releaseOldestFrame(dp, TRUE), TRUE)
    /\ UNCHANGED <<sent, frames, restarts, unseen>>

\* ... or the timeout of the oldest frame expires.
Timeout ==
    /\ ~dp.panic /\ dp.oldestFrame # NoFrame /\ Slot(dp, 0).running
    /\ dp' = releaseFrames(releaseOldestFrame(dp, FALSE), TRUE)
    /\ UNCHANGED <<sent, frames, restarts, unseen>>

Init ==
    /\ dp = [oldestFrame |-> NoFrame, frameWin |-> [i \in 0..(FrameWin - 1) |-> EmptyFrame],
             out |-> <<>>, panic |-> FALSE]
    /\ \E f \in First : sent = << [frame |-> f, frags |-> <<>>] >>
    /\ frames = 1 /\ restarts = 0 /\ unseen = 1

Next ==
    \/ SendFragment \/ NewFrame \/ Restart \/ Timeout
    \/ \E i \in DOMAIN sent : \E k \in DOMAIN sent[i].frags : Receive(i, sent[i].frags[k])

Spec == Init /\ [][Next]_vars

\* The thread waits for datagrams until the timeout of the oldest frame and
\* takes the timeout when it finds none.
FairSpec == Spec /\ WF_vars(Timeout)

-----------------------------------------------------------------------------
(* Properties.                                                             *)

\* "Frame ID window inconsistency!" is never thrown: processBuffer() never
\* finds a fragment of another frame in the slot of a frame.
NeverInconsistent == ~dp.panic

\* The frames whose timeout runs are the oldest ones, without a gap: a frame
\* that holds fragments, complete or not, is released in the end because
\* threadBody() waits for the timeout of the oldest frame only; and every slot
\* in use holds the frame whose turn it is.
WindowInOrder ==
    \E n \in 0..FrameWin :
        \A i \in 0..(FrameWin - 1) :
            /\ dp.oldestFrame # NoFrame => (Slot(dp, i).running <=> i < n)
            /\ dp.oldestFrame = NoFrame => ~dp.frameWin[i].running
            /\ LET fr == Slot(dp, i)
               IN  IF fr.running
                   THEN fr.frameID \in {NoFrame, moduloFrameSz(dp.oldestFrame + i)}
                   ELSE fr = EmptyFrame

\* What pushDown() hands over is a frame as it was pushed at the other end: all
\* its buffers, in order, each once; and frames are handed over in the order in
\* which they were sent, none of them twice.
Whole(p) ==
    /\ \A k \in DOMAIN p :
           /\ p[k].frame = p[1].frame
           /\ p[k].frag = k - 1
           /\ p[k].first = IF k = 1 THEN 1 ELSE p[k - 1].last + 1
           /\ p[k].eof <=> k = Len(p)
    /\ p[Len(p)].last = Len(Chain(p[1].frame))

FramesIntact ==
    /\ \A i \in DOMAIN dp.out : dp.out[i] # <<>> => Whole(dp.out[i])
    /\ \A i, j \in DOMAIN dp.out :
           i < j /\ dp.out[i] # <<>> /\ dp.out[j] # <<>> =>
               dp.out[i][1].frame < dp.out[j][1].frame

\* A frame that is complete in the window leaves it by being handed down, and
\* does so in the end, whatever is missing of the frames before it and whatever
\* arrives meanwhile.
Complete == {i \in DOMAIN dp.frameWin : dp.frameWin[i].isComplete}

CompleteDelivered ==
    /\ [][\A i \in Complete \ Complete' :
            \E k \in DOMAIN dp'.out : dp'.out[k] = dp.frameWin[i].prod]_vars
    /\ []<>(Complete = {})
=============================================================================
