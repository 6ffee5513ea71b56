--------------------------------- MODULE Srp ---------------------------------
(***************************************************************************)
(* CSRPAddressImpl (cpsw_srp_addr.cc): byte-wise reads and bit-wise writes *)
(* of a device's memory by messages that read or write words.  A call is   *)
(* split into blocks; words a write covers in part are read back first and *)
(* merged; a request without an answer is repeated, with the same          *)
(* transaction id (tid).                                                   *)
(*                                                                         *)
(* mutex_ is held over a whole call, so there is one client, `call'.  Two  *)
(* words that are read back together go through the asynchronous door      *)
(* ("async") and the transaction manager, everything else through "sync".  *)
(*                                                                         *)
(* A bit of memory is <<k, i>>: it was last written by call k, from the    *)
(* i-th byte of its source.  <<0, a>> is what address a holds initially.   *)
(***************************************************************************)
EXTENDS Integers, Sequences, FiniteSets

CONSTANTS W,          \* sizeof(SRPWord)
          Extra,      \* RMW_COLLAPSE_EXTRA_WORDS
          MaxWords,   \* maxWordsTx_, maxWordsRx_
          RetryCnt,   \* retryCnt_
          TidMod,     \* number of transaction ids (tidMsk_)
          Size,       \* bytes of the device's memory
          Calls,      \* calls the user may make
          Modes,      \* configurations of the address
          MaxCalls,   \* bound: calls made
          NetDepth    \* bound: requests under way

VARIABLES mode,       \* configuration of the address: [v3, byteRes, posted]
          mem,        \* the device's memory
          tid,        \* tid_
          req,        \* requests under way, in order
          rsp,        \* answers under way, in order, for each door
          hist,       \* the calls made so far; the last one may be under way
          pc,         \* where it is
          todo,       \* what is left of them: CSRPAddressImpl::read(), write()
          xact,       \* the synchronous request at hand, and what it is for
          attempt,    \* how often it was repeated
          pend,       \* pending asynchronous readbacks
          got,        \* what was read back
          failed,     \* a readback timed out
          out,        \* what the user's read has returned so far
          ok          \* outcome of the last call

vars == <<mode, mem, tid, req, rsp, hist, pc, todo, xact, attempt, pend, got, failed,
          out, ok>>

k    == Len(hist)
call == hist[k]

Addr == 0..Size-1
Bit  == {1, 2}
Door == {"sync", "async"}
Ends == {"first", "last"}       \* of a block
Mode == [v3 : BOOLEAN, byteRes : BOOLEAN, posted : BOOLEAN]
Call == [kind : {"read", "write"}, off : Addr, n : 0..Size, m1 : SUBSET Bit,
         mn : SUBSET Bit, cacheable : BOOLEAN]
Byte == [Bit -> (0..MaxCalls) \X Nat]

\* Byte resolution and posted writes need version 3.
ASSUME ModeAssumption == Modes \subseteq {m \in Mode : m.byteRes \/ m.posted => m.v3}
\* A call stays inside the memory, and what is read back at once is one request.
ASSUME CallAssumption == /\ Calls \subseteq {c \in Call : c.off + c.n <= Size}
                         /\ Size % W = 0
ASSUME SizeAssumption ==
    /\ {W, Extra, MaxWords, RetryCnt, TidMod, Size, MaxCalls, NetDepth} \subseteq Nat
    /\ W >= 1 /\ MaxWords >= 1 + Extra /\ TidMod >= 2

Least(a, b) == IF a < b THEN a ELSE b

-----------------------------------------------------------------------------
(* Blocks.  A block is b = [off, n, s, m1, mn]: n bytes of the source, from *)
(* its byte s, to address off; m1 and mn are the bits of the first and of   *)
(* the last byte that must keep their value.                                *)

Down(a) == W * (a \div W)
NWords(n) == (n + W - 1) \div W

headbytes(b) == IF mode.byteRes THEN 0 ELSE b.off % W
totbytes(b)  == headbytes(b) + b.n

\* All of it fits into one message.
Whole(b) == NWords(totbytes(b)) <= MaxWords

\* The first block of b, and what is left of it.
Block(b) == IF Whole(b) THEN b
            ELSE [b EXCEPT !.n = MaxWords * W - headbytes(b), !.mn = {}]

\* The masks of the first block are used for all of them.
Rest_keepMask(b) ==
    LET n == Block(b).n
    IN  [b EXCEPT !.off = @ + n, !.n = @ - n, !.s = @ + n]

Rest(b) ==
    LET n == Block(b).n
    IN  [b EXCEPT !.off = @ + n, !.n = @ - n, !.s = @ + n, !.m1 = {}]

Source(b) == [i \in 1..b.n |-> [j \in Bit |-> <<k, b.s + i - 1>>]]

\* (old & msk) | (new & ~msk)
Merge(old, new, m) == [j \in Bit |-> IF j \in m THEN old[j] ELSE new[j]]

-----------------------------------------------------------------------------
(* Read-modify-write: which words are read back.                            *)

needFirst(b) == headbytes(b) > 0 \/ b.m1 # {}
needLast(b)  == (~mode.byteRes /\ totbytes(b) % W # 0) \/ b.mn # {}
both(b)      == needFirst(b) /\ needLast(b)

\* The first and the last byte are the same one.
overlap(b) == both(b) /\ b.n = 1
\* Both are read back by one request ...
lastbyte_in_firstwords(b) == both(b) /\ b.n > 1 /\ totbytes(b) <= W * (1 + Extra)
\* ... or by two, asynchronously.
two(b) == both(b) /\ b.n > 1 /\ totbytes(b) > W * (1 + Extra)

merge_first(b) == needFirst(b)
\* A last word of its own: see also the end of writeBlk_unlocked().
merge_last(b) == \/ needLast(b) /\ ~needFirst(b)
                 \/ two(b)
                 \/ lastbyte_in_firstwords(b) /\ totbytes(b) > W

\* Arguments of the readbacks.
FirstRead(b) ==
    [off |-> IF mode.byteRes THEN b.off ELSE Down(b.off),
     n   |-> IF lastbyte_in_firstwords(b)
             THEN IF mode.byteRes THEN totbytes(b) ELSE NWords(totbytes(b)) * W
             ELSE IF mode.byteRes THEN 1 ELSE W]

LastRead(b) ==
    IF mode.byteRes THEN [off |-> b.off + b.n - 1, n |-> 1]
                    ELSE [off |-> Down(b.off + b.n - 1), n |-> W]

-----------------------------------------------------------------------------
(* ... and what is written.                                                 *)

\* Index of the last byte in the last word.
last_byte(b) ==
    IF mode.byteRes /\ ~lastbyte_in_firstwords(b) THEN 0 ELSE (totbytes(b) - 1) % W

\* The last byte is in the first word.
inside(b) == lastbyte_in_firstwords(b) /\ totbytes(b) <= W

\* Bytes after the first one that are copied to the words that were read back.
remaining(b) ==
    Least(totbytes(b), FirstRead(b).n) - headbytes(b) - 1 - (IF inside(b) THEN 1 ELSE 0)

\* The mask of the last byte is forgotten when it is the first one as well.
msk1_noUnion(b) == b.m1

msk1(b) == IF overlap(b) THEN b.m1 \cup b.mn ELSE b.m1

first_words(b, first) ==
    LET src == Source(b)
        h   == headbytes(b)
    IN  [j \in DOMAIN first |->
            CASE j = h + 1                         -> Merge(first[j], src[1], msk1(b))
              [] inside(b) /\ j = totbytes(b)      -> Merge(first[j], src[b.n], b.mn)
              [] j \in h + 2 .. h + 1 + remaining(b) -> src[j - h]
              [] OTHER                             -> first[j]]

last_word(b, first, last) ==
    LET src  == Source(b)
        l    == last_byte(b)
        old  == IF lastbyte_in_firstwords(b)
                THEN SubSeq(first, Down(totbytes(b) - 1) + 1, Len(first)) ELSE last
        len  == IF lastbyte_in_firstwords(b) /\ mode.byteRes THEN l + 1 ELSE LastRead(b).n
    IN  [j \in 1..len |->
            CASE j <= l    -> src[b.n - l + j - 1]
              [] j = l + 1 -> Merge(old[j], src[b.n], b.mn)
              [] OTHER     -> old[j]]

firstlen(b) == Least(FirstRead(b).n, W)

\* Bytes of the source that are sent as they are.
toput(b) ==
    b.n - (IF merge_first(b)
           THEN 1 + (IF inside(b) THEN 1 ELSE 0) + (IF remaining(b) > 0 THEN remaining(b) ELSE 0)
           ELSE 0)
        - (IF merge_last(b) THEN 1 + last_byte(b) ELSE 0)

payload(b, first, last) ==
    LET skip == IF merge_first(b) THEN firstlen(b) - headbytes(b) ELSE 0
    IN  (IF merge_first(b) THEN SubSeq(first_words(b, first), 1, firstlen(b)) ELSE <<>>)
        \o SubSeq(Source(b), skip + 1, skip + toput(b))
        \o (IF merge_last(b) THEN last_word(b, first, last) ELSE <<>>)

-----------------------------------------------------------------------------
(* Messages.                                                                *)

ReadMsg(door, t, a) ==
    [door |-> door, kind |-> "rd", tid |-> t, data |-> <<>>,
     off  |-> IF mode.byteRes THEN a.off ELSE Down(a.off),
     len  |-> IF mode.byteRes THEN a.n ELSE NWords(totbytes(a)) * W]

WriteMsg(t, b, data) ==
    [door |-> "sync", kind |-> IF mode.posted THEN "pwr" ELSE "wr", tid |-> t, data |-> data,
     off  |-> IF mode.byteRes THEN b.off ELSE Down(b.off),
     len  |-> IF mode.byteRes THEN totbytes(b) ELSE NWords(totbytes(b)) * W]

\* getTid()
Tid(n) == (tid + n) % TidMod

NoBlock == [off |-> 0, n |-> 0, s |-> 0, m1 |-> {}, mn |-> {}]
NoXact  == [use |-> "none"]
NoGot   == [p \in Ends |-> <<>>]

Init ==
    /\ mode \in Modes
    /\ mem = [a \in Addr |-> [j \in Bit |-> <<0, a>>]]
    /\ tid = 0
    /\ req = <<>> /\ rsp = [d \in Door |-> <<>>]
    /\ hist = <<>> /\ pc = "idle" /\ todo = NoBlock
    /\ xact = NoXact /\ attempt = 0
    /\ pend = {} /\ got = NoGot /\ failed = FALSE
    /\ out = <<>> /\ ok = FALSE

-----------------------------------------------------------------------------
(* The client.                                                              *)

\* read() or write() returns, or throws an IOError.
Return(success) ==
    /\ pc' = "idle" /\ ok' = success
    /\ todo' = NoBlock /\ xact' = NoXact /\ attempt' = 0 /\ got' = NoGot /\ failed' = FALSE

\* A call without bytes returns at once.
Begin(c) ==
    /\ pc = "idle" /\ k < MaxCalls
    /\ hist' = Append(hist, c) /\ out' = <<>>
    /\ pc' = IF c.n = 0 THEN "idle" ELSE "block"
    /\ ok' = (c.n = 0)
    /\ todo' = IF c.n = 0 THEN NoBlock
               ELSE [off |-> c.off, n |-> c.n, s |-> 0, m1 |-> c.m1, mn |-> c.mn]
    /\ UNCHANGED <<mode, mem, tid, req, rsp, xact, attempt, pend, got, failed>>

\* A synchronous request, to be sent.
Request(use, msg, tids) ==
    /\ xact' = [use |-> use, msg |-> msg] /\ attempt' = 0 /\ pc' = "send"
    /\ tid' = Tid(tids)

\* The write proper.  A second tid goes to CSRPWriteTransaction, which does not use it.
RequestWrite(first, last) ==
    LET b == Block(todo)
    IN  Request("write", WriteMsg(Tid(1), b, payload(b, first, last)), 2)

ReadBlock ==
    /\ pc = "block" /\ call.kind = "read"
    /\ Request("read", ReadMsg("sync", Tid(1), Block(todo)), 1)
    /\ UNCHANGED <<mode, mem, req, rsp, hist, todo, pend, got, failed, out, ok>>

\* writeBlk_unlocked() until the first request.
WriteBlock ==
    LET b == Block(todo)
        merge == needFirst(b) \/ needLast(b)
    IN  /\ pc = "block" /\ call.kind = "write"
        /\ \/ merge /\ ~call.cacheable /\ Return(FALSE) /\ UNCHANGED tid
           \/ /\ merge /\ call.cacheable /\ ~two(b)
              /\ Request("readback",
                         ReadMsg("sync", Tid(1), IF needFirst(b) THEN FirstRead(b) ELSE LastRead(b)), 1)
              /\ UNCHANGED <<todo, got, failed, ok>>
           \/ ~merge /\ RequestWrite(<<>>, <<>>) /\ UNCHANGED <<todo, got, failed, ok>>
        /\ UNCHANGED <<mode, mem, req, rsp, hist, pend, out>>

\* An asynchronous readback is posted to the manager, then sent.
Post(part, a, next) ==
    /\ Len(req) < NetDepth
    /\ pend' = pend \cup {[part |-> part, tid |-> Tid(1), words |-> NWords(a.n)]}
    /\ req' = Append(req, ReadMsg("async", Tid(1), a))
    /\ tid' = Tid(1) /\ pc' = next
    /\ UNCHANGED <<mode, mem, rsp, hist, todo, xact, attempt, got, failed, out, ok>>

PostFirst ==
    /\ pc = "block" /\ call.kind = "write" /\ two(Block(todo)) /\ call.cacheable
    /\ Post("first", FirstRead(Block(todo)), "postLast")

PostLast == pc = "postLast" /\ Post("last", LastRead(Block(todo)), "wait")

\* The waiter is called back by each readback instead of the last one.
Settled_any == Cardinality(pend) < 2

\* The parallel completion calls the waiter when nobody refers to it any more.
Settled == pend = {}

Wait ==
    /\ pc = "wait" /\ Settled
    /\ IF failed THEN Return(FALSE) /\ UNCHANGED tid
       ELSE RequestWrite(got["first"], got["last"]) /\ UNCHANGED <<todo, got, failed, ok>>
    /\ UNCHANGED <<mode, mem, req, rsp, hist, pend, out>>

\* A block is done.
NextBlock ==
    IF Whole(todo) THEN Return(TRUE)
    ELSE /\ todo' = Rest(todo) /\ pc' = "block"
         /\ xact' = NoXact /\ attempt' = 0 /\ got' = NoGot /\ failed' = FALSE
         /\ UNCHANGED ok

\* A posted write is done when it was pushed.
Send ==
    /\ pc = "send" /\ Len(req) < NetDepth
    /\ req' = Append(req, xact.msg)
    /\ IF xact.msg.kind = "pwr" THEN NextBlock
       ELSE pc' = "await" /\ UNCHANGED <<todo, xact, attempt, got, failed, ok>>
    /\ UNCHANGED <<mode, mem, tid, rsp, hist, pend, out>>

\* Every answer is taken for the one that is expected.
tidMatch_any(a, b) == TRUE

tidMatch(a, b) == a = b

\* The answer to xact: complete() of the transaction, which throws unless it has
\* as many words as were asked for.
Complete(r) ==
    LET b == Block(todo)
        h == headbytes(b)
    IN  IF r.words # NWords(xact.msg.len) THEN Return(FALSE) /\ UNCHANGED <<out, tid>>
        ELSE CASE xact.use = "read" ->
                    /\ out' = out \o SubSeq(r.data, h + 1, h + b.n)
                    /\ NextBlock /\ UNCHANGED tid
               [] xact.use = "readback" ->
                    /\ RequestWrite(r.data, r.data)
                    /\ UNCHANGED <<todo, got, failed, out, ok>>
               [] xact.use = "write" -> NextBlock /\ UNCHANGED <<out, tid>>

Answer ==
    /\ pc = "await" /\ rsp["sync"] # <<>>
    /\ rsp' = [rsp EXCEPT !["sync"] = Tail(@)]
    /\ LET r == Head(rsp["sync"])
       IN  IF tidMatch(r.tid, xact.msg.tid) THEN Complete(r)
           ELSE UNCHANGED <<pc, todo, xact, attempt, got, failed, out, ok, tid>>
    /\ UNCHANGED <<mode, mem, req, hist, pend>>

\* Repetitions are not counted.
NextAttempt_stuck == attempt

NextAttempt == attempt + 1

\* One repetition too many.
GiveUp_late == attempt > RetryCnt

GiveUp == NextAttempt > RetryCnt

\* pop() timed out.
Timeout ==
    /\ pc = "await" /\ rsp["sync"] = <<>>
    /\ IF GiveUp THEN Return(FALSE)
       ELSE /\ attempt' = NextAttempt /\ pc' = "send"
            /\ UNCHANGED <<todo, xact, got, failed, ok>>
    /\ UNCHANGED <<mode, mem, tid, req, rsp, hist, pend, out>>

-----------------------------------------------------------------------------
(* The handler of asynchronous answers, and the timeout thread.             *)

\* doComplete() catches what complete() throws and hands it to the callback.
AsyncAnswer ==
    /\ rsp["async"] # <<>>
    /\ rsp' = [rsp EXCEPT !["async"] = Tail(@)]
    /\ LET r     == Head(rsp["async"])
           found == {p \in pend : tidMatch(p.tid, r.tid)}
       IN  IF found = {} THEN UNCHANGED <<pend, got, failed>>
           ELSE \E p \in found :
                    /\ pend' = pend \ {p}
                    /\ IF r.words = p.words
                       THEN got' = [got EXCEPT ![p.part] = r.data] /\ UNCHANGED failed
                       ELSE failed' = TRUE /\ UNCHANGED got
    /\ UNCHANGED <<mode, mem, tid, req, hist, pc, todo, xact, attempt, out, ok>>

AsyncTimeout ==
    /\ \E p \in pend : pend' = pend \ {p}
    /\ failed' = TRUE
    /\ UNCHANGED <<mode, mem, tid, req, rsp, hist, pc, todo, xact, attempt, got, out, ok>>

-----------------------------------------------------------------------------
(* The device (its simulation, handleSRP() of test/udpsrv.c) and the network,   *)
(* which keeps the order and may lose messages.                                 *)

\* Version 3 drops a write whose size is not the one announced; earlier
\* versions announce none.
Accepted(m) == mode.v3 => NWords(m.len) = NWords(Len(m.data))

\* Answers are whole words: what the device appends is at no address.
Pad == [j \in Bit |-> <<0, Size>>]

Reply(m, data) ==
    LET n   == NWords(Len(data))
        ans == [i \in 1..n * W |-> IF i <= Len(data) THEN data[i] ELSE Pad]
    IN  rsp' = [rsp EXCEPT ![m.door] = Append(@, [tid |-> m.tid, words |-> n, data |-> ans])]

Serve ==
    /\ req # <<>>
    /\ req' = Tail(req)
    /\ LET m == Head(req)
       IN  \/ /\ m.kind = "rd"
              /\ Reply(m, [i \in 1..m.len |-> mem[m.off + i - 1]])
              /\ UNCHANGED mem
           \/ /\ m.kind # "rd"
              /\ mem' = [a \in Addr |-> IF Accepted(m) /\ a - m.off + 1 \in DOMAIN m.data
                                        THEN m.data[a - m.off + 1] ELSE mem[a]]
              /\ IF Accepted(m) /\ m.kind = "wr" THEN Reply(m, m.data) ELSE UNCHANGED rsp
    /\ UNCHANGED <<mode, tid, hist, pc, todo, xact, attempt, pend, got, failed, out, ok>>

\* A range's read or write fails: the answer has a status and no data.
Refuse ==
    /\ req # <<>> /\ req' = Tail(req)
    /\ IF Head(req).kind = "pwr" THEN UNCHANGED rsp ELSE Reply(Head(req), <<>>)
    /\ UNCHANGED <<mode, mem, tid, hist, pc, todo, xact, attempt, pend, got, failed, out, ok>>

LoseRequest ==
    /\ req # <<>> /\ req' = Tail(req)
    /\ UNCHANGED <<mode, mem, tid, rsp, hist, pc, todo, xact, attempt, pend, got, failed, out, ok>>

LoseAnswer ==
    /\ \E d \in Door : /\ rsp[d] # <<>>
                       /\ rsp' = [rsp EXCEPT ![d] = Tail(@)]
    /\ UNCHANGED <<mode, mem, tid, req, hist, pc, todo, xact, attempt, pend, got, failed, out, ok>>

-----------------------------------------------------------------------------
\* What the thread that called read() or write() does.
Client ==
    \/ ReadBlock \/ WriteBlock \/ PostFirst \/ PostLast \/ Wait
    \/ Send \/ Answer \/ Timeout

Next ==
    \/ \E c \in Calls : Begin(c)
    \/ Client
    \/ AsyncAnswer \/ AsyncTimeout
    \/ Serve \/ Refuse \/ LoseRequest \/ LoseAnswer

Spec == Init /\ [][Next]_vars

\* The threads run, and the device takes requests; it need not answer them.
FairSpec ==
    Spec /\ WF_vars(Client) /\ WF_vars(AsyncTimeout) /\ WF_vars(Serve)

-----------------------------------------------------------------------------
(* Properties.                                                              *)

Msg == [door : Door, kind : {"rd", "wr", "pwr"}, tid : 0..TidMod-1, off : Addr, len : 0..Size,
        data : Seq(Byte)]

\* Requests, answers and pending readbacks have the shape the code gives them, and a
\* request is repeated at most retryCnt_ times.
TypeOK ==
    /\ mode \in Modes /\ mem \in [Addr -> Byte] /\ tid \in 0..TidMod-1
    /\ req \in Seq(Msg) /\ Len(req) <= NetDepth
    /\ \A d \in Door : rsp[d] \in Seq([tid : 0..TidMod-1, words : 0..Size, data : Seq(Byte)])
    /\ hist \in Seq(Calls) /\ pc \in {"idle", "block", "postLast", "wait", "send", "await"}
    /\ xact = NoXact \/ xact \in [use : {"read", "readback", "write"}, msg : Msg]
    /\ attempt \in 0..RetryCnt
    /\ pend \subseteq [part : Ends, tid : 0..TidMod-1, words : 1..Size]
    /\ got \in [Ends -> Seq(Byte)]
    /\ failed \in BOOLEAN /\ out \in Seq(Byte) /\ ok \in BOOLEAN

\* A write changes nothing but its own bits: whichever words were read back,
\* merged, split or sent twice, no byte of a source is found at another address
\* and no bit that the masks protect is changed (writeBlk_unlocked()).
Placed ==
    \A a \in Addr, j \in Bit :
        LET v == mem[a][j]
            c == hist[v[1]]
        IN  IF v[1] = 0 THEN v[2] = a
            ELSE /\ a = c.off + v[2]
                 /\ ~(v[2] = 0 /\ j \in c.m1) /\ ~(v[2] = c.n - 1 /\ j \in c.mn)

\* No update is lost: what a later call wrote is never replaced by what was
\* there before, neither by a retry nor by a word that was read back earlier.
NoRevert == [][\A a \in Addr, j \in Bit : mem'[a][j][1] >= mem[a][j][1]]_vars

\* A write that returned has taken effect, all of it, unless it was posted.
WriteEffect ==
    pc = "idle" /\ k > 0 /\ ok /\ ~mode.posted /\ call.kind = "write" =>
        \A i \in 0..call.n - 1, j \in Bit :
            \/ i = 0 /\ j \in call.m1
            \/ i = call.n - 1 /\ j \in call.mn
            \/ mem[call.off + i][j] = <<k, i>>

\* A read that returned has got what is in the memory: never the answer to an
\* earlier request, and nothing from before a write that was made earlier, posted or not.
ReadCurrent ==
    pc = "idle" /\ k > 0 /\ ok /\ call.kind = "read" =>
        out = [i \in 1..call.n |-> mem[call.off + i - 1]]

\* writeBlk_unlocked() does not return while a readback may still store its
\* answer into its local variables first_words and last_word.
ReadbacksSettled == pc \notin {"postLast", "wait"} => pend = {}

\* Every call returns, whatever is lost.
CallReturns == (pc # "idle") ~> (pc = "idle")
=============================================================================
