------------------------------- MODULE GetVal -------------------------------
(***************************************************************************)
(* Asynchronous access to the values of a device: IIntEntryAdapt::getVal() *)
(* and setVal() (cpsw_sval.cc) of an array, the MMIO device that splits a  *)
(* read into one per element (cpsw_mmio_dev.cc), the asynchronous reads of *)
(* SRP (cpsw_srp_addr.cc) and the object that calls back when the last of  *)
(* them is complete (CAsyncIOParallelCompletion).                          *)
(*                                                                         *)
(* The entry, the memory and the requests of a behaviour are one of the    *)
(* Scenarios.  The requests travel over UDP: a request or its answer may   *)
(* be lost or late.                                                        *)
(***************************************************************************)
EXTENDS AsyncIO, ScalVal

CONSTANTS Threads,      \* threads of the program, one request each at most
          Scenarios     \* of [mem, junk, reqs]; a request is
                        \* [f, elsz, nelms, stride, cached, vals]

\* A request is for all elements of its path, of which there is one at least
\* (checkNelms()).
ASSUME ScenarioAssumption ==
    \A s \in Scenarios :
        DOMAIN s.reqs \subseteq Threads /\ \A t \in DOMAIN s.reqs : s.reqs[t].nelms \in Nat \ {0}

\* All scenarios are such that values mean something: the elements lie within the
\* device (CMMIOAddressImpl::attach() checks it), and a thread that stores values
\* has the device for itself.
Orderly ==
    \A s \in Scenarios :
        LET M == Len0(s.mem)
        IN  /\ M \in Nat /\ s.mem \in [0..(M - 1) -> Byte] /\ s.junk \in Byte
            /\ \A t \in DOMAIN s.reqs :
                   LET q == s.reqs[t]
                   IN  /\ Valid(q.f) /\ q.elsz \in Nat \ {0} /\ q.stride \in Nat
                       /\ (q.nelms - 1) * q.stride + computeSize(q.f) <= M
                       /\ DOMAIN q.vals # {} => /\ q.vals \in [0..(q.nelms * q.elsz - 1) -> Byte]
                                                /\ DOMAIN s.reqs = {t}

\* The values that a thread stores go to elements that do not overlap.  attach()
\* also accepts a stride that is less than the size; a value then overwrites a part
\* of the one before it.
Apart ==
    \A s \in Scenarios : \A t \in DOMAIN s.reqs :
        DOMAIN s.reqs[t].vals # {} => computeSize(s.reqs[t].f) <= s.reqs[t].stride

VARIABLES scen,     \* the scenario
          mem,      \* the memory of the device
          user,     \* thread t: [pc, part, tid, timeout]
          tid,      \* number of transactions so far
          net,      \* answers under way: [tid, ok, data]
          hnd,      \* thread of CSRPAsyncHandler: [pc, xact, ok, data]
          buf,      \* what t's read has brought so far; the result in the end
          refs,     \* who holds a reference to t's completion: parts, and 0 for t
          err,      \* error_ of t's completion
          cb        \* callbacks that t's program has seen: <<error, ...>>
vars == <<aioVars, scen, mem, user, tid, net, hnd, buf, refs, err, cb>>

Req(t) == scen.reqs[t]
Active == DOMAIN scen.reqs
Size(t) == computeSize(Req(t).f)

\* CMMIOAddressImpl::read() reads all elements at once if they lie side by side
\* and may be cached, otherwise one after another.
Collapsed(t) == Size(t) = Req(t).stride /\ Req(t).cached
Parts(t)     == IF Collapsed(t) \/ Req(t).nelms = 1 THEN {1} ELSE 1..Req(t).nelms
Data(t, i) ==
    LET q == Req(t)
    IN  IF Collapsed(t) THEN Window(mem, 0, q.nelms * Size(t))
                        ELSE Window(mem, (i - 1) * q.stride, Size(t))

-----------------------------------------------------------------------------
(* The threads of the program.                                             *)

\* setVal(), if the request asks for it, and the call of getVal().
Set(t) ==
    LET q == Req(t)
    IN  /\ user[t].pc = "set"
        /\ mem' = IF DOMAIN q.vals = {} THEN mem
                  ELSE setVal(q.f, mem, q.stride, q.vals, q.nelms, q.elsz, scen.junk)
        /\ user' = [user EXCEPT ![t].pc = "get"]
        /\ UNCHANGED <<aioVars, scen, tid, net, hnd, buf, refs, err, cb>>

\* readBlk_unlocked() is called with the mutex of the address held.  post() takes
\* the time before it takes the lock of the list.  The numbers of getTid() come
\* round after 2^24 transactions, which the model does not reach.
Stamp(t) ==
    /\ user[t].pc = "get"
    /\ \A u \in Active : user[u].pc \notin {"add", "send"}
    /\ now < MaxTime - Timeout
    /\ tid' = tid + 1
    /\ user' = [user EXCEPT ![t] = [@ EXCEPT !.pc = "add", !.tid = tid + 1, !.timeout = now + Timeout]]
    /\ refs' = [refs EXCEPT ![t] = @ \union {user[t].part}]
    /\ UNCHANGED <<aioVars, scen, mem, net, hnd, buf, err, cb>>

Add(t) ==
    /\ user[t].pc = "add"
    /\ post(<<t, user[t].part>>, user[t].tid, user[t].timeout)
    /\ user' = [user EXCEPT ![t].pc = "send"]
    /\ UNCHANGED <<scen, mem, tid, net, hnd, buf, refs, err, cb>>

\* The request goes out, and the device answers or refuses; or it is lost.
Send(t) ==
    /\ user[t].pc = "send"
    /\ \/ UNCHANGED net
       \/ \E ok \in BOOLEAN :
              net' = net \union {[tid |-> user[t].tid, ok |-> ok,
                                data |-> Data(t, user[t].part)]}
    /\ user' = [user EXCEPT ![t] =
                   [pc |-> IF user[t].part + 1 \in Parts(t) THEN "get" ELSE "drop",
                    part |-> @.part + 1, tid |-> 0, timeout |-> 0]]
    /\ UNCHANGED <<aioVars, scen, mem, tid, hnd, buf, refs, err, cb>>

Lose(m) == net' = net \ {m} /\ UNCHANGED <<aioVars, scen, mem, user, tid, hnd, buf, refs, err, cb>>

-----------------------------------------------------------------------------
(* Completion.                                                             *)

\* A reference goes; with the last one ~CAsyncIOParallelCompletion() calls the
\* context of getVal(), which converts the values unless there was an error, and
\* then the program.
Drop(t, i) ==
    /\ refs' = [refs EXCEPT ![t] = @ \ {i}]
    /\ IF refs[t] \ {i} # {} THEN UNCHANGED <<buf, cb>>
       ELSE /\ cb' = [cb EXCEPT ![t] = Append(@, err[t])]
            /\ buf' = IF err[t] THEN buf
                      ELSE [buf EXCEPT ![t] =
                               doComplete(Req(t).f, buf[t], Req(t).nelms, Req(t).elsz)]
    /\ UNCHANGED <<scen, mem, tid, net, err>>

\* CMMIOAddressImpl::read() returns.
Return(t) ==
    /\ user[t].pc = "drop"
    /\ user' = [user EXCEPT ![t].pc = "done"]
    /\ Drop(t, 0)
    /\ UNCHANGED <<aioVars, hnd>>

\* doComplete() of a transaction: the data of a good answer go to where the read
\* wants them; otherwise the parallel completion records the error.
Complete(x, ok, data) ==
    LET t == x[1]
    IN  /\ buf' = IF ok THEN [buf EXCEPT ![t] = Paste(@, (x[2] - 1) * Size(t), data)] ELSE buf
        /\ err' = [err EXCEPT ![t] = @ \/ ~ok]
        /\ UNCHANGED <<scen, mem, user, tid, net, refs, cb>>

\* CSRPAsyncHandler::threadBody(): an answer arrives; complete() finds its
\* transaction, or nothing.
Answer(m) ==
    /\ hnd.pc = "pop"
    /\ net' = net \ {m}
    /\ IF Found(m.tid) = {} THEN UNCHANGED <<aioVars, hnd>>
       ELSE /\ takeOff(First(m.tid))
            /\ hnd' = [pc |-> "complete", xact |-> pending[First(m.tid)].xact,
                       ok |-> m.ok, data |-> m.data]
    /\ UNCHANGED <<scen, mem, user, tid, buf, refs, err, cb>>

HandlerComplete ==
    /\ hnd.pc = "complete"
    /\ Complete(hnd.xact, hnd.ok, hnd.data)
    /\ hnd' = [hnd EXCEPT !.pc = "drop"]
    /\ UNCHANGED aioVars

HandlerIdle == [pc |-> "pop", xact |-> NoXact, ok |-> FALSE, data |-> <<>>]

HandlerDrop ==
    /\ hnd.pc = "drop"
    /\ Drop(hnd.xact[1], hnd.xact[2])
    /\ hnd' = HandlerIdle
    /\ UNCHANGED <<aioVars, user>>

\* The timeout thread.
TimeoutCheck == Check /\ UNCHANGED <<scen, mem, user, tid, net, hnd, buf, refs, err, cb>>
TimeoutWake  == Wake /\ UNCHANGED <<scen, mem, user, tid, net, hnd, buf, refs, err, cb>>

TimeoutComplete ==
    /\ thr.pc = "complete"
    /\ Complete(thr.xact, FALSE, <<>>)
    /\ thr' = [thr EXCEPT !.pc = "drop"]
    /\ UNCHANGED <<now, pending, hnd>>

TimeoutDrop ==
    /\ thr.pc = "drop"
    /\ Drop(thr.xact[1], thr.xact[2])
    /\ thr' = [thr EXCEPT !.pc = "run", !.xact = NoXact]
    /\ UNCHANGED <<now, pending, hnd, user>>

Clock == Tick /\ UNCHANGED <<scen, mem, user, tid, net, hnd, buf, refs, err, cb>>

-----------------------------------------------------------------------------
BufLen(q) == q.nelms * (IF computeSize(q.f) > q.elsz THEN computeSize(q.f) ELSE q.elsz)

Init ==
    /\ AioInit
    /\ scen \in Scenarios
    /\ mem = scen.mem
    /\ user = [t \in Active |-> [pc |-> "set", part |-> 1, tid |-> 0, timeout |-> 0]]
    /\ tid = 0 /\ net = {} /\ hnd = HandlerIdle
    /\ buf = [t \in Active |-> [i \in 0..(BufLen(Req(t)) - 1) |-> 0]]
    /\ refs = [t \in Active |-> {0}]
    /\ err = [t \in Active |-> FALSE]
    /\ cb = [t \in Active |-> <<>>]

UserStep(t) == Set(t) \/ Stamp(t) \/ Add(t) \/ Send(t) \/ Return(t)
HandlerStep == HandlerComplete \/ HandlerDrop
TimeoutStep == TimeoutCheck \/ TimeoutWake \/ TimeoutComplete \/ TimeoutDrop

Next ==
    \/ HandlerStep \/ TimeoutStep \/ Clock
    \/ \E t \in Active : UserStep(t)
    \/ \E m \in net : Answer(m) \/ Lose(m)

Spec == Init /\ [][Next]_vars

\* The threads run and the clock goes on; answers need not arrive.
FairSpec ==
    /\ Spec
    /\ WF_vars(HandlerStep) /\ WF_vars(TimeoutStep) /\ WF_vars(Clock)
    /\ \A t \in Threads : WF_vars(t \in Active /\ UserStep(t))

-----------------------------------------------------------------------------
(* Properties.                                                             *)

Open(x) ==
    \/ \E i \in DOMAIN pending : pending[i].xact = x
    \/ thr.xact = x \/ hnd.xact = x

\* The program's callback runs once, and only when no transaction of the read is
\* pending or in the hands of a thread that still completes it: the answer that
\* races the timeout is completed by one of the two threads, never by both, and
\* an answer that comes too late finds nothing.
CallbackOnce ==
    \A t \in Active :
        /\ Len(cb[t]) <= 1
        /\ cb[t] # <<>> => \A i \in Parts(t) : ~Open(<<t, i>>)
        /\ \A i \in Parts(t) : ~(thr.xact = <<t, i>> /\ hnd.xact = <<t, i>>)

\* A read that is reported to be good has brought the values of all elements, in
\* the order of the array, each from its own answer: bits, byte order, word order
\* and sign as the entry says, in integers of the size that the program wants.
ValueRead ==
    \A t \in Active :
        (cb[t] = <<FALSE>>) =>
            \A k \in 0..(Req(t).nelms - 1) :
                LET q == Req(t)
                IN  Window(buf[t], k * q.elsz, q.elsz)
                        = ToBytes(FieldValue(q.f, Window(mem, k * q.stride, Size(t))), q.elsz)

\* setVal() stores the values in the bits of the entry and leaves all other bits
\* of the memory as they were, those that share a byte with the entry included.
WriteKeeps ==
    \A t \in Active :
        (user[t].pc # "set" /\ DOMAIN Req(t).vals # {}) =>
            LET q == Req(t)
                Elem(k) == Window(scen.mem, k * q.stride, Size(t))
                Val(k)  == Signed(Number(Window(q.vals, k * q.elsz, q.elsz)),
                                  ByteBits * q.elsz, q.f.isSigned)
            IN  \A i \in DOMAIN mem :
                    LET k == i \div q.stride
                        j == i % q.stride
                    IN  mem[i] = IF k < q.nelms /\ j < Size(t)
                                 THEN Stored(q.f, Elem(k), Val(k))[j] ELSE scen.mem[i]

\* Once a read is called back nobody writes to the buffer that the program gave,
\* which may be gone.
BufferReleased == [][\A t \in Active : cb[t] # <<>> => buf'[t] = buf[t]]_vars

\* Every read is called back, whatever is lost, and its buffer is left alone.
Done(t) == t \in Active => user[t].pc = "get" \/ cb[t] # <<>>
CalledBack == BufferReleased /\ \A t \in Threads : <>[]Done(t)
=============================================================================
