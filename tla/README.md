# A TLA+ model of CPSW

CPSW (Common Platform Software) gives control software access to registers and
streams of FPGA firmware over a network.  A hierarchy of devices, described in
YAML, ends in a *protocol stack*: modules that are connected by ports and that
packetize, multiplex, retransmit and finally send the data by UDP or TCP.  This
directory models the part of it where correctness depends on the order in which
things happen.  Source paths below are relative to `src/src/` of the repository.

## 1. The system

| Component | State it keeps | Operations | What makes it correct |
|---|---|---|---|
| RSSI endpoint (`cpsw_rssi.cc`, `cpsw_rssi_states.cc`, `cpsw_rssi.h`) | connection state, sequence numbers, unacknowledged segments, reassembly buffer, counters, timers | handlers of received segments, of user input and output, of three timers; open, close | exactly-once, in-order delivery; windows respected; progress |
| RSSI timers (`cpsw_rssi_timer.h`) | sorted list of armed timers | arm, cancel, first to expire | the first to expire is the earliest |
| RSSI header (`cpsw_rssi_proto.*`) | none | encode, decode, checksum | fields survive the round trip |
| Event sets (`cpsw_event.*`) | bindings of sources and handlers, pending flags | add, notify, poll, wait | no lost wake-up |
| Buffer queues (`cpsw_bufq.cc`) | lock-free queue, slot counters, semaphores | push, pop (try, timed, blocking), shutdown | FIFO, capacity, no lost wake-up |
| Asynchronous I/O (`cpsw_async_io.*`) | pending transactions, timeout thread | post, complete, timeout | each transaction completes exactly once |
| SRP (`cpsw_srp_addr.*`, `cpsw_srp_transactions.*`) | transaction id, retry count, dynamic timeout | read, write, retries, splitting | data belongs to the request; writes not torn |
| Depacketizer (`cpsw_proto_mod_depack.*`, `cpsw_proto_depack.*`) | window of frames, each a window of fragments | received fragment, timeout, eviction | complete frames, in order, once |
| TDEST multiplexer (`cpsw_proto_mod_tdestmux*.cc`) | per-port fragmentation and reassembly, round-robin position | dispatch, fetch, split | no starvation, frames reassembled as sent |
| SRP and byte multiplexers (`cpsw_proto_mod_srpmux.*`, `..._bytemux.h`) | table of ports by channel | dispatch | answers reach the port that asked |
| Ports, doors, modules (`cpsw_proto_mod.*`, `cpsw_netio_dev.*`, `cpsw_comm_addr.*`) | open counts, started flags | open, close, start, stop, push, pop | started before use, stopped once |
| Stack builder (`cpsw_proto_stack_builder.cc`) | configuration | find or create modules | a port is shared or new, never both |
| Buffers (`cpsw_buf.*`, `cpsw_freelist*.h`) | chains, free lists | allocate, split, add | no buffer in two places |
| Hierarchy and paths (`cpsw_hub.*`, `cpsw_path.*`, `cpsw_entry*.`) | tree of devices, index ranges | find, concatenate, clone | addresses computed from index ranges |
| Scalar values (`cpsw_sval.*`, `cpsw_const_sval.*`, `cpsw_enum.*`) | bit position, size, sign, byte order | get, set, pack | a written value reads back |
| Streams, commands (`cpsw_stream_adapt.*`, `cpsw_command.*`) | open port | read, write, execute | as the port's |
| Memory, mmio, file devices (`cpsw_mem_dev.*`, `cpsw_mmio_dev.*`, `cpsw_fs_addr.*`) | memory, file | read, write | stride and masks |
| YAML (`cpsw_yaml*`, `cpsw_preproc.*`) | parser state | load, merge, include | merged keys |
| RSSI bridge (`rssi_bridge/`), SOCKS (`socks/`) | connections, sockets | relay, negotiate | data relayed in order |
| Python bindings, test servers, support code | | | outside the scope |

How they interact: a user thread calls a scalar value, which reads or writes
through an address (SRP), which pushes a request into a *door* of the stack and
pops the answer.  Every module that needs one has its own thread; modules pass
buffers through queues (`CBufQueue`) and wake each other with events
(`CEventSet`).  The RSSI thread waits in `processEvent()` for a segment from the
module upstream, for data in the user's input queue, for room in the user's
output queue, or for the first timer to expire, and calls one handler of the
current state at a time.

What is hard: two endpoints, three timers each and a network that loses,
reorders and duplicates, with 8-bit sequence numbers; connections that are
closed and reopened by either side; user threads, RSSI thread and the threads
of other modules on the same queues; answers that race their timeout.

## 2. Plan

Done, in this order: RSSI (`RssiEndpoint`, `RssiNode`, `RssiLink`, the abstract
`ReliableStream`), the queues (`BufQueue`), SRP (`Srp`), the depacketizer (`Depack`), the
multiplexer and the ports of protocol modules (`TDestMux2`), asynchronous access to
scalar values (`AsyncIO`, `ScalVal`, `GetVal`), and the proofs of section 5.

| Module | Composes | Runs |
|---|---|---|
| `RssiEndpoint` | | through the next two |
| `RssiNode` | an endpoint and an arbitrary peer | `node` |
| `RssiLink` | two endpoints and a network; implements `ReliableStream` | `link`, `link_live`, `link_stall` |
| `BufQueue` | queue, event sets, threads | `queue` |
| `Srp` | SRP client, asynchronous readbacks, network, device | `srp`, `srp_collapse` |
| `Depack` | packetizer, UDP, depacketizer | `depack`, `depack_loss` |
| `TDestMux2` | muxer thread, RSSI as a FIFO that may lose, demultiplexer thread, ports and their users | `mux2`, `mux2_break` |
| `AsyncIO`, `ScalVal` | | through `GetVal` |
| `GetVal` | programs, MMIO, SRP reads, transaction manager, conversions | `getval` |
| `RssiEndpointProofs` | lemmas on the operators of `RssiEndpoint` | |
| `RssiNodeProofs`, `BufQueueProofs`, `TDestMux2Proofs`, `GetValProofs`, `SrpProofs`, `SrpDataProofs`, `DepackProofs` | theorems on the specifications | |

Left, the most useful first:

1. Starting and stopping the modules of a stack; the stack builder.
2. Event sets with several sources, of which some are removed or disabled.
3. Pure functions: path and index arithmetic, the byte order of SRP version 1, the
   RSSI checksum and header fields, the timer list.

## 3. The RSSI modules

`RssiEndpoint` has no variables.  It translates the functions of `CRssi` to
operators on a record that holds the members of the class (`unAckedSegs`,
`unOrderedSegs`, `lastSeqSent`, ...), under the names they have in the code; a
handler with everything it calls is one operator (`handleRxEvent`,
`handleUsrInputEvent`, `handleUsrOutputEvent`, `timeout`, `closedAdvance`, ...).
Segments handed upstream are collected in `tx`.  Data is abstracted to opaque
payloads.  Loops that run to completion within a handler (sending all of the
input queue, draining the reassembly buffer, retransmitting) are in closed form.

* *Time.* Timers have no clock.  `before` records which armed timer certainly
  expires before which: the one armed earlier with a timeout no longer than the
  other's.  Everything else may happen in any order, so any delay of the thread
  is included.  One consequence: a server's NUL timeout in SERV_WAIT_SYN_ACK,
  which `PanicOnlyInHandshake` admits, needs a NUL timeout shorter than all
  retransmissions of the SYN together, or a long stall.
* *The two halves of a buffer.* A segment kept for retransmission is the buffer
  that was sent; the acknowledgement number is rewritten on every transmission
  (kept as 0 here), the BSY flag is only ever added (`mark`).
* *Uninitialized members.* The sequence numbers of a new `CRssi` are arbitrary
  (`Garbage`).
* *Overrides.* `handleRxEvent` of SERV_WAIT_SYN_ACK and OPEN_OUTWIN_FULL call the
  common handler and then look at the window, in the state that handler left.
* *Malformed segments* (wrong checksum, size or version) are dropped before they
  change anything and are the network's losses here.

`RssiNode` is one endpoint (`ep`) and its thread (`run`) against a peer and a
network that may deliver *any* segment a CRssi can form, at any time.  Its
invariants hold whatever the other side does.  `RssiLink` is a client and a
server with a network of `NetDepth` segments in each direction that loses,
reorders and duplicates.  `ReliableStream` says what the users may rely on.  Its
variables `sent` and `got` are the users' own account: the number of payloads pushed at
each end, and what was popped there, one after the other.  `Push` and `Read` are the only steps that change
them, so a step of `RssiLink` is a `Push` exactly when it is `UsrPush` and a `Read`
exactly when it is `UsrPop`; and a `Read` returns the head of the stream `q`.  The refinement mapping
`Stream` takes `sent` and `got` from `pushed` and `got` of `RssiLink` and collects the payloads of `q` from where they are
(sender's `inpQ` or `unAckedSegs`, network, reassembly buffer, receiver's `outQ`).
A payload may leave `q` without a `Read` only when an end starts over after it was down: what that end had received is
gone, and what it had sent is lost or *frail*: it may still arrive, in order and once, or not.

Assumptions of `RssiLink`: what a client sent before it sleeps in
`CLOSED::advance()` (two seconds at least) has left the network when it wakes up;
connections of one end begin at least `Tick` = 2 seconds apart, as the initial
sequence number is the time (a client sleeps that long; of a server it is an
assumption); both ends are configured with the same timeouts.

### The queue

`BufQueue` is `CBufQueue` with its two `CEventBufSync` counters and the part of
`CEventSet` they use.  The variables are the members (`slots`, `pending`, `isUp`), the
mutexes by their owner (`lock`, `mtx`), the content of the lock-free queue
(`fifo`), and for each thread where it is (`pc`), on which counter (`on`) and in which
call (`op`).  Every access to an atomic counter is a step, because that is where
the code has no lock: `FetchSub` and `FetchAdd` of `getSlot()`, `Put` of `putSlot()`, and
the notification after each of them.  `Poll` and `Sleep` are two steps during which the
event set's mutex is held, so that a model without it would lose a wake-up
(`Signal_unlocked`).  `shutdown()` and `startup()` run through the same steps as push and
pop, as the code does; `taken` is their loop variable.  A caller waits in one of the
ways of `Mode`: not at all, with a timeout, for ever, in an event loop of its own
that calls `tryPop()`/`tryPush()` when its event set says so ("select", as the RSSI
thread), or not at all after `isFull()` was false ("ifroom", as the RSSI thread on its output
queue).

Abstractions: buffers are numbers; the lock-free queue is a sequence whose push and
pop are atomic; memory orders are sequentially consistent; a spurious wake-up of
`pthread_cond_wait()`, after which the code polls and sleeps again, is not taken.

### SRP

`Srp` is `CSRPAddressImpl` with the device (`handleSRP()` of `test/udpsrv.c`) and the
network between them.  `mutex_` is held over a whole `read()` or `write()`, also while it waits, so
there is one client: `hist` has the calls made, `pc` says where the last one is, `todo` what
is left of it after the blocks that are done.  `xact` is the request that is sent and
repeated; the asynchronous readbacks are in `pend` until they are completed by
an answer (`AsyncAnswer`, the handler's thread) or by the manager's timeout thread
(`AsyncTimeout`), and both of them put what they got where `writeBlk_unlocked()` has its local
variables (`got`).  What a write sends is computed by operators that keep the names
of the code's variables (`totbytes`, `remaining`, `toput`, `firstlen`, ...); the order of the
assignments is gone, since each is a function of the block alone.

A bit of memory does not have a value but an origin, `<<k, i>>`: byte `i` of what call `k`
wrote.  With that, a stale, a misplaced and a torn update can be told apart without
choosing data, and the properties say where each byte may be.

Three configurations are checked together (`mode`): version 2; version 3 with byte
resolution; version 3 with posted writes.  Assumptions: the network loses messages
and keeps their order (as RSSI does; plain UDP may not), a device that refuses a request
does not execute part of it, and one request reads back what is read back at once
(`MaxWords >= 1 + Extra`, in the code 8 words).  Opening, closing, the dynamic timeout
(any timeout may come at any time) and asynchronous reads of the user are left out.

### The depacketizer

`Depack` is `CProtoModDepack`: `dp` holds the window of frames with its members under
their names, `Receive` is a turn of `threadBody()` that got a datagram
(`processBuffer()` and the release of complete frames after it), `Timeout` one that
did not.  The sender is `processOutput()` of the same class: the sizes of
the buffers of a frame decide how it is split, and the fragments of it that have been sent
(`sent`) where it is (`NextBuf`).  The network is not a variable:
any fragment of the last `Late` + 1 frames that has been sent may arrive, at any time
and any number of times.  The model gives every frame an identity besides the number it
carries, so that a frame put together from two of the same number would show.
`Burst` bounds the frames in a row of which nothing arrives that the receiver can use while newer ones do
(a fragment whose number is beyond the fragment window of an empty frame is dropped without a
trace).  `Late` and `Burst` together have to fit into the window; what happens when nothing of a whole window has arrived
is what `depack_loss` is about.  A timeout has no deadline: if it runs it may expire.

A sender that starts over (`Restart`) is assumed to take longer than fragments stay in the
network and than the timeout of a frame.

Observed while modelling: `processBuffer()` compares frame numbers plainly
(`cpsw_proto_mod_depack.cc:251`), so after number 4095 the frames still missing are given up
as soon as one with a small number arrives, and `signExtendFrameNo()` looks at the sign bit
only, so a distance of that size is taken for a large one and synchronises the window.
Frames are lost there, as the properties allow, but never mixed.  `fitsInMTU()` does not
count the tail byte.  The count that completes a frame of `FRAG_MAX` fragments is one less than
the check of the last fragment admits; no frame here is that long.

### The multiplexer and the ports

`TDestMux2` has a sender and a receiver.  At the sender, `Push` puts a frame into the input
queue of its port and `Notify` signals the event set, in two steps; the muxer
thread takes turns (`Turn`: one port and one fragment at a time, `sendFrag()`), and when a
whole round brought nothing it polls all queues and waits (`Wait`).  `PushUp` is the push
into RSSI, which may fail and then loses the fragment.  At the receiver,
`Demux` is a turn of the thread of `CProtoModByteMux`: it assembles, and begins to push a
frame that is whole into the output queue of its port, if that is open.  Closing
and pushing are taken apart at each access to the open count and to the
queue (`DemuxPush`, `DemuxIsOpen`, `DemuxTryPop`; `Close`, `CloseTryPop`, `CloseIsOpen`), because
the code drains the queue of a closed port from either side without a lock.
`openCount_` is the number of users that are "in" or "retry".

A pop that may fail is not exact about emptiness.  `getSlot(false)` takes one off the counter of the queue, and
if there was none puts it back in another step (`cpsw_bufq.cc:118-133`); in between, the counter is short, and
the pops of other threads fail although there is a frame in the queue.  `Short` are the programs that are
between the two steps, `Slots` is the counter, and `ReadRestore`, `DemuxRestore` and `CloseRestore` are the second
step of a failed pop of a reader, of the demultiplexer and of a program that closes the port.  The rest of a
queue is abstracted: push, and a pop that succeeds, are single steps.  In
`BufQueue` they are several, but a frame in the queue whose slot is not yet counted is like one
that is not yet pushed, and a frame whose slot was taken is like one that is popped, for everybody else.

The fragments in `link` have been accepted by RSSI.  RSSI may lose any of them: the push upstream
fails (`PushUp`; the code counts nothing and goes on), or a connection breaks with them and RSSI opens the next one
by itself, while the ports keep what they have assembled.  The model loses a fragment where it is pushed, which
is the same for everything behind.  How many are lost, and which, is not restricted (`lose` in
`Plans` only bounds the runs).  `trail` is a history variable that says what was lost of a port: a *torn* frame is one
of which a fragment arrived and then two or more in a row of the port did not, before its end.

A program reads from a port it has open (or closes it): the code
says that a full queue "stalls all traffic" (`cpsw_proto_mod_bytemux.h`).  Each program is one
thread and has a door of its own.
It is not only the last one to close a port that pops a frame: `tryPop()` comes before
`isOpen()` in `CloseManager`, so a frame meant for another user of the port may be lost.

### Values and asynchronous reads

`ScalVal` has the conversions between the bytes of a device and the integers of a program as
functions: `SignExtend`, `Swap`, `ShiftRight`, `ShiftLeft`, `doComplete` (of a read; in the buffer
that was read into when the elements fit, from the last to the first) and `setVal` with
its masks, down to `write_func8()` of the memory device.  What an entry *means*
(`FieldValue`, `Stored`) is stated separately, as arithmetic on the number that its bytes make
up.  `AsyncIO` has the list of pending transactions and the timeout thread;
`GetVal` puts them together: threads of a program that store and read
arrays, MMIO that makes one transaction of an array or one per element, SRP
that posts and sends them (`Stamp`, `Add`, `Send`), the handler thread (`Answer`,
`HandlerComplete`, `HandlerDrop`) and the timeout thread.  `refs` are the references to the parallel completion of a
read: the thread that gives up the last one runs the program's callback (`Drop`).

Abstractions: a byte has `ByteBits` = 2 bits, so that every position of a field relative to
bytes and words is there; the host is little-endian.  The chain of parallel completions that MMIO
and SRP build is one set of references: each link of the chain passes on the callback
when its own last reference goes.  `setVal()` writes to a memory device here; that a masked
write over SRP has the same effect is what `Srp` shows.  Word-swapped entries that can only be
read and have a size that is not a number of bytes are left out.
`CHOOSE` in `doComplete` and `setVal` picks from a set of one: TLC then evaluates it once.

## 4. Runs

| Run | Bounds | What it shows |
|---|---|---|
| `node` | a server or a client; 4 sequence numbers, window of 2 to receive, 1 (server) or 2 (client) to send, queues of 1, limits of 1 | `TypeOK` and the invariants below, against an arbitrary peer |
| `link` | 8 numbers, window 2, 2 segments under way; four `Plans`: 2 payloads and a duplicate, a payload and a NUL, or a payload of either end over two connections of each end | `StreamSpec`: RSSI implements `ReliableStream` |
| `link_live` | one payload each way and a NUL, output queue never full | `Resolved` under fairness |
| `queue` | a writer, a reader, and a reader that also owns the queue; depth 2; 4 calls | `TypeOK`, `SlotsConserved`, `DownIsEmpty`, `NeverInconsistent`; `ReaderServed`, `WriterServed` and `OwnerReturns` under fairness |
| `srp` | words of 2 bytes, messages of 3 words, at most 2 words read back at once; 2 calls out of 12; 1 repetition, any loss | `TypeOK`, `Placed`, `WriteEffect`, `ReadCurrent`, `ReadbacksSettled`, `NoRevert`; `CallReturns` under fairness |
| `depack` | 16 frame numbers, windows of 4 frames and 2 fragments, 7 frames of 1 to 3 fragments, a restart, overtaking by 2 frames, bursts of 2 | `NeverInconsistent`, `WindowInOrder`, `FramesIntact`; `CompleteDelivered` under fairness |
| `mux2` | 2 ports, 2 users, 3 frames of 1 to 3 fragments, numbers modulo 2, output queues of 2, the others of 1; either both users share port 0, without losses, or one uses both ports and any 2 fragments are lost (`Plans`) | `FramesWhole`, `FewLeft`, `Unclogged`; `Flows` under fairness |
| `getval` | unsigned and signed entries of 1, 2, 3, 4, 6 and 8 bits in 2-bit bytes, both byte orders, all word swaps, arrays of 2, integers of 1, 2 and 4 bytes; 2 threads, a timeout of 1 tick | `CallbackOnce`, `ValueRead`, `WriteKeeps`; `CalledBack` under fairness |
| `link_stall`, `srp_collapse`, `depack_loss`, `mux2_break` | | four statements of comments, assertions, tests and documentation that the code does not meet (section 6) |

The invariants: `UnackedInSequence` (the kept segments carry consecutive numbers
up to `lastSeqSent`), `WindowRespected`, `TimersArmed` (the NUL timer always runs;
REX runs exactly when there is something to retransmit and the peer is not
busy), `AcksPending` (the count of segments to acknowledge is within its limit,
and the ACK timer runs exactly when it is not zero), `InputFlows` (user input is
stopped exactly while the window is full), `AckIsDelivered` (the acknowledgement
covers exactly what was delivered), `OutputFlows` (what waits for room in `outQ` is
drained when there is room; in the run it is `ClientDrains`, as it says nothing of a server, see
section 6), `PanicOnlyInHandshake` (of the internal errors only
two can be thrown, during the handshake).

Of the queue: `NeverInconsistent` (neither InternalError of `push()` and `pop()` is thrown),
`SlotsConserved` (every write slot is in the counter, with a thread, in the queue or eaten
by `shutdown()`), `DownIsEmpty`, `ReaderServed`, `WriterServed` and `OwnerReturns` (no lost wake-up;
`shutdown()` and `startup()` return).

Of SRP: `Placed` (a write changes its own bits and no others), `WriteEffect` (a write that returned
has taken effect as a whole), `ReadCurrent` (a read that returned has got what is in the
memory), `NoRevert` (neither a repeated write nor a merged word undoes a later call),
`ReadbacksSettled` (nobody writes to the local variables of a function that has returned),
`CallReturns`.

Of the depacketizer: `NeverInconsistent` (the InternalError of `processBuffer()` is not thrown),
`WindowInOrder` (timeouts run for the oldest frames without a gap, and every slot in use holds
the frame whose turn it is), `FramesIntact` (what is handed down is what was sent, in order, once),
`CompleteDelivered` (a complete frame leaves the window only by being handed down, and does so
in the end).

Of the multiplexer: `FramesWhole` (frames arrive at their port, in order, and a frame that arrives is whole
unless it is torn: the loss of a single fragment is always noticed, also when numbers have wrapped around),
`FewLeft` (when nobody has a port open and nobody drains its queue any more, at most one frame
for each program that uses the port is left in it), `Unclogged` (the demultiplexer never waits for room
in the queue of a port that nobody has open and nobody drains), `Flows` (everything pushed reaches the end again and
again).

Of values: `CallbackOnce` (one callback, when no transaction of the read is left, and never
two threads at one transaction), `ValueRead` (a read without error has brought the values of
all elements), `WriteKeeps` (a write stores the value and keeps all other bits), `CalledBack`
(every read is called back, and its buffer is left alone from then on).

*Bounds.* Four sequence numbers with a window of two are the smallest instance
in which numbers wrap, a segment can be inside or outside the window, and the
window can be full, half full and empty; limits of 1 make "below", "at" and
"above" the limit all happen within two events.  Payloads are not compared in
`RssiNode`, so one is enough.  In `RssiLink` the payloads are numbered, two are
enough to be reordered; with a second connection of each end there is one payload, and section 6 has what happens
with two.  Of the queue, two readers are needed for the case its
comments describe (one signal, two sleepers), and `MaxOps` calls for one that fails between two that
succeed; `MaxOps` only bounds the runs, the theorems hold for every value.  Deadlock is not checked: an endpoint whose thread died
of an internal error has stopped, the link stops when its bounds are used up, and the queue when nobody calls.

Of SRP, words of two bytes have an aligned and an unaligned byte, bytes of two bits one
that is masked and one that is not; the calls are chosen so that first and last byte
are the same, in one word, in two, in three (which need two readbacks here) and in
two blocks.  Two calls are enough for an answer or a repeated request of the first to
meet the second.  128 transaction ids are more than two calls use, and as many as `EnoughTids` (section 5)
asks for.  `srp` has at most two words read back
at once (`Extra` = 1) because with more the property `Placed` fails: that is what `srp_collapse`
shows, with the sizes of the code.  With three calls the safety properties hold as well (3.4 million states).

Of the depacketizer, seven frames that begin near the end of 16 numbers pass it, and a window of four leaves
room for a lost frame between two that are there.  Of the multiplexer, numbers modulo 2 wrap within
a frame of three fragments, so that two fragments lost in a row are enough to join what does not belong together; input queues and a link of one
make every push wait; three frames give each port a turn while the other is in the middle of a frame.
The output queues have room for two frames, one for each program that uses a port, and that is what
`Unclogged` and `Flows` need: with `OutDepth` = 1 both are violated (section 6).  In `getval` the clock
stops at `MaxTime`; transactions are posted early enough to expire before that.  Conversions
are checked for every entry (size 1 to 8 bits, bit offset, sign, byte order, word swap) with two
patterns of memory and values, the races with three requests chosen so that reads are split, shared by
threads and refused.

*Fairness.* `FairSpec` assumes that each RSSI thread runs when it has something to
do (an enabled event or an armed timer) and that users read their output queue.
No assumption is made about the network: it may lose everything.  Weak fairness of
a thread is written with the predicate `Ready` because TLC is slow to evaluate
ENABLED of these actions; `Ready(e)` implies that `Thread(e)` is enabled.  In the queue,
every thread that is inside a call and not asleep continues (`WF_vars(Step(t))`), which the
scheduler guarantees; nobody has to call anything, and no timeout has to fire.  In `Srp` the client's
thread runs and its timeouts come, the timeout thread expires what is pending, and
the device takes what reaches it; it need not answer, and the network may lose everything.
In `Depack` a timeout that keeps running expires: the thread finds its queue empty once in a
while (it prefers data to the timeout).  In `TDestMux2` the two threads run, a push goes on to its notification,
a program gets through with a pop or a close that it has begun, and reads a frame that it can have (or closes).  Nobody has to try a pop
that fails.  The readers' fairness is weak, so two programs that poll again and again may make each other's pops
fail for ever, as in the code; but not when the queue is full and at least as deep as the number of programs, since then there is
a frame for one of them whatever the others hold.  In `GetVal` the threads run and the clock advances.

## 5. Proofs

For every value of the constants (window and queue sizes, limits, timeouts, any
number of sequence numbers up to 256), TLAPS checks:

* `TypeCorrect`: `Spec => []TypeOK`;
* `WindowRespect`: `Spec => []WindowRespected`;
* `AcksInTime`: `Spec => []AcksPending`;
* `InputFlow` and `OutputFlow`: `Spec => []InputFlows`, `Spec => []OutputFlows`;
* `HandshakePanic`: `Spec => []PanicOnlyInHandshake`;
* `UnackedSequence`: `RexLimited => (Spec => []UnackedInSequence)`;
* `AckDelivered`: `RexLimited => (Spec => []AckIsDelivered)`;
* `Timers`: `RexLimited => (Spec => []TimersArmed)`.

These are all the invariants that `node` checks.

`RexLimited` says that the configured retransmission limit, and any limit a peer
imposes with its SYN, is at least 1.  It is a hypothesis and not an assumption of
the model, because the code accepts 0.
It is needed: when retransmission gives up, the reset takes a sequence number for a
segment that is not kept, so the numbers are no longer in order, and only the fact
that the connection is CLOSED makes that harmless.  `OPEN_OUTWIN_FULL`'s
`handleRxEvent()` changes the state to OPEN whenever the window is open after the
common part, also if that part has just given up.  With a limit of at least 1,
giving up means that the segment at hand has acknowledged nothing (an
acknowledgement resets the counter), hence the window is as full as before.

Each needs more than the invariant itself, because a handler runs through states
in which it does not hold:

* `RssiEndpointProofs`, first part: every operator maps an `Endpoint` to an `Endpoint`.  `TypeOK` is
  inductive.  The reassembly buffer's closed form (`drainReassembleBuffer`) needs the
  fact that the slots it pops are a prefix.
* Second part: `Shape` is the inductive invariant: the window is respected
  and the ring buffer has room, *and* nothing is unacknowledged in CLOSED_SLEEP and
  LISTEN, *and* while a client waits for the SYN its own SYN is the only segment
  that may be unacknowledged, since `extractConnectionParams` replaces the window
  by one that may be as small as 1.  `Core` is the projection of the record to the
  fields the invariants are about: most functions leave it alone.
* Third part: `Order` is the inductive invariant: `InSequence` and
  `AckInStep` (the two properties, in every state that has a connection), the full
  window of OPEN_OUTWIN_FULL, and the limit.  `Tidy(s, r)` says that a function
  keeps the numbers in order; every function is tidy except giving up (`GaveUp`),
  which leaves everything outstanding.  The arithmetic modulo `SeqMod` is reduced to
  one lemma, `WrapPlus`.
* Fourth part: `Steady` is the inductive invariant behind timers, counters, user
  events and internal errors.  It has the four properties in the states of a
  connection (`Timed`, `Counted`, `Fed`, `Drained`, `Alive`) and, because a handler may take an
  endpoint from any state to any other, what is true outside a connection: no timer runs and
  nothing is counted in LISTEN and CLOSED_SLEEP (`Idle`), user events are disabled until the
  connection opens, a client has an empty reassembly buffer until then (`Drained`; a
  server has not, see section 6), and which of the states a client and a server enter
  (`Role`).  The retransmission timer follows `RexIff` only with a limit of at least 1, for the
  same reason as above.
* `RssiNodeProofs`: one step per action, and the temporal conclusions.

For every depth of the queue, every finite set of threads in any role and every way of waiting:

* `QueueTypeCorrect`: `Spec => []TypeOK`;
* `SlotConservation`: `Spec => []SlotsConserved`;
* `QueueConsistent`: `Spec => []NeverInconsistent`;
* `ShutdownEmpties`: `Spec => []DownIsEmpty`;
* `RoomRemains`: with a single writer, which also owns the queue, `Spec => []RoomStays`: a
  `tryPush()` after `isFull()` was false succeeds.  This is RSSI's output queue, whose thread
  throws "RSSI output queue should not be full!" otherwise.

The invariant (`IInv` in `BufQueueProofs`) adds to the three properties it contains what each thread may be
doing where (`Role`) and that a queue whose mutex is free has all or none of its
write slots eaten (`Settled`).  `slots` alone is not conserved, since a caller that
finds nothing has taken a slot that does not exist; `Real` adds those callers back.
`NeverInconsistent` follows because a thread in front of the queue is one of the
terms of a sum that is `N`, and a thread behind a read slot one of those that sum to the
length of the queue.  One lemma counts threads (`CountChange`), so that every
action has to say only what happens to the thread that takes it.  `RoomRemains` adds that
the other threads touch the write counter only to return a slot (`Pops`), so the room that the writer
has seen is still there when it takes its slot (`Claim`).

For any number of ports, users, frames and any depths:

* `PortsDrained` (`TDestMux2Proofs`): `Spec => []FewLeft`;
* `NeverClogged` (`TDestMux2Proofs`): `Roomy => (Spec => []Unclogged)`;
* `FramesArrive` (`TDestMux2Proofs`): `Spec => []FramesWhole`.

`Roomy` says that no port has more programs that may use it than its output queue has room for frames.  It is a
hypothesis about the configuration, which the code does not check, and it is needed (section 6).

The invariant behind the first two (`Kept`) says that a port is `Busy` (open, or somebody is in a loop that drains it)
or has `Few` frames.  It is enough to look at the last one who leaves.  Its pop has failed, so the counter was not
positive, and there are no more frames in the queue than others that hold the counter short (`Slots`,
`ShortFew`).  If the demultiplexer leaves, those are programs that may use the port (`DemuxLeavesFew`).  If a program leaves, they are
other programs and possibly the demultiplexer, which then has no frame on its way; if it
has one (`OnItsWay`), it does not hold the counter short, and there is one frame less in the queue
(`CloserLeavesFew`).  Afterwards those who held the counter short put it back and look no further, and the frames
stay; but none is added to a port that is not open, except the one that is on its way, and the
demultiplexer drains once it has pushed that.

`FramesWhole` is about what has arrived; why it is so lies in what is still under way.
The invariant (`Carried`) follows the stream of each port from the receiver to the sender.
A *cursor* is a place in that stream: a frame, how many of its buffers have been dealt
with, and the number the next fragment will have.  The assembly of a port at the receiver, each
fragment under way and the sender's rest of a frame have one, and `Linked` says that each begins where
the one before it ends, unless something was lost between the two, in which case the next one begins
a frame or has a number that does not fit, so that the receiver will notice, or the frame of the earlier
one is torn (`Step`).  For what is not sent yet, `Due` connects the last place that was not lost with the sender's next fragment by
way of `trail`: after one loss the number does not fit, because the modulus is at least 2
(`MuxAssumption`), and after more the frame is torn.  A torn frame may be joined with anything of its port that
comes later (`Torn`, `JoinTorn`); it still begins where it should.  `InOrder` keeps the cursors of a port ascending,
`Arrived` has the frames in the output queue and behind it, `Supply` what the sender has in
hand, `Begun` and `AllValid` that assemblies and fragments are pieces of frames that were pushed.
`ChainAssumption` says that a frame has a buffer and that no buffer is larger than the MTU (the code
throws otherwise).  The number of fragments of a frame is a sum over its buffers, about which two lemmas
need induction; see the end of this section.

For any scenario, any number of threads and elements, any timeout:

* `CalledBackOnce` (`GetValProofs`): `Spec => []CallbackOnce`;
* `BufferLeftAlone` (`GetValProofs`): `Spec => BufferReleased`, an action property and the safety
  half of `CalledBack`;
* `Converted` (`GetValProofs`): what `doComplete()` makes of the bytes of an array, for every entry that
  `checkArgs()` accepts, any number of elements, any size of integers and any number of bits in a byte;
* `ValuesRight` (`GetValProofs`): `Orderly => (Spec => []ValueRead)`;
* `StoredAll` (`GetValProofs`): what `setVal()` leaves in the memory, in the same generality, when elements do not overlap;
* `WritesRight` (`GetValProofs`): `Orderly /\ Apart => (Spec => []WriteKeeps)`.

The invariant (`IInv` in `GetValProofs`) says where a transaction is: with the thread that issues it, in the
list, with the timeout thread or with the handler, in one of them only (`OnePlace`), and that the
references to a completion are exactly those of the transactions that are somewhere, and that of the reader
(`Referred`).  `OnePlace` needs that parts are issued in order (`InTurn`), so that a transaction is never
added again, and that a thread has a transaction exactly while it completes one (`Hands`).
The callback then comes with the last reference (`LastCalls`), and nobody holds a transaction whose
completion would write to the buffer.  `ScenarioAssumption` says that a request has at least one element, as
`checkNelms()` does.

`ValueRead` compares what arrives in the buffer with the memory.  `Orderly` is what it takes for that to mean
anything: memory and values consist of bytes, the entries are ones that the code accepts, the elements lie within the
device, as `CMMIOAddressImpl::attach()` checks, and a thread that writes is alone, since a read that overlaps
a write may bring either.  All scenarios of the run are orderly (TLC evaluates `OrderlyAssumption`).
The proof has two halves.  One is the conversion.  A number is described by its bits (`Bits(x, o, n)`), bytes as
the digits of a number (`NumberDigits`); then shifting, swapping and sign extension are statements on which bits a
byte holds (`FromHolds`, `ExtendSign`), and no sum has to be evaluated.  `SoFar` is the invariant of the loop, which
needs that an element of the input is not overwritten before it is converted, although input and output share
the buffer: the elements grow and are converted from the last one on (`ElementMeans`).
The other half follows the data (`DInv`, to be read with `IInv`): a number of a transaction is given out once
(`Numbers`), so an answer carries the data of the transaction it finds in the list
(`Carried`); parts are issued one after another until there are none left (`InParts`); the buffer holds the data
of every part that was issued and has lost its reference, unless an error was noted
(`Brought`).  With the last reference all parts are there, side by side
(`Delivered`), and `Converted` gives the values.  `Numbers` uses that the counter does not come round, as the model
assumes.

`WriteKeeps` compares the memory with what was there before.  `Apart` says that a value is not stored over
another one; `CMMIOAddressImpl::attach()` looks at the last element only and also accepts a stride less than the size, where
`setVal()` does what it is told and the bits of the overlap are those of the last value.  The scenarios of the run satisfy it
(`ApartAssumption`).  The proof goes bit by bit through what is done to a value:
truncated or sign-extended to the size of the entry (`ExtendedPlain`, `ExtendedSign`), swapped
and shifted left (`ShiftedLeft`) so that each byte holds the bits of the device's number that belong there (`ToDeviceHolds`),
under masks that are set exactly for the bits outside of the entry (`LowMaskBits`, `HighMaskBits`, and `MaskBits` for which of the two
ends is first in the memory), and merged with what was there (`MergeBits`, `Merged`).  The bits outside of the entry that the
conversion leaves, the junk of the buffer among them, are thus never stored.
`StoredSoFar` is the invariant of the loop over the elements (`StoredNext`); it is where `Apart` is used.  `WInv` adds that
the memory is the initial one until `setVal()` is called and does not change after it.

For every size of a word, a message and the memory, every set of calls and of configurations, any number
of repetitions and whatever is lost, refused or late, of SRP:

* `TypeCorrect` (`SrpProofs`): `Spec => []TypeOK`;
* `Settling` (`SrpProofs`): `Spec => []ReadbacksSettled`;
* `WritesPlaced` (`SrpDataProofs`): `Spec => []Placed`;
* `WritesTakeEffect` (`SrpDataProofs`): `Spec => []WriteEffect`;
* `ReadsAreCurrent` (`SrpDataProofs`): `Spec => []ReadCurrent`;
* `NothingReverts` (`SrpDataProofs`): `Spec => NoRevert`,

the last four under two hypotheses.  `EnoughTids` (there are four ids for every byte a call may have, for every call) says that
transaction ids do not come round: `getTid()` counts them modulo a power of two, the door keeps no other
memory of what is late, and an answer that is as old as all the ids would be taken for a new one.  In
the code the ids of one address have 24 bits (`getTidNumBits()` of the SRP multiplexer); how many calls
they last for is what the theorems say, not that they last for ever.  `Uncollapsed` excludes the writes whose middle words are lost,
which is what `srp_collapse` shows (section 6): both ends merged, three words or more, read back
by one request.  Without it `Placed` and `WriteEffect` are false.  `srp` satisfies both hypotheses.

The shape of the state (`Typed`) says of a request at hand that it is one the block needs, of a
pending readback that its block waits for it, of an answer stored that it is as long as what was asked for,
and of all messages that they stay inside the memory.  The last one needs the arithmetic of the first
sections of `SrpProofs`: words, blocks, what is read back and what is put together from it.
`PayloadComposed` is the result: of the two merges, the copy of `remaining` bytes, the `toput` bytes sent as they are
and the clipped lengths of `writeBlk_unlocked()` it proves that byte `j` of the message is the byte of the
source that belongs there, except for the protected bits and the bytes before and after the block, which
are what was read back, for every offset, length and pair of masks.

What is in the memory (`Faithful`) depends on everything that can still get there.  A message that
somebody waits for (`Wanted`) is *matched*: whatever has its id in the queue of requests is this very message,
nothing behind it in the queue changes the memory, and an answer with its id and as many words
as expected is true of the memory (`Matched`; an answer with a status has none and fails the call).  That the id of a new request
is new is `Ids`.  Then what was read back is what the memory has (`ReadBack`), as is what a read has
collected so far (`ReadSoFar`).  `OkData` says of each bit of the memory *and of every message under way* that it
belongs where it is, `Monotone` that among the messages under way, and between them and the memory, a later one never has
what is older: a repeated write is the same message, a merged one was read after all others had
gone.  `WrittenSoFar` says that what a write that goes on has written is there, and that no message under way says otherwise.

For every size of the windows and of the range of frame numbers, all frames, any number of them and of
restarts of the sender, of the depacketizer (`DepackProofs`):

* `ReceiverKeepsUp`: `Gentle => (Spec => []IInv)`, the inductive invariant;
* `NoInconsistency`: `Gentle => (Spec => []NeverInconsistent)`;
* `WindowStaysInOrder`: `Gentle => (Spec => []WindowInOrder)`;
* `FramesStayIntact`: `Gentle => (Spec => []FramesIntact)`.

`Gentle` is about the network: a fragment overtaken by `Late` frames and `Burst` frames in a row that vanish fit
into the window together (`Late + Burst <= FrameWin`).  The code does not ensure it, nor could it; `depack`
satisfies it, `depack_loss` does not and violates `NeverInconsistent`, so some such hypothesis is needed.
`WindowAssumption` is that `FrameMod` is a multiple of two windows and larger than that (both are
powers of two in the code); `ChainAssumption` that a frame has a buffer and each fits into a fragment.

The difficulty is that the receiver knows frame numbers only.  `Turn(s, o, n, N, e, c)` gives them back their
meaning: the window is that of the frames from identity `o` on and the timeouts of the first `n` run (`Window`),
the timeouts that run do not straddle the wrap of the numbers (`Straight`: `processBuffer()` takes the first frame on
the far side for a jump, empties the window and synchronises), the newest frame `e` of which something can have
arrived is inside and less than `Late` frames past those that run (`Near`), and nothing is handed down that is as
new as `o`.  After the sender has started over, the numbers run behind an empty window for a while, which is
the other possibility (`Stale`); in it, frames are dropped until the window synchronises, as the code does.
`WhereTo` is the case analysis of `processBuffer()`: what the comparison of numbers, the distance modulo
the range and the sign extension make of a fragment of frame `f` in terms of `o` and `f`; `TurnReady` shows
from `Near` and `Gentle` that those cases are all.  `ProcessMoves` says of each where the window is after it.

What a slot holds is `Collects`: fragments of one frame, each at its place, the product without a gap from
fragment 0 on, so that a frame that is complete is whole (`ChainedWhole`).  That needs that fragments of one frame go
with each other wherever they have been in between: the invariant also says that what is kept in any slot was
sent (`KnownIn`), and `SentFits` that what was sent fits.  `LastBufBound` shows that `processOutput()` takes at least
one buffer off a chain; that loop, and those of `releaseFrames()` and `updateChain()`, are described by the
least number that ends them (`Least`).

Only model-checked:

* liveness (`Resolved`, `Flows`, `CallReturns`, `ReaderServed`, `CompleteDelivered`, ..., the other half of
  `CalledBack`), which is out of this prover's reach;
* `StreamSpec`, the refinement of `ReliableStream`, a property of two endpoints and the network together.

Induction over data is limited here: the library's induction theorems take an operator as a parameter,
which the provers cannot instantiate.  What is left is the least element of a set of numbers
(`WFMin` and `NatLessThanWellFounded`), which is enough for the sums of `TDestMux2Proofs`, the loops of `DepackProofs`
and, in `GetValProofs`, the search of the transaction list, the digits of a number and the loops of the conversions.

## 6. Where the code and its words differ

1. `link_stall`: "RSSI -- Reliability and flow-control"
   (`doc/README.yamlDefinition.in:907`).  A receiver whose output queue is full sets BSY; the
   sender stops its retransmission timer.  If the acknowledgement that ends BSY is
   lost while the window is full, the sender's keep-alive is a pure ACK, which is
   never answered: both threads run for ever and nothing moves.
2. `srp_collapse`: `cpsw_srp_addr.cc:36` "If multiple words need to be read back for an RMW
   operation then ... we can collapse into a single read operation", and
   `test/cpsw_axiv_udp_tst.cc:314` requires a write at any offset and of any length to
   change its own bytes only.  When both ends of a write have to be merged and it spans
   3 to 8 words, everything between the ends is copied to `first_words`, of which only the
   first word is sent: the middle is missing.  A device of version 2 puts the last
   word in the place of the second; of version 3 it drops the request, and the call fails after all
   repetitions.  (The memory of that test is accessed with byte resolution and
   without masks, which needs no merging.)
3. `depack_loss`: `cpsw_proto_mod_depack.cc:328` "since frameID >= oldestFrame && frameID <
   oldestFrame + frameWinSize this should never happen."  When the frame that is exactly one window past
   the oldest arrives, `processBuffer()` makes room with `releaseOldestFrame(false)` and ignores that it
   returns false if nothing of the oldest frame has arrived.  The window does not move, the new frame takes
   the slot of the oldest, and a later fragment finds a foreign frame there: the InternalError
   ends the thread.  In the run, with a window of two frames, the first fragment that arrives is one of
   the middle of frame 1, so that `frameSync()` takes frame 2 for the oldest; nothing of frames 2 and 3 has
   arrived when the first fragment of frame 4 comes; then a fragment of frame 2 arrives.  So it takes two things:
   nothing of a whole window arrives before the frame just past it, and something of the oldest arrives
   late (`Late` = 2, `Burst` = 3; the other frames of the window may be lost or late).  With
   `Burst` = 2 there is another way: a fragment so late that its frame is taken for a jump makes `frameSync()`
   (`cpsw_proto_mod_depack.cc:212-225`) move the window back while a younger frame is in it.
   The same step may hand down a frame before an older one.
4. `mux2_break`: `cpsw_proto_mod_tdestmux2.cc:22` "The assumption is that reliability and in-order delivery are to be
   provided by RSSI."  RSSI delivers in order, but what it has not delivered when a connection breaks is gone
   (`CRssi::close()`, `cpsw_rssi.cc:154-186`), and it opens the next connection by itself.  The ports notice
   nothing: what is assembled stays, and a fragment is refused only if its number is not the next one
   (`cpsw_proto_mod_tdestmux2.cc:390-398`); the checksum is not looked at ("IGNORE CRC").  The run
   loses the last fragment of frame 1 and the first one of frame 2: the second one of frame 2 has the number that
   frame 1 waits for, and is handed down as its end.  The loss of a single fragment is always noticed (`FramesWhole`).

Two more that need particular numbers, each seen with the constants named:

* *A stale acknowledgement.*  With two payloads of the server in its second connection (`Plans <- Stale` in `link.cfg`) the link
  does not implement the stream.  The SYN|ACK of the server's first connection is still under way and
  reaches the client when it waits for that of its second one; the client accepts it and acknowledges its number, 7.  When that
  acknowledgement arrives, the server is in a new connection, which began at 5, and has sent
  6 and 7: it takes both for acknowledged, and they are lost.  The numbers of the
  code have 8 bits and begin at the complement of the time in seconds, so the new number is below the old one
  by the seconds between the two connections, and the old acknowledgement covers that many segments of the new
  connection.  `Streams` has one payload of the server in its second connection, which the stale number does not reach.
* *A queue as deep as one frame.*  With `OutDepth` = 1 in `mux2.cfg`, where two programs use port 0, `Unclogged` and `Flows` are
  violated, contrary to `cpsw_proto_mod.cc:66-70` ("traffic should be discarded instead of clogging the queue and
  eventually stalling RSSI").  A program that closes the port stops between the two steps of a pop that
  failed; the demultiplexer pushes a frame, sees the port open at the other program, assembles the
  next frame and waits for room; the other program closes, and its pop fails as long as the counter is
  short.  Both programs leave, one frame stays in the queue, and the demultiplexer waits until somebody opens the
  port again, with all other ports behind it.

Also noted, without a run: `cpsw_rssi_proto.h:172` says "max # retrans; NEGOTIATED (0 -> forever)", but
`processRetransmissionTimeout()` closes at the first timeout when the limit is 0; a data segment that does
not acknowledge the server's SYN arms the ACK timer in SERV_WAIT_SYN_ACK, where
`cpsw_rssi_states.cc:38` asserts "ACKTimeout unexpected in this state" (one of the two errors
`PanicOnlyInHandshake` admits); the NUL timer is armed also with a timeout of 0, of which
`cpsw_rssi_proto.h:170` says "0 disables"; `threadStop()` assigns the state CLOSED directly, so the event that
`cpsw_rssi.h:83` describes is not posted; the comment at `cpsw_rssi_states.cc:252` ("retransmitting
sends ACK and arms the NUL timer") is not true of a server; a server stores a
first segment received in SERV_WAIT_SYN_ACK without draining it
(`cpsw_rssi_states.cc:121`), so it is delivered with the next segment only; the comment
`cpsw_proto_mod_tdestmux2.cc:22` grants the depacketizer of version 0 "out-of-order arrival of
fragments", which holds except where frame numbers wrap around; `CloseManager` copies
`forcedSelfReference_` before it takes the spinlock under which another thread resets it (a race in memory,
below the level of these models).

## 7. Not modelled

The components listed as not modelled in `PROJECT.json`, each with its reason.  Of
RSSI: statistics, debugging output, the negotiation of timeouts and segment
sizes (only their order, and that both ends agree, matters here), the byte layout
of headers, the checksum.  Of event sets: adding and removing sources while others
wait, disabled handlers.  Of SRP: the byte order of version 1, the dynamic timeout,
opening and closing.  Of the depacketizer: real time, the header's bits.  Of the multiplexers:
version 1 of TDEST and the SRP multiplexer, which have no state besides the table of ports.
Of ports: starting and stopping modules, reference counts.  Of asynchronous I/O: the destructor of the
transaction manager.  Of values: strings, floating point, enumerations, constants.

*How much of the code that is.*  The repository has about 93 500 lines, of which 55 600 are the
Cython translation of the Python bindings (`pycpsw.cc`, `pyyaml_cpp.cc`) and most of the rest
is interfaces, YAML parsing, adapters between the C++ and Python object models, tools, simulated
firmware and tests, which keep no state whose order of changes matters.  The modules here
cover the code with a protocol of its own: RSSI, SRP, queues, the depacketizer, the multiplexer, the transaction
manager and the conversions of values.
