------------------------------ MODULE BufQueue ------------------------------
(***************************************************************************)
(* CBufQueue (cpsw_bufq.cc): a FIFO of at most N buffer chains between     *)
(* threads.  Two counters of slots, each an atomic int with an event set   *)
(* (CEventBufSync), say what may be read ("rd") and written ("wr").        *)
(*                                                                         *)
(* Every access to an atomic, and every section under a mutex, is a step.  *)
(* The mutex of an event set is explicit (lock), since a thread decides to *)
(* sleep, and sleeps, in two steps.  Besides push() and pop(), a thread    *)
(* may be an event loop ("select"): it waits for the event source of the   *)
(* queue and then calls tryPop() or tryPush(), as the RSSI thread does.    *)
(***************************************************************************)
EXTENDS Integers, Sequences, FiniteSets

CONSTANTS Readers,      \* threads that may pop
          Writers,      \* threads that may push
          Owners,       \* threads that may call shutdown() and startup()
          Modes,        \* how they wait: a subset of Mode
          N,            \* depth of the queue (n_)
          MaxOps,       \* bound: operations called
          None          \* no thread

Thread == Readers \cup Writers \cup Owners
Side   == {"rd", "wr"}
Mode   == {"try", "timed", "forever", "select", "ifroom"}

ASSUME ThreadAssumption == IsFiniteSet(Thread) /\ None \notin Thread
ASSUME DepthAssumption  == N \in Nat \ {0} /\ MaxOps \in Nat
ASSUME ModeAssumption   == Modes \subseteq Mode

VARIABLES slots,     \* slots_ of the two counters
          pending,   \* pending_ of the two event sources
          lock,      \* owner of the mutex of the two event sets
          fifo,      \* the lock-free queue (CBufQueueBase)
          isUp,      \* isUp_
          mtx,       \* owner of mtx_
          taken,     \* write slots eaten by shutdown() and not returned by startup()
          pc, on,    \* where each thread is, and on which counter it works
          op,        \* the operation it executes
          panic,     \* an InternalError was thrown
          ops        \* operations called so far

vars == <<slots, pending, lock, fifo, isUp, mtx, taken, pc, on, op, panic, ops>>

Kind == {"pop", "push", "shutdown", "startup"}
Op   == [kind : Kind, wait : Mode, item : Nat]
NoOp == [kind |-> "pop", wait |-> "try", item |-> 0]
PC   == {"idle", "sub", "add", "poll", "sleep", "asleep", "handle",
         "enqueue", "dequeue", "put", "notifyPut", "notifyFail"}

TypeOK ==
    /\ slots \in [Side -> Int]
    /\ pending \in [Side -> BOOLEAN]
    /\ lock \in [Side -> Thread \cup {None}]
    /\ fifo \in Seq(Nat)
    /\ isUp \in BOOLEAN /\ panic \in BOOLEAN
    /\ mtx \in Thread \cup {None}
    /\ taken \in Nat /\ ops \in Nat
    /\ pc \in [Thread -> PC] /\ on \in [Thread -> Side] /\ op \in [Thread -> Op]

Init ==
    /\ slots = [s \in Side |-> IF s = "wr" THEN N ELSE 0]
    /\ pending = [s \in Side |-> FALSE]
    /\ lock = [s \in Side |-> None]
    /\ fifo = <<>> /\ isUp = TRUE /\ mtx = None /\ taken = 0
    /\ pc = [t \in Thread |-> "idle"] /\ on = [t \in Thread |-> "rd"]
    /\ op = [t \in Thread |-> NoOp]
    /\ panic = FALSE /\ ops = 0

\* Thread t goes on at next.at, on counter next.on.  One that returns forgets
\* its operation.
Work(t, next) ==
    IF next.at = "idle"
    THEN on' = [on EXCEPT ![t] = "rd"]    /\ op' = [op EXCEPT ![t] = NoOp]
    ELSE on' = [on EXCEPT ![t] = next.on] /\ UNCHANGED op

Goto(t, label, s) ==
    pc' = [pc EXCEPT ![t] = label] /\ Work(t, [at |-> label, on |-> s])

\* getAvailSlots(), with WATERMARK = 0.
Avail(s) == IF slots[s] > 0 THEN slots[s] ELSE 0

-----------------------------------------------------------------------------
(* Calls.                                                                   *)

Call(t, kind, wait, label, s) ==
    /\ pc[t] = "idle" /\ ops < MaxOps
    /\ ops' = ops + 1
    /\ op' = [op EXCEPT ![t] = [kind |-> kind, wait |-> wait, item |-> ops + 1]]
    /\ pc' = [pc EXCEPT ![t] = label] /\ on' = [on EXCEPT ![t] = s]

\* An event loop polls first.
First(wait) == IF wait = "select" THEN "poll" ELSE "sub"

CallPop(t) ==
    /\ t \in Readers
    /\ \E w \in Modes \ {"ifroom"} : Call(t, "pop", w, First(w), "rd")
    /\ UNCHANGED <<slots, pending, lock, fifo, isUp, mtx, taken, panic>>

\* "ifroom": the caller has seen that isFull() is false, and calls tryPush().
CallPush(t) ==
    /\ t \in Writers
    /\ \E w \in Modes : /\ w = "ifroom" => Avail("wr") > 0
                        /\ Call(t, "push", w, First(w), "wr")
    /\ UNCHANGED <<slots, pending, lock, fifo, isUp, mtx, taken, panic>>

\* shutdown() of a queue that is up, and startup() of one that is down; other
\* calls return at once.
CallShutdown(t) ==
    /\ t \in Owners /\ mtx = None /\ isUp
    /\ mtx' = t /\ isUp' = FALSE /\ taken' = 0
    /\ Call(t, "shutdown", "try", "sub", "wr")
    /\ UNCHANGED <<slots, pending, lock, fifo, panic>>

CallStartup(t) ==
    /\ t \in Owners /\ mtx = None /\ ~isUp
    /\ mtx' = t /\ isUp' = TRUE
    /\ Call(t, "startup", "try", "put", "wr")
    /\ UNCHANGED <<slots, pending, lock, fifo, taken, panic>>

-----------------------------------------------------------------------------
(* CEventBufSync::getSlot().                                                *)

\* The caller got a slot: push() and pop() go on to the queue, shutdown()
\* counts a write slot and tries for another.
Granted(t) ==
    IF on[t] = "wr"
    THEN IF op[t].kind = "shutdown"
         THEN Goto(t, "sub", "wr") /\ taken' = taken + 1
         ELSE Goto(t, "enqueue", "wr") /\ UNCHANGED taken
    ELSE Goto(t, "dequeue", "rd") /\ UNCHANGED taken

\* A shutdown() that does not pop.
AfterRefusal_noPop(t) ==
    CASE op[t].wait = "select"                     -> [at |-> "poll", on |-> on[t]]
      [] op[t].kind = "shutdown" /\ taken < N      -> [at |-> "sub",  on |-> "wr"]
      [] OTHER                                     -> [at |-> "idle", on |-> on[t]]

\* A shutdown() that goes round once.
AfterRefusal_once(t) ==
    CASE op[t].wait = "select"                     -> [at |-> "poll", on |-> on[t]]
      [] op[t].kind = "shutdown" /\ on[t] = "wr"   -> [at |-> "sub",  on |-> "rd"]
      [] OTHER                                     -> [at |-> "idle", on |-> on[t]]

\* The caller got none: push() and pop() return, an event loop waits again,
\* shutdown() alternates between eating write slots and popping.
AfterRefusal(t) ==
    CASE op[t].wait = "select"                   -> [at |-> "poll", on |-> on[t]]
      [] op[t].kind = "shutdown" /\ on[t] = "wr" -> [at |-> "sub",  on |-> "rd"]
      [] op[t].kind = "shutdown" /\ on[t] = "rd" /\ taken < N
                                                 -> [at |-> "sub",  on |-> "wr"]
      [] OTHER                                   -> [at |-> "idle", on |-> on[t]]

\* shutdown() and startup() release mtx_ when they return.
Unlock(t, next) == mtx' = IF mtx = t /\ next.at = "idle" THEN None ELSE mtx

\* Off by one: a count of zero is taken for a slot.
FetchSub_atZero(t) ==
    /\ pc[t] = "sub"
    /\ slots' = [slots EXCEPT ![on[t]] = @ - 1]
    /\ IF slots[on[t]] >= 0 THEN Granted(t)
       ELSE Goto(t, "add", on[t]) /\ UNCHANGED taken
    /\ UNCHANGED <<pending, lock, fifo, isUp, mtx, panic, ops>>

\* slots_.fetch_sub(1)
FetchSub(t) ==
    /\ pc[t] = "sub"
    /\ slots' = [slots EXCEPT ![on[t]] = @ - 1]
    /\ IF slots[on[t]] > 0 THEN Granted(t)
       ELSE Goto(t, "add", on[t]) /\ UNCHANGED taken
    /\ UNCHANGED <<pending, lock, fifo, isUp, mtx, panic, ops>>

\* A caller that gives up does not notify.
AnnounceRestored_never(old) == FALSE

\* Does a caller that gives up announce the slot it made visible again?
AnnounceRestored(old) == old = 0

\* A caller that found no slot does not restore the count.
FetchAdd_lost(t) ==
    /\ pc[t] = "add"
    /\ UNCHANGED slots
    /\ IF op[t].wait \in {"timed", "forever"}
       THEN Goto(t, "poll", on[t]) /\ UNCHANGED mtx
       ELSE /\ Goto(t, AfterRefusal(t).at, AfterRefusal(t).on)
            /\ Unlock(t, AfterRefusal(t))
    /\ UNCHANGED <<pending, lock, fifo, isUp, taken, panic, ops>>

\* The slot is restored.  A caller that waits polls next; one that does not
\* notifies if it is the last of those that drove the count below zero.
FetchAdd(t) ==
    /\ pc[t] = "add"
    /\ slots' = [slots EXCEPT ![on[t]] = @ + 1]
    /\ IF op[t].wait \in {"timed", "forever"}
       THEN Goto(t, "poll", on[t]) /\ UNCHANGED mtx
       ELSE IF AnnounceRestored(slots[on[t]])
            THEN Goto(t, "notifyFail", on[t]) /\ UNCHANGED mtx
            ELSE /\ Goto(t, AfterRefusal(t).at, AfterRefusal(t).on)
                 /\ Unlock(t, AfterRefusal(t))
    /\ UNCHANGED <<pending, lock, fifo, isUp, taken, panic, ops>>

-----------------------------------------------------------------------------
(* CEventSet::processEvent(), with the source and the handler of a counter. *)

\* pollAll() under the mutex: an event, or (still under the mutex) sleep.
Poll(t) ==
    /\ pc[t] = "poll" /\ lock[on[t]] = None
    /\ IF pending[on[t]] \/ Avail(on[t]) > 0
       THEN /\ pending' = [pending EXCEPT ![on[t]] = TRUE]
            /\ Goto(t, "handle", on[t])
            /\ UNCHANGED lock
       ELSE /\ lock' = [lock EXCEPT ![on[t]] = t]
            /\ Goto(t, "sleep", on[t])
            /\ UNCHANGED pending
    /\ UNCHANGED <<slots, fifo, isUp, mtx, taken, panic, ops>>

\* pthread_cond_wait() releases the mutex.
Sleep(t) ==
    /\ pc[t] = "sleep"
    /\ lock' = [lock EXCEPT ![on[t]] = None]
    /\ Goto(t, "asleep", on[t])
    /\ UNCHANGED <<slots, pending, fifo, isUp, mtx, taken, panic, ops>>

\* pthread_cond_timedwait() returns ETIMEDOUT: there is no last poll.
TimedOut(t) ==
    /\ pc[t] = "asleep" /\ op[t].wait = "timed" /\ lock[on[t]] = None
    /\ Goto(t, "idle", on[t])
    /\ UNCHANGED <<slots, pending, lock, fifo, isUp, mtx, taken, panic, ops>>

\* IEventSource::handle() runs outside the mutex.
Handle(t) ==
    /\ pc[t] = "handle"
    /\ pending' = [pending EXCEPT ![on[t]] = FALSE]
    /\ Goto(t, "sub", on[t])
    /\ UNCHANGED <<slots, lock, fifo, isUp, mtx, taken, panic, ops>>

-----------------------------------------------------------------------------
(* CEventBufSync::putSlot() and the notification.                           *)

\* Where a thread goes after putSlot().  startup() returns n_ slots; they are the
\* ones shutdown() has eaten, so `taken' also counts its loop.
AfterPut(t) ==
    CASE op[t].kind = "shutdown"             -> [at |-> "sub",  on |-> "rd"]
      [] op[t].kind = "startup" /\ taken > 0 -> [at |-> "put",  on |-> "wr"]
      [] OTHER                               -> [at |-> "idle", on |-> on[t]]

\* A putSlot() that notifies only when the count was zero.
Put_whenZero(t) ==
    /\ pc[t] = "put"
    /\ slots' = [slots EXCEPT ![on[t]] = @ + 1]
    /\ taken' = IF op[t].kind = "startup" THEN taken - 1 ELSE taken
    /\ IF slots[on[t]] = 0 \/ mtx = t
       THEN Goto(t, "notifyPut", on[t])
       ELSE Goto(t, "idle", on[t])
    /\ UNCHANGED <<pending, lock, fifo, isUp, mtx, panic, ops>>

\* startup()'s loop variable is counted by every putSlot().
Put_countsAll(t) ==
    /\ pc[t] = "put"
    /\ slots' = [slots EXCEPT ![on[t]] = @ + 1]
    /\ taken' = taken - 1
    /\ Goto(t, "notifyPut", on[t])
    /\ UNCHANGED <<pending, lock, fifo, isUp, mtx, panic, ops>>

\* slots_.fetch_add(1), and notify() whatever the count.
Put(t) ==
    /\ pc[t] = "put"
    /\ slots' = [slots EXCEPT ![on[t]] = @ + 1]
    /\ taken' = IF op[t].kind = "startup" THEN taken - 1 ELSE taken
    /\ Goto(t, "notifyPut", on[t])
    /\ UNCHANGED <<pending, lock, fifo, isUp, mtx, panic, ops>>

\* The threads asleep on a counter.
Asleep(s) == {t \in Thread : pc[t] = "asleep" /\ on[t] = s}

\* notify() without the mutex of the event set.
Signal_unlocked(t, next) ==
    /\ Work(t, next)
    /\ IF Asleep(on[t]) = {}
       THEN pc' = [pc EXCEPT ![t] = next.at]
       ELSE \E w \in Asleep(on[t]) : pc' = [pc EXCEPT ![t] = next.at, ![w] = "poll"]

\* pthread_cond_signal() under the mutex wakes one of the threads asleep.
Signal(t, next) ==
    /\ lock[on[t]] = None
    /\ Work(t, next)
    /\ IF Asleep(on[t]) = {}
       THEN pc' = [pc EXCEPT ![t] = next.at]
       ELSE \E w \in Asleep(on[t]) : pc' = [pc EXCEPT ![t] = next.at, ![w] = "poll"]

NotifyPut(t) ==
    /\ pc[t] = "notifyPut"
    /\ Signal(t, AfterPut(t)) /\ Unlock(t, AfterPut(t))
    /\ UNCHANGED <<slots, pending, lock, fifo, isUp, taken, panic, ops>>

NotifyRestored(t) ==
    /\ pc[t] = "notifyFail"
    /\ Signal(t, AfterRefusal(t)) /\ Unlock(t, AfterRefusal(t))
    /\ UNCHANGED <<slots, pending, lock, fifo, isUp, taken, panic, ops>>

-----------------------------------------------------------------------------
(* The queue itself, once a slot was granted.                               *)

\* bounded_push(): there is room, then a read slot is put; else the write slot
\* is returned and an InternalError thrown.
Enqueue(t) ==
    /\ pc[t] = "enqueue"
    /\ IF Len(fifo) < N
       THEN fifo' = Append(fifo, op[t].item) /\ Goto(t, "put", "rd") /\ UNCHANGED panic
       ELSE panic' = TRUE /\ Goto(t, "put", "wr") /\ UNCHANGED fifo
    /\ UNCHANGED <<slots, pending, lock, isUp, mtx, taken, ops>>

\* CBufQueueBase::pop(): the oldest chain, then a write slot is put; else an
\* InternalError is thrown.
Dequeue(t) ==
    /\ pc[t] = "dequeue"
    /\ IF fifo # <<>>
       THEN fifo' = Tail(fifo) /\ Goto(t, "put", "wr") /\ UNCHANGED <<panic, mtx>>
       ELSE /\ panic' = TRUE /\ Goto(t, "idle", "rd") /\ UNCHANGED fifo
            /\ Unlock(t, [at |-> "idle"])
    /\ UNCHANGED <<slots, pending, lock, isUp, taken, ops>>

-----------------------------------------------------------------------------
\* A thread inside an operation.
Step(t) ==
    \/ FetchSub(t) \/ FetchAdd(t)
    \/ Poll(t) \/ Sleep(t) \/ Handle(t)
    \/ Put(t) \/ NotifyPut(t) \/ NotifyRestored(t)
    \/ Enqueue(t) \/ Dequeue(t)

Next ==
    \E t \in Thread :
        \/ CallPop(t) \/ CallPush(t) \/ CallShutdown(t) \/ CallStartup(t)
        \/ TimedOut(t)
        \/ Step(t)

Spec == Init /\ [][Next]_vars

\* Threads run.  Nobody need call anything.
FairSpec == Spec /\ \A t \in Thread : WF_vars(Step(t))

-----------------------------------------------------------------------------
(* Properties.                                                              *)

\* Neither "Queue inconsistency???" nor "unable to pop even though we
\* decremented the semaphore?" is ever thrown: the counters never promise what
\* the queue does not have, although they are modified at different times.
NeverInconsistent == ~panic

\* The threads that work on counter s and are at one of these labels.
At(labels, s) == {t \in Thread : pc[t] \in labels /\ on[t] = s}

\* A startup() that returns a slot has it from `taken'.
Holding ==
    {t \in Thread : /\ on[t] = "wr"
                    /\ pc[t] = "enqueue" \/ (pc[t] = "put" /\ op[t].kind # "startup")}

\* What a counter really is worth: a caller that found no slot has taken one
\* that was not there and returns it later.
Real(s) == slots[s] + Cardinality(At({"add"}, s))

\* Every write slot is somewhere: in the
\* counter, with a writer before the queue, in the queue, with a reader behind
\* it, or eaten by shutdown().  Every chain in the queue has a read slot.
SlotsConserved ==
    /\ Real("wr") >= 0 /\ Real("rd") >= 0
    /\ Real("wr") + Cardinality(Holding) + Len(fifo) + taken = N
    /\ Real("rd") + Cardinality(At({"dequeue", "put"}, "rd")) = Len(fifo)

\* A queue that was shut down is empty, and no writer is about to add to it:
\* shutdown() leaves nothing behind, whoever was in the middle of push() or pop().
DownIsEmpty ==
    ~isUp /\ mtx = None => fifo = <<>> /\ At({"enqueue"}, "wr") = {}

\* With a single writer, which also owns the queue, tryPush() succeeds once isFull()
\* was false ("RSSI output queue should not be full!").
RoomStays == \A t \in Thread : op[t].wait = "ifroom" => pc[t] # "add"

\* A thread that sleeps until it gets a slot.
Waits(s) == \E t \in Asleep(s) : op[t].wait \in {"forever", "select"}

\* No wake-up is lost: no reader is left asleep while there is something in the
\* queue.
ReaderServed == []<>~(fifo # <<>> /\ Waits("rd"))

\* No writer is left asleep while the queue has room: it fills up, or is shut down.
WriterServed == Waits("wr") ~> (~Waits("wr") \/ Len(fifo) = N \/ ~isUp)

\* shutdown() and startup() return.
OwnerReturns == (mtx # None) ~> (mtx = None)
=============================================================================
