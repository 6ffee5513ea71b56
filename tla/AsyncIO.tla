------------------------------- MODULE AsyncIO -------------------------------
(***************************************************************************)
(* CAsyncIOTransactionManager (cpsw_async_io.cc): the list of pending      *)
(* transactions and the thread that times them out.  A transaction leaves  *)
(* the list either because its answer arrives, complete(), or because its  *)
(* timeout expires, threadBody(); whoever took it off the list completes   *)
(* it.                                                                     *)
(***************************************************************************)
EXTENDS Integers, Sequences, SequencesExt

CONSTANTS Timeout,      \* timeout_, in ticks of the clock
          MaxTime       \* bound: the clock stops here

ASSUME TimeAssumption == Timeout \in Nat /\ MaxTime \in Nat

VARIABLES now,          \* CLOCK_MONOTONIC
          pending,      \* transactions [xact, tid, timeout], oldest first
          thr           \* timeout thread: [pc, until, xact]
aioVars == <<now, pending, thr>>

NoXact == <<0, 0>>

AioInit == now = 0 /\ pending = <<>> /\ thr = [pc |-> "run", until |-> 0, xact |-> NoXact]

Tick == now < MaxTime /\ now' = now + 1 /\ UNCHANGED <<pending, thr>>

\* Looks at the list after the transaction was added to it.
post_lateSignal(xact, tid, timeout) ==
    /\ pending' = Append(pending, [xact |-> xact, tid |-> tid, timeout |-> timeout])
    /\ UNCHANGED <<now, thr>>

\* The second half of post(), under the lock: the thread is signalled if the
\* list was empty.
post(xact, tid, timeout) ==
    /\ pending' = Append(pending, [xact |-> xact, tid |-> tid, timeout |-> timeout])
    /\ thr' = [thr EXCEPT !.pc = IF pending = <<>> /\ @ = "wait" THEN "run" ELSE @]
    /\ UNCHANGED now

Found(tid) == {i \in DOMAIN pending : pending[i].tid = tid}

\* The first half of complete(): the first transaction with this number is
\* taken off the list.
First(tid) == CHOOSE i \in Found(tid) : \A j \in Found(tid) : i <= j
takeOff(i) == pending' = RemoveAt(pending, i) /\ UNCHANGED <<now, thr>>

\* Leaves a transaction that has timed out in the list.
Check_peek ==
    /\ thr.pc = "run"
    /\ IF pending = <<>>
       THEN thr' = [thr EXCEPT !.pc = "wait"]
       ELSE IF Head(pending).timeout < now
       THEN thr' = [thr EXCEPT !.pc = "complete", !.xact = Head(pending).xact]
       ELSE thr' = [thr EXCEPT !.pc = "sleep", !.until = Head(pending).timeout]
    /\ UNCHANGED <<now, pending>>

\* threadBody(): waits while the list is empty, takes off the oldest transaction
\* if its time is over, and sleeps until then otherwise.
Check ==
    /\ thr.pc = "run"
    /\ IF pending = <<>>
       THEN thr' = [thr EXCEPT !.pc = "wait"] /\ UNCHANGED pending
       ELSE IF Head(pending).timeout < now
       THEN /\ thr' = [thr EXCEPT !.pc = "complete", !.xact = Head(pending).xact]
            /\ pending' = Tail(pending)
       ELSE thr' = [thr EXCEPT !.pc = "sleep", !.until = Head(pending).timeout] /\ UNCHANGED pending
    /\ UNCHANGED now

Wake ==
    /\ thr.pc = "sleep" /\ now >= thr.until
    /\ thr' = [thr EXCEPT !.pc = "run", !.until = 0]
    /\ UNCHANGED <<now, pending>>
==============================================================================
