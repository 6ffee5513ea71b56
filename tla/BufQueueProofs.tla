--------------------------- MODULE BufQueueProofs ---------------------------
(***************************************************************************)
(* Proofs about BufQueue, for every depth and any number of threads: the   *)
(* counters never promise what the queue does not have, and a queue that   *)
(* was shut down is empty.                                                 *)
(***************************************************************************)
EXTENDS BufQueue, FiniteSetTheorems, TLAPS

-----------------------------------------------------------------------------
(* The inductive invariant.                                                 *)

\* What a thread may be doing, and who owns mtx_.
Role(t) ==
    /\ pc[t] = "enqueue" => on[t] = "wr"
    /\ pc[t] = "dequeue" => on[t] = "rd"
    /\ op[t].kind = "startup" => /\ pc[t] \in {"put", "notifyPut"} /\ on[t] = "wr"
                                 /\ pc[t] = "put" => taken > 0
    /\ op[t].kind = "shutdown" =>
         pc[t] \in {"sub", "add", "notifyFail", "dequeue", "put", "notifyPut"}
    /\ op[t].kind \in {"startup", "shutdown"} => mtx = t /\ op[t].wait = "try"
    /\ mtx = t => op[t].kind = IF isUp THEN "startup" ELSE "shutdown"

\* Nobody is in shutdown() or startup(): all write slots are eaten, or none.
Settled == mtx = None => taken = IF isUp THEN 0 ELSE N

IInv ==
    /\ TypeOK
    /\ \A t \in Thread : Role(t)
    /\ Settled
    /\ SlotsConserved
    /\ NeverInconsistent

-----------------------------------------------------------------------------
(* Counting threads.                                                        *)

\* A set of threads that changes at most in t.
LEMMA CountChange ==
    ASSUME NEW S \in SUBSET Thread, NEW R \in SUBSET Thread, NEW t \in Thread,
           \A u \in Thread \ {t} : u \in R <=> u \in S
    PROVE  /\ Cardinality(S) \in Nat /\ Cardinality(R) \in Nat
           /\ t \in S => Cardinality(S) > 0
           /\ t \in S /\ t \in R => Cardinality(R) = Cardinality(S)
           /\ t \notin S /\ t \notin R => Cardinality(R) = Cardinality(S)
           /\ t \in S /\ t \notin R => Cardinality(R) = Cardinality(S) - 1
           /\ t \notin S /\ t \in R => Cardinality(R) = Cardinality(S) + 1
<1>1. IsFiniteSet(S) /\ IsFiniteSet(R)
  BY ThreadAssumption, FS_Subset
<1>2. Cardinality(S) \in Nat /\ Cardinality(R) \in Nat
  BY <1>1, FS_CardinalityType
<1>3. t \in S => Cardinality(S \ {t}) = Cardinality(S) - 1 /\ Cardinality(S) > 0
  <2> SUFFICES ASSUME t \in S
               PROVE  Cardinality(S \ {t}) = Cardinality(S) - 1 /\ Cardinality(S) > 0
    OBVIOUS
  <2>1. Cardinality(S \ {t}) = Cardinality(S) - 1
    BY <1>1, FS_RemoveElement
  <2>2. Cardinality(S \ {t}) \in Nat
    BY <1>1, FS_RemoveElement, FS_CardinalityType
  <2> QED BY <1>2, <2>1, <2>2
<1>4. t \notin S => Cardinality(S \cup {t}) = Cardinality(S) + 1
  BY <1>1, FS_AddElement
<1>5. (t \in S <=> t \in R) => R = S
  OBVIOUS
<1>6. t \in S /\ t \notin R => R = S \ {t}
  OBVIOUS
<1>7. t \notin S /\ t \in R => R = S \cup {t}
  OBVIOUS
<1> QED BY <1>2, <1>3, <1>4, <1>5, <1>6, <1>7

\* A step of thread t, which ends at `label' on counter s, as the others see it: at
\* most they are woken up.
Moved(t, label, s) ==
    /\ pc' \in [Thread -> PC] /\ on' \in [Thread -> Side] /\ op' \in [Thread -> Op]
    /\ pc'[t] = label
    /\ label = "idle" => on'[t] = "rd" /\ op'[t] = NoOp
    /\ label # "idle" => on'[t] = s
    /\ \A u \in Thread \ {t} :
         /\ on'[u] = on[u] /\ op'[u] = op[u]
         /\ pc'[u] = pc[u] \/ (pc[u] = "asleep" /\ pc'[u] = "poll")

\* The operation goes on.
Same(t, label) == label # "idle" => op'[t] = op[t]

\* Goto() is such a step.
LEMMA GotoMoves ==
    ASSUME TypeOK, NEW t \in Thread, NEW label \in PC, NEW s \in Side, Goto(t, label, s)
    PROVE  Moved(t, label, s) /\ Same(t, label)
<1>1. NoOp \in Op
  BY DEF NoOp, Op, Kind, Mode
<1>2. pc' = [pc EXCEPT ![t] = label] /\ Work(t, [at |-> label, on |-> s])
  BY DEF Goto
<1>3. pc' \in [Thread -> PC] /\ pc'[t] = label /\ \A u \in Thread \ {t} : pc'[u] = pc[u]
  BY <1>2 DEF TypeOK
<1>4. CASE label = "idle"
  <2>1. on' = [on EXCEPT ![t] = "rd"] /\ op' = [op EXCEPT ![t] = NoOp]
    BY <1>2, <1>4 DEF Work
  <2> QED BY <1>1, <1>3, <1>4, <2>1 DEF TypeOK, Moved, Same, Side
<1>5. CASE label # "idle"
  <2>1. on' = [on EXCEPT ![t] = s] /\ op' = op
    BY <1>2, <1>5 DEF Work
  <2> QED BY <1>3, <1>5, <2>1 DEF TypeOK, Moved, Same
<1> QED BY <1>4, <1>5

\* So is a notification.
LEMMA SignalMoves ==
    ASSUME TypeOK, NEW t \in Thread, NEW next, next.at \in PC, next.on \in Side,
           pc[t] # "asleep", Signal(t, next)
    PROVE  Moved(t, next.at, next.on) /\ Same(t, next.at)
<1>1. NoOp \in Op
  BY DEF NoOp, Op, Kind, Mode
<1>2. /\ pc' \in [Thread -> PC] /\ pc'[t] = next.at
      /\ \A u \in Thread \ {t} : pc'[u] = pc[u] \/ (pc[u] = "asleep" /\ pc'[u] = "poll")
  <2>1. CASE pc' = [pc EXCEPT ![t] = next.at]
    BY <2>1 DEF TypeOK
  <2>2. ASSUME NEW w \in Asleep(on[t]), pc' = [pc EXCEPT ![t] = next.at, ![w] = "poll"]
        PROVE  <1>2
    <3>1. w \in Thread /\ pc[w] = "asleep" /\ w # t
      BY <2>2 DEF Asleep
    <3>2. "poll" \in PC
      BY DEF PC
    <3> QED BY <2>2, <3>1, <3>2 DEF TypeOK
  <2> QED BY <2>1, <2>2 DEF Signal
<1>3. CASE next.at = "idle"
  <2>1. on' = [on EXCEPT ![t] = "rd"] /\ op' = [op EXCEPT ![t] = NoOp]
    BY <1>3 DEF Signal, Work
  <2> QED BY <1>1, <1>2, <1>3, <2>1 DEF TypeOK, Moved, Same, Side
<1>4. CASE next.at # "idle"
  <2>1. on' = [on EXCEPT ![t] = next.on] /\ op' = op
    BY <1>4 DEF Signal, Work
  <2> QED BY <1>2, <1>4, <2>1 DEF TypeOK, Moved, Same
<1> QED BY <1>3, <1>4

\* The number of threads in a set before (S) and after (R) a step of t.
Tally(S, R, t) ==
    /\ Cardinality(S) \in Nat /\ Cardinality(R) \in Nat
    /\ t \in S => Cardinality(S) > 0
    /\ t \in S /\ t \in R => Cardinality(R) = Cardinality(S)
    /\ t \notin S /\ t \notin R => Cardinality(R) = Cardinality(S)
    /\ t \in S /\ t \notin R => Cardinality(R) = Cardinality(S) - 1
    /\ t \notin S /\ t \in R => Cardinality(R) = Cardinality(S) + 1

\* The four sets of threads that SlotsConserved counts.
Tallies(t) ==
    /\ Tally(At({"add"}, "rd"), At({"add"}, "rd")', t)
    /\ Tally(At({"add"}, "wr"), At({"add"}, "wr")', t)
    /\ Tally(Holding, Holding', t)
    /\ Tally(At({"dequeue", "put"}, "rd"), At({"dequeue", "put"}, "rd")', t)

\* A step of t changes them at most in t.
LEMMA StepTallies ==
    ASSUME TypeOK, NEW t \in Thread, NEW label, NEW s, Moved(t, label, s)
    PROVE  Tallies(t)
<1>1. \A u \in Thread \ {t} :
        /\ on'[u] = on[u] /\ op'[u] = op[u]
        /\ pc'[u] = pc[u] \/ (pc[u] = "asleep" /\ pc'[u] = "poll")
  BY DEF Moved
<1>2. Tally(At({"add"}, "rd"), At({"add"}, "rd")', t)
  <2>1. At({"add"}, "rd") \in SUBSET Thread /\ At({"add"}, "rd")' \in SUBSET Thread
    BY DEF At
  <2>2. \A u \in Thread \ {t} : u \in At({"add"}, "rd")' <=> u \in At({"add"}, "rd")
    BY <1>1 DEF At
  <2> QED BY <2>1, <2>2, CountChange DEF Tally
<1>3. Tally(At({"add"}, "wr"), At({"add"}, "wr")', t)
  <2>1. At({"add"}, "wr") \in SUBSET Thread /\ At({"add"}, "wr")' \in SUBSET Thread
    BY DEF At
  <2>2. \A u \in Thread \ {t} : u \in At({"add"}, "wr")' <=> u \in At({"add"}, "wr")
    BY <1>1 DEF At
  <2> QED BY <2>1, <2>2, CountChange DEF Tally
<1>4. Tally(Holding, Holding', t)
  <2>1. Holding \in SUBSET Thread /\ Holding' \in SUBSET Thread
    BY DEF Holding
  <2>2. \A u \in Thread \ {t} : u \in Holding' <=> u \in Holding
    BY <1>1 DEF Holding
  <2> QED BY <2>1, <2>2, CountChange DEF Tally
<1>5. Tally(At({"dequeue", "put"}, "rd"), At({"dequeue", "put"}, "rd")', t)
  <2>1. /\ At({"dequeue", "put"}, "rd") \in SUBSET Thread
        /\ At({"dequeue", "put"}, "rd")' \in SUBSET Thread
    BY DEF At
  <2>2. \A u \in Thread \ {t} :
          u \in At({"dequeue", "put"}, "rd")' <=> u \in At({"dequeue", "put"}, "rd")
    BY <1>1 DEF At
  <2> QED BY <2>1, <2>2, CountChange DEF Tally
<1> QED BY <1>2, <1>3, <1>4, <1>5 DEF Tallies

\* Where t itself is counted.
Counted(t) ==
    /\ \A s \in Side : t \in At({"add"}, s) <=> (pc[t] = "add" /\ on[t] = s)
    /\ t \in Holding <=> /\ on[t] = "wr"
                         /\ pc[t] = "enqueue" \/ (pc[t] = "put" /\ op[t].kind # "startup")
    /\ t \in At({"dequeue", "put"}, "rd") <=> (pc[t] \in {"dequeue", "put"} /\ on[t] = "rd")

\* How the step of a thread enters or leaves a counted place shows in its own
\* state alone.
LEMMA ThreadCounted ==
    ASSUME NEW t \in Thread
    PROVE  Counted(t) /\ Counted(t)'
BY DEF Counted, At, Holding

\* Other threads keep their role as long as mtx_ stays with its owner and what
\* startup() has to return is not counted down by somebody else.
LEMMA OthersKeepRole ==
    ASSUME NEW t \in Thread, NEW label, NEW s, Moved(t, label, s),
           NEW u \in Thread \ {t}, Role(u),
           mtx' = u <=> mtx = u, isUp' = isUp \/ mtx # u,
           taken' = taken \/ mtx # u
    PROVE  Role(u)'
<1>1. /\ on'[u] = on[u] /\ op'[u] = op[u]
      /\ pc'[u] = pc[u] \/ (pc[u] = "asleep" /\ pc'[u] = "poll")
  BY DEF Moved
<1>2. op[u].kind \in {"startup", "shutdown"} => pc'[u] = pc[u]
  BY <1>1 DEF Role
<1> QED BY <1>1, <1>2 DEF Role

-----------------------------------------------------------------------------
(* One lemma per kind of step.                                              *)

\* Thread t is counted by SlotsConserved.
Busy(t) ==
    \/ pc[t] \in {"add", "enqueue", "dequeue"}
    \/ pc[t] = "put" /\ ~(op[t].kind = "startup" /\ on[t] = "wr")

\* A step that neither starts nor ends in a counted place keeps the balance.
LEMMA BalanceKept ==
    ASSUME SlotsConserved, NEW t \in Thread, NEW label, NEW s, TypeOK, Moved(t, label, s),
           ~Busy(t), ~Busy(t)', UNCHANGED <<slots, fifo, taken>>
    PROVE  SlotsConserved'
<1>1. Tallies(t) /\ Counted(t) /\ Counted(t)'
  BY StepTallies, ThreadCounted
<1>2. /\ Cardinality(At({"add"}, "rd"))' = Cardinality(At({"add"}, "rd"))
      /\ Cardinality(At({"add"}, "wr"))' = Cardinality(At({"add"}, "wr"))
      /\ Cardinality(Holding)' = Cardinality(Holding)
      /\ Cardinality(At({"dequeue", "put"}, "rd"))' = Cardinality(At({"dequeue", "put"}, "rd"))
  BY <1>1 DEF Tallies, Tally, Counted, Busy, Side
<1> QED BY <1>2 DEF SlotsConserved, Real

\* The steps that only move: Poll, Sleep, TimedOut, Handle.
LEMMA WaitStep ==
    ASSUME IInv, NEW t \in Thread, NEW label \in PC, Goto(t, label, on[t]),
           pc[t] \in {"poll", "sleep", "asleep", "handle"},
           label \in {"idle", "sub", "sleep", "asleep", "handle"},
           pending' \in [Side -> BOOLEAN], lock' \in [Side -> Thread \cup {None}],
           UNCHANGED <<slots, fifo, isUp, mtx, taken, panic, ops>>
    PROVE  IInv'
<1>0. TypeOK /\ SlotsConserved /\ Settled /\ NeverInconsistent /\ (\A u \in Thread : Role(u))
  BY DEF IInv
<1>1. Moved(t, label, on[t]) /\ Same(t, label)
  <2>1. on[t] \in Side
    BY <1>0 DEF TypeOK
  <2> QED BY <1>0, <2>1, GotoMoves
<1>2. TypeOK'
  BY <1>0, <1>1 DEF TypeOK, Moved
<1>3. op[t].kind \notin {"startup", "shutdown"} /\ mtx # t
  BY <1>0 DEF Role
<1>4. \A u \in Thread \ {t} : Role(u)'
  BY <1>0, <1>1, OthersKeepRole
<1>5. Role(t)'
  BY <1>1, <1>3 DEF Role, Moved, Same, NoOp
<1>6. SlotsConserved'
  <2>1. ~Busy(t) /\ ~Busy(t)'
    BY <1>1 DEF Busy, Moved
  <2> QED BY <1>0, <1>1, <2>1, BalanceKept
<1>7. Settled' /\ NeverInconsistent'
  BY <1>0 DEF Settled, NeverInconsistent
<1> QED BY <1>2, <1>4, <1>5, <1>6, <1>7 DEF IInv

\* The operation a call starts.
LEMMA OpType ==
    ASSUME TypeOK, NEW k \in Kind, NEW w \in Mode
    PROVE  [kind |-> k, wait |-> w, item |-> ops + 1] \in Op
<1>1. ops + 1 \in Nat
  BY DEF TypeOK
<1> QED BY <1>1 DEF Op

\* A call is a step of its thread from idle.
LEMMA CallMoves ==
    ASSUME TypeOK, NEW t \in Thread, NEW k \in Kind, NEW w \in Mode,
           NEW label \in {"sub", "poll", "put"}, NEW s \in Side, Call(t, k, w, label, s)
    PROVE  /\ Moved(t, label, s) /\ pc[t] = "idle" /\ ops' \in Nat
           /\ op'[t].kind = k /\ op'[t].wait = w
<1> DEFINE o == [kind |-> k, wait |-> w, item |-> ops + 1]
<1>1. o \in Op /\ o.kind = k /\ o.wait = w
  BY OpType
<1>2. /\ pc[t] = "idle" /\ op' = [op EXCEPT ![t] = o]
      /\ pc' = [pc EXCEPT ![t] = label] /\ on' = [on EXCEPT ![t] = s]
  BY DEF Call
<1> HIDE DEF o
<1>3. label \in PC /\ label # "idle"
  BY DEF PC
<1>4. ops' \in Nat
  BY DEF Call, TypeOK
<1> QED BY <1>1, <1>2, <1>3, <1>4 DEF TypeOK, Moved

\* push() and pop() are called.
LEMMA CallStep ==
    ASSUME IInv, NEW t \in Thread, NEW k \in {"pop", "push"}, NEW w \in Mode, NEW s \in Side,
           Call(t, k, w, First(w), s),
           UNCHANGED <<slots, pending, lock, fifo, isUp, mtx, taken, panic>>
    PROVE  IInv'
<1>0. TypeOK /\ SlotsConserved /\ Settled /\ NeverInconsistent /\ (\A u \in Thread : Role(u))
  BY DEF IInv
<1> DEFINE l == First(w)
<1>1. l \in {"sub", "poll", "put"} /\ l # "put" /\ k \in Kind
  BY DEF First, Kind
<1> HIDE DEF l
<1>2. /\ Moved(t, l, s) /\ pc[t] = "idle" /\ ops' \in Nat
      /\ op'[t].kind = k /\ op'[t].wait = w
  BY <1>0, <1>1, CallMoves DEF l
<1>3. TypeOK'
  BY <1>0, <1>2 DEF TypeOK, Moved
<1>4. \A u \in Thread \ {t} : Role(u)'
  BY <1>0, <1>2, OthersKeepRole
<1>5. Role(t)'
  <2>1. mtx # t
    BY <1>0, <1>2 DEF Role
  <2> QED BY <1>1, <1>2, <2>1 DEF Role, Moved
<1>6. SlotsConserved'
  <2>1. ~Busy(t) /\ ~Busy(t)'
    BY <1>1, <1>2 DEF Busy, Moved
  <2> QED BY <1>0, <1>2, <2>1, BalanceKept
<1>7. Settled' /\ NeverInconsistent'
  BY <1>0 DEF Settled, NeverInconsistent
<1> QED BY <1>3, <1>4, <1>5, <1>6, <1>7 DEF IInv

\* shutdown() is called: none of the write slots is eaten yet.
LEMMA ShutdownStep ==
    ASSUME IInv, NEW t \in Thread, CallShutdown(t)
    PROVE  IInv'
<1>0. TypeOK /\ SlotsConserved /\ Settled /\ NeverInconsistent /\ (\A u \in Thread : Role(u))
  BY DEF IInv
<1>1. /\ mtx = None /\ isUp /\ mtx' = t /\ isUp' = FALSE /\ taken' = 0
      /\ UNCHANGED <<slots, pending, lock, fifo, panic>>
  BY DEF CallShutdown
<1>2. /\ Moved(t, "sub", "wr") /\ pc[t] = "idle" /\ ops' \in Nat
      /\ op'[t].kind = "shutdown" /\ op'[t].wait = "try"
  <2>1. Call(t, "shutdown", "try", "sub", "wr")
    BY DEF CallShutdown
  <2>2. "shutdown" \in Kind /\ "try" \in Mode /\ "sub" \in {"sub", "poll", "put"} /\ "wr" \in Side
    BY DEF Kind, Mode, Side
  <2> QED BY <1>0, <2>1, <2>2, CallMoves
<1>3. TypeOK'
  BY <1>0, <1>1, <1>2 DEF TypeOK, Moved
<1>4. \A u \in Thread \ {t} : Role(u)'
  <2>1. \A u \in Thread : mtx # u
    BY <1>1, ThreadAssumption
  <2> QED BY <1>0, <1>1, <1>2, <2>1, OthersKeepRole
<1>5. Role(t)'
  BY <1>1, <1>2 DEF Role, Moved
<1>6. SlotsConserved'
  <2>1. ~Busy(t) /\ ~Busy(t)'
    BY <1>2 DEF Busy, Moved
  <2>2. taken' = taken
    BY <1>0, <1>1 DEF Settled
  <2> QED BY <1>0, <1>1, <1>2, <2>1, <2>2, BalanceKept
<1>7. Settled' /\ NeverInconsistent'
  BY <1>0, <1>1, ThreadAssumption DEF Settled, NeverInconsistent
<1> QED BY <1>3, <1>4, <1>5, <1>6, <1>7 DEF IInv

\* startup() is called: all of them are.
LEMMA StartupStep ==
    ASSUME IInv, NEW t \in Thread, CallStartup(t)
    PROVE  IInv'
<1>0. TypeOK /\ SlotsConserved /\ Settled /\ NeverInconsistent /\ (\A u \in Thread : Role(u))
  BY DEF IInv
<1>1. /\ mtx = None /\ ~isUp /\ mtx' = t /\ isUp' = TRUE
      /\ UNCHANGED <<slots, pending, lock, fifo, taken, panic>>
  BY DEF CallStartup
<1>2. /\ Moved(t, "put", "wr") /\ pc[t] = "idle" /\ ops' \in Nat
      /\ op'[t].kind = "startup" /\ op'[t].wait = "try"
  <2>1. Call(t, "startup", "try", "put", "wr")
    BY DEF CallStartup
  <2>2. "startup" \in Kind /\ "try" \in Mode /\ "put" \in {"sub", "poll", "put"} /\ "wr" \in Side
    BY DEF Kind, Mode, Side
  <2> QED BY <1>0, <2>1, <2>2, CallMoves
<1>3. TypeOK'
  BY <1>0, <1>1, <1>2 DEF TypeOK, Moved
<1>4. \A u \in Thread \ {t} : Role(u)'
  <2>1. \A u \in Thread : mtx # u
    BY <1>1, ThreadAssumption
  <2> QED BY <1>0, <1>1, <1>2, <2>1, OthersKeepRole
<1>5. Role(t)'
  <2>1. taken' > 0
    BY <1>0, <1>1, DepthAssumption DEF Settled
  <2> QED BY <1>1, <1>2, <2>1 DEF Role, Moved
<1>6. SlotsConserved'
  <2>1. ~Busy(t) /\ ~Busy(t)'
    BY <1>2 DEF Busy, Moved
  <2> QED BY <1>0, <1>1, <1>2, <2>1, BalanceKept
<1>7. Settled' /\ NeverInconsistent'
  BY <1>0, <1>1, ThreadAssumption DEF Settled, NeverInconsistent
<1> QED BY <1>3, <1>4, <1>5, <1>6, <1>7 DEF IInv

\* fetch_sub() without a slot: t takes one that is not there.
LEMMA FetchSubFails ==
    ASSUME IInv, NEW t \in Thread, FetchSub(t), ~(slots[on[t]] > 0)
    PROVE  IInv'
<1>0. TypeOK /\ SlotsConserved /\ Settled /\ NeverInconsistent /\ (\A u \in Thread : Role(u))
  BY DEF IInv
<1>1. /\ pc[t] = "sub" /\ Goto(t, "add", on[t])
      /\ UNCHANGED <<taken, pending, lock, fifo, isUp, mtx, panic, ops>>
  BY DEF FetchSub
<1>2. on[t] \in Side /\ slots \in [Side -> Int]
  BY <1>0 DEF TypeOK
<1>3. /\ slots' \in [Side -> Int] /\ slots'[on[t]] = slots[on[t]] - 1
      /\ \A r \in Side \ {on[t]} : slots'[r] = slots[r]
  BY <1>2 DEF FetchSub
<1>4. Moved(t, "add", on[t]) /\ op'[t] = op[t]
  <2>1. "add" \in PC
    BY DEF PC
  <2> QED BY <1>0, <1>1, <1>2, <2>1, GotoMoves DEF Same
<1>5. TypeOK'
  BY <1>0, <1>1, <1>3, <1>4 DEF TypeOK, Moved
<1>6. \A u \in Thread \ {t} : Role(u)'
  BY <1>0, <1>1, <1>4, OthersKeepRole
<1>7. Role(t)'
  <2>1. Role(t)
    BY <1>0
  <2> QED BY <1>1, <1>4, <2>1 DEF Role, Moved
<1>8. SlotsConserved'
  <2>1. Tallies(t) /\ Counted(t) /\ Counted(t)'
    BY <1>0, <1>4, StepTallies, ThreadCounted
  <2>2. pc'[t] = "add" /\ on'[t] = on[t]
    BY <1>4 DEF Moved
  <2> PICK s \in Side : s = on[t]
    BY <1>2
  <2>3. /\ Cardinality(At({"add"}, s))' = Cardinality(At({"add"}, s)) + 1
        /\ \A r \in Side \ {s} : Cardinality(At({"add"}, r))' = Cardinality(At({"add"}, r))
        /\ \A r \in Side : Cardinality(At({"add"}, r)) \in Nat
        /\ Cardinality(Holding)' = Cardinality(Holding)
        /\ Cardinality(At({"dequeue", "put"}, "rd"))' = Cardinality(At({"dequeue", "put"}, "rd"))
    BY <1>1, <2>1, <2>2 DEF Tallies, Tally, Counted, Side
  <2>4. \A r \in Side : Real(r)' = Real(r)
    <3>1. Real(s)' = Real(s)
      BY <1>2, <1>3, <2>3 DEF Real
    <3>2. \A r \in Side \ {s} : Real(r)' = Real(r)
      BY <1>2, <1>3, <2>3 DEF Real
    <3> QED BY <3>1, <3>2
  <2> QED BY <1>0, <1>1, <2>3, <2>4 DEF SlotsConserved, Side
<1>9. Settled' /\ NeverInconsistent'
  BY <1>0, <1>1 DEF Settled, NeverInconsistent
<1> QED BY <1>5, <1>6, <1>7, <1>8, <1>9 DEF IInv

\* fetch_sub() with a slot.  On the way to the queue t holds it; shutdown() counts it.
LEMMA FetchSubSucceeds ==
    ASSUME IInv, NEW t \in Thread, FetchSub(t), slots[on[t]] > 0
    PROVE  IInv'
<1>0. TypeOK /\ SlotsConserved /\ Settled /\ NeverInconsistent /\ (\A u \in Thread : Role(u))
  BY DEF IInv
<1>1. /\ pc[t] = "sub" /\ Granted(t)
      /\ UNCHANGED <<pending, lock, fifo, isUp, mtx, panic, ops>>
  BY DEF FetchSub
<1>2. on[t] \in Side /\ slots \in [Side -> Int]
  BY <1>0 DEF TypeOK
<1>3. /\ slots' \in [Side -> Int] /\ slots'[on[t]] = slots[on[t]] - 1
      /\ \A r \in Side \ {on[t]} : slots'[r] = slots[r]
  BY <1>2 DEF FetchSub
<1> DEFINE eat == on[t] = "wr" /\ op[t].kind = "shutdown"
           l   == IF eat THEN "sub" ELSE IF on[t] = "wr" THEN "enqueue" ELSE "dequeue"
<1>4. /\ Moved(t, l, on[t]) /\ op'[t] = op[t]
      /\ taken' = IF eat THEN taken + 1 ELSE taken
  <2>1. Goto(t, l, on[t]) /\ taken' = IF eat THEN taken + 1 ELSE taken
    BY <1>1, <1>2 DEF Granted, Side
  <2>2. l \in PC /\ l # "idle"
    BY DEF PC
  <2> HIDE DEF l
  <2> QED BY <1>0, <1>2, <2>1, <2>2, GotoMoves DEF Same
<1>5. TypeOK'
  <2>1. taken' \in Nat
    BY <1>0, <1>4 DEF TypeOK
  <2> QED BY <1>0, <1>1, <1>3, <1>4, <2>1 DEF TypeOK, Moved
<1>6. \A u \in Thread \ {t} : Role(u)'
  <2>1. eat => mtx = t
    BY <1>0 DEF Role
  <2>2. \A u \in Thread \ {t} : taken' = taken \/ mtx # u
    BY <1>4, <2>1
  <2> QED BY <1>0, <1>1, <1>4, <2>2, OthersKeepRole
<1>7. Role(t)'
  <2>1. Role(t)
    BY <1>0
  <2> QED BY <1>1, <1>2, <1>4, <2>1 DEF Role, Moved, Side
<1>8. SlotsConserved'
  <2>1. Tallies(t) /\ Counted(t) /\ Counted(t)'
    BY <1>0, <1>4, StepTallies, ThreadCounted
  <2>2. pc'[t] = l /\ on'[t] = on[t]
    BY <1>4 DEF Moved
  <2>3. \A r \in Side : /\ Cardinality(At({"add"}, r))' = Cardinality(At({"add"}, r))
                        /\ Cardinality(At({"add"}, r)) \in Nat
    BY <1>1, <2>1, <2>2 DEF Tallies, Tally, Counted, Side
  <2>4. /\ Cardinality(Holding)' = Cardinality(Holding)
             + (IF on[t] = "wr" /\ ~eat THEN 1 ELSE 0)
        /\ Cardinality(Holding) \in Nat
    BY <1>1, <1>2, <1>4, <2>1, <2>2 DEF Tallies, Tally, Counted, Side
  <2>5. /\ Cardinality(At({"dequeue", "put"}, "rd"))' = Cardinality(At({"dequeue", "put"}, "rd"))
             + (IF on[t] = "rd" THEN 1 ELSE 0)
        /\ Cardinality(At({"dequeue", "put"}, "rd")) \in Nat
    BY <1>1, <1>2, <2>1, <2>2 DEF Tallies, Tally, Counted, Side
  <2>6. /\ Real("rd")' = Real("rd") - (IF on[t] = "rd" THEN 1 ELSE 0)
        /\ Real("wr")' = Real("wr") - (IF on[t] = "wr" THEN 1 ELSE 0)
        /\ Real("rd") \in Int /\ Real("wr") \in Int
    BY <1>2, <1>3, <2>3 DEF Real, Side
  <2>7. Real("rd")' >= 0 /\ Real("wr")' >= 0
    <3>1. on[t] = "rd" => Real("rd") > 0
      BY <1>2, <2>3 DEF Real, Side
    <3>2. on[t] = "wr" => Real("wr") > 0
      BY <1>2, <2>3 DEF Real, Side
    <3> QED BY <1>0, <2>6, <3>1, <3>2 DEF SlotsConserved
  <2>8. taken \in Nat /\ Len(fifo) \in Nat /\ fifo' = fifo
    BY <1>0, <1>1 DEF TypeOK
  <2>9. Real("wr")' + Cardinality(Holding)' + Len(fifo)' + taken' = N
    <3>1. Real("wr") + Cardinality(Holding) + Len(fifo) + taken = N
      BY <1>0 DEF SlotsConserved
    <3>2. CASE on[t] = "wr" /\ eat
      BY <1>4, <2>4, <2>6, <2>8, <3>1, <3>2
    <3>3. CASE on[t] = "wr" /\ ~eat
      BY <1>4, <2>4, <2>6, <2>8, <3>1, <3>3
    <3>4. CASE on[t] = "rd"
      BY <1>4, <2>4, <2>6, <2>8, <3>1, <3>4
    <3> QED BY <1>2, <3>2, <3>3, <3>4 DEF Side
  <2>10. Real("rd")' + Cardinality(At({"dequeue", "put"}, "rd"))' = Len(fifo)'
    BY <1>0, <1>2, <2>5, <2>6, <2>8 DEF SlotsConserved, Side
  <2> QED BY <2>7, <2>9, <2>10 DEF SlotsConserved
<1>9. Settled' /\ NeverInconsistent'
  <2>1. mtx' = None => taken' = taken
    BY <1>0, <1>1, <1>4, ThreadAssumption DEF Role
  <2> QED BY <1>0, <1>1, <2>1 DEF Settled, NeverInconsistent
<1> QED BY <1>5, <1>6, <1>7, <1>8, <1>9 DEF IInv

\* Where a caller goes that found no slot.  shutdown() returns only after it has
\* eaten all write slots.
LEMMA RefusalFacts ==
    ASSUME IInv, NEW t \in Thread, pc[t] \in {"add", "notifyFail"}
    PROVE  /\ AfterRefusal(t).at \in {"poll", "sub", "idle"} /\ AfterRefusal(t).on \in Side
           /\ op[t].kind # "startup"
           /\ op[t].kind = "shutdown" =>
                 /\ AfterRefusal(t).at # "poll"
                 /\ AfterRefusal(t).at = "idle" => taken = N
<1>0. TypeOK /\ SlotsConserved /\ Role(t)
  BY DEF IInv
<1>1. on[t] \in Side
  BY <1>0 DEF TypeOK
<1>2. op[t].kind = "shutdown" => op[t].wait # "select"
  BY <1>0 DEF Role
<1>3. op[t].kind # "startup"
  BY <1>0 DEF Role
<1>4. taken <= N
  <2>1. Cardinality(Holding) \in Nat
    <3>1. Holding \in SUBSET Thread
      BY DEF Holding
    <3> QED BY <3>1, ThreadAssumption, FS_Subset, FS_CardinalityType
  <2>2. Real("wr") \in Int
    <3>1. At({"add"}, "wr") \in SUBSET Thread
      BY DEF At
    <3>2. Cardinality(At({"add"}, "wr")) \in Nat
      BY <3>1, ThreadAssumption, FS_Subset, FS_CardinalityType
    <3>3. slots["wr"] \in Int
      BY <1>0 DEF TypeOK, Side
    <3> QED BY <3>2, <3>3 DEF Real
  <2>3. taken \in Nat /\ Len(fifo) \in Nat /\ N \in Nat
    BY <1>0, DepthAssumption DEF TypeOK
  <2>4. Real("wr") >= 0 /\ Real("wr") + Cardinality(Holding) + Len(fifo) + taken = N
    BY <1>0 DEF SlotsConserved
  <2> QED BY <2>1, <2>2, <2>3, <2>4
<1>5. taken \in Nat /\ N \in Nat
  BY <1>0, DepthAssumption DEF TypeOK
<1>6. CASE op[t].wait = "select"
  BY <1>1, <1>2, <1>3, <1>6 DEF AfterRefusal
<1>7. CASE op[t].wait # "select" /\ op[t].kind = "shutdown" /\ on[t] = "wr"
  BY <1>1, <1>7 DEF AfterRefusal, Side
<1>8. CASE op[t].wait # "select" /\ op[t].kind = "shutdown" /\ on[t] = "rd" /\ taken < N
  <2>1. AfterRefusal(t) = [at |-> "sub", on |-> "wr"]
    BY <1>8 DEF AfterRefusal
  <2> QED BY <2>1, <1>8 DEF Side
<1>9. CASE op[t].wait # "select" /\ op[t].kind = "shutdown" /\ on[t] = "rd" /\ ~(taken < N)
  <2>1. AfterRefusal(t) = [at |-> "idle", on |-> on[t]]
    BY <1>9 DEF AfterRefusal
  <2>2. taken = N
    BY <1>4, <1>5, <1>9
  <2> QED BY <2>1, <2>2, <1>1, <1>9
<1>10. CASE op[t].wait # "select" /\ op[t].kind # "shutdown"
  <2>1. AfterRefusal(t) = [at |-> "idle", on |-> on[t]]
    BY <1>10 DEF AfterRefusal
  <2> QED BY <2>1, <1>1, <1>3, <1>10
<1> QED BY <1>1, <1>6, <1>7, <1>8, <1>9, <1>10 DEF Side

\* A caller that is refused keeps roles, and releases mtx_ when all slots are eaten.
LEMMA RefusedRoles ==
    ASSUME IInv, NEW t \in Thread, pc[t] \in {"add", "notifyFail"},
           Moved(t, AfterRefusal(t).at, AfterRefusal(t).on), Same(t, AfterRefusal(t).at),
           Unlock(t, AfterRefusal(t)), UNCHANGED <<isUp, taken>>
    PROVE  (\A u \in Thread : Role(u)') /\ Settled' /\ mtx' \in Thread \cup {None}
<1>0. TypeOK /\ Settled /\ (\A u \in Thread : Role(u))
  BY DEF IInv
<1> DEFINE a == AfterRefusal(t).at
<1>1. /\ a \in {"poll", "sub", "idle"} /\ op[t].kind # "startup"
      /\ op[t].kind = "shutdown" => a # "poll" /\ (a = "idle" => taken = N)
  BY RefusalFacts
<1>2. /\ pc'[t] = a /\ (a = "idle" => op'[t] = NoOp) /\ (a # "idle" => op'[t] = op[t])
      /\ mtx' = IF mtx = t /\ a = "idle" THEN None ELSE mtx
  BY DEF Moved, Same, Unlock
<1>3. \A u \in Thread \ {t} : Role(u)'
  <2> SUFFICES ASSUME NEW u \in Thread \ {t} PROVE Role(u)'
    OBVIOUS
  <2>1. mtx' = u <=> mtx = u
    BY <1>2, ThreadAssumption
  <2> QED BY <1>0, <2>1, OthersKeepRole
<1> HIDE DEF a
<1>4. Role(t)'
  <2>1. Role(t)
    BY <1>0
  <2>2. CASE a = "idle"
    <3>1. mtx' # t
      BY <1>2, <2>2, ThreadAssumption
    <3> QED BY <1>2, <2>2, <3>1 DEF Role, NoOp
  <2>3. CASE a # "idle"
    BY <1>1, <1>2, <2>1, <2>3 DEF Role
  <2> QED BY <2>2, <2>3
<1>5. Settled'
  <2>1. CASE mtx = t /\ a = "idle"
    <3>1. op[t].kind = "shutdown" /\ ~isUp
      <4>1. Role(t)
        BY <1>0
      <4> QED BY <1>1, <2>1, <4>1 DEF Role
    <3> QED BY <1>1, <2>1, <3>1 DEF Settled
  <2>2. CASE ~(mtx = t /\ a = "idle")
    BY <1>0, <1>2, <2>2 DEF Settled
  <2> QED BY <2>1, <2>2
<1>6. mtx' \in Thread \cup {None}
  BY <1>0, <1>2 DEF TypeOK
<1>7. \A u \in Thread : Role(u)'
  BY <1>3, <1>4
<1> QED BY <1>5, <1>6, <1>7

\* The notification of a caller that was refused.
LEMMA NotifyRestoredStep ==
    ASSUME IInv, NEW t \in Thread, NotifyRestored(t)
    PROVE  IInv'
<1>0. TypeOK /\ SlotsConserved /\ NeverInconsistent
  BY DEF IInv
<1>1. /\ pc[t] = "notifyFail" /\ Signal(t, AfterRefusal(t)) /\ Unlock(t, AfterRefusal(t))
      /\ UNCHANGED <<slots, pending, lock, fifo, isUp, taken, panic, ops>>
  BY DEF NotifyRestored
<1>2. AfterRefusal(t).at \in {"poll", "sub", "idle"} /\ AfterRefusal(t).on \in Side
  BY <1>1, RefusalFacts
<1>3. Moved(t, AfterRefusal(t).at, AfterRefusal(t).on) /\ Same(t, AfterRefusal(t).at)
  <2>1. AfterRefusal(t).at \in PC
    BY <1>2 DEF PC
  <2> QED BY <1>0, <1>1, <1>2, <2>1, SignalMoves
<1>4. (\A u \in Thread : Role(u)') /\ Settled' /\ mtx' \in Thread \cup {None}
  BY <1>1, <1>3, RefusedRoles
<1>5. TypeOK'
  BY <1>0, <1>1, <1>3, <1>4 DEF TypeOK, Moved
<1>6. SlotsConserved'
  <2>1. ~Busy(t) /\ ~Busy(t)'
    BY <1>1, <1>2, <1>3 DEF Busy, Moved
  <2> QED BY <1>0, <1>1, <1>3, <2>1, BalanceKept
<1>7. NeverInconsistent'
  BY <1>0, <1>1 DEF NeverInconsistent
<1> QED BY <1>4, <1>5, <1>6, <1>7 DEF IInv

\* fetch_add() of a caller that found no slot: what the counter is worth stays.
LEMMA FetchAddStep ==
    ASSUME IInv, NEW t \in Thread, FetchAdd(t)
    PROVE  IInv'
<1>0. TypeOK /\ SlotsConserved /\ Settled /\ NeverInconsistent /\ (\A u \in Thread : Role(u))
  BY DEF IInv
<1>1. /\ pc[t] = "add"
      /\ UNCHANGED <<pending, lock, fifo, isUp, taken, panic, ops>>
  BY DEF FetchAdd
<1>2. on[t] \in Side /\ slots \in [Side -> Int]
  BY <1>0 DEF TypeOK
<1>3. /\ slots' \in [Side -> Int] /\ slots'[on[t]] = slots[on[t]] + 1
      /\ \A r \in Side \ {on[t]} : slots'[r] = slots[r]
  BY <1>2 DEF FetchAdd
<1>4. ASSUME NEW l \in {"poll", "notifyFail"}, Goto(t, l, on[t]), UNCHANGED mtx,
             l = "poll" => op[t].wait \in {"timed", "forever"}
      PROVE  /\ Moved(t, l, on[t])
             /\ (\A u \in Thread : Role(u)') /\ Settled' /\ mtx' \in Thread \cup {None}
  <2>1. l \in PC /\ l # "idle"
    BY DEF PC
  <2>2. Moved(t, l, on[t]) /\ op'[t] = op[t]
    BY <1>0, <1>2, <1>4, <2>1, GotoMoves DEF Same
  <2>3. \A u \in Thread \ {t} : Role(u)'
    BY <1>0, <1>1, <1>4, <2>2, OthersKeepRole
  <2>4. Role(t)'
    <3>1. Role(t)
      BY <1>0
    <3> QED BY <1>1, <1>4, <2>2, <3>1 DEF Role, Moved
  <2>5. Settled' /\ mtx' \in Thread \cup {None}
    BY <1>0, <1>1, <1>4 DEF Settled, TypeOK
  <2> QED BY <2>2, <2>3, <2>4, <2>5
<1>5. \E l \in PC, r \in Side :
        /\ l \in {"poll", "notifyFail", "sub", "idle"} /\ Moved(t, l, r)
        /\ (\A u \in Thread : Role(u)') /\ Settled' /\ mtx' \in Thread \cup {None}
  <2>1. CASE op[t].wait \in {"timed", "forever"}
    <3>1. Goto(t, "poll", on[t]) /\ UNCHANGED mtx
      BY <2>1 DEF FetchAdd
    <3> QED BY <1>2, <1>4, <2>1, <3>1 DEF PC
  <2>2. CASE op[t].wait \notin {"timed", "forever"} /\ AnnounceRestored(slots[on[t]])
    <3>1. Goto(t, "notifyFail", on[t]) /\ UNCHANGED mtx
      BY <2>2 DEF FetchAdd
    <3> QED BY <1>2, <1>4, <3>1 DEF PC
  <2>3. CASE op[t].wait \notin {"timed", "forever"} /\ ~AnnounceRestored(slots[on[t]])
    <3>1. Goto(t, AfterRefusal(t).at, AfterRefusal(t).on) /\ Unlock(t, AfterRefusal(t))
      BY <2>3 DEF FetchAdd
    <3>2. AfterRefusal(t).at \in {"poll", "sub", "idle"} /\ AfterRefusal(t).on \in Side
      BY <1>1, RefusalFacts
    <3>3. AfterRefusal(t).at \in PC
      BY <3>2 DEF PC
    <3>4. Moved(t, AfterRefusal(t).at, AfterRefusal(t).on) /\ Same(t, AfterRefusal(t).at)
      BY <1>0, <3>1, <3>2, <3>3, GotoMoves
    <3>5. (\A u \in Thread : Role(u)') /\ Settled' /\ mtx' \in Thread \cup {None}
      BY <1>1, <3>1, <3>4, RefusedRoles
    <3> QED BY <3>2, <3>3, <3>4, <3>5
  <2> QED BY <2>1, <2>2, <2>3
<1> PICK l \in PC, r \in Side :
        /\ l \in {"poll", "notifyFail", "sub", "idle"} /\ Moved(t, l, r)
        /\ (\A u \in Thread : Role(u)') /\ Settled' /\ mtx' \in Thread \cup {None}
  BY <1>5
<1>6. TypeOK'
  BY <1>0, <1>1, <1>3 DEF TypeOK, Moved
<1>7. SlotsConserved'
  <2>1. Tallies(t) /\ Counted(t) /\ Counted(t)'
    BY <1>0, StepTallies, ThreadCounted
  <2>2. pc'[t] \in {"poll", "notifyFail", "sub", "idle"}
    BY DEF Moved
  <2> PICK s \in Side : s = on[t]
    BY <1>2
  <2>3. /\ Cardinality(At({"add"}, s))' = Cardinality(At({"add"}, s)) - 1
        /\ \A x \in Side \ {s} : Cardinality(At({"add"}, x))' = Cardinality(At({"add"}, x))
        /\ \A x \in Side : Cardinality(At({"add"}, x)) \in Nat
        /\ Cardinality(Holding)' = Cardinality(Holding)
        /\ Cardinality(At({"dequeue", "put"}, "rd"))' = Cardinality(At({"dequeue", "put"}, "rd"))
    BY <1>1, <2>1, <2>2 DEF Tallies, Tally, Counted, Side
  <2>4. Real(s)' = Real(s)
    BY <1>2, <1>3, <2>3 DEF Real
  <2>5. \A x \in Side \ {s} : Real(x)' = Real(x)
    BY <1>2, <1>3, <2>3 DEF Real
  <2>6. Real("rd")' = Real("rd") /\ Real("wr")' = Real("wr")
    BY <2>4, <2>5 DEF Side
  <2> QED BY <1>0, <1>1, <2>3, <2>6 DEF SlotsConserved
<1>8. NeverInconsistent'
  BY <1>0, <1>1 DEF NeverInconsistent
<1> QED BY <1>6, <1>7, <1>8 DEF IInv

\* putSlot() returns the slot a thread holds, or one that startup() has.
LEMMA PutStep ==
    ASSUME IInv, NEW t \in Thread, Put(t)
    PROVE  IInv'
<1>0. TypeOK /\ SlotsConserved /\ Settled /\ NeverInconsistent /\ (\A u \in Thread : Role(u))
  BY DEF IInv
<1> DEFINE up == op[t].kind = "startup"
<1>1. /\ pc[t] = "put" /\ Goto(t, "notifyPut", on[t])
      /\ taken' = IF up THEN taken - 1 ELSE taken
      /\ UNCHANGED <<pending, lock, fifo, isUp, mtx, panic, ops>>
  BY DEF Put
<1>2. on[t] \in Side /\ slots \in [Side -> Int]
  BY <1>0 DEF TypeOK
<1>3. /\ slots' \in [Side -> Int] /\ slots'[on[t]] = slots[on[t]] + 1
      /\ \A r \in Side \ {on[t]} : slots'[r] = slots[r]
  BY <1>2 DEF Put
<1>4. Moved(t, "notifyPut", on[t]) /\ op'[t] = op[t]
  <2>1. "notifyPut" \in PC
    BY DEF PC
  <2> QED BY <1>0, <1>1, <1>2, <2>1, GotoMoves DEF Same
<1>5. up => taken > 0 /\ mtx = t /\ on[t] = "wr"
  BY <1>0, <1>1 DEF Role
<1> HIDE DEF up
<1>6. TypeOK'
  <2>1. taken' \in Nat
    BY <1>0, <1>1, <1>5 DEF TypeOK
  <2> QED BY <1>0, <1>1, <1>3, <1>4, <2>1 DEF TypeOK, Moved
<1>7. \A u \in Thread \ {t} : Role(u)'
  <2>1. \A u \in Thread \ {t} : taken' = taken \/ mtx # u
    BY <1>1, <1>5
  <2> QED BY <1>0, <1>1, <1>4, <2>1, OthersKeepRole
<1>8. Role(t)'
  <2>1. Role(t)
    BY <1>0
  <2> QED BY <1>1, <1>4, <2>1 DEF Role, Moved
<1>9. SlotsConserved'
  <2>1. Tallies(t) /\ Counted(t) /\ Counted(t)'
    BY <1>0, <1>4, StepTallies, ThreadCounted
  <2>2. pc'[t] = "notifyPut"
    BY <1>4 DEF Moved
  <2>3. \A r \in Side : /\ Cardinality(At({"add"}, r))' = Cardinality(At({"add"}, r))
                        /\ Cardinality(At({"add"}, r)) \in Nat
    BY <1>1, <2>1, <2>2 DEF Tallies, Tally, Counted, Side
  <2>4. /\ Cardinality(Holding)' = Cardinality(Holding)
             - (IF on[t] = "wr" /\ ~up THEN 1 ELSE 0)
        /\ Cardinality(Holding) \in Nat
    BY <1>1, <1>2, <2>1, <2>2 DEF Tallies, Tally, Counted, Side, up
  <2>5. /\ Cardinality(At({"dequeue", "put"}, "rd"))' = Cardinality(At({"dequeue", "put"}, "rd"))
             - (IF on[t] = "rd" THEN 1 ELSE 0)
        /\ Cardinality(At({"dequeue", "put"}, "rd")) \in Nat
    BY <1>1, <1>2, <2>1, <2>2 DEF Tallies, Tally, Counted, Side
  <2>6. /\ Real("rd")' = Real("rd") + (IF on[t] = "rd" THEN 1 ELSE 0)
        /\ Real("wr")' = Real("wr") + (IF on[t] = "wr" THEN 1 ELSE 0)
        /\ Real("rd") \in Int /\ Real("wr") \in Int
    BY <1>2, <1>3, <2>3 DEF Real, Side
  <2>7. Real("rd")' >= 0 /\ Real("wr")' >= 0
    BY <1>0, <2>6 DEF SlotsConserved
  <2>8. taken \in Nat /\ Len(fifo) \in Nat /\ fifo' = fifo
    BY <1>0, <1>1 DEF TypeOK
  <2>9. Real("wr")' + Cardinality(Holding)' + Len(fifo)' + taken' = N
    <3>1. Real("wr") + Cardinality(Holding) + Len(fifo) + taken = N
      BY <1>0 DEF SlotsConserved
    <3>2. CASE on[t] = "wr" /\ up
      <4>1. /\ Real("wr")' = Real("wr") + 1 /\ taken' = taken - 1
            /\ Cardinality(Holding)' = Cardinality(Holding)
        BY <1>1, <2>4, <2>6, <3>2
      <4> QED BY <2>4, <2>6, <2>8, <3>1, <4>1
    <3>3. CASE on[t] = "wr" /\ ~up
      <4>1. /\ Real("wr")' = Real("wr") + 1 /\ taken' = taken
            /\ Cardinality(Holding)' = Cardinality(Holding) - 1
        BY <1>1, <2>4, <2>6, <3>3
      <4> QED BY <2>4, <2>6, <2>8, <3>1, <4>1
    <3>4. CASE on[t] = "rd" /\ ~up
      BY <1>1, <2>4, <2>6, <2>8, <3>1, <3>4
    <3> QED BY <1>2, <1>5, <3>2, <3>3, <3>4 DEF Side
  <2>10. Real("rd")' + Cardinality(At({"dequeue", "put"}, "rd"))' = Len(fifo)'
    BY <1>0, <1>2, <2>5, <2>6, <2>8 DEF SlotsConserved, Side
  <2> QED BY <2>7, <2>9, <2>10 DEF SlotsConserved
<1>10. Settled' /\ NeverInconsistent'
  <2>1. mtx' = None => taken' = taken
    BY <1>1, <1>5, ThreadAssumption
  <2> QED BY <1>0, <1>1, <2>1 DEF Settled, NeverInconsistent
<1> QED BY <1>6, <1>7, <1>8, <1>9, <1>10 DEF IInv

\* The notification after putSlot().  startup() returns when it has returned all slots.
LEMMA NotifyPutStep ==
    ASSUME IInv, NEW t \in Thread, NotifyPut(t)
    PROVE  IInv'
<1>0. TypeOK /\ SlotsConserved /\ Settled /\ NeverInconsistent /\ (\A u \in Thread : Role(u))
  BY DEF IInv
<1>1. /\ pc[t] = "notifyPut" /\ Signal(t, AfterPut(t)) /\ Unlock(t, AfterPut(t))
      /\ UNCHANGED <<slots, pending, lock, fifo, isUp, taken, panic, ops>>
  BY DEF NotifyPut
<1> DEFINE a == AfterPut(t).at
           k == op[t].kind
<1>2. /\ a \in {"sub", "put", "idle"} /\ AfterPut(t).on \in Side
      /\ k = "shutdown" => a = "sub" /\ AfterPut(t).on = "rd"
      /\ a = "put" => k = "startup" /\ taken > 0 /\ AfterPut(t).on = "wr"
      /\ k = "startup" /\ a # "put" => a = "idle" /\ taken = 0
  <2>1. on[t] \in Side /\ taken \in Nat
    BY <1>0 DEF TypeOK
  <2>2. CASE k = "shutdown"
    BY <2>2 DEF AfterPut, Side
  <2>3. CASE k = "startup" /\ taken > 0
    <3>1. AfterPut(t) = [at |-> "put", on |-> "wr"]
      BY <2>3 DEF AfterPut
    <3> QED BY <2>3, <3>1 DEF Side
  <2>4. CASE k # "shutdown" /\ ~(k = "startup" /\ taken > 0)
    <3>1. AfterPut(t) = [at |-> "idle", on |-> on[t]]
      BY <2>4 DEF AfterPut
    <3> QED BY <2>1, <2>4, <3>1
  <2> QED BY <2>2, <2>3, <2>4
<1>3. Moved(t, a, AfterPut(t).on) /\ Same(t, a)
  <2>1. a \in PC
    BY <1>2 DEF PC
  <2> QED BY <1>0, <1>1, <1>2, <2>1, SignalMoves
<1>4. /\ pc'[t] = a /\ (a = "idle" => op'[t] = NoOp) /\ (a # "idle" => op'[t] = op[t])
      /\ (a # "idle" => on'[t] = AfterPut(t).on)
      /\ mtx' = IF mtx = t /\ a = "idle" THEN None ELSE mtx
  BY <1>1, <1>3 DEF Moved, Same, Unlock
<1>5. TypeOK'
  <2>1. mtx' \in Thread \cup {None}
    BY <1>0, <1>4 DEF TypeOK
  <2> QED BY <1>0, <1>1, <1>3, <2>1 DEF TypeOK, Moved
<1>6. \A u \in Thread \ {t} : Role(u)'
  <2> SUFFICES ASSUME NEW u \in Thread \ {t} PROVE Role(u)'
    OBVIOUS
  <2>1. mtx' = u <=> mtx = u
    BY <1>4, ThreadAssumption
  <2> QED BY <1>0, <1>1, <1>3, <2>1, OthersKeepRole
<1>7. SlotsConserved'
  <2>1. ~Busy(t)
    BY <1>1 DEF Busy
  <2>2. ~Busy(t)'
    BY <1>2, <1>4 DEF Busy
  <2> QED BY <1>0, <1>1, <1>3, <2>1, <2>2, BalanceKept
<1> HIDE DEF a
<1>8. Role(t)'
  <2>1. Role(t)
    BY <1>0
  <2>2. CASE a = "idle"
    <3>1. mtx' # t
      BY <1>4, <2>2, ThreadAssumption
    <3> QED BY <1>4, <2>2, <3>1 DEF Role, NoOp
  <2>3. CASE a # "idle"
    BY <1>1, <1>2, <1>4, <2>1, <2>3 DEF Role
  <2> QED BY <2>2, <2>3
<1>9. Settled' /\ NeverInconsistent'
  <2>1. CASE mtx = t /\ a = "idle"
    <3>1. Role(t)
      BY <1>0
    <3>2. k = "startup" /\ isUp /\ taken = 0
      BY <1>2, <2>1, <3>1 DEF Role
    <3> QED BY <1>0, <1>1, <3>2 DEF Settled, NeverInconsistent
  <2>2. CASE ~(mtx = t /\ a = "idle")
    BY <1>0, <1>1, <1>4, <2>2 DEF Settled, NeverInconsistent
  <2> QED BY <2>1, <2>2
<1>10. \A u \in Thread : Role(u)'
  BY <1>6, <1>8
<1> QED BY <1>5, <1>7, <1>9, <1>10 DEF IInv

\* bounded_push(): a thread that holds a write slot finds room.
LEMMA EnqueueStep ==
    ASSUME IInv, NEW t \in Thread, Enqueue(t)
    PROVE  IInv'
<1>0. TypeOK /\ SlotsConserved /\ Settled /\ NeverInconsistent /\ (\A u \in Thread : Role(u))
  BY DEF IInv
<1>1. pc[t] = "enqueue" /\ UNCHANGED <<slots, pending, lock, isUp, mtx, taken, ops>>
  BY DEF Enqueue
<1>2. /\ on[t] = "wr" /\ op[t].kind \notin {"startup", "shutdown"}
      /\ op[t].item \in Nat /\ fifo \in Seq(Nat) /\ mtx # t
  <2>1. op[t] \in Op
    BY <1>0 DEF TypeOK
  <2>2. op[t].item \in Nat
    BY <2>1 DEF Op
  <2> QED BY <1>0, <1>1, <2>2 DEF Role, TypeOK
<1>3. Len(fifo) < N
  <2>1. t \in Holding
    BY <1>1, <1>2 DEF Holding
  <2>2. Cardinality(Holding) \in Nat /\ Cardinality(Holding) > 0
    <3>1. Holding \in SUBSET Thread
      BY DEF Holding
    <3> QED BY <2>1, <3>1, CountChange
  <2>3. Cardinality(At({"add"}, "wr")) \in Nat /\ slots["wr"] \in Int
    <3>1. At({"add"}, "wr") \in SUBSET Thread
      BY DEF At
    <3>2. Cardinality(At({"add"}, "wr")) \in Nat
      BY <3>1, ThreadAssumption, FS_Subset, FS_CardinalityType
    <3> QED BY <1>0, <3>2 DEF TypeOK, Side
  <2>4. Real("wr") \in Int
    BY <2>3 DEF Real
  <2>5. Real("wr") >= 0 /\ Real("wr") + Cardinality(Holding) + Len(fifo) + taken = N
    BY <1>0 DEF SlotsConserved
  <2>6. Len(fifo) \in Nat /\ taken \in Nat /\ N \in Nat
    BY <1>0, DepthAssumption DEF TypeOK
  <2> QED BY <2>2, <2>4, <2>5, <2>6
<1>4. fifo' = Append(fifo, op[t].item) /\ Goto(t, "put", "rd") /\ UNCHANGED panic
  BY <1>3 DEF Enqueue
<1>5. fifo' \in Seq(Nat) /\ Len(fifo') = Len(fifo) + 1 /\ Len(fifo) \in Nat
  BY <1>2, <1>4
<1>6. Moved(t, "put", "rd") /\ op'[t] = op[t]
  <2>1. "put" \in PC /\ "rd" \in Side
    BY DEF PC, Side
  <2> QED BY <1>0, <1>4, <2>1, GotoMoves DEF Same
<1>7. TypeOK'
  BY <1>0, <1>1, <1>4, <1>5, <1>6 DEF TypeOK, Moved
<1>8. \A u \in Thread \ {t} : Role(u)'
  BY <1>0, <1>1, <1>6, OthersKeepRole
<1>9. Role(t)'
  BY <1>1, <1>2, <1>6 DEF Role, Moved
<1>10. SlotsConserved'
  <2>1. Tallies(t) /\ Counted(t) /\ Counted(t)'
    BY <1>0, <1>6, StepTallies, ThreadCounted
  <2>2. pc'[t] = "put" /\ on'[t] = "rd"
    BY <1>6 DEF Moved
  <2>3. /\ Cardinality(At({"add"}, "rd"))' = Cardinality(At({"add"}, "rd"))
        /\ Cardinality(At({"add"}, "wr"))' = Cardinality(At({"add"}, "wr"))
        /\ Cardinality(At({"add"}, "rd")) \in Nat /\ Cardinality(At({"add"}, "wr")) \in Nat
    BY <1>1, <2>1, <2>2 DEF Tallies, Tally, Counted, Side
  <2>4. /\ Cardinality(Holding)' = Cardinality(Holding) - 1
        /\ Cardinality(Holding) \in Nat
    BY <1>1, <1>2, <2>1, <2>2 DEF Tallies, Tally, Counted
  <2>5. /\ Cardinality(At({"dequeue", "put"}, "rd"))' = Cardinality(At({"dequeue", "put"}, "rd")) + 1
        /\ Cardinality(At({"dequeue", "put"}, "rd")) \in Nat
    BY <1>1, <1>2, <2>1, <2>2 DEF Tallies, Tally, Counted
  <2>6. Real("rd")' = Real("rd") /\ Real("wr")' = Real("wr")
    BY <1>1, <2>3 DEF Real
  <2>7. Real("rd") \in Int /\ Real("wr") \in Int /\ taken' = taken /\ taken \in Nat
    BY <1>0, <1>1, <2>3 DEF Real, TypeOK, Side
  <2>8. /\ Real("wr") >= 0 /\ Real("rd") >= 0
        /\ Real("wr") + Cardinality(Holding) + Len(fifo) + taken = N
        /\ Real("rd") + Cardinality(At({"dequeue", "put"}, "rd")) = Len(fifo)
    BY <1>0 DEF SlotsConserved
  <2>9. Real("wr")' + Cardinality(Holding)' + Len(fifo') + taken' = N
    BY <1>5, <2>4, <2>6, <2>7, <2>8
  <2>10. Real("rd")' + Cardinality(At({"dequeue", "put"}, "rd"))' = Len(fifo')
    BY <1>5, <2>5, <2>6, <2>7, <2>8
  <2> QED BY <2>6, <2>8, <2>9, <2>10 DEF SlotsConserved
<1>11. Settled' /\ NeverInconsistent'
  BY <1>0, <1>1, <1>4 DEF Settled, NeverInconsistent
<1>12. \A u \in Thread : Role(u)'
  BY <1>8, <1>9
<1> QED BY <1>7, <1>10, <1>11, <1>12 DEF IInv

\* CBufQueueBase::pop(): a thread that holds a read slot finds a chain.
LEMMA DequeueStep ==
    ASSUME IInv, NEW t \in Thread, Dequeue(t)
    PROVE  IInv'
<1>0. TypeOK /\ SlotsConserved /\ Settled /\ NeverInconsistent /\ (\A u \in Thread : Role(u))
  BY DEF IInv
<1>1. pc[t] = "dequeue" /\ UNCHANGED <<slots, pending, lock, isUp, taken, ops>>
  BY DEF Dequeue
<1>2. on[t] = "rd" /\ op[t].kind # "startup" /\ fifo \in Seq(Nat)
  BY <1>0, <1>1 DEF Role, TypeOK
<1>3. Len(fifo) > 0
  <2>1. t \in At({"dequeue", "put"}, "rd")
    BY <1>1, <1>2 DEF At
  <2>2. /\ Cardinality(At({"dequeue", "put"}, "rd")) \in Nat
        /\ Cardinality(At({"dequeue", "put"}, "rd")) > 0
    <3>1. At({"dequeue", "put"}, "rd") \in SUBSET Thread
      BY DEF At
    <3> QED BY <2>1, <3>1, CountChange
  <2>3. Cardinality(At({"add"}, "rd")) \in Nat /\ slots["rd"] \in Int
    <3>1. At({"add"}, "rd") \in SUBSET Thread
      BY DEF At
    <3>2. Cardinality(At({"add"}, "rd")) \in Nat
      BY <3>1, ThreadAssumption, FS_Subset, FS_CardinalityType
    <3> QED BY <1>0, <3>2 DEF TypeOK, Side
  <2>4. Real("rd") \in Int
    BY <2>3 DEF Real
  <2>5. Real("rd") >= 0 /\ Real("rd") + Cardinality(At({"dequeue", "put"}, "rd")) = Len(fifo)
    BY <1>0 DEF SlotsConserved
  <2> QED BY <2>2, <2>4, <2>5
<1>4. fifo' = Tail(fifo) /\ Goto(t, "put", "wr") /\ UNCHANGED <<panic, mtx>>
  <2>1. fifo # <<>>
    BY <1>2, <1>3
  <2> QED BY <2>1 DEF Dequeue
<1>5. fifo' \in Seq(Nat) /\ Len(fifo') = Len(fifo) - 1 /\ Len(fifo) \in Nat
  <2>1. fifo # <<>>
    BY <1>2, <1>3
  <2> QED BY <1>2, <1>4, <2>1
<1>6. Moved(t, "put", "wr") /\ op'[t] = op[t]
  <2>1. "put" \in PC /\ "wr" \in Side
    BY DEF PC, Side
  <2> QED BY <1>0, <1>4, <2>1, GotoMoves DEF Same
<1>7. TypeOK'
  BY <1>0, <1>1, <1>4, <1>5, <1>6 DEF TypeOK, Moved
<1>8. \A u \in Thread \ {t} : Role(u)'
  BY <1>0, <1>1, <1>4, <1>6, OthersKeepRole
<1>9. Role(t)'
  <2>1. Role(t)
    BY <1>0
  <2> QED BY <1>1, <1>2, <1>4, <1>6, <2>1 DEF Role, Moved
<1>10. SlotsConserved'
  <2>1. Tallies(t) /\ Counted(t) /\ Counted(t)'
    BY <1>0, <1>6, StepTallies, ThreadCounted
  <2>2. pc'[t] = "put" /\ on'[t] = "wr"
    BY <1>6 DEF Moved
  <2>3. /\ Cardinality(At({"add"}, "rd"))' = Cardinality(At({"add"}, "rd"))
        /\ Cardinality(At({"add"}, "wr"))' = Cardinality(At({"add"}, "wr"))
        /\ Cardinality(At({"add"}, "rd")) \in Nat /\ Cardinality(At({"add"}, "wr")) \in Nat
    BY <1>1, <2>1, <2>2 DEF Tallies, Tally, Counted, Side
  <2>4. /\ Cardinality(Holding)' = Cardinality(Holding) + 1
        /\ Cardinality(Holding) \in Nat
    BY <1>1, <1>2, <1>6, <2>1, <2>2 DEF Tallies, Tally, Counted
  <2>5. /\ Cardinality(At({"dequeue", "put"}, "rd"))' = Cardinality(At({"dequeue", "put"}, "rd")) - 1
        /\ Cardinality(At({"dequeue", "put"}, "rd")) \in Nat
    BY <1>1, <1>2, <2>1, <2>2 DEF Tallies, Tally, Counted
  <2>6. Real("rd")' = Real("rd") /\ Real("wr")' = Real("wr")
    BY <1>1, <2>3 DEF Real
  <2>7. Real("rd") \in Int /\ Real("wr") \in Int /\ taken' = taken /\ taken \in Nat
    BY <1>0, <1>1, <2>3 DEF Real, TypeOK, Side
  <2>8. /\ Real("wr") >= 0 /\ Real("rd") >= 0
        /\ Real("wr") + Cardinality(Holding) + Len(fifo) + taken = N
        /\ Real("rd") + Cardinality(At({"dequeue", "put"}, "rd")) = Len(fifo)
    BY <1>0 DEF SlotsConserved
  <2>9. Real("wr")' + Cardinality(Holding)' + Len(fifo') + taken' = N
    BY <1>5, <2>4, <2>6, <2>7, <2>8
  <2>10. Real("rd")' + Cardinality(At({"dequeue", "put"}, "rd"))' = Len(fifo')
    BY <1>5, <2>5, <2>6, <2>7, <2>8
  <2> QED BY <2>6, <2>8, <2>9, <2>10 DEF SlotsConserved
<1>11. Settled' /\ NeverInconsistent'
  BY <1>0, <1>1, <1>4 DEF Settled, NeverInconsistent
<1>12. \A u \in Thread : Role(u)'
  BY <1>8, <1>9
<1> QED BY <1>7, <1>10, <1>11, <1>12 DEF IInv

-----------------------------------------------------------------------------
(* The theorems.                                                            *)

\* All slots are in the counter of the writers.
LEMMA InitInv ==
    ASSUME Init PROVE IInv
<1>1. NoOp \in Op
  BY DEF NoOp, Op, Kind, Mode
<1>2. TypeOK
  <2>1. slots \in [Side -> Int]
    BY DepthAssumption DEF Init, Side
  <2>2. pc \in [Thread -> PC] /\ on \in [Thread -> Side] /\ op \in [Thread -> Op]
    BY <1>1 DEF Init, PC, Side
  <2>3. pending \in [Side -> BOOLEAN] /\ lock \in [Side -> Thread \cup {None}]
    BY DEF Init
  <2>4. /\ fifo \in Seq(Nat) /\ isUp \in BOOLEAN /\ panic \in BOOLEAN
        /\ mtx \in Thread \cup {None} /\ taken \in Nat /\ ops \in Nat
    <3>1. fifo = <<>> /\ isUp = TRUE /\ panic = FALSE /\ mtx = None /\ taken = 0 /\ ops = 0
      BY DEF Init
    <3>2. fifo \in Seq(Nat) /\ taken \in Nat /\ ops \in Nat
      BY <3>1
    <3>3. isUp \in BOOLEAN /\ panic \in BOOLEAN /\ mtx \in Thread \cup {None}
      BY <3>1
    <3> QED BY <3>2, <3>3
  <2> QED BY <2>1, <2>2, <2>3, <2>4 DEF TypeOK
<1>3. \A t \in Thread : Role(t)
  BY ThreadAssumption DEF Init, Role, NoOp
<1>4. At({"add"}, "rd") = {} /\ At({"add"}, "wr") = {} /\ Holding = {} /\ At({"dequeue", "put"}, "rd") = {}
  BY DEF Init, At, Holding
<1>5. slots["rd"] = 0 /\ slots["wr"] = N /\ Len(fifo) = 0 /\ taken = 0
  BY DEF Init, Side
<1>6. SlotsConserved
  <2>1. Cardinality({}) = 0
    BY FS_EmptySet
  <2>2. Real("rd") = 0 /\ Real("wr") = N
    <3>1. Real("rd") = 0 + 0 /\ Real("wr") = N + 0
      BY <1>4, <1>5, <2>1 DEF Real
    <3> QED BY <3>1, DepthAssumption
  <2>3. Cardinality(Holding) = 0 /\ Cardinality(At({"dequeue", "put"}, "rd")) = 0
    BY <1>4, <2>1
  <2> QED BY <1>5, <2>2, <2>3, DepthAssumption DEF SlotsConserved
<1> QED BY <1>2, <1>3, <1>6 DEF IInv, Init, Settled, NeverInconsistent

\* Every step of every thread preserves the invariant.
LEMMA NextInv ==
    ASSUME IInv, [Next]_vars PROVE IInv'
<1>0. TypeOK
  BY DEF IInv
<1>1. CASE UNCHANGED vars
  BY <1>1 DEF IInv, vars, TypeOK, Role, Settled, SlotsConserved, NeverInconsistent, Real, At, Holding
<1>2. ASSUME NEW t \in Thread, CallPop(t) PROVE IInv'
  <2>1. PICK w \in Modes \ {"ifroom"} : Call(t, "pop", w, First(w), "rd")
    BY <1>2 DEF CallPop
  <2>2. w \in Mode /\ "rd" \in Side
    BY ModeAssumption DEF Side
  <2> QED BY <1>2, <2>1, <2>2, CallStep DEF CallPop
<1>3. ASSUME NEW t \in Thread, CallPush(t) PROVE IInv'
  <2>1. PICK w \in Modes : Call(t, "push", w, First(w), "wr")
    BY <1>3 DEF CallPush
  <2>2. w \in Mode /\ "wr" \in Side
    BY ModeAssumption DEF Side
  <2> QED BY <1>3, <2>1, <2>2, CallStep DEF CallPush
<1>4. ASSUME NEW t \in Thread, Poll(t) PROVE IInv'
  <2>1. on[t] \in Side
    BY <1>0 DEF TypeOK
  <2>2. CASE pending[on[t]] \/ Avail(on[t]) > 0
    <3>1. pending' \in [Side -> BOOLEAN] /\ lock' \in [Side -> Thread \cup {None}]
      BY <1>0, <1>4, <2>1, <2>2 DEF Poll, TypeOK
    <3> QED BY <1>4, <2>2, <3>1, WaitStep DEF Poll, PC
  <2>3. CASE ~(pending[on[t]] \/ Avail(on[t]) > 0)
    <3>1. pending' \in [Side -> BOOLEAN] /\ lock' \in [Side -> Thread \cup {None}]
      BY <1>0, <1>4, <2>1, <2>3 DEF Poll, TypeOK
    <3> QED BY <1>4, <2>3, <3>1, WaitStep DEF Poll, PC
  <2> QED BY <2>2, <2>3
<1>5. ASSUME NEW t \in Thread, Sleep(t) PROVE IInv'
  <2>1. pending' \in [Side -> BOOLEAN] /\ lock' \in [Side -> Thread \cup {None}]
    BY <1>0, <1>5 DEF Sleep, TypeOK
  <2> QED BY <1>5, <2>1, WaitStep DEF Sleep, PC
<1>6. ASSUME NEW t \in Thread, TimedOut(t) PROVE IInv'
  <2>1. pending' \in [Side -> BOOLEAN] /\ lock' \in [Side -> Thread \cup {None}]
    BY <1>0, <1>6 DEF TimedOut, TypeOK
  <2> QED BY <1>6, <2>1, WaitStep DEF TimedOut, PC
<1>7. ASSUME NEW t \in Thread, Handle(t) PROVE IInv'
  <2>1. pending' \in [Side -> BOOLEAN] /\ lock' \in [Side -> Thread \cup {None}]
    BY <1>0, <1>7 DEF Handle, TypeOK
  <2> QED BY <1>7, <2>1, WaitStep DEF Handle, PC
<1>8. ASSUME NEW t \in Thread, FetchSub(t) PROVE IInv'
  BY <1>8, FetchSubFails, FetchSubSucceeds
<1> QED BY <1>1, <1>2, <1>3, <1>4, <1>5, <1>6, <1>7, <1>8, ShutdownStep, StartupStep,
           FetchAddStep, PutStep, NotifyPutStep, NotifyRestoredStep, EnqueueStep,
           DequeueStep DEF Next, Step

\* Type correctness, for any number of threads and any depth.
THEOREM QueueTypeCorrect == Spec => []TypeOK
<1>1. IInv => TypeOK
  BY DEF IInv
<1> QED BY <1>1, InitInv, NextInv, PTL DEF Spec

\* The write slots are never created or lost, and every chain has a read slot.
THEOREM SlotConservation == Spec => []SlotsConserved
<1>1. IInv => SlotsConserved
  BY DEF IInv
<1> QED BY <1>1, InitInv, NextInv, PTL DEF Spec

\* Neither of the two InternalErrors of push() and pop() is ever thrown.
THEOREM QueueConsistent == Spec => []NeverInconsistent
<1>1. IInv => NeverInconsistent
  BY DEF IInv
<1> QED BY <1>1, InitInv, NextInv, PTL DEF Spec

\* A queue that was shut down is empty and stays so until startup().
THEOREM ShutdownEmpties == Spec => []DownIsEmpty
<1>1. IInv => DownIsEmpty
  <2> SUFFICES ASSUME IInv, ~isUp, mtx = None
               PROVE  fifo = <<>> /\ At({"enqueue"}, "wr") = {}
    BY DEF DownIsEmpty
  <2>0. TypeOK /\ Settled /\ SlotsConserved
    BY DEF IInv
  <2>1. taken = N /\ N \in Nat /\ fifo \in Seq(Nat) /\ Len(fifo) \in Nat
    BY <2>0, DepthAssumption DEF Settled, TypeOK
  <2>2. Holding \in SUBSET Thread /\ IsFiniteSet(Holding)
    <3>1. Holding \in SUBSET Thread
      BY DEF Holding
    <3> QED BY <3>1, ThreadAssumption, FS_Subset
  <2>3. Cardinality(Holding) \in Nat
    BY <2>2, FS_CardinalityType
  <2>4. Real("wr") \in Int
    <3>1. At({"add"}, "wr") \in SUBSET Thread
      BY DEF At
    <3>2. Cardinality(At({"add"}, "wr")) \in Nat
      BY <3>1, ThreadAssumption, FS_Subset, FS_CardinalityType
    <3>3. slots["wr"] \in Int
      BY <2>0 DEF TypeOK, Side
    <3> QED BY <3>2, <3>3 DEF Real
  <2>5. Real("wr") >= 0 /\ Real("wr") + Cardinality(Holding) + Len(fifo) + taken = N
    BY <2>0 DEF SlotsConserved
  <2>6. Cardinality(Holding) = 0 /\ Len(fifo) = 0
    BY <2>1, <2>3, <2>4, <2>5
  <2>7. Holding = {}
    BY <2>2, <2>6, FS_EmptySet
  <2>8. At({"enqueue"}, "wr") = {}
    BY <2>7 DEF At, Holding
  <2> QED BY <2>1, <2>6, <2>8
<1> QED BY <1>1, InitInv, NextInv, PTL DEF Spec
-----------------------------------------------------------------------------
(* One writer, which also owns the queue: RSSI's output queue.              *)

\* Besides w, threads only pop: they touch the write counter to return a slot.
\* Once w has seen room, it holds the only claim to it until it gets the slot.
Pops(t) ==
    /\ op[t].kind = "pop" /\ op[t].wait # "ifroom"
    /\ on[t] = "wr" => pc[t] \in {"put", "notifyPut"}
Claim(w) ==
    op[w].wait = "ifroom" =>
        /\ op[w].kind = "push" /\ pc[w] \in {"sub", "enqueue", "put", "notifyPut"}
        /\ pc[w] = "sub" => on[w] = "wr" /\ slots["wr"] > 0
Room(w) == (\A t \in Thread \ {w} : Pops(t)) /\ Claim(w)

\* What a step inside an operation has to respect.
LEMMA RoomKept ==
    ASSUME TypeOK, NEW w \in Thread, Room(w), NEW t \in Thread, NEW label \in PC, NEW s \in Side,
           Moved(t, label, s), Same(t, label),
           slots' \in [Side -> Int], t # w => slots'["wr"] >= slots["wr"],
           t # w /\ s = "wr" => label \in {"put", "notifyPut", "idle"},
           t = w /\ op[w].wait = "ifroom" => label \in {"enqueue", "put", "notifyPut", "idle"}
    PROVE  Room(w)'
<1>1. NoOp.kind = "pop" /\ NoOp.wait = "try"
  BY DEF NoOp
<1>2. ASSUME NEW u \in Thread \ {w} PROVE Pops(u)'
  <2>1. Pops(u)
    BY DEF Room
  <2>2. CASE u # t
    <3>1. /\ on'[u] = on[u] /\ op'[u] = op[u]
          /\ pc'[u] = pc[u] \/ (pc[u] = "asleep" /\ pc'[u] = "poll")
      BY <1>2, <2>2 DEF Moved
    <3> QED BY <2>1, <3>1 DEF Pops
  <2>3. CASE u = t /\ label = "idle"
    BY <1>1, <2>3 DEF Moved, Pops
  <2>4. CASE u = t /\ label # "idle"
    BY <1>2, <2>1, <2>4 DEF Moved, Same, Pops
  <2> QED BY <2>2, <2>3, <2>4
<1>3. Claim(w)'
  <2>1. Claim(w) /\ slots \in [Side -> Int] /\ "wr" \in Side
    BY DEF Room, TypeOK, Side
  <2>2. CASE t # w
    <3>1. /\ on'[w] = on[w] /\ op'[w] = op[w]
          /\ pc'[w] = pc[w] \/ (pc[w] = "asleep" /\ pc'[w] = "poll")
      BY <2>2 DEF Moved
    <3>2. slots["wr"] > 0 => slots'["wr"] > 0
      BY <2>1, <2>2
    <3> QED BY <2>1, <3>1, <3>2 DEF Claim
  <2>3. CASE t = w /\ label = "idle"
    BY <1>1, <2>3 DEF Moved, Claim
  <2>4. CASE t = w /\ label # "idle"
    BY <2>1, <2>4 DEF Moved, Same, Claim
  <2> QED BY <2>2, <2>3, <2>4
<1> QED BY <1>2, <1>3 DEF Room

\* Only w pushes, shuts the queue down and starts it up.
LEMMA RoomCalls ==
    ASSUME TypeOK, NEW w, Writers = {w}, Owners \subseteq {w}, Room(w), NEW t \in Thread,
           CallPop(t) \/ CallPush(t) \/ CallShutdown(t) \/ CallStartup(t)
    PROVE  Room(w)'
<1>1. PICK k \in Kind, m \in Mode, label \in {"sub", "poll", "put"}, s \in Side :
        /\ Call(t, k, m, label, s)
        /\ t # w => k = "pop" /\ m # "ifroom" /\ s = "rd"
        /\ m = "ifroom" /\ k # "pop" =>
               k = "push" /\ label = "sub" /\ s = "wr" /\ slots["wr"] > 0
        /\ m = "ifroom" => k # "pop"
  <2>0. slots["wr"] \in Int /\ "rd" \in Side /\ "wr" \in Side /\ "try" \in Mode
    BY DEF TypeOK, Side, Mode
  <2>1. CASE CallPop(t)
    <3>1. PICK m \in Modes \ {"ifroom"} : Call(t, "pop", m, First(m), "rd")
      BY <2>1 DEF CallPop
    <3>2. m \in Mode /\ First(m) \in {"sub", "poll", "put"} /\ "pop" \in Kind
      BY ModeAssumption DEF First, Kind
    <3> QED BY <2>0, <3>1, <3>2
  <2>2. CASE CallPush(t)
    <3>1. PICK m \in Modes : (m = "ifroom" => Avail("wr") > 0) /\ Call(t, "push", m, First(m), "wr")
      BY <2>2 DEF CallPush
    <3>2. m \in Mode /\ First(m) \in {"sub", "poll", "put"} /\ "push" \in Kind /\ t = w
      BY <2>2, ModeAssumption DEF First, Kind, CallPush
    <3>3. m = "ifroom" => First(m) = "sub" /\ slots["wr"] > 0
      BY <2>0, <3>1 DEF First, Avail
    <3> QED BY <2>0, <3>1, <3>2, <3>3
  <2>3. CASE CallShutdown(t)
    <3>1. Call(t, "shutdown", "try", "sub", "wr") /\ t = w /\ "shutdown" \in Kind
      BY <2>3 DEF CallShutdown, Kind
    <3> QED BY <2>0, <3>1
  <2>4. CASE CallStartup(t)
    <3>1. Call(t, "startup", "try", "put", "wr") /\ t = w /\ "startup" \in Kind
      BY <2>4 DEF CallStartup, Kind
    <3> QED BY <2>0, <3>1
  <2> QED BY <2>1, <2>2, <2>3, <2>4
<1>2. Moved(t, label, s) /\ op'[t].kind = k /\ op'[t].wait = m
  BY <1>1, CallMoves
<1>3. slots' = slots /\ label # "idle" /\ w \in Thread
  BY DEF CallPop, CallPush, CallShutdown, CallStartup, Thread
<1>4. ASSUME NEW u \in Thread \ {w} PROVE Pops(u)'
  <2>1. CASE u = t
    BY <1>1, <1>2, <1>3, <1>4, <2>1 DEF Moved, Pops
  <2>2. CASE u # t
    <3>1. /\ on'[u] = on[u] /\ op'[u] = op[u]
          /\ pc'[u] = pc[u] \/ (pc[u] = "asleep" /\ pc'[u] = "poll")
      BY <1>2, <1>4, <2>2 DEF Moved
    <3> QED BY <1>4, <3>1 DEF Room, Pops
  <2> QED BY <2>1, <2>2
<1>5. Claim(w)'
  <2>1. CASE w = t
    BY <1>1, <1>2, <1>3, <2>1 DEF Moved, Claim
  <2>2. CASE w # t
    <3>1. /\ on'[w] = on[w] /\ op'[w] = op[w]
          /\ pc'[w] = pc[w] \/ (pc[w] = "asleep" /\ pc'[w] = "poll")
      BY <1>2, <1>3, <2>2 DEF Moved
    <3> QED BY <1>3, <3>1 DEF Room, Claim
  <2> QED BY <2>1, <2>2
<1> QED BY <1>4, <1>5 DEF Room

\* No other step takes the room away.
LEMMA RoomSteps ==
    ASSUME IInv, NEW w, Writers = {w}, Owners \subseteq {w}, Room(w), NEW t \in Thread,
           Step(t) \/ TimedOut(t)
    PROVE  Room(w)'
<1>0. TypeOK /\ w \in Thread /\ on[t] \in Side /\ slots \in [Side -> Int] /\ "wr" \in Side /\ "rd" \in Side
  BY DEF IInv, Thread, TypeOK, Side
<1>1. t # w => Pops(t)
  BY DEF Room
<1>2. t = w => Claim(t)
  BY DEF Room
<1>3. ASSUME NEW label \in PC, NEW s \in Side, Moved(t, label, s), Same(t, label),
             slots' \in [Side -> Int], t # w => slots'["wr"] >= slots["wr"],
             t # w /\ s = "wr" => label \in {"put", "notifyPut", "idle"},
             t = w /\ op[w].wait = "ifroom" => label \in {"enqueue", "put", "notifyPut", "idle"}
      PROVE  Room(w)'
  BY <1>0, <1>3, RoomKept
<1>4. \A l \in {"idle", "sub", "add", "poll", "sleep", "asleep", "handle", "enqueue", "dequeue",
                "put", "notifyPut", "notifyFail"} : l \in PC
  BY DEF PC
<1>5. CASE Poll(t) \/ Sleep(t) \/ Handle(t) \/ TimedOut(t)
  <2>1. /\ pc[t] \in {"poll", "sleep", "handle", "asleep"} /\ slots' = slots
        /\ \E l \in {"handle", "sleep", "asleep", "sub", "idle"} : Goto(t, l, on[t])
    BY <1>5 DEF Poll, Sleep, Handle, TimedOut
  <2>2. PICK l \in {"handle", "sleep", "asleep", "sub", "idle"} : Goto(t, l, on[t])
    BY <2>1
  <2>3. l \in PC
    BY <1>4
  <2>4. Moved(t, l, on[t]) /\ Same(t, l)
    BY <1>0, <2>2, <2>3, GotoMoves
  <2>5. (t # w => on[t] = "rd") /\ (t = w => op[w].wait # "ifroom")
    BY <1>0, <1>1, <1>2, <2>1 DEF Pops, Claim, Side
  <2> QED BY <1>0, <1>3, <2>1, <2>3, <2>4, <2>5
<1>6. CASE FetchSub(t)
  <2>1. pc[t] = "sub" /\ slots' = [slots EXCEPT ![on[t]] = @ - 1]
    BY <1>6 DEF FetchSub
  <2>2. /\ t # w => on[t] = "rd"
        /\ t = w /\ op[w].wait = "ifroom" => slots[on[t]] > 0 /\ on[t] = "wr" /\ op[t].kind = "push"
    BY <1>0, <1>1, <1>2, <2>1 DEF Pops, Claim, Side
  <2>3. slots' \in [Side -> Int] /\ (t # w => slots'["wr"] >= slots["wr"])
    BY <1>0, <2>1, <2>2
  <2>4. PICK l \in {"add", "sub", "enqueue", "dequeue"} :
          Goto(t, l, on[t]) /\ (t = w /\ op[w].wait = "ifroom" => l = "enqueue")
    BY <1>0, <1>6, <2>2 DEF FetchSub, Granted, Side
  <2>5. l \in PC
    BY <1>4
  <2>6. Moved(t, l, on[t]) /\ Same(t, l)
    BY <1>0, <2>4, <2>5, GotoMoves
  <2> QED BY <1>0, <1>3, <2>2, <2>3, <2>4, <2>5, <2>6
<1>7. CASE FetchAdd(t) \/ NotifyRestored(t)
  <2>1. /\ pc[t] \in {"add", "notifyFail"}
        /\ slots' = slots \/ slots' = [slots EXCEPT ![on[t]] = @ + 1]
    BY <1>7 DEF FetchAdd, NotifyRestored
  <2>2. (t # w => on[t] = "rd") /\ (t = w => op[w].wait # "ifroom")
    BY <1>0, <1>1, <1>2, <2>1 DEF Pops, Claim, Side
  <2>3. slots' \in [Side -> Int] /\ (t # w => slots'["wr"] >= slots["wr"])
    BY <1>0, <2>1, <2>2
  <2> DEFINE a == AfterRefusal(t)
  <2>4. a.at \in PC /\ a.on \in Side /\ (t # w => a.on = "rd")
    <3>1. a.at \in {"poll", "sub", "idle"} /\ a.on \in Side
      BY <2>1, RefusalFacts
    <3>2. t # w => op[t].kind # "shutdown"
      BY <1>1 DEF Pops
    <3>3. CASE op[t].wait = "select" /\ op[t].kind # "shutdown"
      <4>1. a = [at |-> "poll", on |-> on[t]]
        BY <3>3 DEF AfterRefusal
      <4> QED BY <1>4, <2>2, <3>1, <4>1
    <3>4. CASE op[t].wait # "select" /\ op[t].kind # "shutdown"
      <4>1. a = [at |-> "idle", on |-> on[t]]
        BY <3>4 DEF AfterRefusal
      <4> QED BY <1>4, <2>2, <3>1, <4>1
    <3>5. CASE op[t].kind = "shutdown"
      BY <1>4, <3>1, <3>2, <3>5
    <3> QED BY <3>3, <3>4, <3>5
  <2>5. \/ \E l \in {"poll", "notifyFail"} : Goto(t, l, on[t])
        \/ Goto(t, a.at, a.on) \/ Signal(t, a)
    BY <1>7 DEF FetchAdd, NotifyRestored
  <2> HIDE DEF a
  <2>6. pc[t] # "asleep"
    BY <2>1
  <2>7. CASE Goto(t, a.at, a.on) \/ Signal(t, a)
    <3>1. Moved(t, a.at, a.on) /\ Same(t, a.at)
      BY <1>0, <2>4, <2>6, <2>7, GotoMoves, SignalMoves
    <3> QED BY <1>3, <2>2, <2>3, <2>4, <3>1
  <2>8. ASSUME NEW l \in {"poll", "notifyFail"}, Goto(t, l, on[t]) PROVE Room(w)'
    <3>1. l \in PC
      BY <1>4
    <3>2. Moved(t, l, on[t]) /\ Same(t, l)
      BY <1>0, <2>8, <3>1, GotoMoves
    <3> QED BY <1>0, <1>3, <2>2, <2>3, <3>1, <3>2
  <2> QED BY <2>5, <2>7, <2>8
<1>8. CASE Put(t)
  <2>1. slots' = [slots EXCEPT ![on[t]] = @ + 1] /\ Goto(t, "notifyPut", on[t])
    BY <1>8 DEF Put
  <2>2. slots' \in [Side -> Int] /\ slots'["wr"] >= slots["wr"]
    BY <1>0, <2>1
  <2>3. "notifyPut" \in PC
    BY <1>4
  <2>4. Moved(t, "notifyPut", on[t]) /\ Same(t, "notifyPut")
    BY <1>0, <2>1, <2>3, GotoMoves
  <2> QED BY <1>0, <1>3, <2>2, <2>3, <2>4
<1>9. CASE NotifyPut(t)
  <2> DEFINE a == AfterPut(t)
  <2>1. pc[t] = "notifyPut" /\ slots' = slots /\ Signal(t, a)
    BY <1>9 DEF NotifyPut
  <2>2. /\ a.at \in PC /\ a.on \in Side
        /\ op[t].kind \in {"push", "pop"} => a.at = "idle"
        /\ a.on = "wr" => a.at \in {"put", "idle"}
    <3>1. CASE op[t].kind = "shutdown"
      <4>1. a = [at |-> "sub", on |-> "rd"]
        BY <3>1 DEF AfterPut
      <4> QED BY <1>0, <1>4, <3>1, <4>1
    <3>2. CASE op[t].kind = "startup" /\ taken > 0
      <4>1. a = [at |-> "put", on |-> "wr"]
        BY <3>2 DEF AfterPut
      <4> QED BY <1>0, <1>4, <3>2, <4>1
    <3>3. CASE op[t].kind # "shutdown" /\ ~(op[t].kind = "startup" /\ taken > 0)
      <4>1. a = [at |-> "idle", on |-> on[t]]
        BY <3>3 DEF AfterPut
      <4> QED BY <1>0, <1>4, <4>1
    <3> QED BY <3>1, <3>2, <3>3
  <2> HIDE DEF a
  <2>3. Moved(t, a.at, a.on) /\ Same(t, a.at)
    BY <1>0, <2>1, <2>2, SignalMoves
  <2>4. t = w /\ op[w].wait = "ifroom" => a.at = "idle"
    BY <1>2, <2>2 DEF Claim
  <2> QED BY <1>0, <1>3, <2>1, <2>2, <2>3, <2>4
<1>10. CASE Enqueue(t)
  <2>1. pc[t] = "enqueue" /\ slots' = slots /\ \E s \in Side : Goto(t, "put", s)
    BY <1>0, <1>10 DEF Enqueue
  <2>2. PICK s \in Side : Goto(t, "put", s)
    BY <2>1
  <2>3. Moved(t, "put", s) /\ Same(t, "put") /\ "put" \in PC
    BY <1>0, <1>4, <2>2, GotoMoves
  <2> QED BY <1>0, <1>3, <2>1, <2>3
<1>11. CASE Dequeue(t)
  <2>1. /\ pc[t] = "dequeue" /\ slots' = slots
        /\ \E s \in Side, l \in {"put", "idle"} : Goto(t, l, s)
    BY <1>0, <1>11 DEF Dequeue
  <2>2. PICK s \in Side, l \in {"put", "idle"} : Goto(t, l, s)
    BY <2>1
  <2>3. l \in PC
    BY <1>4
  <2>4. Moved(t, l, s) /\ Same(t, l)
    BY <1>0, <2>2, <2>3, GotoMoves
  <2> QED BY <1>0, <1>3, <2>1, <2>3, <2>4
<1> QED BY <1>5, <1>6, <1>7, <1>8, <1>9, <1>10, <1>11 DEF Step

\* With one writer, which also owns the queue, tryPush() never finds it full once
\* isFull() was false, however many readers pop, or give up popping, meanwhile:
\* CRssi's "RSSI output queue should not be full!" is not thrown.
THEOREM RoomRemains ==
    ASSUME NEW w, Writers = {w}, Owners \subseteq {w}
    PROVE  Spec => []RoomStays
<1>1. Init => IInv /\ Room(w)
  <2> SUFFICES ASSUME Init PROVE Room(w)
    BY InitInv
  <2>1. w \in Thread /\ NoOp.kind = "pop" /\ NoOp.wait = "try"
    BY DEF Thread, NoOp
  <2> QED BY <2>1 DEF Init, Room, Pops, Claim
<1>2. IInv /\ Room(w) /\ [Next]_vars => IInv' /\ Room(w)'
  <2> SUFFICES ASSUME IInv, Room(w), [Next]_vars PROVE Room(w)'
    BY NextInv
  <2>0. TypeOK
    BY DEF IInv
  <2>1. CASE UNCHANGED vars
    BY <2>1 DEF vars, Room, Pops, Claim
  <2>2. ASSUME NEW t \in Thread, Step(t) \/ TimedOut(t) PROVE Room(w)'
    BY <2>2, RoomSteps
  <2>3. ASSUME NEW t \in Thread, CallPop(t) \/ CallPush(t) \/ CallShutdown(t) \/ CallStartup(t)
        PROVE  Room(w)'
    BY <2>0, <2>3, RoomCalls
  <2> QED BY <2>1, <2>2, <2>3 DEF Next
<1>3. IInv /\ Room(w) => RoomStays
  <2> SUFFICES ASSUME Room(w), NEW t \in Thread, op[t].wait = "ifroom" PROVE pc[t] # "add"
    BY DEF RoomStays
  <2> QED BY DEF Room, Pops, Claim
<1> QED BY <1>1, <1>2, <1>3, PTL DEF Spec
=============================================================================
