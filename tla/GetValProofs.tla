----------------------------- MODULE GetValProofs -----------------------------
(***************************************************************************)
(* Proofs about the asynchronous reads of GetVal, for every scenario, any  *)
(* timeout and whatever is lost: the callback runs once and not before all *)
(* transactions of the read are settled, and nobody writes to the buffer   *)
(* of the program afterwards; and, for every orderly scenario, a read that *)
(* is reported to be good has brought the values that are in the memory,   *)
(* and setVal() has stored its values and kept all other bits.             *)
(*                                                                         *)
(* The first part is about who holds which transaction; the second about   *)
(* numbers, their bits and the conversions of ScalVal; the third puts the  *)
(* two together.                                                           *)
(***************************************************************************)
EXTENDS GetVal, SequenceTheorems, FiniteSetTheorems, WellFoundedInduction, TLAPS

UserState ==
    [pc : {"set", "get", "add", "send", "drop", "done"}, part : Nat \ {0}, tid : Int, timeout : Int]

Xact == Threads \X (Nat \ {0})
Entry == [xact : Xact, tid : Int, timeout : Int]

\* Where transaction x is: thread t is about to add it to the list, it is in the
\* list, or one of the two threads that complete it has taken it off.
Issuing(x) == x[1] \in Active /\ user[x[1]].pc = "add" /\ user[x[1]].part = x[2]
Listed(x)  == \E i \in DOMAIN pending : pending[i].xact = x

Types ==
    /\ scen \in Scenarios
    /\ now \in Int /\ tid \in Int
    /\ user \in [Active -> UserState]
    /\ pending \in Seq(Entry)
    /\ thr \in [pc : {"run", "wait", "sleep", "complete", "drop"}, until : Int, xact : Xact \union {NoXact}]
    /\ hnd = [pc |-> hnd.pc, xact |-> hnd.xact, ok |-> hnd.ok, data |-> hnd.data]
    /\ hnd.pc \in {"pop", "complete", "drop"} /\ hnd.xact \in Xact \union {NoXact}
    /\ refs \in [Active -> SUBSET Nat]
    /\ DOMAIN cb = Active

\* A thread holds a transaction exactly while it completes it.
Hands ==
    /\ thr.pc \in {"complete", "drop"} <=> thr.xact # NoXact
    /\ hnd.pc \in {"complete", "drop"} <=> hnd.xact # NoXact

\* A transaction is in one place only.
OnePlace ==
    /\ \A i, j \in DOMAIN pending : pending[i].xact = pending[j].xact => i = j
    /\ \A x \in Xact :
           /\ Issuing(x) => ~Listed(x) /\ thr.xact # x /\ hnd.xact # x
           /\ Listed(x) => thr.xact # x /\ hnd.xact # x
           /\ ~(thr.xact = x /\ hnd.xact = x)

\* The references to a completion are those of the transactions that are
\* somewhere, and that of the thread that reads.
Referred ==
    \A x \in Xact :
        /\ Issuing(x) \/ Listed(x) \/ thr.xact = x \/ hnd.xact = x =>
               x[1] \in Active /\ x[2] \in refs[x[1]]
        /\ x[1] \in Active /\ x[2] \in refs[x[1]] =>
               Issuing(x) \/ Listed(x) \/ thr.xact = x \/ hnd.xact = x

\* Parts are issued in order.
InTurn ==
    \A t \in Active :
        /\ 0 \in refs[t] <=> user[t].pc # "done"
        /\ \A i \in refs[t] : i <= user[t].part
        /\ user[t].part \in refs[t] => user[t].pc \in {"add", "send"}

\* The callback comes with the end of the last reference.
LastCalls ==
    \A t \in Active : \/ cb[t] = <<>>
                      \/ refs[t] = {} /\ \E e : cb[t] = <<e>>

IInv == Types /\ Hands /\ OnePlace /\ Referred /\ InTurn /\ LastCalls

-----------------------------------------------------------------------------
\* Active and thus all of Req, Parts depend on the scenario alone.
LEMMA ActiveThreads == Types => Active \subseteq Threads
BY ScenarioAssumption DEF Types, Active

\* The first transaction with a number exists if there is one.
LEMMA FirstFound ==
    ASSUME NEW n, Types, Found(n) # {}
    PROVE  First(n) \in DOMAIN pending /\ pending[First(n)].tid = n
<1>1. DOMAIN pending = 1..Len(pending) /\ Len(pending) \in Nat
  BY LenProperties DEF Types
<1>2. Found(n) \subseteq Nat
  BY <1>1 DEF Found
<1>3. PICK i \in Found(n) : \A j \in Found(n) : ~(<<j, i>> \in OpToRel(<, Nat))
  BY <1>2, NatLessThanWellFounded, WFMin
<1>4. \A j \in Found(n) : i <= j
  <2>1. \A a, b \in Nat : a < b => <<a, b>> \in OpToRel(<, Nat)
    BY Zenon DEF OpToRel
  <2>2. \A j \in Found(n) : j \in Nat /\ i \in Nat /\ ~(j < i)
    BY <1>2, <1>3, <2>1, Zenon
  <2> QED BY <2>2
<1>5. First(n) \in Found(n)
  BY <1>4 DEF First
<1> QED BY <1>5 DEF Found

\* What the list holds.
LEMMA Listing ==
    ASSUME Types
    PROVE  /\ DOMAIN pending = 1..Len(pending) /\ Len(pending) \in Nat
           /\ \A i \in DOMAIN pending : /\ pending[i] \in Entry /\ pending[i].timeout \in Int
                                        /\ pending[i].xact \in Xact /\ pending[i].xact # NoXact
<1>1. DOMAIN pending = 1..Len(pending) /\ Len(pending) \in Nat
  BY LenProperties DEF Types
<1>2. \A i \in DOMAIN pending : pending[i] \in Entry
  BY <1>1, ElementOfSeq DEF Types
<1>3. NoXact \notin Xact
  BY DEF NoXact, Xact
<1> QED BY <1>1, <1>2, <1>3 DEF Entry

\* What is left of the list when entry i is taken off.
LEMMA TakenOff ==
    ASSUME NEW i \in DOMAIN pending, pending \in Seq(Entry)
    PROVE  LET r == RemoveAt(pending, i)
           IN  /\ r \in Seq(Entry) /\ DOMAIN r = 1..(Len(pending) - 1) /\ Len(r) = Len(pending) - 1
               /\ \A j \in DOMAIN r : r[j] = IF j < i THEN pending[j] ELSE pending[j + 1]
<1> DEFINE a == SubSeq(pending, 1, i - 1)
           b == SubSeq(pending, i + 1, Len(pending))
<1>1. DOMAIN pending = 1..Len(pending) /\ Len(pending) \in Nat /\ i \in 1..Len(pending)
  BY LenProperties
<1>2. /\ a \in Seq(Entry) /\ Len(a) = i - 1
      /\ \A j \in 1..(i - 1) : a[j] = pending[j]
  <2>1. \A j \in 1..(i - 1) : pending[j] \in Entry
    BY <1>1, ElementOfSeq
  <2> QED BY <1>1, <2>1, SubSeqProperties
<1>3. /\ b \in Seq(Entry) /\ Len(b) = Len(pending) - i
      /\ \A j \in 1..(Len(pending) - i) : b[j] = pending[i + j]
  <2>1. \A j \in (i + 1)..Len(pending) : pending[j] \in Entry
    BY <1>1, ElementOfSeq
  <2>2. /\ b \in Seq(Entry)
        /\ Len(b) = IF i + 1 <= Len(pending) THEN Len(pending) - (i + 1) + 1 ELSE 0
        /\ \A j \in 1..(Len(pending) - (i + 1) + 1) : b[j] = pending[(i + 1) + j - 1]
    BY <1>1, <2>1, SubSeqProperties
  <2> QED BY <1>1, <2>2
<1> HIDE DEF a, b
<1>4. /\ a \o b \in Seq(Entry) /\ Len(a \o b) = Len(pending) - 1
      /\ \A j \in 1..(Len(pending) - 1) :
             (a \o b)[j] = IF j <= i - 1 THEN a[j] ELSE b[j - (i - 1)]
  <2>1. Len(a) + Len(b) = Len(pending) - 1
    BY <1>1, <1>2, <1>3
  <2>2. /\ a \o b \in Seq(Entry) /\ Len(a \o b) = Len(a) + Len(b)
        /\ \A j \in 1..(Len(a) + Len(b)) :
               (a \o b)[j] = IF j <= Len(a) THEN a[j] ELSE b[j - Len(a)]
    BY <1>2, <1>3, ConcatProperties
  <2> QED BY <1>2, <2>1, <2>2
<1>5. DOMAIN (a \o b) = 1..(Len(pending) - 1)
  BY <1>4, LenProperties
<1>6. \A j \in 1..(Len(pending) - 1) : (a \o b)[j] = IF j < i THEN pending[j] ELSE pending[j + 1]
  <2> SUFFICES ASSUME NEW j \in 1..(Len(pending) - 1)
               PROVE  (a \o b)[j] = IF j < i THEN pending[j] ELSE pending[j + 1]
    OBVIOUS
  <2>1. CASE j < i
    <3>1. j \in 1..(i - 1) /\ j <= i - 1
      BY <1>1, <2>1
    <3> QED BY <1>2, <1>4, <2>1, <3>1
  <2>2. CASE ~(j < i)
    <3>1. j - (i - 1) \in 1..(Len(pending) - i) /\ ~(j <= i - 1) /\ i + (j - (i - 1)) = j + 1
      BY <1>1, <2>2
    <3>2. (a \o b)[j] = b[j - (i - 1)]
      BY <1>4, <3>1
    <3>3. b[j - (i - 1)] = pending[i + (j - (i - 1))]
      BY <1>3, <3>1
    <3> QED BY <2>2, <3>1, <3>2, <3>3
  <2> QED BY <2>1, <2>2
<1>7. RemoveAt(pending, i) = a \o b
  BY DEF RemoveAt, a, b
<1> QED BY <1>4, <1>5, <1>6, <1>7

-----------------------------------------------------------------------------
\* A step that moves no transaction and no reference.
LEMMA NothingMoves ==
    ASSUME IInv, Types', Hands', UNCHANGED <<scen, pending, refs, cb>>,
           thr'.xact = thr.xact, hnd'.xact = hnd.xact,
           \A t \in Active :
               /\ user'[t].part = user[t].part
               /\ user'[t].pc = user[t].pc
                  \/ (user[t].pc = "set" /\ user'[t].pc = "get")
    PROVE  IInv'
<1>0. Active' = Active
  BY DEF Active
<1>1. \A x : (Issuing(x)' <=> Issuing(x)) /\ (Listed(x)' <=> Listed(x))
  BY <1>0 DEF Issuing, Listed
<1>2. OnePlace' /\ Referred'
  BY <1>0, <1>1 DEF IInv, OnePlace, Referred
<1>3. InTurn'
  BY <1>0 DEF IInv, InTurn
<1>4. LastCalls'
  BY <1>0 DEF IInv, LastCalls
<1> QED BY <1>2, <1>3, <1>4 DEF IInv

\* Nothing moves when values are stored.
LEMMA SetStep ==
    ASSUME IInv, NEW t \in Active, Set(t)
    PROVE  IInv'
<1>1. /\ user[t].pc = "set" /\ user' = [user EXCEPT ![t].pc = "get"]
      /\ UNCHANGED <<scen, pending, thr, now, tid, hnd, refs, cb>>
  BY DEF Set, aioVars
<1>2. user' \in [Active -> UserState]
  BY <1>1, ZenonT(60) DEF IInv, Types, UserState
<1>3. Types' /\ Hands'
  BY <1>1, <1>2 DEF IInv, Types, Hands, Active
<1> QED BY <1>1, <1>3, NothingMoves, SMTT(30) DEF IInv, Types, UserState

\* The transaction gets its number, and its reference.
LEMMA StampStep ==
    ASSUME IInv, NEW t \in Active, Stamp(t)
    PROVE  IInv'
<1> DEFINE p == user[t].part
<1>1. /\ user[t].pc = "get"
      /\ user' = [user EXCEPT ![t] = [@ EXCEPT !.pc = "add", !.tid = tid + 1, !.timeout = now + Timeout]]
      /\ refs' = [refs EXCEPT ![t] = @ \union {p}] /\ tid' = tid + 1
      /\ UNCHANGED <<scen, pending, thr, now, hnd, cb>>
  BY DEF Stamp, aioVars
<1>2. /\ user \in [Active -> UserState] /\ user[t] \in UserState /\ p \in Nat \ {0}
      /\ refs \in [Active -> SUBSET Nat]
  BY DEF IInv, Types, UserState
<1>3. /\ user'[t].pc = "add" /\ user'[t].part = p /\ user'[t] \in UserState
      /\ \A u \in Active \ {t} : user'[u] = user[u]
      /\ user' \in [Active -> UserState]
  <2> DEFINE w == [user[t] EXCEPT !.pc = "add", !.tid = tid + 1, !.timeout = now + Timeout]
  <2>1. tid + 1 \in Int /\ now + Timeout \in Int
    BY TimeAssumption DEF IInv, Types
  <2>2. w \in UserState /\ w.pc = "add" /\ w.part = p
    BY <1>2, <2>1 DEF UserState
  <2>3. user' = [user EXCEPT ![t] = w]
    BY <1>1
  <2> HIDE DEF w
  <2> QED BY <1>2, <2>2, <2>3
<1>4. /\ refs'[t] = refs[t] \union {p} /\ \A u \in Active \ {t} : refs'[u] = refs[u]
      /\ refs' \in [Active -> SUBSET Nat]
  BY <1>1, <1>2
<1>5. Active' = Active /\ t \in Threads /\ <<t, p>> \in Xact
  BY <1>1, <1>2, ActiveThreads DEF Active, Xact, IInv
<1> HIDE DEF p
<1>6. p \notin refs[t]
  BY <1>1 DEF IInv, InTurn, p
<1>7. /\ \A x \in Xact : Listed(x)' <=> Listed(x)
      /\ \A x \in Xact : Issuing(x)' <=> Issuing(x) \/ x = <<t, p>>
  BY <1>1, <1>3, <1>5 DEF Issuing, Listed, Xact
<1>8. Types' /\ Hands'
  BY <1>1, <1>3, <1>4, <1>5 DEF IInv, Types, Hands
<1>9. OnePlace'
  BY <1>1, <1>2, <1>5, <1>6, <1>7 DEF IInv, OnePlace, Referred
<1>10. Referred'
  BY <1>1, <1>2, <1>4, <1>5, <1>7 DEF IInv, Referred, Xact
<1>11. InTurn'
  BY <1>1, <1>2, <1>3, <1>4, <1>5 DEF IInv, InTurn, p
<1>12. LastCalls'
  BY <1>1, <1>2, <1>4, <1>5 DEF IInv, LastCalls, InTurn
<1> QED BY <1>8, <1>9, <1>10, <1>11, <1>12 DEF IInv

\* The transaction is added to the list.
LEMMA AddStep ==
    ASSUME IInv, NEW t \in Active, Add(t)
    PROVE  IInv'
<1>p. PICK p : p = user[t].part
  OBVIOUS
<1>e. PICK e : e = [xact |-> <<t, p>>, tid |-> user[t].tid, timeout |-> user[t].timeout]
  OBVIOUS
<1>n. PICK n : n = Len(pending)
  OBVIOUS
<1>1. /\ user[t].pc = "add" /\ user' = [user EXCEPT ![t].pc = "send"]
      /\ pending' = Append(pending, e)
      /\ thr' = [thr EXCEPT !.pc = IF pending = <<>> /\ @ = "wait" THEN "run" ELSE @]
      /\ UNCHANGED <<scen, now, tid, hnd, refs, cb>>
  BY <1>p, <1>e DEF Add, post
<1>2. /\ user \in [Active -> UserState] /\ user[t] \in UserState /\ p \in Nat \ {0}
  BY <1>p DEF IInv, Types, UserState
<1>3. /\ user'[t].pc = "send" /\ user'[t].part = p
      /\ \A u \in Active \ {t} : user'[u] = user[u]
      /\ user' \in [Active -> UserState]
  BY <1>p, <1>1, <1>2 DEF UserState
<1>4. Active' = Active /\ t \in Threads /\ <<t, p>> \in Xact
  BY <1>1, <1>2, ActiveThreads DEF Active, Xact, IInv
<1>5. e \in Entry /\ e.xact = <<t, p>>
  BY <1>e, <1>2, <1>4 DEF Entry, UserState
<1>6. /\ pending \in Seq(Entry) /\ DOMAIN pending = 1..n /\ n \in Nat
      /\ pending' \in Seq(Entry) /\ DOMAIN pending' = 1..(n + 1)
      /\ \A i \in 1..n : pending'[i] = pending[i]
      /\ pending'[n + 1] = e
  <2>1. pending \in Seq(Entry)
    BY DEF IInv, Types
  <2>2. Len(pending') = n + 1 /\ pending' \in Seq(Entry)
    BY <1>n, <1>1, <1>5, <2>1, AppendProperties
  <2> QED BY <1>n, <1>1, <1>5, <2>1, <2>2, AppendProperties, LenProperties
<1>7. /\ thr'.xact = thr.xact
      /\ thr' \in [pc : {"run", "wait", "sleep", "complete", "drop"}, until : Int, xact : Xact \union {NoXact}]
      /\ thr'.pc = thr.pc \/ (thr.pc = "wait" /\ thr'.pc = "run")
  BY <1>1 DEF IInv, Types
<1>8. \A x \in Xact : Listed(x)' <=> Listed(x) \/ x = <<t, p>>
  <2>1. ASSUME NEW x, Listed(x) PROVE Listed(x)'
    <3>1. PICK i \in 1..n : pending[i].xact = x
      BY <1>6, <2>1 DEF Listed
    <3>2. i \in DOMAIN pending' /\ pending'[i].xact = x
      BY <1>6, <3>1
    <3> QED BY <3>2 DEF Listed
  <2>2. Listed(<<t, p>>)'
    <3>1. n + 1 \in DOMAIN pending' /\ pending'[n + 1].xact = <<t, p>>
      BY <1>5, <1>6
    <3> QED BY <3>1 DEF Listed
  <2>3. ASSUME NEW x, Listed(x)', x # <<t, p>> PROVE Listed(x)
    <3>1. PICK i \in 1..(n + 1) : pending'[i].xact = x
      BY <1>6, <2>3 DEF Listed
    <3>2. i # n + 1
      BY <1>5, <1>6, <2>3, <3>1
    <3>3. i \in 1..n
      BY <1>6, <3>2
    <3> QED BY <1>6, <3>1, <3>3 DEF Listed
  <2> QED BY <2>1, <2>2, <2>3
<1>9. \A x \in Xact : Issuing(x)' <=> Issuing(x) /\ x # <<t, p>>
  BY <1>p, <1>1, <1>3, <1>4 DEF Issuing, Xact
<1>10. Issuing(<<t, p>>)
  BY <1>p, <1>1 DEF Issuing
<1>11. Types' /\ Hands'
  BY <1>1, <1>3, <1>4, <1>6, <1>7 DEF IInv, Types, Hands
<1>12. OnePlace'
  <2>1. ~Listed(<<t, p>>) /\ thr.xact # <<t, p>> /\ hnd.xact # <<t, p>>
    BY <1>4, <1>10 DEF IInv, OnePlace
  <2>2. \A i, j \in DOMAIN pending' : pending'[i].xact = pending'[j].xact => i = j
    BY <1>5, <1>6, <2>1 DEF IInv, OnePlace, Listed
  <2> QED BY <1>1, <1>7, <1>8, <1>9, <2>1, <2>2 DEF IInv, OnePlace
<1>13. Referred'
  BY <1>1, <1>4, <1>7, <1>8, <1>9, <1>10 DEF IInv, Referred
<1>14. InTurn' /\ LastCalls'
  BY <1>p, <1>1, <1>3, <1>4 DEF IInv, InTurn, LastCalls
<1> QED BY <1>11, <1>12, <1>13, <1>14 DEF IInv

\* The request is sent, and the next part is up.
LEMMA SendStep ==
    ASSUME IInv, NEW t \in Active, Send(t)
    PROVE  IInv'
<1> DEFINE p == user[t].part
           q == IF p + 1 \in Parts(t) THEN "get" ELSE "drop"
           w == [pc |-> q, part |-> p + 1, tid |-> 0, timeout |-> 0]
<1>1. /\ user[t].pc = "send" /\ user' = [user EXCEPT ![t] = w]
      /\ UNCHANGED <<scen, now, pending, thr, tid, hnd, refs, cb>>
  BY DEF Send, aioVars
<1>2. /\ user \in [Active -> UserState] /\ user[t] \in UserState /\ p \in Nat \ {0}
  BY DEF IInv, Types, UserState
<1>3. w \in UserState /\ w.pc \in {"get", "drop"} /\ w.part = p + 1
  BY <1>2 DEF UserState
<1> HIDE DEF w, q
<1>4. /\ user' \in [Active -> UserState] /\ user'[t] = w
      /\ \A u \in Active \ {t} : user'[u] = user[u]
  BY <1>1, <1>2, <1>3
<1>5. Active' = Active
  BY <1>1 DEF Active
<1>6. \A x \in Xact : (Listed(x)' <=> Listed(x)) /\ (Issuing(x)' <=> Issuing(x))
  BY <1>1, <1>3, <1>4, <1>5 DEF Issuing, Listed
<1>7. Types' /\ Hands'
  BY <1>1, <1>4, <1>5 DEF IInv, Types, Hands
<1>8. OnePlace' /\ Referred' /\ LastCalls'
  BY <1>1, <1>5, <1>6 DEF IInv, OnePlace, Referred, LastCalls
<1>9. InTurn'
  <2>1. refs[t] \in SUBSET Nat
    BY DEF IInv, Types
  <2> QED BY <1>1, <1>2, <1>3, <1>4, <1>5, <2>1 DEF IInv, InTurn
<1> QED BY <1>7, <1>8, <1>9 DEF IInv

\* A reference goes, and perhaps the callback comes.
LEMMA DropCalls ==
    ASSUME IInv, NEW t \in Active, NEW i \in refs[t], Drop(t, i)
    PROVE  /\ refs' \in [Active -> SUBSET Nat] /\ refs'[t] = refs[t] \ {i}
           /\ \A u \in Active \ {t} : refs'[u] = refs[u]
           /\ DOMAIN cb' = Active /\ Active' = Active /\ UNCHANGED <<scen, tid>>
           /\ LastCalls'
<1>1. /\ refs' = [refs EXCEPT ![t] = @ \ {i}] /\ UNCHANGED <<scen, tid>>
      /\ cb' = IF refs[t] \ {i} # {} THEN cb ELSE [cb EXCEPT ![t] = Append(@, err[t])]
  BY DEF Drop
<1>2. Active' = Active
  BY <1>1 DEF Active
<1>3. /\ refs' \in [Active -> SUBSET Nat] /\ refs'[t] = refs[t] \ {i}
      /\ \A u \in Active \ {t} : refs'[u] = refs[u]
  BY <1>1 DEF IInv, Types
<1>4. /\ DOMAIN cb' = Active /\ \A u \in Active \ {t} : cb'[u] = cb[u]
      /\ cb'[t] = IF refs[t] \ {i} # {} THEN cb[t] ELSE Append(cb[t], err[t])
  BY <1>1 DEF IInv, Types
<1>5. cb[t] = <<>>
  BY DEF IInv, LastCalls
<1>6. refs'[t] # {} => cb'[t] = <<>>
  BY <1>3, <1>4, <1>5
<1>7. refs'[t] = {} => cb'[t] = <<err[t]>>
  BY <1>3, <1>4, <1>5
<1>8. LastCalls'
  BY <1>2, <1>3, <1>4, <1>6, <1>7 DEF IInv, LastCalls
<1> QED BY <1>1, <1>2, <1>3, <1>4, <1>8

\* The thread that reads gives its own reference up.
LEMMA ReturnStep ==
    ASSUME IInv, NEW t \in Active, Return(t)
    PROVE  IInv'
<1>1. /\ user[t].pc = "drop" /\ user' = [user EXCEPT ![t].pc = "done"] /\ Drop(t, 0)
      /\ UNCHANGED <<now, pending, thr, hnd>>
  BY DEF Return, aioVars
<1>2. 0 \in refs[t]
  BY <1>1 DEF IInv, InTurn
<1>3. /\ refs' \in [Active -> SUBSET Nat] /\ refs'[t] = refs[t] \ {0}
      /\ \A u \in Active \ {t} : refs'[u] = refs[u]
      /\ DOMAIN cb' = Active /\ Active' = Active /\ UNCHANGED <<scen, tid>>
      /\ LastCalls'
  BY <1>1, <1>2, DropCalls
<1>4. /\ user' \in [Active -> UserState] /\ user'[t].pc = "done" /\ user'[t].part = user[t].part
      /\ \A u \in Active \ {t} : user'[u] = user[u]
  BY <1>1 DEF IInv, Types, UserState
<1>5. \A x \in Xact : (Listed(x)' <=> Listed(x)) /\ (Issuing(x)' <=> Issuing(x))
  BY <1>1, <1>3, <1>4 DEF Issuing, Listed
<1>6. Types' /\ Hands'
  BY <1>1, <1>3, <1>4 DEF IInv, Types, Hands
<1>7. OnePlace'
  BY <1>1, <1>5 DEF IInv, OnePlace
<1>8. Referred'
  BY <1>1, <1>3, <1>5 DEF IInv, Referred, Xact
<1>9. InTurn'
  BY <1>1, <1>3, <1>4 DEF IInv, InTurn, Types, UserState
<1> QED BY <1>3, <1>6, <1>7, <1>8, <1>9 DEF IInv

-----------------------------------------------------------------------------
\* A transaction is taken off the list, by a thread that had none.
LEMMA TakeStep ==
    ASSUME IInv, NEW i \in DOMAIN pending, NEW x, x = pending[i].xact,
           pending' = RemoveAt(pending, i), Types', Hands',
           UNCHANGED <<scen, user, refs, cb>>,
           \/ thr.xact = NoXact /\ thr'.xact = x /\ hnd'.xact = hnd.xact
           \/ hnd.xact = NoXact /\ hnd'.xact = x /\ thr'.xact = thr.xact
    PROVE  IInv'
<1>0. Active' = Active
  BY DEF Active
<1>1. pending \in Seq(Entry) /\ DOMAIN pending = 1..Len(pending) /\ Len(pending) \in Nat
  BY LenProperties DEF IInv, Types
<1>2. x \in Xact
  BY Listing, SMTT(60) DEF IInv
<1>3. /\ DOMAIN pending' = 1..(Len(pending) - 1)
      /\ \A j \in 1..(Len(pending) - 1) : pending'[j] = IF j < i THEN pending[j] ELSE pending[j + 1]
  BY <1>1, TakenOff
<1>4. Listed(x)
  BY DEF Listed
<1>5. \A y \in Xact : Listed(y)' <=> Listed(y) /\ y # x
  <2>1. ASSUME NEW y \in Xact, Listed(y)' PROVE Listed(y) /\ y # x
    <3>1. PICK j \in 1..(Len(pending) - 1) : pending'[j].xact = y
      BY <1>3, <2>1 DEF Listed
    <3>2. CASE j < i
      BY <1>1, <1>3, <3>1, <3>2 DEF Listed, IInv, OnePlace
    <3>3. CASE ~(j < i)
      BY <1>1, <1>3, <3>1, <3>3 DEF Listed, IInv, OnePlace
    <3> QED BY <3>2, <3>3
  <2>2. ASSUME NEW y \in Xact, Listed(y), y # x PROVE Listed(y)'
    <3>1. PICK j \in 1..Len(pending) : pending[j].xact = y
      BY <1>1, <2>2 DEF Listed
    <3>2. CASE j < i
      BY <1>1, <1>3, <3>1, <3>2, SMTT(30) DEF Listed
    <3>3. CASE j > i
      <4>1. j - 1 \in 1..(Len(pending) - 1) /\ ~(j - 1 < i) /\ (j - 1) + 1 = j
        BY <1>1, <3>3
      <4>2. pending'[j - 1].xact = y
        BY <1>3, <3>1, <4>1
      <4> QED BY <1>3, <4>1, <4>2 DEF Listed
    <3> QED BY <1>1, <2>2, <3>1, <3>2, <3>3
  <2> QED BY <2>1, <2>2
<1>6. \A y : Issuing(y)' <=> Issuing(y)
  BY <1>0 DEF Issuing
<1>7. \A j, l \in DOMAIN pending' : pending'[j].xact = pending'[l].xact => j = l
  <2> SUFFICES ASSUME NEW j \in 1..(Len(pending) - 1), NEW l \in 1..(Len(pending) - 1),
                      pending'[j].xact = pending'[l].xact
               PROVE  j = l
    BY <1>3
  <2> DEFINE a == IF j < i THEN j ELSE j + 1
             b == IF l < i THEN l ELSE l + 1
  <2>1. a \in DOMAIN pending /\ b \in DOMAIN pending
    BY <1>1
  <2>2. pending'[j] = pending[a] /\ pending'[l] = pending[b]
    BY <1>3
  <2>3. a = b
    BY <2>1, <2>2 DEF IInv, OnePlace
  <2> QED BY <1>1, <2>3
<1>8. OnePlace'
  BY <1>2, <1>4, <1>5, <1>6, <1>7 DEF IInv, OnePlace, NoXact, Xact
<1>9. \A y \in Xact : (Listed(y)' \/ thr'.xact = y \/ hnd'.xact = y)
                        <=> (Listed(y) \/ thr.xact = y \/ hnd.xact = y)
  BY <1>2, <1>4, <1>5 DEF NoXact, Xact
<1>10. Referred'
  BY <1>0, <1>6, <1>9 DEF IInv, Referred
<1>11. InTurn' /\ LastCalls'
  BY <1>0 DEF IInv, InTurn, LastCalls
<1> QED BY <1>8, <1>10, <1>11 DEF IInv

\* An answer arrives.
LEMMA AnswerStep ==
    ASSUME IInv, NEW m, Answer(m)
    PROVE  IInv'
<1>0. hnd.pc = "pop" /\ hnd.xact = NoXact /\ UNCHANGED <<scen, user, tid, refs, cb>>
  BY DEF Answer, IInv, Types, Hands
<1>1. CASE Found(m.tid) = {}
  <2>1. UNCHANGED <<now, pending, thr, hnd>>
    BY <1>1 DEF Answer, aioVars
  <2>2. Types' /\ Hands'
    BY <1>0, <2>1 DEF IInv, Types, Hands, Active
  <2> QED BY <1>0, <2>1, <2>2, NothingMoves
<1>2. CASE Found(m.tid) # {}
  <2>i. PICK i : i = First(m.tid)
    OBVIOUS
  <2>x. PICK x : x = pending[i].xact
    OBVIOUS
  <2>1. /\ pending' = RemoveAt(pending, i) /\ UNCHANGED <<now, thr>>
        /\ hnd' = [pc |-> "complete", xact |-> x, ok |-> m.ok, data |-> m.data]
    BY <1>2, <2>i, <2>x DEF Answer, takeOff
  <2>2. i \in DOMAIN pending
    BY <1>2, <2>i, FirstFound DEF IInv
  <2>3. pending' \in Seq(Entry)
    BY <2>1, <2>2, TakenOff DEF IInv, Types
  <2>4. x \in Xact /\ x # NoXact
    BY <2>x, <2>2, Listing DEF IInv
  <2>5. Types' /\ Hands'
    BY <1>0, <2>1, <2>3, <2>4 DEF IInv, Types, Hands, Active
  <2>6. hnd'.xact = x
    BY <2>1
  <2> QED BY <1>0, <2>x, <2>1, <2>2, <2>5, <2>6, TakeStep
<1> QED BY <1>1, <1>2

\* The timeout thread looks at the list.
LEMMA CheckStep ==
    ASSUME IInv, TimeoutCheck
    PROVE  IInv'
<1>0. thr.pc = "run" /\ thr.xact = NoXact /\ UNCHANGED <<scen, user, tid, refs, cb, hnd, now>>
  BY DEF TimeoutCheck, Check, IInv, Types, Hands
<1>1. pending \in Seq(Entry) /\ DOMAIN pending = 1..Len(pending) /\ Len(pending) \in Nat
  BY Listing DEF IInv, Types
<1>2. CASE pending # <<>> /\ Head(pending).timeout < now
  <2>x. PICK x : x = pending[1].xact
    OBVIOUS
  <2>1. 1 \in DOMAIN pending /\ Head(pending) = pending[1]
    BY <1>1, <1>2, EmptySeq
  <2>2. /\ thr' = [thr EXCEPT !.pc = "complete", !.xact = x] /\ pending' = Tail(pending)
    BY <1>2, <2>x, <2>1 DEF TimeoutCheck, Check
  <2>3. Tail(pending) = RemoveAt(pending, 1)
    <3>1. /\ RemoveAt(pending, 1) \in Seq(Entry) /\ DOMAIN RemoveAt(pending, 1) = 1..(Len(pending) - 1)
          /\ \A j \in 1..(Len(pending) - 1) : RemoveAt(pending, 1)[j] = pending[j + 1]
      <4>1. /\ RemoveAt(pending, 1) \in Seq(Entry)
            /\ DOMAIN RemoveAt(pending, 1) = 1..(Len(pending) - 1)
            /\ \A j \in 1..(Len(pending) - 1) :
                  RemoveAt(pending, 1)[j] = IF j < 1 THEN pending[j] ELSE pending[j + 1]
        BY <1>1, <2>1, TakenOff, ZenonT(60)
      <4>2. \A j \in 1..(Len(pending) - 1) : ~(j < 1)
        BY <1>1
      <4> QED BY <4>1, <4>2
    <3>2. /\ Tail(pending) \in Seq(Entry) /\ Len(Tail(pending)) = Len(pending) - 1
          /\ \A j \in 1..(Len(pending) - 1) : Tail(pending)[j] = pending[j + 1]
      BY <1>1, <1>2, HeadTailProperties, SMTT(60)
    <3>3. Len(RemoveAt(pending, 1)) = Len(pending) - 1
      BY <1>1, <2>1, TakenOff, ZenonT(60)
    <3> QED BY <3>1, <3>2, <3>3, SeqEqual, SMTT(60)
  <2>4. x \in Xact /\ x # NoXact /\ pending' \in Seq(Entry)
    <3>1. x \in Xact /\ x # NoXact
      BY <2>x, <2>1, Listing DEF IInv
    <3> QED BY <1>1, <1>2, <2>2, <3>1, HeadTailProperties
  <2>5. /\ thr'.xact = x /\ thr'.pc = "complete"
        /\ thr' \in [pc : {"run", "wait", "sleep", "complete", "drop"}, until : Int, xact : Xact \union {NoXact}]
    BY <2>2, <2>4 DEF IInv, Types
  <2>6. Types' /\ Hands'
    BY <1>0, <2>4, <2>5 DEF IInv, Types, Hands, Active
  <2> QED BY <1>0, <2>1, <2>2, <2>3, <2>5, <2>6, <2>x, TakeStep
<1>3. CASE ~(pending # <<>> /\ Head(pending).timeout < now)
  <2>1. UNCHANGED pending
    BY <1>3 DEF TimeoutCheck, Check
  <2>2. CASE pending = <<>>
    <3>1. thr' = [thr EXCEPT !.pc = "wait"]
      BY <2>2 DEF TimeoutCheck, Check
    <3>2. /\ thr'.xact = thr.xact /\ thr'.pc = "wait"
          /\ thr' \in [pc : {"run", "wait", "sleep", "complete", "drop"}, until : Int, xact : Xact \union {NoXact}]
      BY <3>1 DEF IInv, Types
    <3>3. Types' /\ Hands'
      BY <1>0, <2>1, <3>2 DEF IInv, Types, Hands, Active
    <3> QED BY <1>0, <2>1, <3>2, <3>3, NothingMoves
  <2>3. CASE pending # <<>>
    <3>0. Head(pending).timeout \in Int
      <4>1. Head(pending) \in Entry
        BY <1>1, <2>3, HeadTailProperties
      <4> QED BY <4>1 DEF Entry
    <3>1. thr' = [thr EXCEPT !.pc = "sleep", !.until = Head(pending).timeout]
      BY <1>3, <2>3 DEF TimeoutCheck, Check
    <3>2. /\ thr'.xact = thr.xact /\ thr'.pc = "sleep"
          /\ thr' \in [pc : {"run", "wait", "sleep", "complete", "drop"}, until : Int, xact : Xact \union {NoXact}]
      BY <3>0, <3>1 DEF IInv, Types
    <3>3. Types' /\ Hands'
      BY <1>0, <2>1, <3>2 DEF IInv, Types, Hands, Active
    <3> QED BY <1>0, <2>1, <3>2, <3>3, NothingMoves
  <2> QED BY <2>2, <2>3
<1> QED BY <1>2, <1>3

\* The timeout thread wakes up, or the clock goes on.
LEMMA TimeSteps ==
    ASSUME IInv, TimeoutWake \/ Clock
    PROVE  IInv'
<1>1. UNCHANGED <<scen, pending, user, tid, refs, cb, hnd>> /\ now' \in Int
  BY DEF TimeoutWake, Wake, Clock, Tick, IInv, Types
<1>2. /\ thr'.xact = thr.xact
      /\ thr'.pc = thr.pc \/ (thr.pc = "sleep" /\ thr'.pc = "run")
      /\ thr' \in [pc : {"run", "wait", "sleep", "complete", "drop"}, until : Int, xact : Xact \union {NoXact}]
  <2>0. thr \in [pc : {"run", "wait", "sleep", "complete", "drop"}, until : Int, xact : Xact \union {NoXact}]
    BY DEF IInv, Types
  <2>1. CASE TimeoutWake
    <3>1. thr.pc = "sleep" /\ thr' = [thr EXCEPT !.pc = "run", !.until = 0]
      BY <2>1 DEF TimeoutWake, Wake
    <3>2. thr' = [pc |-> "run", until |-> 0, xact |-> thr.xact]
      BY <2>0, <3>1
    <3>3. thr.xact \in Xact \union {NoXact}
      BY <2>0
    <3> QED BY <3>1, <3>2, <3>3
  <2>2. CASE Clock
    BY <2>0, <2>2 DEF Clock, Tick
  <2> QED BY <2>1, <2>2
<1>3. Types' /\ Hands'
  BY <1>1, <1>2 DEF IInv, Types, Hands, Active
<1> QED BY <1>1, <1>2, <1>3, NothingMoves

\* A transaction is completed: whoever has it, it is referred to, so that the
\* callback is still to come.
LEMMA CompleteSteps ==
    ASSUME IInv, HandlerComplete \/ TimeoutComplete
    PROVE  IInv'
<1>1. UNCHANGED <<scen, pending, now, user, tid, refs, cb>>
  BY DEF HandlerComplete, TimeoutComplete, Complete, aioVars
<1>2. CASE HandlerComplete
  <2>1. hnd.pc = "complete" /\ hnd' = [hnd EXCEPT !.pc = "drop"] /\ UNCHANGED thr
    BY <1>2 DEF HandlerComplete, aioVars
  <2>2. hnd' = [pc |-> "drop", xact |-> hnd.xact, ok |-> hnd.ok, data |-> hnd.data]
    BY <2>1 DEF IInv, Types
  <2>3. Types' /\ Hands'
    BY <1>1, <2>1, <2>2 DEF IInv, Types, Hands, Active
  <2> QED BY <1>1, <2>1, <2>2, <2>3, NothingMoves
<1>3. CASE TimeoutComplete
  <2>1. thr.pc = "complete" /\ thr' = [thr EXCEPT !.pc = "drop"] /\ UNCHANGED hnd
    BY <1>3 DEF TimeoutComplete
  <2>2. /\ thr'.xact = thr.xact /\ thr'.pc = "drop"
        /\ thr' \in [pc : {"run", "wait", "sleep", "complete", "drop"}, until : Int, xact : Xact \union {NoXact}]
    BY <2>1 DEF IInv, Types
  <2>3. Types' /\ Hands'
    BY <1>1, <2>1, <2>2 DEF IInv, Types, Hands, Active
  <2> QED BY <1>1, <2>1, <2>2, <2>3, NothingMoves
<1> QED BY <1>2, <1>3

\* The thread that had transaction x is done with it: its reference goes.
LEMMA LetGo ==
    ASSUME IInv, NEW x \in Xact, Drop(x[1], x[2]), UNCHANGED <<now, user, pending>>,
           Hands',
           thr' \in [pc : {"run", "wait", "sleep", "complete", "drop"}, until : Int, xact : Xact \union {NoXact}],
           hnd' = [pc |-> hnd'.pc, xact |-> hnd'.xact, ok |-> hnd'.ok, data |-> hnd'.data],
           hnd'.pc \in {"pop", "complete", "drop"}, hnd'.xact \in Xact \union {NoXact},
           \/ thr.xact = x /\ thr'.xact = NoXact /\ hnd'.xact = hnd.xact
           \/ hnd.xact = x /\ hnd'.xact = NoXact /\ thr'.xact = thr.xact
    PROVE  IInv'
<1>1. x[1] \in Active /\ x[2] \in refs[x[1]] /\ x[2] # 0 /\ x = <<x[1], x[2]>>
  BY DEF IInv, Referred, Xact
<1>2. /\ refs' \in [Active -> SUBSET Nat] /\ refs'[x[1]] = refs[x[1]] \ {x[2]}
      /\ \A u \in Active \ {x[1]} : refs'[u] = refs[u]
      /\ DOMAIN cb' = Active /\ Active' = Active /\ UNCHANGED <<scen, tid>>
      /\ LastCalls'
  BY <1>1, DropCalls
<1>3. \A y \in Xact : (Listed(y)' <=> Listed(y)) /\ (Issuing(y)' <=> Issuing(y))
  BY <1>2 DEF Listed, Issuing
<1>4. ~Listed(x) /\ ~Issuing(x) /\ thr'.xact # x /\ hnd'.xact # x
  BY DEF IInv, OnePlace, Xact, NoXact
<1>5. \A y \in Xact \ {x} : (thr'.xact = y \/ hnd'.xact = y) <=> (thr.xact = y \/ hnd.xact = y)
  BY DEF Xact, NoXact
<1>6. \A y \in Xact \ {x} : y[1] \in Active => (y[2] \in refs'[y[1]] <=> y[2] \in refs[y[1]])
  BY <1>1, <1>2 DEF Xact
<1>7. Types'
  BY <1>2 DEF IInv, Types
<1>8. OnePlace'
  <2>1. \A y \in Xact : ~(thr'.xact = y /\ hnd'.xact = y)
    BY <1>4, <1>5 DEF NoXact, Xact
  <2> QED BY <1>3, <1>4, <1>5, <2>1 DEF IInv, OnePlace
<1>9. Referred'
  BY <1>2, <1>3, <1>4, <1>5, <1>6 DEF IInv, Referred
<1>10. InTurn'
  BY <1>1, <1>2 DEF IInv, InTurn
<1> QED BY <1>2, <1>7, <1>8, <1>9, <1>10 DEF IInv

\* Whoever completes a transaction lets it go.
LEMMA DropSteps ==
    ASSUME IInv, HandlerDrop \/ TimeoutDrop
    PROVE  IInv'
<1>1. CASE HandlerDrop
  <2>x. PICK x : x = hnd.xact
    OBVIOUS
  <2>1. /\ hnd.pc = "drop" /\ Drop(x[1], x[2]) /\ hnd' = HandlerIdle
        /\ UNCHANGED <<now, user, pending, thr>>
    BY <1>1, <2>x DEF HandlerDrop, aioVars
  <2>2. x \in Xact
    BY <2>x, <2>1 DEF IInv, Types, Hands
  <2>3. hnd' = [pc |-> "pop", xact |-> NoXact, ok |-> FALSE, data |-> <<>>]
    BY <2>1 DEF HandlerIdle
  <2>4. Hands'
    BY <2>1, <2>3 DEF IInv, Hands
  <2> QED BY <2>x, <2>1, <2>2, <2>3, <2>4, LetGo DEF IInv, Types
<1>2. CASE TimeoutDrop
  <2>x. PICK x : x = thr.xact
    OBVIOUS
  <2>1. /\ thr.pc = "drop" /\ Drop(x[1], x[2]) /\ thr' = [thr EXCEPT !.pc = "run", !.xact = NoXact]
        /\ UNCHANGED <<now, user, pending, hnd>>
    BY <1>2, <2>x DEF TimeoutDrop
  <2>2. x \in Xact
    BY <2>x, <2>1 DEF IInv, Types, Hands
  <2>3. /\ thr'.xact = NoXact /\ thr'.pc = "run"
        /\ thr' \in [pc : {"run", "wait", "sleep", "complete", "drop"}, until : Int, xact : Xact \union {NoXact}]
    BY <2>1 DEF IInv, Types
  <2>4. Hands'
    BY <2>1, <2>3 DEF IInv, Hands
  <2> QED BY <2>x, <2>1, <2>2, <2>3, <2>4, LetGo DEF IInv, Types
<1> QED BY <1>1, <1>2

-----------------------------------------------------------------------------
\* Every step keeps the invariant.
LEMMA Inductive == IInv /\ [Next]_vars => IInv'
<1> SUFFICES ASSUME IInv, [Next]_vars PROVE IInv'
  OBVIOUS
<1>1. CASE UNCHANGED vars \/ \E m \in net : Lose(m)
  <2>1. UNCHANGED <<scen, pending, now, thr, user, tid, refs, cb, hnd>>
    BY <1>1 DEF vars, Lose, aioVars
  <2>2. Types' /\ Hands'
    BY <2>1 DEF IInv, Types, Hands, Active
  <2> QED BY <2>1, <2>2, NothingMoves
<1>2. ASSUME NEW t \in Active, UserStep(t) PROVE IInv'
  BY <1>2, SetStep, StampStep, AddStep, SendStep, ReturnStep DEF UserStep
<1>3. CASE HandlerStep \/ TimeoutStep \/ Clock
  BY <1>3, CompleteSteps, DropSteps, CheckStep, TimeSteps DEF HandlerStep, TimeoutStep
<1>4. ASSUME NEW m \in net, Answer(m) PROVE IInv'
  BY <1>4, AnswerStep
<1> QED BY <1>1, <1>2, <1>3, <1>4 DEF Next

\* It holds at the start.
LEMMA Initially == Init => IInv
<1> SUFFICES ASSUME Init PROVE IInv
  OBVIOUS
<1>0. pending = <<>> /\ DOMAIN pending = {} /\ pending \in Seq(Entry)
  BY DEF Init, AioInit
<1>1. /\ now = 0 /\ thr = [pc |-> "run", until |-> 0, xact |-> NoXact]
      /\ hnd = [pc |-> "pop", xact |-> NoXact, ok |-> FALSE, data |-> <<>>]
      /\ tid = 0 /\ scen \in Scenarios
  BY DEF Init, AioInit, HandlerIdle
<1>2. user = [t \in Active |-> [pc |-> "set", part |-> 1, tid |-> 0, timeout |-> 0]]
  BY DEF Init
<1>3. user \in [Active -> UserState] /\ \A t \in Active : user[t].pc = "set" /\ user[t].part = 1
  BY <1>2 DEF UserState
<1>4. refs = [t \in Active |-> {0}] /\ cb = [t \in Active |-> <<>>]
  BY DEF Init
<1>5. Types /\ Hands
  BY <1>0, <1>1, <1>3, <1>4 DEF Types, Hands
<1>6. \A x \in Xact : ~Issuing(x) /\ ~Listed(x) /\ thr.xact # x /\ hnd.xact # x
  BY <1>0, <1>1, <1>3 DEF Issuing, Listed, Xact, NoXact
<1>7. OnePlace /\ Referred
  BY <1>0, <1>4, <1>6 DEF OnePlace, Referred, Xact
<1>8. InTurn /\ LastCalls
  BY <1>3, <1>4 DEF InTurn, LastCalls
<1> QED BY <1>5, <1>7, <1>8 DEF IInv

\* The callback of a read runs once, and when it does no transaction of the read
\* is pending or in the hands of a thread; no transaction is ever completed by the
\* handler and by the timeout thread both.  For all scenarios and timeouts.
THEOREM CalledBackOnce == Spec => []CallbackOnce
<1>1. IInv => CallbackOnce
  <2> SUFFICES ASSUME IInv, NEW t \in Active
               PROVE  /\ Len(cb[t]) <= 1
                      /\ cb[t] # <<>> => \A i \in Parts(t) : ~Open(<<t, i>>)
                      /\ \A i \in Parts(t) : ~(thr.xact = <<t, i>> /\ hnd.xact = <<t, i>>)
    BY DEF CallbackOnce
  <2>1. \A i \in Parts(t) : <<t, i>> \in Xact
    BY ActiveThreads, ScenarioAssumption DEF IInv, Types, Parts, Req, Active, Xact
  <2>2. Len(cb[t]) <= 1
    <3>1. cb[t] = <<>> \/ \E e : cb[t] = <<e>>
      BY DEF IInv, LastCalls
    <3>2. Len(<<>>) <= 1 /\ \A e : Len(<<e>>) <= 1
      OBVIOUS
    <3> QED BY <3>1, <3>2
  <2>3. ASSUME cb[t] # <<>>, NEW i \in Parts(t) PROVE ~Open(<<t, i>>)
    <3>1. i \notin refs[t]
      BY <2>3 DEF IInv, LastCalls
    <3> QED BY <2>1, <3>1 DEF IInv, Referred, Open, Listed
  <2> QED BY <2>1, <2>2, <2>3 DEF IInv, OnePlace
<1> QED BY <1>1, Initially, Inductive, PTL DEF Spec

\* Every step leaves the buffers alone, or changes one of them.
LEMMA BufferDomain == IInv /\ DOMAIN buf = Active /\ [Next]_vars => (DOMAIN buf = Active)'
<1> SUFFICES ASSUME IInv, DOMAIN buf = Active, [Next]_vars PROVE DOMAIN buf' = Active'
  OBVIOUS
<1>1. \A t, i : Drop(t, i) => DOMAIN buf' = DOMAIN buf /\ UNCHANGED scen
  BY DEF Drop
<1>2. \A x, k, d : Complete(x, k, d) => DOMAIN buf' = DOMAIN buf /\ UNCHANGED scen
  BY DEF Complete
<1>3. DOMAIN buf' = DOMAIN buf /\ UNCHANGED scen
  <2>1. CASE HandlerStep
    BY <1>1, <1>2, <2>1 DEF HandlerStep, HandlerComplete, HandlerDrop
  <2>2. CASE TimeoutStep \/ Clock
    BY <1>1, <1>2, <2>2 DEF TimeoutStep, TimeoutCheck, TimeoutWake, TimeoutComplete, TimeoutDrop, Clock
  <2>3. ASSUME NEW t \in Active, UserStep(t) PROVE DOMAIN buf' = DOMAIN buf /\ UNCHANGED scen
    BY <1>1, <2>3 DEF UserStep, Set, Stamp, Add, Send, Return
  <2>4. ASSUME NEW m \in net, Answer(m) \/ Lose(m) PROVE DOMAIN buf' = DOMAIN buf /\ UNCHANGED scen
    BY <2>4 DEF Answer, Lose
  <2>5. CASE UNCHANGED vars
    BY <2>5 DEF vars
  <2> QED BY <2>1, <2>2, <2>3, <2>4, <2>5 DEF Next
<1> QED BY <1>3 DEF Active

\* Once a read was called back the buffer of the program is not written any more:
\* neither by an answer that comes late nor by a conversion.
THEOREM BufferLeftAlone == Spec => BufferReleased
<1>1. IInv /\ DOMAIN buf = Active /\ [Next]_vars
          => [\A t \in Active : cb[t] # <<>> => buf'[t] = buf[t]]_vars
  <2> SUFFICES ASSUME IInv, DOMAIN buf = Active, Next, NEW t \in Active, cb[t] # <<>> PROVE buf'[t] = buf[t]
    OBVIOUS
  <2>0. refs[t] = {}
    BY DEF IInv, LastCalls
  <2>1. ASSUME NEW u \in Active, NEW i \in refs[u], Drop(u, i) PROVE buf'[t] = buf[t]
    <3>1. u # t
      BY <2>0
    <3>2. \/ buf' = buf
          \/ buf' = [buf EXCEPT ![u] = doComplete(Req(u).f, buf[u], Req(u).nelms, Req(u).elsz)]
      BY <2>1 DEF Drop
    <3> QED BY <3>1, <3>2
  <2>2. ASSUME NEW x \in Xact, thr.xact = x \/ hnd.xact = x
        PROVE  x[1] \in Active /\ x[2] \in refs[x[1]] /\ x[1] # t
    BY <2>0, <2>2 DEF IInv, Referred
  <2>3. ASSUME NEW x \in Xact, thr.xact = x \/ hnd.xact = x, NEW ok, NEW d, Complete(x, ok, d)
        PROVE  buf'[t] = buf[t]
    <3>1. \/ buf' = buf
          \/ buf' = [buf EXCEPT ![x[1]] = Paste(@, (x[2] - 1) * Size(x[1]), d)]
      BY <2>3 DEF Complete
    <3> QED BY <2>2, <2>3, <3>1
  <2>4. CASE HandlerStep
    <3>1. hnd.xact \in Xact
      BY <2>4 DEF HandlerStep, HandlerComplete, HandlerDrop, IInv, Types, Hands
    <3> QED BY <2>1, <2>2, <2>3, <2>4, <3>1 DEF HandlerStep, HandlerComplete, HandlerDrop
  <2>5. CASE TimeoutComplete \/ TimeoutDrop
    <3>1. thr.xact \in Xact
      BY <2>5 DEF TimeoutComplete, TimeoutDrop, IInv, Types, Hands
    <3> QED BY <2>1, <2>2, <2>3, <2>5, <3>1 DEF TimeoutComplete, TimeoutDrop
  <2>6. CASE TimeoutCheck \/ TimeoutWake \/ Clock
    BY <2>6 DEF TimeoutCheck, TimeoutWake, Clock
  <2>7. ASSUME NEW u \in Active, UserStep(u) PROVE buf'[t] = buf[t]
    <3>1. CASE Return(u)
      <4>1. 0 \in refs[u]
        BY <3>1 DEF Return, IInv, InTurn
      <4> QED BY <2>1, <3>1, <4>1 DEF Return
    <3> QED BY <2>7, <3>1 DEF UserStep, Set, Stamp, Add, Send
  <2>8. ASSUME NEW m \in net, Answer(m) \/ Lose(m) PROVE buf'[t] = buf[t]
    BY <2>8 DEF Answer, Lose
  <2> QED BY <2>4, <2>5, <2>6, <2>7, <2>8 DEF Next, TimeoutStep
<1>2. Init => DOMAIN buf = Active
  BY DEF Init
<1> QED BY <1>1, <1>2, Initially, Inductive, BufferDomain, PTL DEF Spec, BufferReleased

-----------------------------------------------------------------------------
(* Powers of two and division.                                             *)

\* A set of numbers that is not empty has a least one.
LEMMA Least ==
    ASSUME NEW S, S \subseteq Nat, S # {}
    PROVE  \E i \in S : \A j \in S : i <= j
<1>1. PICK i \in S : \A j \in S : ~(<<j, i>> \in OpToRel(<, Nat))
  BY NatLessThanWellFounded, WFMin
<1>2. \A a, b \in Nat : a < b => <<a, b>> \in OpToRel(<, Nat)
  BY Zenon DEF OpToRel
<1>3. \A j \in S : j \in Nat /\ i \in Nat /\ ~(j < i)
  BY <1>1, <1>2, Zenon
<1> QED BY <1>3

\* Powers of two, counted by the subsets of intervals.
LEMMA PowCounts ==
    ASSUME NEW n \in Nat
    PROVE  IsFiniteSet(SUBSET (1..n)) /\ Cardinality(SUBSET (1..n)) = 2^n /\ 2^n \in Nat
<1>1. IsFiniteSet(1..n) /\ Cardinality(1..n) = n
  BY FS_Interval
<1>2. IsFiniteSet(SUBSET (1..n)) /\ Cardinality(SUBSET (1..n)) = 2^Cardinality(1..n)
  BY <1>1, FS_SUBSET
<1>3. 2^Cardinality(1..n) = 2^n
  BY <1>1, Zenon
<1> QED BY <1>2, <1>3, FS_CardinalityType

\* Twice as many with one bit more.
LEMMA PowSucc ==
    ASSUME NEW n \in Nat
    PROVE  2^(n + 1) = 2 * 2^n
<1> DEFINE A == SUBSET (1..n)
           B == {s \in SUBSET (1..(n + 1)) : n + 1 \in s}
           f == [s \in A |-> s \union {n + 1}]
<1>1. IsFiniteSet(A) /\ Cardinality(A) = 2^n /\ 2^n \in Nat
  BY PowCounts
<1>2. SUBSET (1..(n + 1)) = A \union B /\ A \intersect B = {}
  <2>1. 1..(n + 1) = (1..n) \union {n + 1} /\ n + 1 \notin 1..n
    OBVIOUS
  <2> QED BY <2>1
<1>3. f \in Bijection(A, B)
  <2>1. f \in [A -> B]
    <3>1. 1..(n + 1) = (1..n) \union {n + 1}
      OBVIOUS
    <3> QED BY <3>1
  <2>2. \A s, r \in A : f[s] = f[r] => s = r
    <3>1. n + 1 \notin 1..n
      OBVIOUS
    <3> QED BY <3>1
  <2>3. \A r \in B : \E s \in A : f[s] = r
    <3> SUFFICES ASSUME NEW r \in B PROVE \E s \in A : f[s] = r
      OBVIOUS
    <3> DEFINE s == r \ {n + 1}
    <3>1. s \in A
      <4>1. 1..(n + 1) = (1..n) \union {n + 1}
        OBVIOUS
      <4> QED BY <4>1
    <3>2. f[s] = r
      BY <3>1
    <3> QED BY <3>1, <3>2
  <2> HIDE DEF f, A, B
  <2>4. f \in Injection(A, B) /\ f \in Surjection(A, B)
    BY <2>1, <2>2, <2>3 DEF Injection, Surjection, IsInjective
  <2> QED BY <2>4 DEF Bijection
<1>4. ExistsBijection(A, B)
  BY <1>3 DEF ExistsBijection
<1> HIDE DEF A, B, f
<1>5. IsFiniteSet(B) /\ Cardinality(B) = 2^n
  BY <1>1, <1>4, FS_Bijection
<1>6. Cardinality(A \intersect B) = 0
  BY <1>2, FS_EmptySet
<1>7. Cardinality(A \union B) = Cardinality(A) + Cardinality(B) - Cardinality(A \intersect B)
  BY <1>1, <1>5, FS_Union
<1>8. Cardinality(SUBSET (1..(n + 1))) = 2^(n + 1)
  BY PowCounts
<1>9. Cardinality(SUBSET (1..(n + 1))) = Cardinality(A \union B)
  BY <1>2
<1>10. 2^(n + 1) = 2^n + 2^n - 0
  BY <1>1, <1>5, <1>6, <1>7, <1>8, <1>9
<1> QED BY <1>1, <1>10

\* 2^n is a positive number.
LEMMA PowType ==
    ASSUME NEW n \in Nat
    PROVE  2^n \in Nat /\ 2^n >= 1
<1> DEFINE S == {k \in Nat : ~(2^k >= 1)}
<1> SUFFICES ASSUME S # {} PROVE FALSE
  BY PowCounts
<1>1. PICK m \in S : \A j \in S : m <= j
  BY Least
<1>2. CASE m = 0
  BY <1>1, <1>2
<1>3. CASE m # 0
  <2>1. m - 1 \in Nat /\ m - 1 \notin S /\ (m - 1) + 1 = m
    BY <1>1, <1>3
  <2>2. 2^m = 2 * 2^(m - 1) /\ 2^(m - 1) >= 1 /\ 2^(m - 1) \in Nat
    BY <2>1, PowSucc, PowCounts
  <2> QED BY <1>1, <2>2
<1> QED BY <1>2, <1>3

\* Powers multiply.
LEMMA PowSum ==
    ASSUME NEW a \in Nat, NEW b \in Nat
    PROVE  2^(a + b) = 2^a * 2^b
<1> DEFINE S == {k \in Nat : 2^(a + k) # 2^a * 2^k}
<1> SUFFICES ASSUME S # {} PROVE FALSE
  OBVIOUS
<1>1. PICK m \in S : \A j \in S : m <= j
  BY Least
<1>2. CASE m = 0
  <2>1. 2^m = 1 /\ a + m = a
    BY <1>2
  <2> QED BY <1>1, <2>1, PowType
<1>3. CASE m # 0
  <2>1. m - 1 \in Nat /\ m - 1 \notin S /\ (m - 1) + 1 = m /\ (a + (m - 1)) + 1 = a + m /\ a + (m - 1) \in Nat
    BY <1>1, <1>3
  <2>2. 2^m = 2 * 2^(m - 1) /\ 2^(a + m) = 2 * 2^(a + (m - 1))
    BY <2>1, PowSucc
  <2>3. 2^(a + (m - 1)) = 2^a * 2^(m - 1)
    BY <2>1
  <2>4. \A x, y \in Nat : 2 * (x * y) = x * (2 * y)
    OBVIOUS
  <2>5. 2^(a + m) = 2^a * 2^m
    BY <2>1, <2>2, <2>3, <2>4, PowType
  <2> QED BY <1>1, <2>5
<1> QED BY <1>2, <1>3

-----------------------------------------------------------------------------
\* Division: what characterises quotient and remainder.
LEMMA DivMod ==
    ASSUME NEW x \in Int, NEW b \in Nat \ {0}
    PROVE  /\ x \div b \in Int /\ x % b \in Nat /\ x % b < b /\ x = b * (x \div b) + (x % b)
           /\ (x >= 0 => x \div b \in Nat)
<1>1. x \div b \in Int /\ x % b \in Nat /\ x % b < b /\ x = b * (x \div b) + (x % b)
  OBVIOUS
<1>2. x >= 0 => x \div b >= 0
  OBVIOUS
<1> QED BY <1>1, <1>2

\* Quotient and remainder are the only numbers of this kind.
LEMMA DivIs ==
    ASSUME NEW x \in Int, NEW b \in Nat \ {0}, NEW q \in Int, NEW r \in Nat,
           x = b * q + r, r < b
    PROVE  x \div b = q /\ x % b = r
<1> DEFINE p == x \div b
           s == x % b
<1>1. p \in Int /\ s \in Nat /\ s < b /\ x = b * p + s
  BY DivMod
<1> HIDE DEF p, s
<1>2. b * (p - q) = r - s
  BY <1>1
<1>3. CASE p - q >= 1
  <2>1. b * (p - q) >= b
    BY <1>1, <1>3
  <2> QED BY <1>1, <1>2, <2>1
<1>4. CASE p - q <= -1
  <2>1. b * (p - q) <= -b
    BY <1>1, <1>4
  <2> QED BY <1>1, <1>2, <2>1
<1>5. CASE p = q
  BY <1>1, <1>5 DEF p, s
<1> QED BY <1>1, <1>3, <1>4, <1>5

\* A multiple of b does not change the remainder, and adds to the quotient.
LEMMA DivAdd ==
    ASSUME NEW x \in Int, NEW b \in Nat \ {0}, NEW k \in Int
    PROVE  (b * k + x) \div b = k + x \div b /\ (b * k + x) % b = x % b
<1>1. x \div b \in Int /\ x % b \in Nat /\ x % b < b /\ x = b * (x \div b) + (x % b)
  BY DivMod
<1> DEFINE q == x \div b
           r == x % b
<1> HIDE DEF q, r
<1>2. b * k + x = b * (k + q) + r /\ b * k + x \in Int /\ k + q \in Int /\ r \in Nat /\ r < b
  BY <1>1 DEF q, r
<1>3. (b * k + x) \div b = k + q /\ (b * k + x) % b = r
  BY <1>2, DivIs
<1> QED BY <1>3 DEF q, r

\* The quotient of a remainder.
LEMMA ModDiv ==
    ASSUME NEW x \in Int, NEW p \in Nat \ {0}, NEW r \in Nat \ {0}
    PROVE  (x % (p * r)) \div p = (x \div p) % r
<1> DEFINE k == x \div (p * r)
           z == x % (p * r)
           y == r * k
           w == z \div p
<1>1. p * r \in Nat \ {0}
  OBVIOUS
<1>2. k \in Int /\ z \in Nat /\ z < p * r /\ x = (p * r) * k + z
  BY <1>1, DivMod
<1> HIDE DEF k, z
<1>3. w \in Nat /\ z = p * w + (z % p) /\ z % p \in Nat /\ z % p < p
  BY <1>2, DivMod
<1> HIDE DEF w
<1>4. w < r
  <2> SUFFICES ASSUME w >= r PROVE FALSE
    BY <1>3
  <2>1. p * w >= p * r /\ p * w \in Nat /\ p * r \in Nat
    BY <1>3
  <2>2. p * w + (z % p) >= p * r
    BY <1>3, <2>1
  <2> QED BY <1>1, <1>2, <1>3, <2>2
<1>5. x \div p = r * k + w
  <2>1. x = p * y + z /\ y \in Int
    BY <1>2
  <2> HIDE DEF y
  <2>t. z \in Int /\ p \in Nat \ {0}
    BY <1>2
  <2>2. (p * y + z) \div p = y + z \div p
    BY <2>t, <2>1, DivAdd, Zenon
  <2> QED BY <2>1, <2>2 DEF w, y
<1>6. (r * k + w) % r = w
  BY <1>2, <1>3, <1>4, DivIs
<1> QED BY <1>5, <1>6 DEF w, z

\* The remainder of a remainder.
LEMMA ModMod ==
    ASSUME NEW x \in Int, NEW p \in Nat \ {0}, NEW r \in Nat \ {0}
    PROVE  (x % (p * r)) % p = x % p
<1> DEFINE k == x \div (p * r)
           z == x % (p * r)
           y == r * k
<1>1. p * r \in Nat \ {0}
  OBVIOUS
<1>2. k \in Int /\ z \in Nat /\ x = (p * r) * k + z
  BY <1>1, DivMod
<1> HIDE DEF k, z
<1>3. x = p * y + z /\ y \in Int
  BY <1>2
<1> HIDE DEF y
<1>t. z \in Int /\ p \in Nat \ {0}
  BY <1>2
<1>4. (p * y + z) % p = z % p
  BY <1>t, <1>3, DivAdd, Zenon
<1> QED BY <1>3, <1>4 DEF z

\* The quotient of a quotient.
LEMMA DivDiv ==
    ASSUME NEW x \in Int, NEW p \in Nat \ {0}, NEW r \in Nat \ {0}
    PROVE  (x \div p) \div r = x \div (p * r)
OBVIOUS

-----------------------------------------------------------------------------
(* Bits and digits of a number.                                            *)

\* n bits of number x, from bit o on.
Bits(x, o, n) == (x \div 2^o) % 2^n

\* Bits make up a number again.
LEMMA BitsType ==
    ASSUME NEW x \in Int, NEW o \in Nat, NEW n \in Nat
    PROVE  /\ x \div 2^o \in Int /\ Bits(x, o, n) \in Nat /\ Bits(x, o, n) < 2^n
           /\ 2^n \in Nat \ {0} /\ 2^o \in Nat \ {0}
<1>1. 2^n \in Nat \ {0} /\ 2^o \in Nat \ {0}
  BY PowType
<1>2. x \div 2^o \in Int
  BY <1>1, DivMod
<1> QED BY <1>1, <1>2, DivMod DEF Bits

\* Bits of bits.
LEMMA BitsBits ==
    ASSUME NEW x \in Int, NEW o \in Nat, NEW n \in Nat, NEW p \in Nat, NEW m \in Nat, p + m <= n
    PROVE  Bits(Bits(x, o, n), p, m) = Bits(x, o + p, m)
<1> DEFINE r == n - p - m
           y == x \div 2^o
           A == 2^p
           B == 2^m
           C == 2^r
           D == B * C
<1>1. r \in Nat /\ m + r \in Nat /\ p + (m + r) = n
  OBVIOUS
<1>2. A \in Nat \ {0} /\ B \in Nat \ {0} /\ C \in Nat \ {0} /\ 2^o \in Nat \ {0} /\ y \in Int
  BY <1>1, BitsType
<1>3. 2^n = A * D /\ 2^(o + p) = 2^o * A
  BY <1>1, PowSum
<1>4. D \in Nat \ {0}
  BY <1>2
<1>5. x \div 2^(o + p) = y \div A /\ y \div A \in Int
  <2>1. (x \div 2^o) \div A = x \div (2^o * A)
    BY <1>2, DivDiv
  <2>2. y \div A \in Int
    BY <1>2, DivMod
  <2> QED BY <1>3, <2>1, <2>2
<1> HIDE DEF A, B, C, D, y, r
<1>6. (y % (A * D)) \div A = (y \div A) % D
  BY <1>2, <1>4, ModDiv
<1>7. ((y \div A) % D) % B = (y \div A) % B
  BY <1>2, <1>5, ModMod DEF D
<1>8. Bits(Bits(x, o, n), p, m) = ((y % (A * D)) \div A) % B
  BY <1>3 DEF Bits, y, A, B
<1>9. Bits(x, o + p, m) = (y \div A) % B
  BY <1>5 DEF Bits, B
<1> QED BY <1>6, <1>7, <1>8, <1>9

\* ... and those that are cut off at the upper end.
LEMMA BitsTop ==
    ASSUME NEW x \in Int, NEW o \in Nat, NEW n \in Nat, NEW p \in Nat, NEW m \in Nat,
           p <= n, n <= p + m
    PROVE  Bits(Bits(x, o, n), p, m) = Bits(x, o + p, n - p)
<1> DEFINE r == n - p
           z == Bits(x, o, n)
           w == Bits(x, o + p, r)
<1>1. r \in Nat /\ r <= m /\ m - r \in Nat /\ p + r <= n /\ o + p \in Nat /\ r + (m - r) = m
  OBVIOUS
<1>2. z \in Int /\ w \in Nat /\ w < 2^r /\ 2^r \in Nat
  <2>1. z \in Nat
    BY BitsType
  <2>2. w \in Nat /\ w < 2^r /\ 2^r \in Nat \ {0}
    BY <1>1, BitsType
  <2> QED BY <2>1, <2>2
<1> HIDE DEF r, w
<1>3. Bits(z, p, r) = w
  <2>1. Bits(Bits(x, o, n), p, r) = Bits(x, o + p, r)
    BY <1>1, BitsBits
  <2> QED BY <2>1 DEF w
<1> HIDE DEF z
<1>4. 2^m = 2^r * 2^(m - r) /\ 2^(m - r) \in Nat /\ 2^(m - r) >= 1 /\ 2^m \in Nat \ {0} /\ 2^p \in Nat \ {0}
  <2>1. 2^(r + (m - r)) = 2^r * 2^(m - r)
    BY <1>1, PowSum
  <2>2. 2^m = 2^r * 2^(m - r)
    BY <1>1, <2>1, Zenon
  <2>3. 2^(m - r) \in Nat /\ 2^(m - r) >= 1
    BY <1>1, PowType
  <2>4. 2^m \in Nat /\ 2^m >= 1 /\ 2^p \in Nat /\ 2^p >= 1
    BY PowType
  <2> QED BY <2>2, <2>3, <2>4
<1>5. z \div 2^p = w
  <2>1. z < 2^p * 2^r
    <3>1. z < 2^n
      BY BitsType DEF z
    <3>2. 2^n = 2^p * 2^r
      BY <1>1, PowSum DEF r
    <3> QED BY <3>1, <3>2
  <2>2. z \div 2^p \in Int /\ z \in Nat /\ 2^r \in Nat \ {0}
    <3>1. z \in Nat
      BY BitsType DEF z
    <3> QED BY <1>1, <1>2, <1>4, <3>1, DivMod, PowType
  <2>3. 0 <= z \div 2^p /\ z \div 2^p < 2^r
    <3> DEFINE q == z \div 2^p
               a == 2^p
               b == 2^r
    <3>0. a \in Nat \ {0} /\ b \in Nat /\ z < a * b /\ z \in Int /\ z >= 0
      BY <1>4, <2>1, <2>2
    <3>1. q \in Nat /\ z = a * q + (z % a) /\ z % a \in Nat /\ a \in Nat \ {0} /\ b \in Nat /\ z < a * b /\ z \in Nat
      <4> HIDE DEF a, b
      <4>1. z \div a \in Nat /\ z % a \in Nat /\ z = a * (z \div a) + (z % a)
        BY <3>0, DivMod
      <4> QED BY <3>0, <4>1 DEF a
    <3> HIDE DEF q, a, b
    <3>2. CASE q >= b
      <4>1. a * q >= a * b /\ a * q \in Nat /\ a * b \in Nat
        BY <3>1, <3>2
      <4> QED BY <3>1, <4>1
    <3>3. 0 <= q /\ q < b
      BY <3>1, <3>2
    <3> QED BY <3>3 DEF q, b
  <2>4. (z \div 2^p) % 2^r = z \div 2^p
    <3>1. \A a \in Int, b \in Nat \ {0} : 0 <= a /\ a < b => a % b = a
      OBVIOUS
    <3> QED BY <2>2, <2>3, <3>1
  <2> QED BY <1>3, <2>4 DEF Bits
<1>6. w < 2^m
  <2>1. \A a, b \in Nat : b >= 1 => a <= a * b
    OBVIOUS
  <2>2. 2^r <= 2^m
    BY <1>2, <1>4, <2>1
  <2> QED BY <1>2, <1>4, <2>2
<1>7. w % 2^m = w
  BY <1>2, <1>4, <1>6
<1>8. Bits(z, p, m) = w
  BY <1>5, <1>7 DEF Bits
<1> QED BY <1>8 DEF z, w, r

\* All bits of a number are the number.
LEMMA BitsAll ==
    ASSUME NEW x \in Nat, NEW n \in Nat, x < 2^n
    PROVE  Bits(x, 0, n) = x
<1>1. 2^0 = 1 /\ 2^n \in Nat \ {0}
  BY PowType
<1>2. x \div 1 = x /\ x % 2^n = x
  BY <1>1
<1> QED BY <1>1, <1>2 DEF Bits

\* Numbers that differ by a multiple of 2^s have the same bits below s.
Differ(z, x, s) == \E k \in Int : z = x + 2^s * k

\* They have the same bits there.
LEMMA BitsAgree ==
    ASSUME NEW z, NEW x, NEW s, NEW o, NEW n, x \in Int /\ s \in Nat /\ o \in Nat /\ n \in Nat,
           Differ(z, x, s), o + n <= s
    PROVE  Bits(z, o, n) = Bits(x, o, n)
<1>0. PICK k \in Int : z = x + 2^s * k
  BY DEF Differ
<1> DEFINE r == s - o - n
           A == 2^o
           B == 2^n
           C == 2^r
           j == C * k
           i == B * j
           y == x \div A
<1>1. r \in Nat /\ n + r \in Nat /\ o + (n + r) = s
  OBVIOUS
<1>2. A \in Nat \ {0} /\ B \in Nat \ {0} /\ C \in Nat \ {0} /\ y \in Int
  BY <1>1, BitsType
<1>3. 2^s = A * (B * C)
  BY <1>1, PowSum
<1>4. j \in Int /\ i \in Int
  BY <1>2
<1>5. x + 2^s * k = A * i + x
  <2>1. \A a, b, c \in Nat : (a * (b * c)) * k = a * (b * (c * k))
    OBVIOUS
  <2>2. 2^s * k = A * i
    BY <1>2, <1>3, <2>1
  <2> QED BY <2>2, <1>2, <1>4
<1> HIDE DEF A, B, C, i, j, y
<1>6. (A * i + x) \div A = i + x \div A
  BY <1>2, <1>4, DivAdd
<1>7. (B * j + y) % B = y % B
  BY <1>2, <1>4, DivAdd
<1>8. Bits(z, o, n) = (i + y) % B
  BY <1>0, <1>5, <1>6 DEF Bits, y, A, B
<1>9. Bits(x, o, n) = y % B
  BY DEF Bits, y, A, B
<1> QED BY <1>7, <1>8, <1>9 DEF i

\* The top bit says whether a number of s bits is in the upper half.
LEMMA TopBit ==
    ASSUME NEW s \in Nat \ {0}, NEW x \in Nat, x < 2^s
    PROVE  (Bits(x, s - 1, 1) = 1) <=> (x >= 2^(s - 1))
<1> DEFINE h == 2^(s - 1)
<1>1. s - 1 \in Nat /\ (s - 1) + 1 = s
  OBVIOUS
<1>2. 2^s = 2 * h /\ h \in Nat \ {0}
  BY <1>1, PowSucc, PowType
<1>3. Bits(x, s - 1, 1) = (x \div h) % 2
  <2>1. 2^1 = 2
    OBVIOUS
  <2> QED BY <2>1 DEF Bits
<1> HIDE DEF h
<1>4. CASE x < h
  <2>1. x = h * 0 + x
    BY <1>2
  <2>2. x \div h = 0
    BY <1>2, <1>4, <2>1, DivIs
  <2> QED BY <1>2, <1>3, <1>4, <2>2 DEF h
<1>5. CASE x >= h
  <2>1. x = h * 1 + (x - h) /\ x - h \in Nat /\ x - h < h
    BY <1>2, <1>5
  <2>2. x \div h = 1
    BY <1>2, <2>1, DivIs
  <2> QED BY <1>2, <1>3, <1>5, <2>2 DEF h
<1> QED BY <1>2, <1>4, <1>5

\* A number less than the divisor.
LEMMA DivSmall ==
    ASSUME NEW x \in Nat, NEW b \in Nat \ {0}, x < b
    PROVE  x \div b = 0 /\ x % b = x
<1>1. x = b * 0 + x
  OBVIOUS
<1> QED BY <1>1, DivIs

\* A field of n + m bits are two fields.
LEMMA BitsSplit ==
    ASSUME NEW x \in Int, NEW o \in Nat, NEW n \in Nat, NEW m \in Nat
    PROVE  Bits(x, o, n + m) = Bits(x, o, n) + 2^n * Bits(x, o + n, m)
<1> DEFINE y == x \div 2^o
           A == 2^n
           B == 2^m
           z == y % (A * B)
<1>1. A \in Nat \ {0} /\ B \in Nat \ {0} /\ y \in Int /\ 2^o \in Nat \ {0}
  BY BitsType
<1>2. 2^(n + m) = A * B /\ 2^(o + n) = 2^o * A
  BY PowSum
<1>3. (x \div 2^o) \div A = x \div (2^o * A)
  BY <1>1, DivDiv
<1>4. A * B \in Nat \ {0}
  BY <1>1
<1> HIDE DEF y, A, B, z
<1>5. z \in Nat
  BY <1>1, <1>4, DivMod DEF z
<1>6. z = A * (z \div A) + (z % A)
  BY <1>1, <1>5, DivMod
<1>7. z % A = y % A
  BY <1>1, ModMod DEF z
<1>8. z \div A = (y \div A) % B
  BY <1>1, ModDiv DEF z
<1>9. Bits(x, o, n + m) = z
  BY <1>2 DEF Bits, z, y
<1>10. Bits(x, o, n) = y % A
  BY DEF Bits, y, A
<1>11. Bits(x, o + n, m) = (y \div A) % B
  BY <1>2, <1>3 DEF Bits, y, B
<1>12. z = A * ((y \div A) % B) + (y % A)
  BY <1>6, <1>7, <1>8
<1>13. (y \div A) % B \in Nat /\ y % A \in Nat /\ A \in Nat
  BY <1>1, <1>11, <1>10, BitsType
<1>14. A * ((y \div A) % B) \in Nat
  BY <1>13
<1> QED BY <1>9, <1>10, <1>11, <1>12, <1>13, <1>14 DEF A

\* Above its highest bit a number is zero.
LEMMA BitsAbove ==
    ASSUME NEW x \in Nat, NEW o \in Nat, x < 2^o, NEW n \in Nat
    PROVE  Bits(x, o, n) = 0
<1>1. 2^o \in Nat \ {0} /\ 2^n \in Nat \ {0}
  BY PowType
<1>3. x \div 2^o = 0
  BY <1>1, DivSmall
<1>4. \A b \in Nat \ {0} : 0 % b = 0
  OBVIOUS
<1> QED BY <1>1, <1>3, <1>4 DEF Bits

-----------------------------------------------------------------------------
\* g adds the first k of the n terms e[1], e[2], ... for each k.
Adds(n, e, g) == g = [i \in 0..n |-> IF i = 0 THEN 0 ELSE g[i - 1] + e[i]]

\* There are such sums.
LEMMA AddsExist ==
    ASSUME NEW e, NEW n \in Nat
    PROVE  \E g : Adds(n, e, g)
<1> DEFINE S == {m \in Nat : ~ \E g : Adds(m, e, g)}
<1> SUFFICES ASSUME S # {} PROVE FALSE
  OBVIOUS
<1>1. PICK m \in S : \A j \in S : m <= j
  BY Least
<1>2. m \in Nat /\ ~ \E g : Adds(m, e, g)
  OBVIOUS
<1>3. CASE m = 0
  <2> DEFINE g == [k \in 0..0 |-> 0]
  <2>1. Adds(0, e, g)
    BY DEF Adds
  <2> QED BY <1>2, <1>3, <2>1
<1>4. CASE m # 0
  <2>1. m - 1 \in Nat /\ ~(m <= m - 1)
    BY <1>2, <1>4
  <2>2. PICK h : Adds(m - 1, e, h)
    BY <1>1, <2>1
  <2> DEFINE g == [k \in 0..m |-> IF k = m THEN h[m - 1] + e[m] ELSE h[k]]
  <2>3. \A k \in 0..m : g[k] = IF k = 0 THEN 0 ELSE g[k - 1] + e[k]
    <3> TAKE k \in 0..m
    <3>1. \A l \in 0..(m - 1) : h[l] = IF l = 0 THEN 0 ELSE h[l - 1] + e[l]
      BY <2>2 DEF Adds
    <3>2. CASE k = m
      BY <1>2, <1>4, <3>2
    <3>3. CASE k # m
      <4>1. k \in 0..(m - 1) /\ (k # 0 => k - 1 \in 0..m /\ k - 1 # m)
        BY <1>2, <3>3
      <4> QED BY <3>1, <3>3, <4>1
    <3> QED BY <3>2, <3>3
  <2>4. DOMAIN g = 0..m /\ g = [k \in 0..m |-> g[k]]
    OBVIOUS
  <2> HIDE DEF g
  <2>5. Adds(m, e, g)
    BY <2>3, <2>4 DEF Adds
  <2> QED BY <1>2, <2>5
<1> QED BY <1>3, <1>4

\* x is the number that has n digits d of c bits.
DigitsOf(x, d, c, n) ==
    /\ x \in Nat /\ x < 2^(c * n)
    /\ \A k \in 0..(n - 1) : Bits(x, c * k, c) = d[k]

\* One digit more.
LEMMA DigitMore ==
    ASSUME NEW c \in Nat, NEW l \in Nat, NEW d, NEW x, NEW y, NEW P, NEW s, NEW z, DigitsOf(x, d, c, l)
    PROVE  s = c * l /\ P = 2^s /\ y = d[l] /\ y \in Nat /\ y < 2^c /\ z = x + y * P
               => DigitsOf(z, d, c, l + 1)
<1>1. x \in Nat /\ x < 2^(c * l) /\ \A k \in 0..(l - 1) : Bits(x, c * k, c) = d[k]
  BY DEF DigitsOf
<1>h. SUFFICES ASSUME s = c * l /\ P = 2^s /\ y = d[l] /\ y \in Nat /\ y < 2^c /\ z = x + y * P
             PROVE  DigitsOf(z, d, c, l + 1)
  OBVIOUS
<1>2. s = c * l /\ y = d[l] /\ y \in Nat /\ y < 2^c /\ z = x + y * 2^s /\ x < 2^s
  BY <1>1, <1>h
<1>p. P = 2^s
  BY <1>h
<1>3. s \in Nat /\ c * (l + 1) = s + c
  BY <1>2
<1>c. PICK C : C = 2^c
  OBVIOUS
<1>4. P \in Nat \ {0} /\ C \in Nat \ {0} /\ 2^(c * (l + 1)) = P * C
  <2>1. 2^(s + c) = 2^s * 2^c
    BY <1>3, PowSum
  <2>2. 2^s \in Nat /\ 2^s >= 1 /\ 2^c \in Nat /\ 2^c >= 1
    BY <1>3, PowType
  <2>3. 2^(c * (l + 1)) = 2^s * 2^c
    BY <1>3, <2>1, Zenon
  <2> QED BY <1>c, <1>p, <2>2, <2>3
<1>5. y < C /\ x < P /\ z = x + y * P
  BY <1>2, <1>c, <1>p
<1>6. y * P \in Nat /\ y * P = P * y /\ x + y * P = P * y + x
  BY <1>1, <1>2, <1>4
<1>7. z \in Nat /\ z < 2^(c * (l + 1))
  <2>1. y * P + P <= P * C
    <3>1. y + 1 <= C
      BY <1>2, <1>4, <1>5
    <3>2. (y + 1) * P <= C * P
      BY <1>2, <1>4, <3>1
    <3>3. (y + 1) * P = y * P + P /\ C * P = P * C
      BY <1>2, <1>4
    <3> QED BY <3>2, <3>3
  <2>2. P * C \in Nat
    BY <1>4
  <2> QED BY <1>1, <1>4, <1>5, <1>6, <2>1, <2>2
<1>8. Bits(z, s, c) = y
  <2>1. (P * y + x) \div P = y + x \div P
    <3>1. x \in Int /\ y \in Int /\ P \in Nat \ {0}
      BY <1>1, <1>2, <1>4
    <3> QED BY <3>1, DivAdd, Zenon
  <2>2. x \div P = 0
    BY <1>1, <1>4, <1>5, DivSmall, Zenon
  <2>3. z \div P = y
    BY <1>2, <1>5, <1>6, <2>1, <2>2
  <2>4. y % C = y
    <3>1. y \in Int /\ C \in Nat \ {0} /\ 0 <= y /\ y < C
      BY <1>2, <1>4, <1>5
    <3>2. \A a \in Int, b \in Nat \ {0} : 0 <= a /\ a < b => a % b = a
      OBVIOUS
    <3> QED BY <3>1, <3>2, Zenon
  <2> QED BY <1>c, <1>p, <2>3, <2>4 DEF Bits
<1>9. ASSUME NEW k \in 0..l PROVE Bits(z, c * k, c) = d[k]
  <2>1. CASE k = l
    BY <1>2, <1>8, <2>1
  <2>2. CASE k # l
    <3>1. k \in 0..(l - 1) /\ k \in Nat
      BY <2>2
    <3>o. PICK o : o = c * k
      OBVIOUS
    <3>2. o + c <= s /\ o \in Nat
      <4>1. k + 1 <= l
        BY <3>1
      <4>2. c * (k + 1) <= c * l
        BY <3>1, <4>1
      <4>3. c * (k + 1) = c * k + c /\ c * k \in Nat
        BY <3>1
      <4> QED BY <1>2, <3>o, <4>2, <4>3
    <3>3. x \in Int /\ y \in Int /\ s \in Nat /\ o \in Nat /\ c \in Nat /\ o + c <= s
      BY <1>1, <1>2, <1>3, <3>2
    <3>4. Differ(z, x, s)
      <4>1. y \in Int /\ z = x + 2^s * y
        BY <1>5, <1>6, <1>p, <3>3
      <4> QED BY <4>1, Zenon DEF Differ
    <3>5. Bits(z, o, c) = Bits(x, o, c)
      BY <3>3, <3>4, BitsAgree
    <3>6. Bits(z, c * k, c) = Bits(x, c * k, c)
      BY <3>o, <3>5, Zenon
    <3> QED BY <1>1, <3>1, <3>6
  <2> QED BY <2>1, <2>2
<1>10. 0..((l + 1) - 1) = 0..l
  OBVIOUS
<1> QED BY <1>7, <1>9, <1>10 DEF DigitsOf

\* The sum of n digits of c bits has just these digits.
LEMMA DigitsAdd ==
    ASSUME NEW c \in Nat, NEW n \in Nat, NEW d, \A k \in 0..(n - 1) : d[k] \in Nat /\ d[k] < 2^c,
           NEW e, \A i \in 1..n : e[i] = d[i - 1] * 2^(c * (i - 1)),
           NEW g, Adds(n, e, g)
    PROVE  DigitsOf(g[n], d, c, n)
<1> DEFINE S == {m \in Nat : m <= n /\ ~DigitsOf(g[m], d, c, m)}
<1> SUFFICES ASSUME S # {} PROVE FALSE
  OBVIOUS
<1>1. PICK m \in S : \A j \in S : m <= j
  BY Least
<1>2. m \in Nat /\ m <= n /\ ~DigitsOf(g[m], d, c, m)
  OBVIOUS
<1>3. \A i \in 0..n : g[i] = IF i = 0 THEN 0 ELSE g[i - 1] + e[i]
  BY DEF Adds
<1>4. CASE m = 0
  <2>1. g[0] = 0
    BY <1>3
  <2>2. c * 0 = 0 /\ 2^0 = 1 /\ 0..(0 - 1) = {}
    OBVIOUS
  <2>3. DigitsOf(g[0], d, c, 0)
    <3>1. 2^(c * 0) = 1
      BY <2>2, Zenon
    <3>2. g[0] \in Nat /\ g[0] < 2^(c * 0)
      BY <2>1, <3>1
    <3> QED BY <2>2, <3>2, Zenon DEF DigitsOf
  <2> QED BY <1>2, <1>4, <2>3
<1>5. CASE m # 0
  <2>l. PICK l : l = m - 1
    OBVIOUS
  <2>1. l \in Nat /\ l + 1 = m /\ l \in 0..(n - 1) /\ m \in 1..n /\ ~(m <= l) /\ l <= n
    BY <1>2, <1>5, <2>l
  <2>2. DigitsOf(g[l], d, c, l)
    BY <1>1, <2>1
  <2>3. g[m] = g[l] + d[l] * 2^(c * l)
    BY <1>3, <1>5, <2>1, <2>l
  <2>4. d[l] \in Nat /\ d[l] < 2^c
    BY <2>1
  <2>5. DigitsOf(g[m], d, c, l + 1)
    BY <2>1, <2>2, <2>3, <2>4, DigitMore
  <2> QED BY <1>2, <2>1, <2>5
<1> QED BY <1>4, <1>5

-----------------------------------------------------------------------------
\* The number that n bytes make up.
LEMMA NumberDigits ==
    ASSUME NEW n \in Nat, NEW w \in [0..(n - 1) -> Byte]
    PROVE  /\ Len0(w) = n /\ Number(w) \in Nat /\ Number(w) < 2^(ByteBits * n)
           /\ \A j \in 0..(n - 1) : Bits(Number(w), ByteBits * j, ByteBits) = w[j]
<1>1. Len0(w) = n
  <2>1. Cardinality(0..(n - 1)) = n
    BY FS_Interval
  <2> QED BY <2>1 DEF Len0
<1> DEFINE e == [i \in 1..n |-> w[i - 1] * 2^(ByteBits * (i - 1))]
           Is(g) == g = [i \in 0..n |-> IF i = 0 THEN 0 ELSE g[i - 1] + w[i - 1] * 2^(ByteBits * (i - 1))]
           sum == CHOOSE g : Is(g)
<1>2. Number(w) = sum[n]
  BY <1>1 DEF Number
<1>3. ASSUME NEW g PROVE Is(g) <=> Adds(n, e, g)
  <2>1. \A i \in 0..n : (IF i = 0 THEN 0 ELSE g[i - 1] + e[i])
                        = IF i = 0 THEN 0 ELSE g[i - 1] + w[i - 1] * 2^(ByteBits * (i - 1))
    OBVIOUS
  <2>2. [i \in 0..n |-> IF i = 0 THEN 0 ELSE g[i - 1] + e[i]]
        = [i \in 0..n |-> IF i = 0 THEN 0 ELSE g[i - 1] + w[i - 1] * 2^(ByteBits * (i - 1))]
    BY <2>1
  <2> QED BY <2>2 DEF Adds
<1>4. \E g : Is(g)
  BY <1>3, AddsExist
<1>5. Is(sum)
  BY <1>4
<1>6. Adds(n, e, sum)
  BY <1>3, <1>5
<1>7. \A k \in 0..(n - 1) : w[k] \in Nat /\ w[k] < 2^ByteBits
  <2>1. 2^ByteBits \in Nat
    BY ByteAssumption, PowType
  <2> QED BY <2>1 DEF Byte
<1>8. \A i \in 1..n : e[i] = w[i - 1] * 2^(ByteBits * (i - 1))
  OBVIOUS
<1> HIDE DEF e, sum, Is
<1>9. DigitsOf(sum[n], w, ByteBits, n)
  BY <1>6, <1>7, <1>8, DigitsAdd, ByteAssumption
<1> QED BY <1>1, <1>2, <1>9 DEF DigitsOf

-----------------------------------------------------------------------------
(* Shift and swap.                                                         *)

\* Bytes are the numbers of ByteBits bits.
LEMMA ByteType ==
    /\ 2^ByteBits \in Nat \ {0} /\ Byte \subseteq Nat
    /\ \A b : b \in Byte <=> b \in Nat /\ b < 2^ByteBits
<1>1. 2^ByteBits \in Nat \ {0}
  BY ByteAssumption, PowType
<1> QED BY <1>1 DEF Byte

\* Shifting the bytes of a number shifts the number.
LEMMA Shifted ==
    ASSUME NEW n \in Nat, NEW w \in [0..(n - 1) -> Byte], NEW s \in Nat, s <= ByteBits
    PROVE  /\ ShiftRight(w, s) \in [0..(n - 1) -> Byte]
           /\ \A j \in 0..(n - 1) : ShiftRight(w, s)[j] = Bits(Number(w), ByteBits * j + s, ByteBits)
<1>N. PICK N : N = Number(w)
  OBVIOUS
<1>1. N \in Nat /\ N < 2^(ByteBits * n) /\ \A j \in 0..(n - 1) : Bits(N, ByteBits * j, ByteBits) = w[j]
  BY <1>N, NumberDigits
<1>2. ASSUME NEW j \in 0..(n - 1)
      PROVE  ShiftRight(w, s)[j] = Bits(N, ByteBits * j + s, ByteBits)
  <2> DEFINE next == IF j + 1 \in DOMAIN w THEN w[j + 1] * 2^ByteBits ELSE 0
  <2>a. PICK a : a = ByteBits * j
    OBVIOUS
  <2>b. PICK b : b = ByteBits
    OBVIOUS
  <2>B. PICK B : B = 2^ByteBits
    OBVIOUS
  <2>1. a \in Nat /\ b \in Nat /\ ByteBits * (j + 1) = a + b /\ N \in Int /\ B \in Nat \ {0} /\ j \in Nat
    BY <1>1, <2>a, <2>b, <2>B, ByteAssumption, ByteType
  <2>2. next = B * Bits(N, a + b, b)
    <3>1. CASE j + 1 \in 0..(n - 1)
      <4>1. next = w[j + 1] * B /\ w[j + 1] \in Nat
        BY <2>B, <3>1, ByteType
      <4>2. Bits(N, ByteBits * (j + 1), ByteBits) = w[j + 1]
        BY <1>1, <3>1
      <4>3. Bits(N, a + b, b) = w[j + 1]
        BY <2>1, <2>b, <4>2
      <4>4. \A u, v \in Nat : u * v = v * u
        OBVIOUS
      <4> QED BY <2>1, <4>1, <4>3, <4>4
    <3>2. CASE j + 1 \notin 0..(n - 1)
      <4>1. j + 1 = n /\ next = 0
        BY <3>2
      <4>2. N < 2^(a + b)
        BY <1>1, <2>1, <4>1
      <4>3. Bits(N, a + b, b) = 0
        BY <1>1, <2>1, <4>2, BitsAbove
      <4> QED BY <2>1, <4>1, <4>3
    <3> QED BY <3>1, <3>2
  <2>3. ShiftRight(w, s)[j] = Bits(next + w[j], s, b)
    BY <2>b DEF ShiftRight, Bits
  <2> HIDE DEF next
  <2>4. w[j] = Bits(N, a, b)
    BY <1>1, <2>a, <2>b
  <2>5. Bits(N, a, b + b) = Bits(N, a, b) + B * Bits(N, a + b, b)
    BY <2>1, <2>b, <2>B, BitsSplit
  <2>6. next + w[j] = Bits(N, a, b + b)
    <3>1. Bits(N, a, b) \in Nat /\ Bits(N, a + b, b) \in Nat
      <4>1. a + b \in Nat
        BY <2>1
      <4>2. Bits(N, a, b) \in Nat
        BY <2>1, BitsType
      <4>3. Bits(N, a + b, b) \in Nat
        BY <2>1, <4>1, BitsType
      <4> QED BY <4>2, <4>3
    <3>2. B * Bits(N, a + b, b) \in Nat
      BY <2>1, <3>1
    <3> QED BY <2>2, <2>4, <2>5, <3>1, <3>2
  <2>7. Bits(Bits(N, a, b + b), s, b) = Bits(N, a + s, b)
    <3>1. s + b <= b + b /\ b + b \in Nat
      BY <2>1, <2>b
    <3> QED BY <2>1, <3>1, BitsBits
  <2> QED BY <2>3, <2>6, <2>7, <2>a, <2>b
<1>3. ASSUME NEW j \in 0..(n - 1) PROVE Bits(N, ByteBits * j + s, ByteBits) \in Byte
  <2>1. ByteBits * j \in Nat
    BY ByteAssumption
  <2>2. ByteBits * j + s \in Nat /\ ByteBits \in Nat /\ N \in Int
    BY <1>1, <2>1, ByteAssumption
  <2> QED BY <2>2, BitsType, ByteType
<1>4. ShiftRight(w, s) = [j \in 0..(n - 1) |-> ShiftRight(w, s)[j]]
  BY DEF ShiftRight
<1> QED BY <1>N, <1>2, <1>3, <1>4

\* The first n of the m values w, of T, are q words of wlen bytes.
InWords(w, T, m, n, q, wlen) ==
    m \in Nat /\ w \in [0..(m - 1) -> T] /\ q \in Nat /\ wlen \in Nat \ {0} /\ n = q * wlen /\ n <= m

\* Where Swap takes a byte from.
LEMMA Swapped ==
    ASSUME NEW w, NEW T, NEW m, NEW n, NEW q, NEW wlen, InWords(w, T, m, n, q, wlen)
    PROVE  /\ Swap(w, n, wlen) \in [0..(m - 1) -> T]
           /\ \A i \in 0..(n - 1) :
                  /\ i \div wlen \in Nat /\ i \div wlen < q /\ i % wlen \in Nat /\ i % wlen < wlen
                  /\ i = wlen * (i \div wlen) + (i % wlen)
                  /\ (q - 1 - (i \div wlen)) * wlen + (i % wlen) \in 0..(m - 1)
                  /\ Swap(w, n, wlen)[i] = w[(q - 1 - (i \div wlen)) * wlen + (i % wlen)]
<1>0. m \in Nat /\ w \in [0..(m - 1) -> T] /\ q \in Nat /\ wlen \in Nat \ {0} /\ n = q * wlen /\ n <= m
  BY DEF InWords
<1>1. n \in Nat /\ n <= m /\ wlen \in Nat \ {0} /\ m \in Nat /\ q \in Nat
  BY <1>0
<1>2. n \div wlen = q
  <2>1. n = wlen * q + 0 /\ n \in Int
    BY <1>0, <1>1
  <2> QED BY <1>1, <2>1, DivIs
<1>3. ASSUME NEW i \in 0..(n - 1)
      PROVE  /\ i \div wlen \in Nat /\ i \div wlen < q /\ i % wlen \in Nat /\ i % wlen < wlen
             /\ i = wlen * (i \div wlen) + (i % wlen)
             /\ (q - 1 - (i \div wlen)) * wlen + (i % wlen) \in 0..(n - 1)
  <2>d. PICK d : d = i \div wlen
    OBVIOUS
  <2>r. PICK r : r = i % wlen
    OBVIOUS
  <2>1. d \in Nat /\ r \in Nat /\ r < wlen /\ i = wlen * d + r /\ i \in Nat /\ i < n
    BY <1>1, <2>d, <2>r, DivMod
  <2>2. d < q
    <3> SUFFICES ASSUME d >= q PROVE FALSE
      BY <1>1, <2>1
    <3>1. wlen * d >= wlen * q /\ wlen * q = n /\ wlen * d \in Nat
      BY <1>0, <1>1, <2>1
    <3> QED BY <1>1, <2>1, <3>1
  <2>3. (q - 1 - d) * wlen + r \in 0..(n - 1)
    <3>1. q - 1 - d \in Nat /\ q - 1 - d <= q - 1
      BY <1>1, <2>1, <2>2
    <3>2. (q - 1 - d) * wlen <= (q - 1) * wlen /\ (q - 1 - d) * wlen \in Nat
      BY <1>1, <3>1
    <3>3. (q - 1) * wlen = n - wlen
      BY <1>0, <1>1
    <3> QED BY <1>1, <2>1, <3>2, <3>3
  <2> QED BY <2>d, <2>r, <2>1, <2>2, <2>3
<1>4. ASSUME NEW i \in 0..(m - 1)
      PROVE  Swap(w, n, wlen)[i] = IF i >= n THEN w[i] ELSE w[(q - 1 - (i \div wlen)) * wlen + (i % wlen)]
  <2>1. wlen # 0 /\ DOMAIN w = 0..(m - 1)
    BY <1>0
  <2>2. Swap(w, n, wlen)[i]
        = IF wlen = 0 \/ i >= n THEN w[i]
          ELSE w[((n \div wlen) - 1 - (i \div wlen)) * wlen + (i % wlen)]
    BY <2>1, Zenon DEF Swap
  <2> QED BY <1>2, <2>1, <2>2, Zenon
<1>5. Swap(w, n, wlen) \in [0..(m - 1) -> T]
  <2>1. ASSUME NEW i \in 0..(m - 1) PROVE Swap(w, n, wlen)[i] \in T
    <3>1. CASE i >= n
      BY <1>0, <1>4, <3>1
    <3>2. CASE ~(i >= n)
      <4>k. PICK k : k = (q - 1 - (i \div wlen)) * wlen + (i % wlen)
        OBVIOUS
      <4>1. i \in 0..(n - 1)
        BY <1>1, <3>2
      <4>2. k \in 0..(n - 1)
        BY <1>3, <4>1, <4>k
      <4>3. k \in 0..(m - 1)
        BY <1>1, <4>2
      <4> QED BY <1>0, <1>4, <3>2, <4>3, <4>k
    <3> QED BY <3>1, <3>2
  <2>2. Swap(w, n, wlen) = [i \in 0..(m - 1) |-> Swap(w, n, wlen)[i]]
    BY <1>0 DEF Swap
  <2> QED BY <2>1, <2>2
<1>6. ASSUME NEW i \in 0..(n - 1)
      PROVE  /\ (q - 1 - (i \div wlen)) * wlen + (i % wlen) \in 0..(m - 1)
             /\ Swap(w, n, wlen)[i] = w[(q - 1 - (i \div wlen)) * wlen + (i % wlen)]
  <2>k. PICK k : k = (q - 1 - (i \div wlen)) * wlen + (i % wlen)
    OBVIOUS
  <2>1. i \in 0..(m - 1) /\ ~(i >= n)
    BY <1>1
  <2>2. Swap(w, n, wlen)[i] = w[k]
    BY <1>4, <2>1, <2>k
  <2>3. k \in 0..(n - 1)
    BY <1>3, <2>k
  <2>4. k \in 0..(m - 1)
    BY <1>1, <2>3
  <2> QED BY <2>k, <2>2, <2>4
<1> QED BY <1>3, <1>5, <1>6

\* Bits in whole bytes.
LEMMA RoundUp ==
    ASSUME NEW k \in Nat \ {0}
    PROVE  b2B(k) \in Nat \ {0} /\ ByteBits * (b2B(k) - 1) < k /\ k <= ByteBits * b2B(k)
<1>b. PICK b : b = ByteBits
  OBVIOUS
<1>0. b \in Nat \ {0}
  BY <1>b, ByteAssumption
<1>n. PICK n : n = (k + b - 1) \div b
  OBVIOUS
<1>r. PICK r : r = (k + b - 1) % b
  OBVIOUS
<1>1. k + b - 1 \in Nat /\ k + b - 1 \in Int
  BY <1>0
<1>2. n \in Nat /\ r \in Nat /\ r < b /\ k + b - 1 = b * n + r
  BY <1>0, <1>1, <1>n, <1>r, DivMod
<1>3. b * n = k + b - 1 - r /\ b * n \in Nat
  BY <1>0, <1>2
<1>4. k <= b * n /\ b * n - b < k
  BY <1>0, <1>2, <1>3
<1>5. b * (n - 1) = b * n - b
  BY <1>0, <1>2
<1>6. n # 0
  BY <1>0, <1>2, <1>4
<1>7. b2B(k) = n
  BY <1>b, <1>n DEF b2B
<1> QED BY <1>2, <1>4, <1>5, <1>6, <1>7, <1>b

\* The sizes of an entry in bytes.
LEMMA Sizes ==
    ASSUME NEW f, Valid(f)
    PROVE  /\ f.sizeBits \in Nat \ {0} /\ f.lsBit \in Nat /\ f.lsBit < ByteBits /\ f.isSigned \in BOOLEAN
           /\ WordSwap(f) \in Nat /\ b2B(f.sizeBits) \in Nat \ {0} /\ computeSize(f) \in Nat \ {0}
           /\ ByteBits * (b2B(f.sizeBits) - 1) < f.sizeBits /\ f.sizeBits <= ByteBits * b2B(f.sizeBits)
           /\ b2B(f.sizeBits) <= computeSize(f)
           /\ f.lsBit + f.sizeBits <= ByteBits * computeSize(f)
           /\ WordSwap(f) > 0 => /\ b2B(f.sizeBits) % WordSwap(f) = 0
                                 /\ f.sizeBits = ByteBits * b2B(f.sizeBits)
<1>b. PICK b : b = ByteBits
  OBVIOUS
<1>s. PICK s : s = f.sizeBits
  OBVIOUS
<1>l. PICK l : l = f.lsBit
  OBVIOUS
<1>0. b \in Nat \ {0} /\ s \in Nat \ {0} /\ l \in Nat /\ l < b /\ f.isSigned \in BOOLEAN /\ f.wordSwap \in Nat
  BY <1>b, <1>s, <1>l, ByteAssumption DEF Valid, checkArgs
<1>1. ASSUME NEW k \in Nat \ {0}
      PROVE  b2B(k) \in Nat \ {0} /\ b * (b2B(k) - 1) < k /\ k <= b * b2B(k)
  BY <1>b, RoundUp
<1>n. PICK n : n = b2B(s)
  OBVIOUS
<1>2. n \in Nat \ {0} /\ b * (n - 1) < s /\ s <= b * n
  BY <1>0, <1>1, <1>n
<1>3. WordSwap(f) \in Nat
  BY <1>0 DEF WordSwap
<1>z. PICK z : z = computeSize(f)
  OBVIOUS
<1>4. z \in Nat \ {0} /\ n <= z /\ l + s <= b * z
  <2>1. CASE WordSwap(f) > 0
    <3>1. z = n + (IF l # 0 THEN 1 ELSE 0)
      BY <2>1, <1>z, <1>n, <1>s, <1>l DEF computeSize
    <3>2. CASE l = 0
      BY <1>0, <1>2, <3>1, <3>2
    <3>3. CASE l # 0
      <4>1. z = n + 1 /\ b * (n + 1) = b * n + b /\ b * n \in Nat
        BY <1>0, <1>2, <3>1, <3>3
      <4>2. l + s <= b * (n + 1)
        BY <1>0, <1>2, <4>1
      <4>3. b * z = b * (n + 1)
        BY <4>1, Zenon
      <4> QED BY <1>2, <4>1, <4>2, <4>3
    <3> QED BY <3>2, <3>3
  <2>2. CASE ~(WordSwap(f) > 0)
    <3>1. z = b2B(s + l)
      BY <2>2, <1>z, <1>s, <1>l DEF computeSize
    <3>2. s + l \in Nat \ {0}
      BY <1>0
    <3>3. z \in Nat \ {0} /\ s + l <= b * z
      BY <1>1, <3>1, <3>2
    <3>4. n <= z
      <4> SUFFICES ASSUME n > z PROVE FALSE
        BY <1>2, <3>3
      <4>1. z <= n - 1 /\ n - 1 \in Nat
        BY <1>2, <3>3
      <4>2. b * z <= b * (n - 1) /\ b * z \in Nat /\ b * (n - 1) \in Nat
        BY <1>0, <3>3, <4>1
      <4> QED BY <1>0, <1>2, <3>3, <4>2
    <3> QED BY <1>0, <3>3, <3>4
  <2> QED BY <2>1, <2>2
<1>5. WordSwap(f) > 0 => n % WordSwap(f) = 0 /\ s = b * n
  <2> SUFFICES ASSUME WordSwap(f) > 0 PROVE n % WordSwap(f) = 0 /\ s = b * n
    OBVIOUS
  <2>1. n % WordSwap(f) = 0 /\ s % b = 0
    BY <1>b, <1>s, <1>n DEF Valid, checkArgs
  <2>q. PICK q : q = s \div b
    OBVIOUS
  <2>2. q \in Nat /\ s = b * q
    <3>1. s = b * (s \div b) + (s % b) /\ s \div b \in Nat
      BY <1>0, DivMod
    <3> QED BY <1>0, <2>1, <2>q, <3>1
  <2>3. q = n
    <3>1. CASE q < n
      <4>1. b * q <= b * (n - 1) /\ b * (n - 1) \in Int /\ b * q \in Int
        BY <1>0, <1>2, <2>2, <3>1
      <4> QED BY <1>2, <2>2, <4>1
    <3>2. CASE q > n
      <4>1. b * (n + 1) <= b * q /\ b * (n + 1) = b * n + b /\ b * n \in Nat /\ b * q \in Nat
        BY <1>0, <1>2, <2>2, <3>2
      <4> QED BY <1>0, <1>2, <2>2, <4>1
    <3> QED BY <1>2, <2>2, <3>1, <3>2
  <2> QED BY <2>1, <2>2, <2>3
<1> QED BY <1>b, <1>s, <1>l, <1>n, <1>z, <1>0, <1>2, <1>3, <1>4, <1>5

\* The entry consists of n words.
HasWords(f, v, word, n) ==
    /\ v \in Int /\ word \in Nat \ {0} /\ n \in Nat
    /\ word = ByteBits * WordSwap(f) /\ n = f.sizeBits \div word /\ WordSwap(f) # 0

\* The digits of a number with its words reversed.
LEMMA WordsDigits ==
    ASSUME NEW f, NEW v, NEW word, NEW n, HasWords(f, v, word, n)
    PROVE  /\ Words(f, v) \in Nat /\ Words(f, v) < 2^(word * n)
           /\ \A k \in 0..(n - 1) : Bits(Words(f, v), word * k, word) = Bits(v, word * (n - 1 - k), word)
<1> DEFINE d == [k \in 0..(n - 1) |-> Bits(v, word * (n - 1 - k), word)]
           e == [i \in 1..n |-> d[i - 1] * 2^(word * (i - 1))]
           Is(g) == g = [i \in 0..n |->
                            IF i = 0 THEN 0
                            ELSE g[i - 1] + ((v \div 2^(word * (n - i))) % 2^word) * 2^(word * (i - 1))]
           sum == CHOOSE g : Is(g)
<1>0. /\ v \in Int /\ word \in Nat \ {0} /\ n \in Nat
      /\ word = ByteBits * WordSwap(f) /\ n = f.sizeBits \div word /\ WordSwap(f) # 0
  BY DEF HasWords
<1>1. Words(f, v) = sum[n]
  BY <1>0 DEF Words
<1>t. v \in Int /\ word \in Nat \ {0} /\ n \in Nat
  BY <1>0
<1> USE <1>t
<1>2. ASSUME NEW g PROVE Is(g) <=> Adds(n, e, g)
  <2>1. ASSUME NEW i \in 1..n
        PROVE  e[i] = ((v \div 2^(word * (n - i))) % 2^word) * 2^(word * (i - 1))
    <3>1. i - 1 \in 0..(n - 1) /\ n - 1 - (i - 1) = n - i
      OBVIOUS
    <3>2. d[i - 1] = Bits(v, word * (n - i), word)
      BY <3>1
    <3> QED BY <3>2 DEF Bits
  <2>2. \A i \in 0..n : (IF i = 0 THEN 0 ELSE g[i - 1] + e[i])
                        = IF i = 0 THEN 0
                          ELSE g[i - 1] + ((v \div 2^(word * (n - i))) % 2^word) * 2^(word * (i - 1))
    <3> HIDE DEF e
    <3> SUFFICES ASSUME NEW i \in 0..n
                 PROVE  (IF i = 0 THEN 0 ELSE g[i - 1] + e[i])
                        = IF i = 0 THEN 0
                          ELSE g[i - 1] + ((v \div 2^(word * (n - i))) % 2^word) * 2^(word * (i - 1))
      OBVIOUS
    <3>1. CASE i = 0
      BY <3>1
    <3>2. CASE i # 0
      <4>1. i \in 1..n
        BY <3>2
      <4> QED BY <2>1, <3>2, <4>1, Zenon
    <3> QED BY <3>1, <3>2
  <2>3. [i \in 0..n |-> IF i = 0 THEN 0 ELSE g[i - 1] + e[i]]
        = [i \in 0..n |-> IF i = 0 THEN 0
                          ELSE g[i - 1] + ((v \div 2^(word * (n - i))) % 2^word) * 2^(word * (i - 1))]
    BY <2>2, Zenon
  <2> QED BY <2>3, Zenon DEF Adds
<1>3. \E g : Is(g)
  BY <1>2, AddsExist
<1>4. Is(sum)
  BY <1>3
<1>5. Adds(n, e, sum)
  BY <1>2, <1>4
<1>6. ASSUME NEW k \in 0..(n - 1) PROVE d[k] \in Nat /\ d[k] < 2^word
  <2>p. PICK p : p = word * (n - 1 - k)
    OBVIOUS
  <2>1. p \in Nat
    <3>1. n - 1 - k \in Nat
      OBVIOUS
    <3> QED BY <2>p, <3>1
  <2>2. d[k] = Bits(v, p, word)
    BY <2>p
  <2> QED BY <2>1, <2>2, BitsType
<1>7. \A i \in 1..n : e[i] = d[i - 1] * 2^(word * (i - 1))
  OBVIOUS
<1>8. \A k \in 0..(n - 1) : d[k] = Bits(v, word * (n - 1 - k), word)
  OBVIOUS
<1> HIDE DEF d, e, sum, Is
<1>9. DigitsOf(sum[n], d, word, n)
  BY <1>5, <1>6, <1>7, DigitsAdd
<1> QED BY <1>1, <1>8, <1>9 DEF DigitsOf

-----------------------------------------------------------------------------
(* From the device to the number that an element means.                    *)

\* The n bytes w hold the lowest s bits of the number v, from the first byte on,
\* as far as they go.
HoldBits(w, n, v, s) ==
    \A j \in 0..(n - 1), m \in Nat :
        m <= ByteBits /\ ByteBits * j + m <= s => Bits(w[j], 0, m) = Bits(v, ByteBits * j, m)

\* The bytes of an element in the order of the device's number.
LEMMA Ordered ==
    ASSUME NEW f, NEW n \in Nat, NEW w \in [0..(n - 1) -> Byte]
    PROVE  SwapEndian(f, w) \in [0..(n - 1) -> Byte]
<1>1. CASE f.byteOrder = "BE"
  <2>1. Len0(w) = n
    BY NumberDigits
  <2>2. InWords(w, Byte, n, n, n, 1)
    BY DEF InWords
  <2>3. Swap(w, n, 1) \in [0..(n - 1) -> Byte]
    BY <2>2, Swapped
  <2> QED BY <1>1, <2>1, <2>3 DEF SwapEndian
<1>2. CASE f.byteOrder # "BE"
  BY <1>2 DEF SwapEndian
<1> QED BY <1>1, <1>2

\* What a byte holds that starts at bit o of N.
LEMMA ByteHolds ==
    ASSUME NEW N, NEW x, NEW o, NEW m, NEW b, N \in Int /\ o \in Nat /\ m \in Nat /\ b \in Nat /\ m <= b,
           x = Bits(N, o, b)
    PROVE  Bits(x, 0, m) = Bits(N, o, m)
<1>1. 0 + m <= b /\ o + 0 = o /\ 0 \in Nat
  OBVIOUS
<1>2. Bits(Bits(N, o, b), 0, m) = Bits(N, o + 0, m)
  BY <1>1, BitsBits
<1> QED BY <1>1, <1>2

\* Where byte j of a word-swapped number is in the number: in word i, byte r of it.
WordIn(N, V, b, s, l, p, q, i, r, m) ==
    /\ N \in Int /\ V \in Int /\ b \in Nat \ {0} /\ s \in Nat /\ l \in Nat /\ p \in Nat
    /\ q \in Nat /\ i \in Nat /\ r \in Nat /\ m \in Nat
    /\ s = p * q /\ i < q /\ b * r + m <= p
    /\ Bits(V, p * i, p) = Bits(Bits(N, l, s), p * (q - 1 - i), p)

\* Its bits are those of the number there.
LEMMA WordHolds ==
    ASSUME NEW N, NEW V, NEW b, NEW s, NEW l, NEW p, NEW q, NEW i, NEW r, NEW m,
           WordIn(N, V, b, s, l, p, q, i, r, m)
    PROVE  Bits(V, p * i + b * r, m) = Bits(N, l + (p * (q - 1 - i) + b * r), m)
<1>0. /\ N \in Int /\ V \in Int /\ b \in Nat \ {0} /\ s \in Nat /\ l \in Nat /\ p \in Nat
      /\ q \in Nat /\ i \in Nat /\ r \in Nat /\ m \in Nat
      /\ s = p * q /\ i < q /\ b * r + m <= p
      /\ Bits(V, p * i, p) = Bits(Bits(N, l, s), p * (q - 1 - i), p)
  BY DEF WordIn
<1>o. PICK o : o = p * (q - 1 - i)
  OBVIOUS
<1>k. PICK k : k = b * r
  OBVIOUS
<1>u. PICK u : u = p * i
  OBVIOUS
<1>1. o \in Nat /\ k \in Nat /\ u \in Nat /\ o + p <= s /\ k + m <= p /\ p \in Nat
  <2>1. q - 1 - i \in Nat /\ i \in Nat /\ (q - 1 - i) + 1 <= q
    BY <1>0
  <2>2. o \in Nat /\ u \in Nat /\ k \in Nat
    BY <1>0, <2>1, <1>o, <1>u, <1>k
  <2>3. p * ((q - 1 - i) + 1) <= p * q
    BY <1>0, <2>1
  <2>4. p * ((q - 1 - i) + 1) = p * (q - 1 - i) + p
    BY <1>0, <2>1
  <2> QED BY <1>0, <1>o, <1>k, <2>2, <2>3, <2>4
<1>2. Bits(V, u, p) = Bits(Bits(N, l, s), o, p)
  BY <1>0, <1>u, <1>o
<1>t. N \in Int /\ V \in Int /\ s \in Nat /\ l \in Nat /\ m \in Nat
  BY <1>0
<1>3. Bits(Bits(V, u, p), k, m) = Bits(V, u + k, m)
  BY <1>t, <1>1, BitsBits
<1>4. Bits(Bits(N, l, s), o, p) = Bits(N, l + o, p) /\ l + o \in Nat
  BY <1>t, <1>1, BitsBits
<1>5. Bits(Bits(N, l + o, p), k, m) = Bits(N, (l + o) + k, m)
  BY <1>t, <1>1, <1>4, BitsBits
<1>6. (l + o) + k = l + (o + k)
  BY <1>t, <1>1
<1>7. Bits(V, u + k, m) = Bits(N, l + (o + k), m)
  BY <1>2, <1>3, <1>4, <1>5, <1>6
<1> QED BY <1>7, <1>u, <1>o, <1>k

\* The bytes h are those of the number N from bit l on, as many as the entry has.
Shown(f, h, N, l) ==
    /\ Valid(f) /\ h \in [0..(computeSize(f) - 1) -> Byte] /\ N \in Int /\ l \in Nat
    /\ \A j \in 0..(b2B(f.sizeBits) - 1) : h[j] = Bits(N, ByteBits * j + l, ByteBits)

\* Without a word swap.
LEMMA HoldPlain ==
    ASSUME NEW f, NEW h, NEW N, NEW l, Shown(f, h, N, l), WordSwap(f) = 0
    PROVE  LET X == Bits(N, l, f.sizeBits)
               g == Swap(h, b2B(f.sizeBits), WordSwap(f))
           IN  /\ g \in [0..(computeSize(f) - 1) -> Byte]
               /\ Words(f, X) \in Nat /\ Words(f, X) < 2^f.sizeBits
               /\ HoldBits(g, b2B(f.sizeBits), Words(f, X), f.sizeBits)
<1>b. PICK b : b = ByteBits
  OBVIOUS
<1>z. PICK z : z = computeSize(f)
  OBVIOUS
<1>n. PICK n : n = b2B(f.sizeBits)
  OBVIOUS
<1>s. PICK s : s = f.sizeBits
  OBVIOUS
<1>0. Valid(f) /\ N \in Int /\ l \in Nat
  BY DEF Shown
<1>1. b \in Nat \ {0} /\ z \in Nat /\ n \in Nat /\ n <= z /\ s \in Nat
  BY <1>0, <1>b, <1>z, <1>n, <1>s, Sizes, ByteAssumption
<1>4. h \in [0..(z - 1) -> Byte] /\ \A j \in 0..(n - 1) : h[j] = Bits(N, b * j + l, b)
  BY <1>b, <1>z, <1>n DEF Shown
<1>5. Swap(h, n, WordSwap(f)) = h
  <2>2. Swap(h, n, 0) = [i \in DOMAIN h |-> h[i]]
    BY DEF Swap
  <2> QED BY <1>4, <2>2
<1>6. Words(f, Bits(N, l, s)) = Bits(N, l, s)
  BY DEF Words
<1>7. Bits(N, l, s) \in Nat /\ Bits(N, l, s) < 2^s
  BY <1>0, <1>1, BitsType
<1>8. HoldBits(h, n, Bits(N, l, s), s)
  <2> SUFFICES ASSUME NEW j \in 0..(n - 1), NEW m \in Nat, m <= b, b * j + m <= s
               PROVE  Bits(h[j], 0, m) = Bits(Bits(N, l, s), b * j, m)
    BY <1>b DEF HoldBits
  <2>o. PICK o : o = b * j
    OBVIOUS
  <2>1. o \in Nat /\ o + m <= s
    BY <1>1, <2>o
  <2>2. h[j] = Bits(N, o + l, b) /\ o + l \in Nat /\ l + o = o + l
    BY <1>0, <1>1, <1>4, <2>1, <2>o
  <2>3. Bits(h[j], 0, m) = Bits(N, o + l, m)
    BY <1>0, <1>1, <2>2, ByteHolds
  <2>4. Bits(Bits(N, l, s), o, m) = Bits(N, l + o, m)
    BY <1>0, <1>1, <2>1, BitsBits
  <2> QED BY <2>2, <2>3, <2>4, <2>o
<1> QED BY <1>4, <1>5, <1>6, <1>7, <1>8, <1>z, <1>n, <1>s

\* With the words in reversed order.
LEMMA HoldSwapped ==
    ASSUME NEW f, NEW h, NEW N, NEW l, Shown(f, h, N, l), WordSwap(f) # 0
    PROVE  LET X == Bits(N, l, f.sizeBits)
               g == Swap(h, b2B(f.sizeBits), WordSwap(f))
           IN  /\ g \in [0..(computeSize(f) - 1) -> Byte]
               /\ Words(f, X) \in Nat /\ Words(f, X) < 2^f.sizeBits
               /\ HoldBits(g, b2B(f.sizeBits), Words(f, X), f.sizeBits)
<1>b. PICK b : b = ByteBits
  OBVIOUS
<1>z. PICK z : z = computeSize(f)
  OBVIOUS
<1>n. PICK n : n = b2B(f.sizeBits)
  OBVIOUS
<1>s. PICK s : s = f.sizeBits
  OBVIOUS
<1>0. Valid(f) /\ N \in Int /\ l \in Nat
  BY DEF Shown
<1>c. PICK c : c = WordSwap(f)
  OBVIOUS
<1>q. PICK q : q = n \div c
  OBVIOUS
<1>p. PICK p : p = b * c
  OBVIOUS
<1>1. b \in Nat \ {0} /\ z \in Nat /\ n \in Nat /\ n <= z /\ s \in Nat /\ c \in Nat \ {0}
      /\ s = b * n /\ n % c = 0
  <2>1. WordSwap(f) \in Nat /\ (WordSwap(f) > 0 => b2B(f.sizeBits) % WordSwap(f) = 0
                                                   /\ f.sizeBits = ByteBits * b2B(f.sizeBits))
    BY <1>0, Sizes, Zenon
  <2>2. WordSwap(f) > 0
    BY <2>1
  <2>3. c \in Nat \ {0} /\ s = b * n /\ n % c = 0
    BY <2>1, <2>2, <1>b, <1>n, <1>s, <1>c
  <2> QED BY <2>3, <1>b, <1>z, <1>n, <1>s, <1>0, Sizes, ByteAssumption
<1>2. q \in Nat /\ n = q * c /\ p \in Nat \ {0} /\ s = p * q /\ s \div p = q
  <2>1. q \in Nat /\ n = c * q + (n % c)
    BY <1>1, <1>q, DivMod
  <2>2. n = q * c /\ p \in Nat \ {0}
    BY <1>1, <1>p, <2>1
  <2>3. s = p * q
    <3>1. \A x, y, v \in Nat : x * (v * y) = (x * y) * v
      OBVIOUS
    <3> QED BY <1>1, <1>p, <2>1, <2>2, <3>1
  <2>4. s = p * q + 0 /\ s \in Int
    BY <1>1, <2>1, <2>2, <2>3
  <2>5. s \div p = q
    BY <2>1, <2>2, <2>4, DivIs
  <2> QED BY <2>1, <2>2, <2>3, <2>5
<1>g. PICK g : g = Swap(h, n, c)
  OBVIOUS
<1>5. h \in [0..(z - 1) -> Byte] /\ \A j \in 0..(n - 1) : h[j] = Bits(N, b * j + l, b)
  BY <1>b, <1>z, <1>n DEF Shown
<1>7. /\ g \in [0..(z - 1) -> Byte]
      /\ \A j \in 0..(n - 1) :
             /\ j \div c \in Nat /\ j \div c < q /\ j % c \in Nat /\ j % c < c
             /\ j = c * (j \div c) + (j % c)
             /\ (q - 1 - (j \div c)) * c + (j % c) \in 0..(z - 1)
             /\ g[j] = h[(q - 1 - (j \div c)) * c + (j % c)]
  <2>1. InWords(h, Byte, z, n, q, c)
    BY <1>1, <1>2, <1>5 DEF InWords
  <2> QED BY <1>g, <2>1, Swapped
<1>X. PICK X : X = Bits(N, l, s)
  OBVIOUS
<1>8. X \in Int
  <2>1. Bits(N, l, s) \in Nat
    BY <1>0, <1>1, BitsType
  <2> QED BY <2>1, <1>X
<1>V. PICK V : V = Words(f, X)
  OBVIOUS
<1>9. /\ V \in Nat /\ V < 2^s
      /\ \A k \in 0..(q - 1) : Bits(V, p * k, p) = Bits(X, p * (q - 1 - k), p)
  <2>1. /\ p = ByteBits * WordSwap(f) /\ q = f.sizeBits \div p /\ f.sizeBits \in Nat
        /\ p \in Nat \ {0} /\ q \in Nat /\ WordSwap(f) # 0
    BY <1>1, <1>2, <1>p, <1>b, <1>c, <1>s
  <2>2. /\ Words(f, X) \in Nat /\ Words(f, X) < 2^(p * q)
        /\ \A k \in 0..(q - 1) : Bits(Words(f, X), p * k, p) = Bits(X, p * (q - 1 - k), p)
    <3>1. HasWords(f, X, p, q)
      BY <1>8, <2>1 DEF HasWords
    <3> QED BY <3>1, WordsDigits
  <2> QED BY <1>2, <1>V, <2>2
<1>10. HoldBits(g, n, V, s)
  <2> SUFFICES ASSUME NEW j \in 0..(n - 1), NEW m \in Nat, m <= b, b * j + m <= s
               PROVE  Bits(g[j], 0, m) = Bits(V, b * j, m)
    BY <1>b DEF HoldBits
  <2>i. PICK i : i = j \div c
    OBVIOUS
  <2>r. PICK r : r = j % c
    OBVIOUS
  <2>k. PICK k : k = (q - 1 - i) * c + r
    OBVIOUS
  <2>1. /\ i \in Nat /\ i < q /\ r \in Nat /\ r < c /\ j = c * i + r /\ k \in 0..(z - 1) /\ g[j] = h[k]
    BY <1>7, <2>i, <2>r, <2>k
  <2>2. h[k] = Bits(N, b * k + l, b)
    <3>1. k < q * c
      <4>1. q - 1 - i \in Nat /\ q - 1 - i < q /\ c \in Nat /\ q \in Nat
        BY <1>1, <1>2, <2>1
      <4>2. (q - 1 - i) * c + r < q * c
        <5>a. PICK a : a = q - 1 - i
          OBVIOUS
        <5>1. a \in Nat /\ a + 1 <= q
          BY <4>1, <5>a
        <5>2. (a + 1) * c <= q * c /\ (a + 1) * c = a * c + c /\ a * c \in Nat
          BY <4>1, <5>1
        <5>3. q * c \in Nat
          BY <4>1
        <5> QED BY <2>1, <4>1, <5>2, <5>3, <5>a
      <4> QED BY <2>k, <4>2
    <3>2. k \in 0..(n - 1)
      BY <1>1, <1>2, <2>1, <3>1
    <3> QED BY <1>5, <3>2
  <2>3. b * k = p * (q - 1 - i) + b * r /\ b * j = p * i + b * r
    <3>d. PICK d : d = q - 1 - i
      OBVIOUS
    <3>1. d \in Nat /\ i \in Nat /\ b \in Nat /\ c \in Nat /\ r \in Nat
      BY <1>1, <1>2, <2>1, <3>d
    <3>2. \A x \in Nat : b * (x * c + r) = (b * c) * x + b * r /\ b * (c * x + r) = (b * c) * x + b * r
      BY <3>1
    <3>3. b * (d * c + r) = (b * c) * d + b * r /\ b * (c * i + r) = (b * c) * i + b * r
      BY <3>1, <3>2
    <3> QED BY <3>3, <3>d, <2>k, <2>1, <1>p
  <2>4. b * r + m <= p
    <3>1. r + 1 <= c /\ r + 1 \in Nat
      BY <1>1, <2>1
    <3>2. b * (r + 1) <= b * c /\ b * (r + 1) = b * r + b
      BY <1>1, <2>1, <3>1
    <3>3. b * r \in Nat
      BY <1>1, <2>1
    <3> QED BY <1>1, <1>p, <3>2, <3>3
  <2>5. i \in 0..(q - 1)
    BY <1>2, <2>1
  <2>6. Bits(V, p * i, p) = Bits(Bits(N, l, s), p * (q - 1 - i), p)
    BY <1>9, <1>X, <2>5
  <2>7. N \in Int /\ V \in Int /\ b \in Nat \ {0} /\ s \in Nat /\ l \in Nat /\ p \in Nat /\ c \in Nat
           /\ q \in Nat /\ i \in Nat /\ r \in Nat /\ m \in Nat
    BY <1>0, <1>1, <1>2, <1>9, <2>1
  <2>8. Bits(V, p * i + b * r, m) = Bits(N, l + (p * (q - 1 - i) + b * r), m)
    <3>1. s = p * q /\ i < q
      BY <1>2, <2>1
    <3>2. WordIn(N, V, b, s, l, p, q, i, r, m)
      BY <3>1, <2>4, <2>6, <2>7 DEF WordIn
    <3> QED BY <3>2, WordHolds
  <2>o. PICK o : o = b * k
    OBVIOUS
  <2>9. o \in Nat /\ o + l = l + o /\ o + l \in Nat
    BY <1>0, <1>1, <2>1, <2>o
  <2>10. Bits(g[j], 0, m) = Bits(N, o + l, m)
    BY <1>0, <1>1, <2>1, <2>2, <2>o, <2>9, ByteHolds
  <2> QED BY <2>3, <2>8, <2>9, <2>10, <2>o
<1> QED BY <1>7, <1>9, <1>10, <1>z, <1>n, <1>s, <1>c, <1>g, <1>X, <1>V

\* Swapped or not, the bytes hold the number with its words in order.
LEMMA Holds ==
    ASSUME NEW f, NEW h, NEW N, NEW l, Shown(f, h, N, l)
    PROVE  LET X == Bits(N, l, f.sizeBits)
               g == Swap(h, b2B(f.sizeBits), WordSwap(f))
           IN  /\ g \in [0..(computeSize(f) - 1) -> Byte]
               /\ Words(f, X) \in Nat /\ Words(f, X) < 2^f.sizeBits
               /\ HoldBits(g, b2B(f.sizeBits), Words(f, X), f.sizeBits)
BY HoldPlain, HoldSwapped

\* The bytes of an element hold the bits of the entry.
LEMMA FromHolds ==
    ASSUME NEW f, Valid(f), NEW w \in [0..(computeSize(f) - 1) -> Byte]
    PROVE  LET X == Bits(Whole(f, w), f.lsBit, f.sizeBits)
           IN  /\ FromDevice(f, w) \in [0..(computeSize(f) - 1) -> Byte]
               /\ Words(f, X) \in Nat /\ Words(f, X) < 2^f.sizeBits
               /\ HoldBits(FromDevice(f, w), b2B(f.sizeBits), Words(f, X), f.sizeBits)
<1>b. PICK b : b = ByteBits
  OBVIOUS
<1>z. PICK z : z = computeSize(f)
  OBVIOUS
<1>l. PICK l : l = f.lsBit
  OBVIOUS
<1>1. b \in Nat \ {0} /\ z \in Nat /\ l \in Nat /\ l <= b /\ b2B(f.sizeBits) \in Nat /\ b2B(f.sizeBits) <= z
  BY <1>b, <1>z, <1>l, Sizes, ByteAssumption
<1>E. PICK E : E = SwapEndian(f, w)
  OBVIOUS
<1>2. E \in [0..(z - 1) -> Byte]
  BY <1>1, <1>z, <1>E, Ordered
<1>N. PICK N : N = Number(E)
  OBVIOUS
<1>3. N \in Int /\ Whole(f, w) = N
  <2>1. N \in Nat /\ Whole(f, w) = N
    BY <1>1, <1>2, <1>E, <1>N, NumberDigits DEF Whole
  <2> QED BY <2>1
<1>h. PICK h : h = ShiftRight(E, l)
  OBVIOUS
<1>4. h \in [0..(z - 1) -> Byte] /\ \A j \in 0..(z - 1) : h[j] = Bits(N, b * j + l, b)
  BY <1>1, <1>2, <1>N, <1>h, <1>b, Shifted
<1>5. \A j \in 0..(b2B(f.sizeBits) - 1) : j \in 0..(z - 1)
  BY <1>1
<1>6. Shown(f, h, N, l)
  BY <1>1, <1>3, <1>4, <1>5, <1>b, <1>z DEF Shown
<1>7. FromDevice(f, w) = Swap(h, b2B(f.sizeBits), WordSwap(f))
  BY <1>E, <1>h, <1>l, Zenon DEF FromDevice
<1> QED BY <1>3, <1>6, <1>7, <1>l, Holds

-----------------------------------------------------------------------------
(* The sign.                                                               *)

\* A number of s bits that is read as a signed one.
OfBits(V, s, g) == V \in Nat /\ s \in Nat \ {0} /\ V < 2^s /\ g \in BOOLEAN

\* Powers of two grow.
LEMMA PowGrows ==
    ASSUME NEW a \in Nat, NEW c \in Nat, a <= c
    PROVE  2^a <= 2^c /\ 2^c = 2^a * 2^(c - a) /\ 2^(c - a) \in Nat \ {0} /\ 2^a \in Nat \ {0} /\ 2^c \in Nat \ {0}
<1>1. c - a \in Nat /\ a + (c - a) = c
  OBVIOUS
<1>A. PICK A : A = 2^a
  OBVIOUS
<1>C. PICK C : C = 2^(c - a)
  OBVIOUS
<1>2. A \in Nat \ {0} /\ C \in Nat \ {0} /\ 2^c \in Nat \ {0}
  <2>1. 2^a \in Nat /\ 2^a >= 1 /\ 2^c \in Nat /\ 2^c >= 1
    BY PowType
  <2>2. 2^(c - a) \in Nat /\ 2^(c - a) >= 1
    BY <1>1, PowType
  <2> QED BY <1>A, <1>C, <2>1, <2>2
<1>3. 2^c = A * C
  <2>1. 2^(a + (c - a)) = 2^a * 2^(c - a)
    BY <1>1, PowSum
  <2> QED BY <1>1, <1>A, <1>C, <2>1, Zenon
<1>4. A <= A * C
  BY <1>2
<1> QED BY <1>A, <1>C, <1>2, <1>3, <1>4

\* Below its sign a number has the bits it has without.
LEMMA SignedBelow ==
    ASSUME NEW V, NEW s, NEW g, OfBits(V, s, g), NEW o \in Nat, NEW n \in Nat, o + n <= s
    PROVE  Bits(Signed(V, s, g), o, n) = Bits(V, o, n)
<1>1. V \in Int /\ s \in Nat /\ o \in Nat /\ n \in Nat
  BY DEF OfBits
<1>2. Differ(Signed(V, s, g), V, s)
  <2>1. 2^s \in Nat
    BY <1>1, PowType
  <2>2. V - 2^s = V + 2^s * (-1) /\ -1 \in Int /\ V = V + 2^s * 0 /\ 0 \in Int
    BY <1>1, <2>1
  <2>3. Signed(V, s, g) = V \/ Signed(V, s, g) = V - 2^s
    BY DEF Signed
  <2> QED BY <2>2, <2>3, Zenon DEF Differ
<1> QED BY <1>1, <1>2, BitsAgree

\* Above it all bits are its sign.
LEMMA SignedAbove ==
    ASSUME NEW V, NEW s, NEW g, OfBits(V, s, g), NEW o \in Nat, NEW n \in Nat, s <= o
    PROVE  Bits(Signed(V, s, g), o, n) = IF g /\ V >= 2^(s - 1) THEN 2^n - 1 ELSE 0
<1>1. V \in Nat /\ s \in Nat /\ V < 2^s
  BY DEF OfBits
<1>S. PICK S : S = 2^s
  OBVIOUS
<1>O. PICK O : O = 2^o
  OBVIOUS
<1>N. PICK N : N = 2^n
  OBVIOUS
<1>2. S \in Nat \ {0} /\ O \in Nat \ {0} /\ N \in Nat \ {0} /\ S <= O /\ V < S
  <2>1. 2^n \in Nat /\ 2^n >= 1
    BY PowType
  <2> QED BY <1>1, <1>S, <1>O, <1>N, <2>1, PowGrows
<1>3. CASE g /\ V >= 2^(s - 1)
  <2>1. Signed(V, s, g) = V - S
    BY <1>3, <1>S DEF Signed
  <2>2. V - S = O * (-1) + (V - S + O) /\ V - S \in Int /\ V - S + O \in Nat /\ V - S + O < O
    BY <1>1, <1>2
  <2>3. (V - S) \div O = -1
    BY <1>2, <2>2, DivIs
  <2>4. -1 = N * (-1) + (N - 1) /\ N - 1 \in Nat /\ N - 1 < N
    BY <1>2
  <2>5. (-1) % N = N - 1
    BY <1>2, <2>4, DivIs
  <2> QED BY <1>3, <1>O, <1>N, <2>1, <2>3, <2>5 DEF Bits
<1>4. CASE ~(g /\ V >= 2^(s - 1))
  <2>1. Signed(V, s, g) = V
    BY <1>4 DEF Signed
  <2>2. V < 2^o
    BY <1>1, <1>2, <1>O
  <2>3. Bits(V, o, n) = 0
    BY <1>1, <2>2, BitsAbove
  <2> QED BY <1>4, <2>1, <2>3
<1> QED BY <1>3, <1>4

\* The top bit lies among n bits from o on.
Across(V, s, g, o, n) == OfBits(V, s, g) /\ o \in Nat /\ n \in Nat /\ o < s /\ s <= o + n

\* And where it lies within.
LEMMA SignedAcross ==
    ASSUME NEW V, NEW s, NEW g, NEW o, NEW n, Across(V, s, g, o, n)
    PROVE  Bits(Signed(V, s, g), o, n)
               = Bits(V, o, s - o) + IF g /\ V >= 2^(s - 1) THEN 2^n - 2^(s - o) ELSE 0
<1>0. o \in Nat /\ n \in Nat /\ o < s /\ s <= o + n
  BY DEF Across
<1>1. V \in Nat /\ V \in Int /\ s \in Nat /\ V < 2^s
  BY DEF OfBits, Across
<1> USE <1>0
<1>k. PICK k : k = s - o
  OBVIOUS
<1>2. k \in Nat /\ k <= n
  BY <1>1, <1>k
<1>K. PICK K : K = 2^k
  OBVIOUS
<1>O. PICK O : O = 2^o
  OBVIOUS
<1>N. PICK N : N = 2^n
  OBVIOUS
<1>3. K \in Nat \ {0} /\ O \in Nat \ {0} /\ N \in Nat \ {0} /\ K <= N /\ 2^s = O * K
  <2>1. 2^k <= 2^n /\ 2^k \in Nat \ {0} /\ 2^n \in Nat \ {0}
    BY <1>2, PowGrows
  <2>2. 2^s = 2^o * 2^(s - o) /\ 2^o \in Nat \ {0}
    BY <1>1, PowGrows
  <2> QED BY <1>k, <1>K, <1>O, <1>N, <2>1, <2>2
<1>4. CASE ~(g /\ V >= 2^(s - 1))
  <2>1. Signed(V, s, g) = V
    BY <1>4 DEF Signed
  <2>2. Bits(V, 0, s) = V
    BY <1>1, BitsAll
  <2>3. Bits(Bits(V, 0, s), o, n) = Bits(V, 0 + o, s - o)
    BY <1>1, BitsTop
  <2>4. 0 + o = o
    OBVIOUS
  <2>5. Bits(V, o, n) = Bits(V, o, k)
    BY <1>k, <2>2, <2>3, <2>4
  <2>6. Bits(V, o, k) \in Nat
    BY <1>1, <1>2, BitsType
  <2> QED BY <1>k, <1>4, <2>1, <2>5, <2>6
<1>5. CASE g /\ V >= 2^(s - 1)
  <2>D. PICK D : D = V \div O
    OBVIOUS
  <2>r. PICK r : r = V % O
    OBVIOUS
  <2>1. D \in Nat /\ r \in Nat /\ V = O * D + r
    BY <1>1, <1>3, <2>D, <2>r, DivMod
  <2>2. D < K
    <3> SUFFICES ASSUME D >= K PROVE FALSE
      BY <1>3, <2>1
    <3>1. O * D >= O * K /\ O * K \in Nat /\ O * D \in Nat
      BY <1>3, <2>1
    <3> QED BY <1>1, <1>3, <2>1, <3>1
  <2>3. Bits(V, o, k) = D
    <3>1. D % K = D
      BY <1>3, <2>1, <2>2, DivSmall
    <3> QED BY <3>1, <2>D, <1>K, <1>O DEF Bits
  <2>4. Signed(V, s, g) = O * (-K) + V /\ -K \in Int
    <3>1. O * (-K) = -(O * K) /\ O * K \in Nat
      BY <1>3
    <3> QED BY <1>1, <1>3, <1>5, <3>1 DEF Signed
  <2>5. (O * (-K) + V) \div O = -K + V \div O
    BY <1>1, <1>3, <2>4, DivAdd
  <2>x. PICK x : x = -K + D
    OBVIOUS
  <2>6. x \in Int /\ x = N * (-1) + (N - K + D) /\ N - K + D \in Nat /\ N - K + D < N
    BY <1>3, <2>1, <2>2, <2>x
  <2>7. x % N = N - K + D
    <3>y. PICK y : y = N - K + D
      OBVIOUS
    <3>1. x \in Int /\ -1 \in Int /\ y \in Nat /\ x = N * (-1) + y /\ y < N
      BY <2>6, <3>y
    <3>2. x % N = y
      BY <1>3, <3>1, DivIs
    <3> QED BY <3>2, <3>y
  <2>8. Bits(Signed(V, s, g), o, n) = N - K + D
    <3>1. Signed(V, s, g) \div O = x
      BY <2>4, <2>5, <2>D, <2>x
    <3> QED BY <3>1, <2>7, <1>O, <1>N DEF Bits
  <2>9. N - K + D = D + (N - K)
    BY <1>3, <2>1
  <2> QED BY <1>5, <1>k, <1>K, <1>N, <2>3, <2>8, <2>9
<1> QED BY <1>4, <1>5

\* What the output of an element of elsz bytes is extended from.
Moves(f, u, r, elsz, V) ==
    /\ Valid(f) /\ elsz \in Nat \ {0}
    /\ r \in [0..(computeSize(f) - 1) -> Byte] /\ DOMAIN u = 0..(elsz - 1)
    /\ \A j \in 0..(elsz - 1) : j < computeSize(f) => u[j] = r[j]
    /\ V \in Nat /\ V < 2^f.sizeBits /\ HoldBits(r, b2B(f.sizeBits), V, f.sizeBits)

\* A byte that lies below the sign.
LEMMA ByteBelow ==
    ASSUME NEW f, NEW u, NEW r, NEW elsz, NEW V, Moves(f, u, r, elsz, V), NEW j \in 0..(elsz - 1),
           ByteBits * j + ByteBits <= f.sizeBits
    PROVE  u[j] = Bits(Signed(V, f.sizeBits, f.isSigned), ByteBits * j, ByteBits)
<1>b. PICK b : b = ByteBits
  OBVIOUS
<1>s. PICK s : s = f.sizeBits
  OBVIOUS
<1>n. PICK n : n = b2B(s)
  OBVIOUS
<1>o. PICK o : o = b * j
  OBVIOUS
<1>0. Valid(f) /\ b \in Nat \ {0} /\ elsz \in Nat
  BY <1>b, ByteAssumption DEF Moves
<1>1. s \in Nat \ {0} /\ f.isSigned \in BOOLEAN /\ n \in Nat /\ s <= b * n /\ n <= computeSize(f) /\ computeSize(f) \in Nat
  BY <1>0, <1>b, <1>s, <1>n, Sizes
<1>2. o \in Nat /\ o + b <= s /\ j \in Nat
  BY <1>0, <1>o, <1>b, <1>s
<1>3. j \in 0..(n - 1)
  <2> SUFFICES ASSUME j >= n PROVE FALSE
    BY <1>1, <1>2
  <2>1. b * j >= b * n /\ b * n \in Nat
    BY <1>0, <1>1, <1>2
  <2> QED BY <1>0, <1>1, <1>2, <1>o, <2>1
<1>4. u[j] = r[j] /\ r[j] \in Byte
  <2>1. j \in 0..(computeSize(f) - 1) /\ j < computeSize(f)
    BY <1>1, <1>3
  <2> QED BY <2>1 DEF Moves
<1>5. Bits(r[j], 0, b) = Bits(V, o, b)
  <2>1. HoldBits(r, n, V, s) /\ b \in Nat /\ b <= ByteBits /\ ByteBits * j + b <= s
    BY <1>0, <1>2, <1>b, <1>s, <1>n, <1>o DEF Moves
  <2>2. Bits(r[j], 0, b) = Bits(V, ByteBits * j, b)
    BY <1>3, <2>1 DEF HoldBits
  <2> QED BY <2>2, <1>b, <1>o
<1>6. Bits(r[j], 0, b) = r[j]
  <2>1. r[j] \in Nat /\ r[j] < 2^b
    BY <1>4, <1>b, ByteType
  <2> QED BY <1>0, <2>1, BitsAll
<1>7. OfBits(V, s, f.isSigned)
  BY <1>1, <1>s DEF OfBits, Moves
<1>8. Bits(Signed(V, s, f.isSigned), o, b) = Bits(V, o, b)
  BY <1>0, <1>2, <1>7, SignedBelow
<1> QED BY <1>4, <1>5, <1>6, <1>8, <1>b, <1>s, <1>o

\* An entry that fills the output.
LEMMA ExtendNone ==
    ASSUME NEW f, NEW u, NEW r, NEW elsz, NEW V, Moves(f, u, r, elsz, V), f.sizeBits >= ByteBits * elsz,
           NEW j \in 0..(elsz - 1)
    PROVE  u[j] = Bits(Signed(V, f.sizeBits, f.isSigned), ByteBits * j, ByteBits)
<1>1. Valid(f) /\ elsz \in Nat \ {0} /\ ByteBits \in Nat
  BY ByteAssumption DEF Moves
<1>2. f.sizeBits \in Nat
  BY <1>1, Sizes
<1>3. ByteBits * j + ByteBits <= f.sizeBits
  <2>1. j + 1 <= elsz /\ j \in Nat
    BY <1>1
  <2>2. ByteBits * (j + 1) <= ByteBits * elsz /\ ByteBits * (j + 1) = ByteBits * j + ByteBits
    BY <1>1, <2>1
  <2>3. ByteBits * j \in Nat /\ ByteBits * elsz \in Nat
    BY <1>1, <2>1
  <2> QED BY <1>1, <1>2, <2>2, <2>3
<1> QED BY <1>3, ByteBelow

\* A smaller one: its sign goes on.
LEMMA ExtendSign ==
    ASSUME NEW f, NEW u, NEW r, NEW elsz, NEW V, Moves(f, u, r, elsz, V), f.sizeBits < ByteBits * elsz,
           NEW j \in 0..(elsz - 1)
    PROVE  SignExtend(u, f.isSigned, f.sizeBits)[j]
               = Bits(Signed(V, f.sizeBits, f.isSigned), ByteBits * j, ByteBits)
<1>b. PICK b : b = ByteBits
  OBVIOUS
<1>s. PICK s : s = f.sizeBits
  OBVIOUS
<1>g. PICK g : g = f.isSigned
  OBVIOUS
<1>k. PICK k : k = (s - 1) \div b
  OBVIOUS
<1>t. PICK t : t = (s - 1) % b
  OBVIOUS
<1>o. PICK o : o = b * k
  OBVIOUS
<1>v. PICK neg : neg = (g /\ (u[k] \div 2^t) % 2 = 1)
  OBVIOUS
<1>0. Valid(f) /\ b \in Nat \ {0} /\ elsz \in Nat \ {0} /\ s < b * elsz
  BY <1>b, <1>s, ByteAssumption DEF Moves
<1>1. s \in Nat \ {0} /\ g \in BOOLEAN
  BY <1>0, <1>s, <1>g, Sizes
<1>2. OfBits(V, s, g)
  BY <1>1, <1>s, <1>g DEF OfBits, Moves
<1>3. /\ k \in Nat /\ t \in Nat /\ t < b /\ s = o + t + 1 /\ o \in Nat /\ t + 1 \in Nat /\ t + 1 <= b
  <2>y. PICK y : y = s - 1
    OBVIOUS
  <2>1. y \in Int /\ y >= 0
    BY <1>1, <2>y
  <2>2. k \in Nat /\ t \in Nat /\ t < b /\ s - 1 = b * k + t
    <3>1. k = y \div b /\ t = y % b
      BY <1>k, <1>t, <2>y
    <3>2. y \div b \in Nat /\ y % b \in Nat /\ y % b < b /\ y = b * (y \div b) + (y % b)
      BY <1>0, <2>1, DivMod
    <3> QED BY <3>1, <3>2, <2>y
  <2>3. o \in Nat
    BY <1>0, <1>o, <2>2
  <2> QED BY <1>0, <1>1, <1>o, <2>2, <2>3
<1>4. k \in 0..(elsz - 1)
  <2> SUFFICES ASSUME k >= elsz PROVE FALSE
    BY <1>0, <1>3
  <2>1. b * k >= b * elsz /\ b * elsz \in Nat
    BY <1>0, <1>3
  <2> QED BY <1>0, <1>1, <1>3, <1>o, <2>1
<1>5. /\ u[k] = r[k] /\ u[k] \in Nat
      /\ \A m \in Nat : m <= t + 1 => Bits(u[k], 0, m) = Bits(V, o, m)
  <2>n. PICK n : n = b2B(f.sizeBits)
    OBVIOUS
  <2>1. n \in Nat \ {0} /\ s <= b * n /\ n <= computeSize(f) /\ computeSize(f) \in Nat
    BY <1>0, <1>b, <1>s, <2>n, Sizes
  <2>2. k \in 0..(n - 1)
    <3> SUFFICES ASSUME k >= n PROVE FALSE
      BY <1>3, <2>1
    <3>1. b * k >= b * n /\ b * n \in Nat
      BY <1>0, <1>3, <2>1
    <3> QED BY <1>1, <1>3, <1>o, <2>1, <3>1
  <2>3. k \in 0..(computeSize(f) - 1) /\ k < computeSize(f)
    BY <2>1, <2>2
  <2>4. u[k] = r[k] /\ r[k] \in Byte
    BY <1>4, <2>3 DEF Moves
  <2>5. HoldBits(r, n, V, s)
    BY <1>s, <2>n DEF Moves
  <2>6. ASSUME NEW m \in Nat, m <= t + 1 PROVE Bits(u[k], 0, m) = Bits(V, o, m)
    <3>1. m <= ByteBits /\ ByteBits * k + m <= s
      BY <1>0, <1>1, <1>3, <1>b, <1>o, <2>6
    <3>2. Bits(r[k], 0, m) = Bits(V, ByteBits * k, m)
      BY <2>2, <2>5, <3>1 DEF HoldBits
    <3> QED BY <2>4, <3>2, <1>b, <1>o
  <2>7. u[k] \in Nat
    BY <2>4, ByteType
  <2> QED BY <2>4, <2>6, <2>7
<1>6. neg <=> g /\ V >= 2^(s - 1)
  <2>1. Bits(u[k], 0, t + 1) = Bits(V, o, t + 1)
    BY <1>3, <1>5
  <2>2. t + 1 <= t + 1 /\ 1 \in Nat /\ 0 + t = t /\ o + t = s - 1 /\ o + t \in Nat /\ V \in Int /\ u[k] \in Int /\ 0 \in Nat
    BY <1>2, <1>3, <1>5 DEF OfBits
  <2>3. Bits(Bits(u[k], 0, t + 1), t, 1) = Bits(u[k], 0 + t, 1)
    <3>y. PICK y : y = u[k]
      OBVIOUS
    <3>c. PICK c : c = t + 1
      OBVIOUS
    <3>1. y \in Int /\ 0 \in Nat /\ c \in Nat /\ t \in Nat /\ 1 \in Nat /\ t + 1 <= c
      BY <1>3, <2>2, <3>y, <3>c
    <3>2. Bits(Bits(y, 0, c), t, 1) = Bits(y, 0 + t, 1)
      BY <3>1, BitsBits
    <3> QED BY <3>2, <3>y, <3>c
  <2>4. Bits(Bits(V, o, t + 1), t, 1) = Bits(V, o + t, 1)
    BY <1>3, <2>2, BitsBits
  <2>5. Bits(u[k], t, 1) = Bits(V, s - 1, 1)
    BY <2>1, <2>2, <2>3, <2>4
  <2>6. (u[k] \div 2^t) % 2 = Bits(u[k], t, 1)
    <3>1. 2^1 = 2
      OBVIOUS
    <3> QED BY <3>1 DEF Bits
  <2>7. (Bits(V, s - 1, 1) = 1) <=> (V >= 2^(s - 1))
    BY <1>1, <1>2, TopBit DEF OfBits
  <2> QED BY <1>v, <2>5, <2>6, <2>7
<1>7. SignExtend(u, g, s)[j] =
          IF j < k THEN u[j]
          ELSE (IF j = k THEN u[k] % 2^(t + 1) ELSE 0)
               + (IF ~neg THEN 0 ELSE IF j = k THEN Low(b) - Low(t + 1) ELSE Low(b))
  <2>1. DOMAIN u = 0..(elsz - 1)
    BY DEF Moves
  <2> QED BY <1>b, <1>k, <1>t, <1>v, <2>1 DEF SignExtend
<1>i. PICK i : i = b * j
  OBVIOUS
<1>8. j \in Nat /\ i \in Nat
  BY <1>0, <1>i
<1>P. 2^b \in Nat \ {0} /\ 2^(t + 1) \in Nat \ {0} /\ 2^(t + 1) <= 2^b
  BY <1>0, <1>3, PowGrows
<1>9. CASE j < k
  <2>1. ByteBits * j + ByteBits <= f.sizeBits
    <3>1. j + 1 <= k
      BY <1>3, <1>8, <1>9
    <3>2. b * (j + 1) <= b * k /\ b * (j + 1) = b * j + b
      BY <1>0, <1>3, <1>8, <3>1
    <3> QED BY <1>0, <1>1, <1>3, <1>8, <1>b, <1>s, <1>o, <1>i, <3>2
  <2>2. u[j] = Bits(Signed(V, f.sizeBits, f.isSigned), ByteBits * j, ByteBits)
    BY <2>1, ByteBelow
  <2> QED BY <1>7, <1>9, <2>2, <1>s, <1>g
<1>10. CASE j = k
  <2>1. Bits(Signed(V, s, g), o, b) = Bits(V, o, s - o) + IF g /\ V >= 2^(s - 1) THEN 2^b - 2^(s - o) ELSE 0
    <3>1. o < s /\ s <= o + b /\ b \in Nat
      BY <1>0, <1>3
    <3>2. Across(V, s, g, o, b)
      BY <1>2, <1>3, <3>1 DEF Across
    <3> QED BY <3>2, SignedAcross
  <2>2. s - o = t + 1
    BY <1>3
  <2>3. u[k] % 2^(t + 1) = Bits(V, o, t + 1)
    <3>1. Bits(u[k], 0, t + 1) = Bits(V, o, t + 1)
      BY <1>3, <1>5
    <3>2. 2^0 = 1 /\ u[k] \div 1 = u[k]
      BY <1>5
    <3> QED BY <3>1, <3>2 DEF Bits
  <2>4. Low(b) - Low(t + 1) = 2^b - 2^(t + 1)
    BY <1>P DEF Low
  <2>5. Bits(Signed(V, s, g), o, b) = SignExtend(u, g, s)[j]
    <3>1. Bits(V, o, t + 1) \in Nat
      <4>1. V \in Int
        BY <1>2 DEF OfBits
      <4> QED BY <4>1, <1>3, BitsType
    <3> QED BY <1>6, <1>7, <1>10, <1>P, <2>1, <2>2, <2>3, <2>4, <3>1
  <2> QED BY <1>10, <1>b, <1>s, <1>g, <1>o, <2>5
<1>11. CASE j > k
  <2>1. s <= i
    <3>1. k + 1 <= j
      BY <1>3, <1>8, <1>11
    <3>2. b * (k + 1) <= b * j /\ b * (k + 1) = b * k + b
      BY <1>0, <1>3, <1>8, <3>1
    <3> QED BY <1>0, <1>1, <1>3, <1>8, <1>o, <1>i, <3>2
  <2>2. Bits(Signed(V, s, g), i, b) = IF g /\ V >= 2^(s - 1) THEN 2^b - 1 ELSE 0
    <3>1. b \in Nat
      BY <1>0
    <3> QED BY <1>2, <1>8, <2>1, <3>1, SignedAbove
  <2>3. SignExtend(u, g, s)[j] = 0 + IF ~neg THEN 0 ELSE Low(b)
    BY <1>3, <1>7, <1>8, <1>11
  <2>4. Bits(Signed(V, s, g), i, b) = SignExtend(u, g, s)[j]
    BY <1>6, <1>P, <2>2, <2>3 DEF Low
  <2> QED BY <1>b, <1>s, <1>g, <1>i, <2>4
<1> QED BY <1>3, <1>8, <1>9, <1>10, <1>11

-----------------------------------------------------------------------------
(* The elements of a read.                                                 *)

\* What Paste makes of a buffer.
LEMMA Pasted ==
    ASSUME NEW b, NEW off, NEW w
    PROVE  Paste(b, off, w) = [i \in DOMAIN b |-> IF i - off \in DOMAIN w THEN w[i - off] ELSE b[i]]
<1> DEFINE S == {[i \in DOMAIN c |-> IF i - off \in DOMAIN v THEN v[i - off] ELSE c[i]] :
                     c \in {b}, v \in {w}}
           F == [i \in DOMAIN b |-> IF i - off \in DOMAIN w THEN w[i - off] ELSE b[i]]
<1>1. F \in S /\ \A p \in S : p = F
  OBVIOUS
<1>2. (CHOOSE p \in S : TRUE) \in S
  BY <1>1
<1> QED BY <1>1, <1>2 DEF Paste

\* n bytes from off on in a buffer of L bytes take the place of what was there.
Fits(b, L, off, w, n) ==
    /\ L \in Nat /\ off \in Nat /\ n \in Nat /\ off + n <= L
    /\ DOMAIN b = 0..(L - 1) /\ DOMAIN w = 0..(n - 1)

\* What the buffer holds then.
LEMMA PastedIn ==
    ASSUME NEW b, NEW L, NEW off, NEW w, NEW n, Fits(b, L, off, w, n)
    PROVE  /\ DOMAIN Paste(b, off, w) = 0..(L - 1)
           /\ \A j \in 0..(n - 1) : Paste(b, off, w)[off + j] = w[j]
           /\ \A x \in 0..(L - 1) : x < off \/ x >= off + n => Paste(b, off, w)[x] = b[x]
<1>0. /\ L \in Nat /\ off \in Nat /\ n \in Nat /\ off + n <= L
      /\ DOMAIN b = 0..(L - 1) /\ DOMAIN w = 0..(n - 1)
  BY DEF Fits
<1>p. PICK p : p = Paste(b, off, w)
  OBVIOUS
<1>1. p = [i \in 0..(L - 1) |-> IF i - off \in 0..(n - 1) THEN w[i - off] ELSE b[i]]
  BY <1>p, <1>0, Pasted
<1>2. ASSUME NEW j \in 0..(n - 1) PROVE p[off + j] = w[j]
  <2>1. off + j \in 0..(L - 1) /\ (off + j) - off = j
    BY <1>0
  <2> QED BY <1>1, <2>1
<1>3. ASSUME NEW x \in 0..(L - 1), x < off \/ x >= off + n PROVE p[x] = b[x]
  <2>1. x - off \notin 0..(n - 1)
    BY <1>0, <1>3
  <2> QED BY <1>1, <2>1
<1>4. DOMAIN p = 0..(L - 1)
  BY <1>1
<1> QED BY <1>p, <1>2, <1>3, <1>4

\* Element k of the input and where it goes.
ElementOf(f, k, in, a, elsz, L) ==
    /\ Valid(f) /\ k \in Nat /\ elsz \in Nat \ {0} /\ L \in Nat /\ (k + 1) * elsz <= L
    /\ DOMAIN a = 0..(L - 1)
    /\ Window(in, k * computeSize(f), computeSize(f)) \in [0..(computeSize(f) - 1) -> Byte]

\* An element is converted to the value it means, and nothing is written but where
\* the values of this and of former elements are.
LEMMA ElementMeans ==
    ASSUME NEW f, NEW k, NEW in, NEW a, NEW elsz, NEW L, ElementOf(f, k, in, a, elsz, L)
    PROVE  LET e == Element(f, k, in, a, elsz)
               v == FieldValue(f, Window(in, k * computeSize(f), computeSize(f)))
           IN  /\ DOMAIN e = 0..(L - 1)
               /\ \A j \in 0..(elsz - 1) : e[k * elsz + j] = Bits(v, ByteBits * j, ByteBits)
               /\ \A x \in 0..(L - 1) :
                      x >= (k + 1) * elsz \/ (InPlace(f, elsz) /\ x < k * computeSize(f)) => e[x] = a[x]
<1>z. PICK z : z = computeSize(f)
  OBVIOUS
<1>w. PICK w : w = Window(in, k * z, z)
  OBVIOUS
<1>s. PICK s : s = f.sizeBits
  OBVIOUS
<1>r. PICK r : r = FromDevice(f, w)
  OBVIOUS
<1>V. PICK V : V = Words(f, Bits(Whole(f, w), f.lsBit, s))
  OBVIOUS
<1>0. /\ Valid(f) /\ k \in Nat /\ elsz \in Nat \ {0} /\ L \in Nat /\ (k + 1) * elsz <= L
      /\ DOMAIN a = 0..(L - 1) /\ w \in [0..(z - 1) -> Byte]
  BY <1>z, <1>w DEF ElementOf
<1>1. z \in Nat \ {0}
  BY <1>0, <1>z, Sizes
<1>2. r \in [0..(z - 1) -> Byte] /\ V \in Nat /\ V < 2^s /\ HoldBits(r, b2B(s), V, s)
  BY <1>0, <1>z, <1>s, <1>r, <1>V, FromHolds
<1>3. FieldValue(f, w) = Signed(V, s, f.isSigned)
  BY <1>V, <1>s DEF FieldValue, Bits
<1>p. PICK p : p = k * elsz
  OBVIOUS
<1>q. PICK q : q = k * z
  OBVIOUS
<1>4. /\ p \in Nat /\ q \in Nat /\ (k + 1) * elsz = p + elsz /\ p + elsz <= L
      /\ z <= elsz => q <= p
  <2>1. p \in Nat /\ q \in Nat /\ (k + 1) * elsz = p + elsz
    BY <1>0, <1>1, <1>p, <1>q
  <2>2. z <= elsz => k * z <= k * elsz
    BY <1>0, <1>1
  <2> QED BY <1>0, <1>p, <1>q, <2>1, <2>2
<1>c. PICK c : c = IF InPlace(f, elsz) THEN Paste(a, q, r) ELSE a
  OBVIOUS
<1>5. /\ DOMAIN c = 0..(L - 1)
      /\ \A x \in 0..(L - 1) : x >= p + elsz \/ (InPlace(f, elsz) /\ x < q) => c[x] = a[x]
  <2>1. CASE ~InPlace(f, elsz)
    BY <1>0, <1>c, <2>1
  <2>2. CASE InPlace(f, elsz)
    <3>1. z <= elsz
      BY <2>2, <1>z DEF InPlace
    <3>2. q + z <= p + elsz /\ q + z <= L
      BY <1>0, <1>1, <1>4, <3>1
    <3>3. DOMAIN r = 0..(z - 1)
      BY <1>2
    <3>4. Fits(a, L, q, r, z)
      BY <1>0, <1>1, <1>4, <3>2, <3>3 DEF Fits
    <3>5. /\ DOMAIN Paste(a, q, r) = 0..(L - 1)
          /\ \A x \in 0..(L - 1) : x < q \/ x >= q + z => Paste(a, q, r)[x] = a[x]
      BY <3>4, PastedIn
    <3>6. c = Paste(a, q, r)
      BY <1>c, <2>2
    <3>7. \A x \in 0..(L - 1) : x >= p + elsz => x >= q + z
      BY <1>0, <1>1, <1>4, <3>2
    <3> QED BY <3>5, <3>6, <3>7
  <2> QED BY <2>1, <2>2
<1>u. PICK u : u = [j \in 0..(elsz - 1) |-> IF j < z THEN r[j] ELSE c[k * elsz + j]]
  OBVIOUS
<1>6. Moves(f, u, r, elsz, V)
  <2>1. DOMAIN u = 0..(elsz - 1) /\ \A j \in 0..(elsz - 1) : j < z => u[j] = r[j]
    BY <1>u
  <2> QED BY <1>0, <1>2, <1>z, <1>s, <2>1 DEF Moves
<1>g. PICK g : g = IF s >= ByteBits * elsz THEN u ELSE SignExtend(u, f.isSigned, s)
  OBVIOUS
<1>7. \A j \in 0..(elsz - 1) : g[j] = Bits(Signed(V, s, f.isSigned), ByteBits * j, ByteBits)
  <2>1. CASE s >= ByteBits * elsz
    <3>1. \A j \in 0..(elsz - 1) : u[j] = Bits(Signed(V, s, f.isSigned), ByteBits * j, ByteBits)
      BY <1>6, <1>s, <2>1, ExtendNone
    <3> QED BY <1>g, <2>1, <3>1
  <2>2. CASE ~(s >= ByteBits * elsz)
    <3>0. s < ByteBits * elsz
      <4>1. s \in Nat /\ ByteBits * elsz \in Nat
        BY <1>0, <1>s, Sizes, ByteAssumption
      <4> QED BY <2>2, <4>1
    <3>1. \A j \in 0..(elsz - 1) :
              SignExtend(u, f.isSigned, s)[j] = Bits(Signed(V, s, f.isSigned), ByteBits * j, ByteBits)
      BY <1>6, <1>s, <3>0, ExtendSign
    <3>2. g = SignExtend(u, f.isSigned, s)
      BY <1>g, <2>2
    <3> QED BY <3>1, <3>2
  <2> QED BY <2>1, <2>2
<1>8. DOMAIN g = 0..(elsz - 1)
  BY <1>g, <1>u DEF SignExtend
<1>e. PICK e : e = Paste(c, p, g)
  OBVIOUS
<1>9. Element(f, k, in, a, elsz) = e
  BY <1>z, <1>w, <1>s, <1>r, <1>p, <1>q, <1>c, <1>u, <1>g, <1>e, Zenon DEF Element
<1>10. Fits(c, L, p, g, elsz)
  BY <1>0, <1>4, <1>5, <1>8 DEF Fits
<1>11. /\ DOMAIN e = 0..(L - 1)
       /\ \A j \in 0..(elsz - 1) : e[p + j] = g[j]
       /\ \A x \in 0..(L - 1) : x < p \/ x >= p + elsz => e[x] = c[x]
  BY <1>10, <1>e, PastedIn
<1>12. ASSUME NEW x \in 0..(L - 1), x >= (k + 1) * elsz \/ (InPlace(f, elsz) /\ x < q) PROVE e[x] = a[x]
  <2>1. x >= p + elsz \/ (InPlace(f, elsz) /\ x < q)
    BY <1>4, <1>12
  <2>2. x < p \/ x >= p + elsz
    <3>1. InPlace(f, elsz) => z <= elsz
      BY <1>z DEF InPlace
    <3> QED BY <1>0, <1>4, <2>1, <3>1
  <2> QED BY <1>5, <1>11, <2>1, <2>2
<1> QED BY <1>3, <1>7, <1>9, <1>11, <1>12, <1>z, <1>w, <1>s, <1>p, <1>q

\* The last m elements of the array are converted one after another: d[n] is the
\* output after n of them.
Step(f, ibuf, nelms, elsz, n, a) == Element(f, nelms - n, IF InPlace(f, elsz) THEN a ELSE ibuf, a, elsz)
Start(f, ibuf, nelms, elsz) == IF InPlace(f, elsz) THEN ibuf ELSE [j \in 0..(nelms * elsz - 1) |-> 0]

Converts(f, ibuf, nelms, elsz, m, d) ==
    d = [n \in 0..m |->
            IF n = 0 THEN Start(f, ibuf, nelms, elsz)
            ELSE CHOOSE b \in {Element(f, nelms - n, IF InPlace(f, elsz) THEN a ELSE ibuf, a, elsz) :
                                  a \in {d[n - 1]}} : TRUE]

\* One more.
LEMMA StepIs ==
    ASSUME NEW f, NEW ibuf, NEW nelms, NEW elsz, NEW n, NEW x
    PROVE  (CHOOSE b \in {Element(f, nelms - n, IF InPlace(f, elsz) THEN a ELSE ibuf, a, elsz) :
                              a \in {x}} : TRUE)
           = Step(f, ibuf, nelms, elsz, n, x)
<1> DEFINE S == {Element(f, nelms - n, IF InPlace(f, elsz) THEN a ELSE ibuf, a, elsz) : a \in {x}}
<1>1. Step(f, ibuf, nelms, elsz, n, x) \in S /\ \A p \in S : p = Step(f, ibuf, nelms, elsz, n, x)
  BY Zenon DEF Step
<1>2. (CHOOSE p \in S : TRUE) \in S
  BY <1>1
<1> QED BY <1>1, <1>2

\* The conversion as a recursive function.
LEMMA ConvertsIs ==
    ASSUME NEW f, NEW ibuf, NEW nelms, NEW elsz, NEW m, NEW d
    PROVE  Converts(f, ibuf, nelms, elsz, m, d) <=>
               d = [n \in 0..m |-> IF n = 0 THEN Start(f, ibuf, nelms, elsz)
                                   ELSE Step(f, ibuf, nelms, elsz, n, d[n - 1])]
<1> DEFINE C(n) == CHOOSE b \in {Element(f, nelms - n, IF InPlace(f, elsz) THEN a ELSE ibuf, a, elsz) :
                                     a \in {d[n - 1]}} : TRUE
           G(n) == Step(f, ibuf, nelms, elsz, n, d[n - 1])
           A == Start(f, ibuf, nelms, elsz)
<1>1. \A n \in 0..m : C(n) = G(n)
  BY StepIs, Zenon
<1>2. Converts(f, ibuf, nelms, elsz, m, d) <=> d = [n \in 0..m |-> IF n = 0 THEN A ELSE C(n)]
  BY Zenon DEF Converts
<1> HIDE DEF C, G, A
<1>3. [n \in 0..m |-> IF n = 0 THEN A ELSE C(n)] = [n \in 0..m |-> IF n = 0 THEN A ELSE G(n)]
  BY <1>1
<1>4. Converts(f, ibuf, nelms, elsz, m, d) <=> d = [n \in 0..m |-> IF n = 0 THEN A ELSE G(n)]
  BY <1>2, <1>3, Zenon
<1> QED BY <1>4, Zenon DEF G, A

\* There is one.
LEMMA ConvertsExist ==
    ASSUME NEW f, NEW ibuf, NEW nelms, NEW elsz, NEW n \in Nat
    PROVE  \E d : Converts(f, ibuf, nelms, elsz, n, d)
<1> DEFINE S == {m \in Nat : ~ \E d : Converts(f, ibuf, nelms, elsz, m, d)}
<1> SUFFICES ASSUME S # {} PROVE FALSE
  OBVIOUS
<1>1. PICK m \in S : \A j \in S : m <= j
  BY Least
<1>2. m \in Nat /\ ~ \E d : Converts(f, ibuf, nelms, elsz, m, d)
  OBVIOUS
<1>3. CASE m = 0
  <2> DEFINE d == [k \in 0..0 |-> Start(f, ibuf, nelms, elsz)]
  <2>1. d = [k \in 0..0 |-> IF k = 0 THEN Start(f, ibuf, nelms, elsz)
                                   ELSE Step(f, ibuf, nelms, elsz, k, d[k - 1])]
    OBVIOUS
  <2> HIDE DEF d
  <2>2. Converts(f, ibuf, nelms, elsz, 0, d)
    BY <2>1, ConvertsIs
  <2> QED BY <1>2, <1>3, <2>2
<1>4. CASE m # 0
  <2>1. m - 1 \in Nat /\ ~(m <= m - 1)
    BY <1>2, <1>4
  <2>2. PICK h : Converts(f, ibuf, nelms, elsz, m - 1, h)
    BY <1>1, <2>1
  <2>h. h = [k \in 0..(m - 1) |-> IF k = 0 THEN Start(f, ibuf, nelms, elsz)
                                  ELSE Step(f, ibuf, nelms, elsz, k, h[k - 1])]
    BY <2>2, ConvertsIs
  <2> DEFINE d == [k \in 0..m |-> IF k = m THEN Step(f, ibuf, nelms, elsz, m, h[m - 1]) ELSE h[k]]
  <2>3. \A k \in 0..m : d[k] = IF k = 0 THEN Start(f, ibuf, nelms, elsz)
                               ELSE Step(f, ibuf, nelms, elsz, k, d[k - 1])
    <3> TAKE k \in 0..m
    <3>1. \A l \in 0..(m - 1) : h[l] = IF l = 0 THEN Start(f, ibuf, nelms, elsz)
                                       ELSE Step(f, ibuf, nelms, elsz, l, h[l - 1])
      BY <2>h
    <3>2. CASE k = m
      BY <1>2, <1>4, <3>2
    <3>3. CASE k # m
      <4>1. k \in 0..(m - 1) /\ (k # 0 => k - 1 \in 0..m /\ k - 1 # m)
        BY <1>2, <3>3
      <4> QED BY <3>1, <3>3, <4>1
    <3> QED BY <3>2, <3>3
  <2>4. DOMAIN d = 0..m /\ d = [k \in 0..m |-> d[k]]
    OBVIOUS
  <2> HIDE DEF d
  <2>5. d = [k \in 0..m |-> IF k = 0 THEN Start(f, ibuf, nelms, elsz)
                            ELSE Step(f, ibuf, nelms, elsz, k, d[k - 1])]
    BY <2>3, <2>4
  <2>6. Converts(f, ibuf, nelms, elsz, m, d)
    BY <2>5, ConvertsIs
  <2> QED BY <1>2, <2>6
<1> QED BY <1>3, <1>4

\* An input of nelms elements.
Larger(x, y) == IF x > y THEN x ELSE y
Input(f, ibuf, nelms, elsz) ==
    /\ Valid(f) /\ nelms \in Nat \ {0} /\ elsz \in Nat \ {0}
    /\ DOMAIN ibuf = 0..(nelms * Larger(computeSize(f), elsz) - 1)
    /\ \A k \in 0..(nelms - 1) :
           Window(ibuf, k * computeSize(f), computeSize(f)) \in [0..(computeSize(f) - 1) -> Byte]

\* After n elements: those are converted and the others are as they were.
SoFar(f, ibuf, nelms, elsz, n, a) ==
    /\ DOMAIN a = 0..(nelms * elsz - 1)
    /\ \A k \in (nelms - n)..(nelms - 1), j \in 0..(elsz - 1) :
           a[k * elsz + j]
               = Bits(FieldValue(f, Window(ibuf, k * computeSize(f), computeSize(f))), ByteBits * j, ByteBits)
    /\ InPlace(f, elsz) => \A x \in 0..((nelms - n) * computeSize(f) - 1) : a[x] = ibuf[x]

\* At first no element is converted.
LEMMA SoFarNone ==
    ASSUME NEW f, NEW ibuf, NEW nelms, NEW elsz, Input(f, ibuf, nelms, elsz)
    PROVE  SoFar(f, ibuf, nelms, elsz, 0, Start(f, ibuf, nelms, elsz))
<1>z. PICK z : z = computeSize(f)
  OBVIOUS
<1>a. PICK a : a = Start(f, ibuf, nelms, elsz)
  OBVIOUS
<1>0. Valid(f) /\ nelms \in Nat \ {0} /\ elsz \in Nat \ {0} /\ DOMAIN ibuf = 0..(nelms * Larger(z, elsz) - 1)
  BY <1>z DEF Input
<1>1. z \in Nat \ {0}
  BY <1>0, <1>z, Sizes
<1>2. DOMAIN a = 0..(nelms * elsz - 1) /\ (InPlace(f, elsz) => a = ibuf)
  <2>1. CASE InPlace(f, elsz)
    <3>1. Larger(z, elsz) = elsz
      BY <1>0, <1>1, <1>z, <2>1 DEF InPlace, Larger
    <3> QED BY <1>0, <1>a, <2>1, <3>1 DEF Start
  <2>2. CASE ~InPlace(f, elsz)
    BY <1>a, <2>2 DEF Start
  <2> QED BY <2>1, <2>2
<1>3. (nelms - 0)..(nelms - 1) = {}
  BY <1>0
<1> QED BY <1>2, <1>3, <1>a DEF SoFar

\* One element of the array lies before the next.
LEMMA ElementApart ==
    ASSUME NEW k \in Nat, NEW i \in Nat, NEW j \in Nat, NEW e \in Nat, k < i, j < e
    PROVE  k * e + j < i * e /\ (k + 1) * e <= i * e /\ (k + 1) * e = k * e + e /\ k * e \in Nat /\ i * e \in Nat
<1>1. k * e \in Nat /\ i * e \in Nat /\ (k + 1) * e = k * e + e
  OBVIOUS
<1>2. k + 1 <= i
  OBVIOUS
<1>3. (k + 1) * e <= i * e
  BY <1>2
<1> QED BY <1>1, <1>3

\* The next element is converted, and no element that is still to come is overwritten.
LEMMA SoFarNext ==
    ASSUME NEW f, NEW ibuf, NEW nelms, NEW elsz, Input(f, ibuf, nelms, elsz),
           NEW n, n \in Nat \ {0}, n <= nelms, NEW a, SoFar(f, ibuf, nelms, elsz, n - 1, a)
    PROVE  SoFar(f, ibuf, nelms, elsz, n, Step(f, ibuf, nelms, elsz, n, a))
<1>z. PICK z : z = computeSize(f)
  OBVIOUS
<1>k. PICK k : k = nelms - n
  OBVIOUS
<1>L. PICK L : L = nelms * elsz
  OBVIOUS
<1>i. PICK in : in = IF InPlace(f, elsz) THEN a ELSE ibuf
  OBVIOUS
<1>e. PICK e : e = Element(f, k, in, a, elsz)
  OBVIOUS
<1>0. /\ Valid(f) /\ nelms \in Nat \ {0} /\ elsz \in Nat \ {0} /\ n \in Nat \ {0} /\ n <= nelms
      /\ \A h \in 0..(nelms - 1) : Window(ibuf, h * z, z) \in [0..(z - 1) -> Byte]
  BY <1>z DEF Input
<1>1. z \in Nat \ {0} /\ k \in Nat /\ k < nelms /\ L \in Nat /\ nelms - (n - 1) = k + 1 /\ k \in 0..(nelms - 1)
  BY <1>0, <1>z, <1>k, <1>L, Sizes
<1>2. /\ DOMAIN a = 0..(L - 1)
      /\ \A h \in (k + 1)..(nelms - 1), j \in 0..(elsz - 1) :
             a[h * elsz + j] = Bits(FieldValue(f, Window(ibuf, h * z, z)), ByteBits * j, ByteBits)
      /\ InPlace(f, elsz) => \A x \in 0..((k + 1) * z - 1) : a[x] = ibuf[x]
  BY <1>1, <1>z, <1>L DEF SoFar
<1>3. (k + 1) * elsz <= L
  <2>1. k + 1 <= nelms
    BY <1>0, <1>1
  <2> QED BY <1>0, <1>1, <1>L, <2>1
<1>4. Window(in, k * z, z) = Window(ibuf, k * z, z)
  <2>1. CASE InPlace(f, elsz)
    <3>1. ASSUME NEW j \in 0..(z - 1) PROVE in[k * z + j] = ibuf[k * z + j]
      <4>1. k * z \in Nat /\ (k + 1) * z = k * z + z
        BY <1>1
      <4>2. k * z + j \in 0..((k + 1) * z - 1)
        BY <1>1, <4>1
      <4> QED BY <1>2, <1>i, <2>1, <4>2
    <3> QED BY <3>1 DEF Window
  <2>2. CASE ~InPlace(f, elsz)
    BY <1>i, <2>2
  <2> QED BY <2>1, <2>2
<1>5. ElementOf(f, k, in, a, elsz, L)
  BY <1>0, <1>1, <1>2, <1>3, <1>4, <1>z DEF ElementOf
<1>6. /\ DOMAIN e = 0..(L - 1)
      /\ \A j \in 0..(elsz - 1) :
             e[k * elsz + j] = Bits(FieldValue(f, Window(ibuf, k * z, z)), ByteBits * j, ByteBits)
      /\ \A x \in 0..(L - 1) :
             x >= (k + 1) * elsz \/ (InPlace(f, elsz) /\ x < k * z) => e[x] = a[x]
  BY <1>4, <1>5, <1>z, <1>e, ElementMeans
<1>7. ASSUME NEW h \in k..(nelms - 1), NEW j \in 0..(elsz - 1)
      PROVE  e[h * elsz + j] = Bits(FieldValue(f, Window(ibuf, h * z, z)), ByteBits * j, ByteBits)
  <2>1. CASE h = k
    BY <1>6, <2>1
  <2>2. CASE h # k
    <3>1. h \in (k + 1)..(nelms - 1) /\ h \in Nat /\ k < h /\ h < nelms /\ j \in Nat /\ j < elsz
      BY <1>0, <1>1, <2>2
    <3>2. h * elsz + j < L /\ h * elsz + j \in 0..(L - 1) /\ h * elsz + j >= (k + 1) * elsz
      <4>1. h * elsz + j < nelms * elsz
        BY <1>0, <3>1, ElementApart
      <4>2. (k + 1) * elsz <= h * elsz /\ h * elsz \in Nat
        BY <1>0, <1>1, <3>1, ElementApart
      <4> QED BY <1>0, <1>1, <1>L, <3>1, <4>1, <4>2
    <3>3. e[h * elsz + j] = a[h * elsz + j]
      BY <1>6, <3>2
    <3> QED BY <1>2, <3>1, <3>3
  <2> QED BY <2>1, <2>2
<1>8. ASSUME InPlace(f, elsz), NEW x \in 0..(k * z - 1) PROVE e[x] = ibuf[x]
  <2>1. k * z \in Nat /\ (k + 1) * z = k * z + z /\ k * elsz \in Nat /\ (k + 1) * elsz = k * elsz + elsz
    BY <1>0, <1>1
  <2>2. k * z <= k * elsz
    <3>1. z <= elsz
      BY <1>8, <1>z DEF InPlace
    <3> QED BY <1>0, <1>1, <3>1
  <2>3. x \in 0..((k + 1) * z - 1) /\ x \in 0..(L - 1) /\ x < k * z
    BY <1>0, <1>1, <1>3, <2>1, <2>2
  <2> QED BY <1>2, <1>6, <1>8, <2>3
<1>9. Step(f, ibuf, nelms, elsz, n, a) = e
  BY <1>k, <1>i, <1>e, Zenon DEF Step
<1> QED BY <1>6, <1>7, <1>8, <1>9, <1>z, <1>k, <1>L DEF SoFar

\* A completed read gives the values of all its elements.
THEOREM Converted ==
    ASSUME NEW f, NEW ibuf, NEW nelms, NEW elsz, Input(f, ibuf, nelms, elsz), NEW k \in 0..(nelms - 1)
    PROVE  Window(doComplete(f, ibuf, nelms, elsz), k * elsz, elsz)
               = ToBytes(FieldValue(f, Window(ibuf, k * computeSize(f), computeSize(f))), elsz)
<1> DEFINE Is(d) == d = [n \in 0..nelms |->
            IF n = 0
            THEN IF InPlace(f, elsz) THEN ibuf ELSE [j \in 0..(nelms * elsz - 1) |-> 0]
            ELSE CHOOSE b \in {Element(f, nelms - n, IF InPlace(f, elsz) THEN a ELSE ibuf, a, elsz) :
                                  a \in {d[n - 1]}} : TRUE]
           d == CHOOSE g : Is(g)
<1>0. nelms \in Nat \ {0} /\ elsz \in Nat \ {0}
  BY DEF Input
<1>1. doComplete(f, ibuf, nelms, elsz) = d[nelms]
  BY DEF doComplete
<1>2. ASSUME NEW g PROVE Is(g) <=> Converts(f, ibuf, nelms, elsz, nelms, g)
  BY Zenon DEF Converts, Start
<1>3. \E g : Is(g)
  <2>0. nelms \in Nat
    BY <1>0
  <2> HIDE DEF Is
  <2>1. PICK g : Converts(f, ibuf, nelms, elsz, nelms, g)
    BY <2>0, ConvertsExist
  <2>2. Is(g)
    BY <1>2, <2>1
  <2> QED BY <2>2
<1>4. Is(d)
  BY <1>3
<1>5. Converts(f, ibuf, nelms, elsz, nelms, d)
  BY <1>2, <1>4
<1> HIDE DEF Is, d
<1>6. \A n \in 0..nelms : d[n] = IF n = 0 THEN Start(f, ibuf, nelms, elsz)
                                 ELSE Step(f, ibuf, nelms, elsz, n, d[n - 1])
  <2>1. d = [n \in 0..nelms |-> IF n = 0 THEN Start(f, ibuf, nelms, elsz)
                                ELSE Step(f, ibuf, nelms, elsz, n, d[n - 1])]
    BY <1>5, ConvertsIs
  <2> QED BY <2>1
<1>7. SoFar(f, ibuf, nelms, elsz, nelms, d[nelms])
  <2> DEFINE S == {n \in Nat : n <= nelms /\ ~SoFar(f, ibuf, nelms, elsz, n, d[n])}
  <2> SUFFICES ASSUME S # {} PROVE FALSE
    BY <1>0
  <2>1. PICK m \in S : \A j \in S : m <= j
    BY Least
  <2>2. m \in Nat /\ m <= nelms /\ ~SoFar(f, ibuf, nelms, elsz, m, d[m])
    OBVIOUS
  <2>3. CASE m = 0
    <3>1. d[0] = Start(f, ibuf, nelms, elsz)
      BY <1>0, <1>6
    <3> QED BY <2>2, <2>3, <3>1, SoFarNone
  <2>4. CASE m # 0
    <3>1. m - 1 \in Nat /\ m - 1 <= nelms /\ ~(m <= m - 1) /\ m \in 0..nelms /\ m \in Nat \ {0}
      BY <1>0, <2>2, <2>4
    <3>2. SoFar(f, ibuf, nelms, elsz, m - 1, d[m - 1])
      BY <2>1, <3>1
    <3>3. SoFar(f, ibuf, nelms, elsz, m, Step(f, ibuf, nelms, elsz, m, d[m - 1]))
      BY <2>2, <3>1, <3>2, SoFarNext
    <3>4. d[m] = Step(f, ibuf, nelms, elsz, m, d[m - 1])
      BY <1>6, <2>4, <3>1
    <3> QED BY <2>2, <3>3, <3>4
  <2> QED BY <2>3, <2>4
<1>8. k \in (nelms - nelms)..(nelms - 1)
  BY <1>0
<1>w. PICK w : w = Window(ibuf, k * computeSize(f), computeSize(f))
  OBVIOUS
<1>9. \A j \in 0..(elsz - 1) : d[nelms][k * elsz + j] = Bits(FieldValue(f, w), ByteBits * j, ByteBits)
  BY <1>7, <1>8, <1>w DEF SoFar
<1>10. Window(d[nelms], k * elsz, elsz) = ToBytes(FieldValue(f, w), elsz)
  BY <1>9 DEF Window, ToBytes, Bits
<1> QED BY <1>1, <1>10, <1>w

-----------------------------------------------------------------------------
(* Bits that are stored.                                                   *)

\* ( old & msk ) | ( new & ~msk ): a byte, and its bits.
LEMMA MergeBits ==
    ASSUME NEW old \in Int, NEW new \in Int, NEW msk
    PROVE  /\ Merge(old, new, msk) \in Byte
           /\ \A k \in 0..(ByteBits - 1) :
                  Bits(Merge(old, new, msk), k, 1) = Bits(IF Bits(msk, k, 1) = 1 THEN old ELSE new, k, 1)
<1>b. PICK b : b = ByteBits
  OBVIOUS
<1> DEFINE bit(x, i) == (x \div 2^i) % 2
           x(k) == IF bit(msk, k) = 1 THEN old ELSE new
           d == [k \in 0..(b - 1) |-> bit(x(k), k)]
           e == [i \in 1..b |-> d[i - 1] * 2^(1 * (i - 1))]
           Is(g) == g = [i \in 0..b |-> IF i = 0 THEN 0 ELSE g[i - 1] + 2^(i - 1) * bit(x(i - 1), i - 1)]
           sum == CHOOSE g : Is(g)
<1>0. b \in Nat \ {0}
  BY <1>b, ByteAssumption
<1>1. Merge(old, new, msk) = sum[b]
  BY <1>b, Zenon DEF Merge
<1>2. ASSUME NEW k \in 0..(b - 1) PROVE bit(x(k), k) \in Nat /\ bit(x(k), k) < 2^1 /\ 2^k \in Nat
  <2>1. k \in Nat
    OBVIOUS
  <2>2. 2^k \in Nat \ {0} /\ 2^1 = 2
    BY <2>1, PowType
  <2>3. x(k) \in Int
    OBVIOUS
  <2> HIDE DEF x
  <2>4. x(k) \div 2^k \in Int
    BY <2>2, <2>3, DivMod
  <2> QED BY <2>2, <2>4
<1>3. ASSUME NEW i \in 1..b PROVE e[i] = 2^(i - 1) * bit(x(i - 1), i - 1)
  <2>1. i - 1 \in 0..(b - 1) /\ 1 * (i - 1) = i - 1
    BY <1>0
  <2>2. d[i - 1] = bit(x(i - 1), i - 1)
    BY <2>1
  <2>k. PICK k : k = i - 1
    OBVIOUS
  <2>3. e[i] = d[k] * 2^k
    BY <2>1, <2>k
  <2>4. d[k] \in Nat /\ 2^k \in Nat
    BY <1>2, <2>1, <2>2, <2>k
  <2>5. d[k] * 2^k = 2^k * d[k]
    <3>1. \A u, v \in Nat : u * v = v * u
      OBVIOUS
    <3> QED BY <2>4, <3>1, Zenon
  <2> QED BY <2>2, <2>3, <2>5, <2>k
<1>x. \A k \in 0..(b - 1) : d[k] = Bits(IF Bits(msk, k, 1) = 1 THEN old ELSE new, k, 1)
  <2>1. 2^1 = 2
    OBVIOUS
  <2> QED BY <2>1 DEF Bits
<1> HIDE DEF x, bit
<1>4. ASSUME NEW g PROVE Is(g) <=> Adds(b, e, g)
  <2>1. ASSUME NEW i \in 0..b
        PROVE  (IF i = 0 THEN 0 ELSE g[i - 1] + e[i])
               = IF i = 0 THEN 0 ELSE g[i - 1] + 2^(i - 1) * bit(x(i - 1), i - 1)
    <3>1. CASE i = 0
      BY <3>1
    <3>2. CASE i # 0
      <4>1. i \in 1..b
        BY <3>2
      <4>2. e[i] = 2^(i - 1) * bit(x(i - 1), i - 1)
        BY <1>3, <4>1
      <4> HIDE DEF e
      <4> QED BY <3>2, <4>2, Zenon
    <3> QED BY <3>1, <3>2
  <2> HIDE DEF e
  <2>2. [i \in 0..b |-> IF i = 0 THEN 0 ELSE g[i - 1] + e[i]]
        = [i \in 0..b |-> IF i = 0 THEN 0 ELSE g[i - 1] + 2^(i - 1) * bit(x(i - 1), i - 1)]
    BY <2>1, Zenon
  <2> QED BY <2>2, Zenon DEF Adds
<1> HIDE DEF Is
<1>5. \E g : Is(g)
  <2>1. PICK g : Adds(b, e, g)
    BY <1>0, AddsExist
  <2>2. Is(g)
    BY <1>4, <2>1
  <2> QED BY <2>2
<1>6. Is(sum)
  BY <1>5
<1>7. Adds(b, e, sum)
  BY <1>4, <1>6
<1>8. \A k \in 0..(b - 1) : d[k] \in Nat /\ d[k] < 2^1
  BY <1>2
<1>9. \A i \in 1..b : e[i] = d[i - 1] * 2^(1 * (i - 1))
  OBVIOUS
<1> HIDE DEF d, e, sum
<1>10. DigitsOf(sum[b], d, 1, b)
  <2>1. 1 \in Nat /\ b \in Nat
    BY <1>0
  <2> QED BY <1>7, <1>8, <1>9, <2>1, DigitsAdd
<1>11. sum[b] \in Nat /\ sum[b] < 2^(1 * b)
  BY <1>10 DEF DigitsOf
<1>12. 1 * b = b
  BY <1>0
<1>13. sum[b] \in Nat /\ sum[b] < 2^b
  BY <1>11, <1>12, Zenon
<1>14. ASSUME NEW k \in 0..(b - 1) PROVE Bits(sum[b], k, 1) = d[k]
  <2>1. 1 * k = k
    BY <1>0
  <2>2. Bits(sum[b], 1 * k, 1) = d[k]
    BY <1>10 DEF DigitsOf
  <2> QED BY <2>1, <2>2, Zenon
<1> QED BY <1>1, <1>13, <1>14, <1>x, <1>b, ByteType

\* A byte is stored in the bits that are the entry's.
LEMMA WriteType ==
    ASSUME NEW M \in Nat, NEW a \in [0..(M - 1) -> Byte], NEW n \in Nat, NEW src \in [0..(n - 1) -> Int],
           NEW off \in Nat, off + n <= M, NEW m
    PROVE  write_func8(a, off, src, m) \in [0..(M - 1) -> Byte]
<1> DEFINE msk(j) == CASE Len0(src) = 1 -> Merge(m.msk1, m.mskn, m.msk1)
                       [] Len0(src) > 1 /\ j = 0 -> m.msk1
                       [] Len0(src) > 1 /\ j = Len0(src) - 1 -> m.mskn
                       [] Len0(src) > 1 /\ j \notin {0, Len0(src) - 1} -> 0
           v == [j \in DOMAIN src |-> Merge(a[off + j], src[j], msk(j))]
<1>1. write_func8(a, off, src, m) = Paste(a, off, v)
  BY Zenon DEF write_func8
<1>2. ASSUME NEW j \in 0..(n - 1) PROVE v[j] \in Byte
  <2>1. off + j \in 0..(M - 1)
    OBVIOUS
  <2>2. a[off + j] \in Int /\ src[j] \in Int
    BY <2>1, ByteType
  <2> HIDE DEF msk
  <2>3. v[j] = Merge(a[off + j], src[j], msk(j))
    OBVIOUS
  <2> QED BY <2>2, <2>3, MergeBits
<1>3. DOMAIN v = 0..(n - 1)
  OBVIOUS
<1> HIDE DEF v
<1>p. PICK p : p = Paste(a, off, v)
  OBVIOUS
<1>4. p = [i \in 0..(M - 1) |-> IF i - off \in 0..(n - 1) THEN v[i - off] ELSE a[i]]
  BY <1>p, <1>3, Pasted
<1>5. \A i \in 0..(M - 1) : (IF i - off \in 0..(n - 1) THEN v[i - off] ELSE a[i]) \in Byte
  BY <1>2
<1>6. p \in [0..(M - 1) -> Byte]
  BY <1>4, <1>5
<1> QED BY <1>1, <1>6, <1>p

\* Bits of a quotient.
LEMMA BitsDiv ==
    ASSUME NEW x \in Int, NEW o \in Nat, NEW p \in Nat, NEW n \in Nat
    PROVE  x \div 2^o \in Int /\ Bits(x \div 2^o, p, n) = Bits(x, o + p, n)
<1>1. 2^o \in Nat \ {0} /\ 2^p \in Nat \ {0} /\ 2^(o + p) = 2^o * 2^p
  BY PowType, PowSum
<1>2. (x \div 2^o) \div 2^p = x \div (2^o * 2^p)
  BY <1>1, DivDiv
<1>3. x \div 2^o \in Int
  BY <1>1, DivMod
<1> QED BY <1>1, <1>2, <1>3 DEF Bits

\* Numbers of m bits that have the same bits are the same.
LEMMA SameBits ==
    ASSUME NEW a \in Nat, NEW c \in Nat, NEW n \in Nat, a < 2^n, c < 2^n,
           \A i \in 0..(n - 1) : Bits(a, i, 1) = Bits(c, i, 1)
    PROVE  a = c
<1> DEFINE S == {m \in Nat : m <= n /\ Bits(a, 0, m) # Bits(c, 0, m)}
<1>1. Bits(a, 0, n) = a /\ Bits(c, 0, n) = c
  BY BitsAll
<1> SUFFICES ASSUME S # {} PROVE FALSE
  BY <1>1
<1>2. PICK m \in S : \A j \in S : m <= j
  BY Least
<1>3. m \in Nat /\ m <= n /\ Bits(a, 0, m) # Bits(c, 0, m)
  OBVIOUS
<1> HIDE DEF S
<1>4. a \in Int /\ c \in Int /\ 0 \in Nat
  OBVIOUS
<1>5. CASE m = 0
  <2>0. 2^0 = 1
    OBVIOUS
  <2>1. Bits(a, 0, 0) < 2^0 /\ Bits(c, 0, 0) < 2^0 /\ Bits(a, 0, 0) \in Nat /\ Bits(c, 0, 0) \in Nat
    BY <1>4, BitsType
  <2> QED BY <1>3, <1>5, <2>0, <2>1
<1>6. CASE m # 0
  <2>k. PICK k : k = m - 1
    OBVIOUS
  <2>1. k \in Nat /\ m = k + 1 /\ k \in 0..(n - 1) /\ k <= n /\ ~(m <= k) /\ 1 \in Nat /\ 0 + k = k
    BY <1>3, <1>6, <2>k
  <2>2. Bits(a, 0, k) = Bits(c, 0, k)
    BY <1>2, <2>1 DEF S
  <2>3. Bits(a, 0, k + 1) = Bits(a, 0, k) + 2^k * Bits(a, 0 + k, 1)
    BY <1>4, <2>1, BitsSplit
  <2>4. Bits(c, 0, k + 1) = Bits(c, 0, k) + 2^k * Bits(c, 0 + k, 1)
    BY <1>4, <2>1, BitsSplit
  <2>5. Bits(a, k, 1) = Bits(c, k, 1)
    BY <2>1
  <2> QED BY <1>3, <2>1, <2>2, <2>3, <2>4, <2>5
<1> QED BY <1>5, <1>6

\* The n lowest bits are set.
LEMMA LowBits ==
    ASSUME NEW n \in Nat, NEW i \in Nat
    PROVE  Low(n) \in Nat /\ Bits(Low(n), i, 1) = IF i < n THEN 1 ELSE 0
<1>1. 2^n \in Nat \ {0} /\ 2^i \in Nat \ {0} /\ 2^1 = 2
  BY PowType
<1>2. Low(n) \in Nat /\ Low(n) = 2^n - 1
  BY <1>1 DEF Low
<1>3. CASE i < n
  <2>1. -1 \in Int /\ Low(n) = -1 + 2^n * 1
    BY <1>1, <1>2
  <2>2. Differ(Low(n), -1, n)
    BY <2>1 DEF Differ
  <2>3. i + 1 <= n /\ 1 \in Nat
    BY <1>3
  <2>4. Bits(Low(n), i, 1) = Bits(-1, i, 1)
    BY <2>1, <2>2, <2>3, BitsAgree
  <2>5. (-1) \div 2^i = -1
    <3>P. PICK P : P = 2^i
      OBVIOUS
    <3>v. PICK v : v = -1
      OBVIOUS
    <3>1. P \in Nat \ {0} /\ P - 1 \in Nat /\ v = P * v + (P - 1) /\ P - 1 < P /\ v \in Int
      BY <1>1, <3>P, <3>v
    <3>2. v \div P = v
      BY <3>1, DivIs
    <3> QED BY <3>2, <3>P, <3>v
  <2>6. Bits(-1, i, 1) = 1
    BY <1>1, <2>5 DEF Bits
  <2> QED BY <1>2, <1>3, <2>4, <2>6
<1>4. CASE ~(i < n)
  <2>1. n <= i
    BY <1>4
  <2>2. 2^n <= 2^i
    BY <2>1, PowGrows
  <2>3. Low(n) < 2^i
    BY <1>1, <1>2, <2>2
  <2>4. Bits(Low(n), i, 1) = 0
    BY <1>2, <2>3, BitsAbove
  <2> QED BY <1>2, <1>4, <2>4
<1> QED BY <1>3, <1>4

\* The bits from u on are set, up to bit n.
LEMMA HighBits ==
    ASSUME NEW n \in Nat, NEW u \in Nat, u <= n, NEW i \in Nat, i < n
    PROVE  Low(n) - Low(u) \in Nat /\ Bits(Low(n) - Low(u), i, 1) = IF i >= u THEN 1 ELSE 0
<1>k. PICK k : k = n - u
  OBVIOUS
<1>1. k \in Nat /\ 2^u \in Nat \ {0} /\ 2^n \in Nat \ {0} /\ 2^k \in Nat \ {0} /\ 2^n = 2^u * 2^k /\ 2^u <= 2^n
  <2>1. k \in Nat
    BY <1>k
  <2>2. 2^u <= 2^n /\ 2^n = 2^u * 2^(n - u) /\ 2^u \in Nat \ {0} /\ 2^n \in Nat \ {0}
    BY PowGrows
  <2> QED BY <2>1, <2>2, <1>k, PowType
<1>H. PICK H : H = Low(n) - Low(u)
  OBVIOUS
<1>2. H = 2^n - 2^u /\ H \in Nat /\ H \in Int
  BY <1>1, <1>H DEF Low
<1>3. H = 2^u * Low(k) + 0 /\ Low(k) \in Int
  BY <1>1, <1>2 DEF Low
<1>4. CASE i < u
  <2>1. H = 0 + 2^u * Low(k) /\ 0 \in Int /\ i + 1 <= u /\ 1 \in Nat
    BY <1>1, <1>3, <1>4
  <2>2. Differ(H, 0, u)
    BY <1>3, <2>1 DEF Differ
  <2>3. Bits(H, i, 1) = Bits(0, i, 1)
    BY <2>1, <2>2, BitsAgree
  <2>4. 0 < 2^i /\ 0 \in Nat
    BY PowType
  <2>5. Bits(0, i, 1) = 0
    BY <2>4, BitsAbove
  <2> QED BY <1>2, <1>4, <1>H, <2>3, <2>5
<1>5. CASE i >= u
  <2>r. PICK r : r = i - u
    OBVIOUS
  <2>1. r \in Nat /\ u + r = i /\ r < k /\ 1 \in Nat
    BY <1>5, <1>k, <2>r
  <2>2. H \div 2^u = Low(k)
    <3>1. 0 \in Nat /\ 0 < 2^u
      BY <1>1
    <3>P. PICK P : P = 2^u
      OBVIOUS
    <3>2. P \in Nat \ {0} /\ H = P * Low(k) + 0 /\ 0 < P
      BY <1>1, <1>3, <3>P
    <3>3. H \div P = Low(k)
      BY <1>2, <1>3, <3>1, <3>2, DivIs
    <3> QED BY <3>3, <3>P
  <2>3. Bits(H \div 2^u, r, 1) = Bits(H, u + r, 1)
    BY <1>2, <2>1, BitsDiv
  <2>4. Bits(Low(k), r, 1) = 1
    BY <1>1, <2>1, LowBits
  <2> QED BY <1>2, <1>5, <1>H, <2>1, <2>2, <2>3, <2>4
<1> QED BY <1>4, <1>5

\* W takes the place of the s bits of x from bit l on.
Replaces(x, l, s, W) == x \in Int /\ l \in Nat /\ s \in Nat /\ W \in Nat /\ W < 2^s

\* The bits of a number in which s bits from bit l on are replaced.
LEMMA Replaced ==
    ASSUME NEW x, NEW l, NEW s, NEW W, Replaces(x, l, s, W), NEW p \in Nat
    PROVE  LET y == x + (W - Bits(x, l, s)) * 2^l
           IN  y \in Int /\ Bits(y, p, 1) = IF l <= p /\ p < l + s THEN Bits(W, p - l, 1) ELSE Bits(x, p, 1)
<1>0. x \in Int /\ l \in Nat /\ s \in Nat /\ W \in Nat /\ W < 2^s /\ W \in Int /\ 1 \in Nat
  BY DEF Replaces
<1>L. PICK L : L = 2^l
  OBVIOUS
<1>S. PICK S : S = 2^s
  OBVIOUS
<1>X. PICK X : X = x \div L
  OBVIOUS
<1>o. PICK o : o = X % S
  OBVIOUS
<1>k. PICK k : k = W - o
  OBVIOUS
<1>y. PICK y : y = x + k * L
  OBVIOUS
<1>1. L \in Nat \ {0} /\ S \in Nat \ {0}
  BY <1>0, <1>L, <1>S, PowType
<1>2. X \in Int
  BY <1>0, <1>1, <1>X, DivMod
<1>3. o \in Nat /\ o < S /\ X \div S \in Int /\ X = S * (X \div S) + o
  BY <1>1, <1>2, <1>o, DivMod
<1>4. k \in Int /\ y \in Int /\ y = x + L * k /\ y = L * k + x
  BY <1>0, <1>1, <1>3, <1>k, <1>y
<1>5. y = x + (W - Bits(x, l, s)) * 2^l
  BY <1>L, <1>S, <1>X, <1>o, <1>k, <1>y DEF Bits
<1>6. CASE p < l
  <2>1. Differ(y, x, l) /\ p + 1 <= l
    BY <1>0, <1>4, <1>6, <1>L DEF Differ
  <2>2. Bits(y, p, 1) = Bits(x, p, 1)
    BY <1>0, <2>1, BitsAgree
  <2> QED BY <1>0, <1>4, <1>5, <1>6, <2>2
<1>7. CASE l <= p
  <2>r. PICK r : r = p - l
    OBVIOUS
  <2>1. r \in Nat /\ l + r = p
    BY <1>0, <1>7, <2>r
  <2>Y. PICK Y : Y = y \div L
    OBVIOUS
  <2>2. Y = k + X
    <3>1. (L * k + x) \div L = k + (x \div L)
      BY <1>0, <1>1, <1>4, DivAdd
    <3> QED BY <1>4, <1>X, <2>Y, <3>1
  <2>Q. PICK Q : Q = X \div S
    OBVIOUS
  <2>3. Y = S * Q + W /\ Q \in Int /\ Y \in Int /\ S * Q \in Int
    BY <1>0, <1>1, <1>2, <1>3, <1>4, <1>k, <2>2, <2>Q
  <2>4. Bits(y, p, 1) = Bits(Y, r, 1) /\ Bits(x, p, 1) = Bits(X, r, 1)
    <3>1. Bits(y \div 2^l, r, 1) = Bits(y, l + r, 1)
      BY <1>0, <1>4, <2>1, BitsDiv
    <3>2. Bits(x \div 2^l, r, 1) = Bits(x, l + r, 1)
      BY <1>0, <2>1, BitsDiv
    <3> QED BY <1>L, <1>X, <2>1, <2>Y, <3>1, <3>2
  <2>5. CASE r < s
    <3>1. Y = W + S * Q
      BY <1>0, <2>3
    <3>2. Differ(Y, W, s) /\ r + 1 <= s
      BY <1>0, <1>S, <2>1, <2>3, <2>5, <3>1 DEF Differ
    <3>3. Bits(Y, r, 1) = Bits(W, r, 1)
      BY <1>0, <2>1, <3>2, BitsAgree
    <3>4. p < l + s
      BY <1>0, <2>1, <2>5
    <3> QED BY <1>4, <1>5, <1>7, <2>4, <2>r, <3>3, <3>4
  <2>6. CASE ~(r < s)
    <3>u. PICK u : u = r - s
      OBVIOUS
    <3>1. u \in Nat /\ s + u = r /\ ~(p < l + s)
      BY <1>0, <2>1, <2>6, <3>u
    <3>2. Y \div S = Q
      BY <1>0, <1>1, <1>S, <2>3, DivIs
    <3>3. Bits(Y, r, 1) = Bits(Q, u, 1) /\ Bits(X, r, 1) = Bits(Q, u, 1)
      <4>1. Bits(Y \div 2^s, u, 1) = Bits(Y, s + u, 1)
        BY <1>0, <2>3, <3>1, BitsDiv
      <4>2. Bits(X \div 2^s, u, 1) = Bits(X, s + u, 1)
        BY <1>0, <1>2, <3>1, BitsDiv
      <4> QED BY <1>S, <2>Q, <3>1, <3>2, <4>1, <4>2
    <3> QED BY <1>4, <1>5, <2>4, <3>1, <3>3
  <2> QED BY <2>5, <2>6
<1> QED BY <1>0, <1>6, <1>7

-----------------------------------------------------------------------------
(* From the number that is meant to the device.                            *)

\* The entry reaches into its last byte.
LEMMA SizeTight ==
    ASSUME NEW f, Valid(f)
    PROVE  ByteBits * (computeSize(f) - 1) < f.lsBit + f.sizeBits
<1>b. PICK b : b = ByteBits
  OBVIOUS
<1>s. PICK s : s = f.sizeBits
  OBVIOUS
<1>l. PICK l : l = f.lsBit
  OBVIOUS
<1>n. PICK n : n = b2B(s)
  OBVIOUS
<1>z. PICK z : z = computeSize(f)
  OBVIOUS
<1>1. b \in Nat \ {0} /\ s \in Nat \ {0} /\ l \in Nat /\ n \in Nat \ {0} /\ b * (n - 1) < s
  BY <1>b, <1>s, <1>l, <1>n, ByteAssumption, Sizes
<1>2. CASE WordSwap(f) > 0
  <2>1. z = n + (IF l # 0 THEN 1 ELSE 0)
    BY <1>2, <1>z, <1>n, <1>s, <1>l DEF computeSize
  <2>2. s = b * n
    BY <1>2, <1>b, <1>s, <1>n, Sizes
  <2>3. CASE l = 0
    <3>1. z - 1 = n - 1 /\ b * (n - 1) \in Int
      BY <1>1, <2>1, <2>3
    <3>2. b * (z - 1) = b * (n - 1)
      BY <3>1, Zenon
    <3> QED BY <1>1, <2>3, <3>1, <3>2, <1>b, <1>s, <1>l, <1>z
  <2>4. CASE l # 0
    <3>1. z - 1 = n
      BY <1>1, <2>1, <2>4
    <3>2. b * (z - 1) = s
      BY <2>2, <3>1, Zenon
    <3> QED BY <1>1, <2>4, <3>2, <1>b, <1>s, <1>l, <1>z
  <2> QED BY <2>3, <2>4
<1>3. CASE ~(WordSwap(f) > 0)
  <2>1. z = b2B(s + l)
    BY <1>3, <1>z, <1>s, <1>l DEF computeSize
  <2>2. s + l \in Nat \ {0} /\ s + l = l + s
    BY <1>1
  <2>3. ByteBits * (z - 1) < s + l
    BY <2>1, <2>2, RoundUp
  <2> QED BY <2>2, <2>3, <1>s, <1>l, <1>z
<1> QED BY <1>2, <1>3

\* What setVal() converts: an integer of e bytes, in a buffer that held junk.
Converting(f, e, w, junk) == Valid(f) /\ e \in Nat \ {0} /\ w \in [0..(e - 1) -> Byte] /\ junk \in Byte
OutBuf(f, e, w, junk) == [j \in 0..(computeSize(f) - 1) |-> IF j < e THEN w[j] ELSE junk]
Extended(f, e, w, junk) ==
    IF f.sizeBits > ByteBits * e THEN SignExtend(OutBuf(f, e, w, junk), f.isSigned, ByteBits * e)
                                 ELSE OutBuf(f, e, w, junk)
Meant(f, e, w) == Signed(Number(w), ByteBits * e, f.isSigned)

\* The bytes before the sign extension.
LEMMA OutBufType ==
    ASSUME NEW f, NEW e, NEW w, NEW junk, Converting(f, e, w, junk)
    PROVE  OutBuf(f, e, w, junk) \in [0..(computeSize(f) - 1) -> Byte]
<1>1. computeSize(f) \in Nat /\ e \in Nat \ {0} /\ w \in [0..(e - 1) -> Byte] /\ junk \in Byte
  BY Sizes DEF Converting
<1>2. \A j \in 0..(computeSize(f) - 1) : (IF j < e THEN w[j] ELSE junk) \in Byte
  BY <1>1
<1> QED BY <1>2 DEF OutBuf

\* The integer is large enough.
LEMMA ExtendedPlain ==
    ASSUME NEW f, NEW e, NEW w, NEW junk, Converting(f, e, w, junk), ~(f.sizeBits > ByteBits * e)
    PROVE  Shown(f, Extended(f, e, w, junk), Meant(f, e, w), 0)
<1>b. PICK b : b = ByteBits
  OBVIOUS
<1>s. PICK s : s = f.sizeBits
  OBVIOUS
<1>n. PICK n : n = b2B(s)
  OBVIOUS
<1>z. PICK z : z = computeSize(f)
  OBVIOUS
<1>t. PICK t : t = b * e
  OBVIOUS
<1>V. PICK V : V = Number(w)
  OBVIOUS
<1>0. Valid(f) /\ e \in Nat \ {0} /\ w \in [0..(e - 1) -> Byte] /\ e \in Nat
  BY DEF Converting
<1>1. /\ b \in Nat \ {0} /\ s \in Nat \ {0} /\ n \in Nat \ {0} /\ b * (n - 1) < s /\ n <= z /\ z \in Nat
      /\ f.isSigned \in BOOLEAN /\ t \in Nat \ {0} /\ s <= t
  <2>1. b \in Nat \ {0} /\ s \in Nat \ {0} /\ n \in Nat \ {0} /\ b * (n - 1) < s /\ n <= z /\ z \in Nat
        /\ f.isSigned \in BOOLEAN
    BY <1>0, <1>b, <1>s, <1>n, <1>z, ByteAssumption, Sizes
  <2>2. t \in Nat \ {0}
    BY <1>0, <2>1, <1>t
  <2> QED BY <2>1, <2>2, <1>b, <1>s, <1>t
<1>2. V \in Nat /\ V < 2^t /\ \A j \in 0..(e - 1) : Bits(V, b * j, b) = w[j]
  BY <1>0, <1>b, <1>t, <1>V, NumberDigits
<1>3. OfBits(V, t, f.isSigned)
  BY <1>1, <1>2 DEF OfBits
<1>v. PICK v : v = Signed(V, t, f.isSigned)
  OBVIOUS
<1>4. v \in Int
  <2>1. t - 1 \in Nat
    BY <1>1
  <2>2. 2^t \in Nat /\ 2^(t - 1) \in Nat
    BY <1>1, <2>1, PowType
  <2> QED BY <1>2, <1>v, <2>2 DEF Signed
<1>5. n <= e
  <2> SUFFICES ASSUME n - 1 >= e PROVE FALSE
    BY <1>0, <1>1
  <2>1. b * (n - 1) >= b * e /\ b * (n - 1) \in Nat
    BY <1>0, <1>1
  <2> QED BY <1>1, <1>t, <2>1
<1>6. ASSUME NEW j \in 0..(n - 1) PROVE OutBuf(f, e, w, junk)[j] = Bits(v, b * j + 0, b)
  <2>o. PICK o : o = b * j
    OBVIOUS
  <2>1. j \in 0..(e - 1) /\ j \in 0..(z - 1) /\ j < e /\ j \in Nat
    BY <1>0, <1>1, <1>5
  <2>2. o \in Nat /\ o + 0 = o /\ o + b <= t /\ b \in Nat
    <3>1. j + 1 <= e /\ b * (j + 1) <= b * e /\ b * (j + 1) = b * j + b
      BY <1>0, <1>1, <2>1
    <3>2. b * j \in Nat
      BY <1>1, <2>1
    <3> QED BY <1>1, <1>t, <2>o, <3>1, <3>2
  <2>3. OutBuf(f, e, w, junk)[j] = w[j]
    BY <2>1, <1>z DEF OutBuf
  <2>4. Bits(v, o, b) = Bits(V, o, b)
    BY <1>3, <1>v, <2>2, SignedBelow
  <2>5. Bits(V, o, b) = w[j]
    BY <1>2, <2>1, <2>o
  <2> QED BY <2>2, <2>3, <2>4, <2>5, <2>o
<1>7. Extended(f, e, w, junk) = OutBuf(f, e, w, junk) /\ Meant(f, e, w) = v
  BY <1>b, <1>t, <1>V, <1>v DEF Extended, Meant
<1>8. OutBuf(f, e, w, junk) \in [0..(z - 1) -> Byte]
  BY <1>z, OutBufType
<1> QED BY <1>0, <1>4, <1>6, <1>7, <1>8, <1>b, <1>s, <1>n, <1>z DEF Shown

\* It is not, and its sign goes on.
LEMMA ExtendedSign ==
    ASSUME NEW f, NEW e, NEW w, NEW junk, Converting(f, e, w, junk), f.sizeBits > ByteBits * e
    PROVE  Shown(f, Extended(f, e, w, junk), Meant(f, e, w), 0)
<1>b. PICK b : b = ByteBits
  OBVIOUS
<1>s. PICK s : s = f.sizeBits
  OBVIOUS
<1>n. PICK n : n = b2B(s)
  OBVIOUS
<1>z. PICK z : z = computeSize(f)
  OBVIOUS
<1>t. PICK t : t = b * e
  OBVIOUS
<1>V. PICK V : V = Number(w)
  OBVIOUS
<1>u. PICK u : u = OutBuf(f, e, w, junk)
  OBVIOUS
<1>g. PICK g : g = f.isSigned
  OBVIOUS
<1>0. Valid(f) /\ e \in Nat \ {0} /\ w \in [0..(e - 1) -> Byte] /\ e \in Nat
  BY DEF Converting
<1>1. /\ b \in Nat \ {0} /\ s \in Nat \ {0} /\ n \in Nat \ {0} /\ n <= z /\ z \in Nat \ {0}
      /\ g \in BOOLEAN /\ t \in Nat \ {0} /\ s > t /\ s <= b * n
  <2>1. b \in Nat \ {0} /\ s \in Nat \ {0} /\ n \in Nat \ {0} /\ n <= z /\ z \in Nat \ {0}
        /\ g \in BOOLEAN /\ s <= b * n
    BY <1>0, <1>b, <1>s, <1>n, <1>z, <1>g, ByteAssumption, Sizes
  <2>2. t \in Nat \ {0}
    BY <1>0, <2>1, <1>t
  <2> QED BY <2>1, <2>2, <1>b, <1>s, <1>t
<1>2. V \in Nat /\ V < 2^t /\ \A j \in 0..(e - 1) : Bits(V, b * j, b) = w[j]
  BY <1>0, <1>b, <1>t, <1>V, NumberDigits
<1>h. PICK h : h = [sizeBits |-> t, lsBit |-> 0, isSigned |-> g, wordSwap |-> 0, byteOrder |-> "LE"]
  OBVIOUS
<1>3. h.sizeBits = t /\ h.lsBit = 0 /\ h.isSigned = g /\ h.wordSwap = 0
  BY <1>h
<1>4. WordSwap(h) = 0
  BY <1>3 DEF WordSwap
<1>5. Valid(h)
  BY <1>1, <1>3, <1>4, <1>h, ByteAssumption DEF Valid, checkArgs
<1>6. computeSize(h) = e /\ b2B(h.sizeBits) = e
  <2>1. t + 0 = t
    BY <1>1
  <2>2. computeSize(h) = b2B(t) /\ b2B(h.sizeBits) = b2B(t)
    BY <1>3, <1>4, <2>1 DEF computeSize
  <2>3. b2B(t) = e
    <3>1. t + b - 1 = b * e + (b - 1) /\ b - 1 \in Nat /\ b - 1 < b /\ e \in Int /\ t + b - 1 \in Int
      BY <1>0, <1>1, <1>t
    <3>y. PICK y : y = t + b - 1
      OBVIOUS
    <3>2. y \div b = e
      BY <1>1, <3>1, <3>y, DivIs
    <3> QED BY <3>2, <3>y, <1>b DEF b2B
  <2> QED BY <2>2, <2>3
<1>7. e <= z /\ t < b * z
  <2>1. b * n <= b * z /\ b * n \in Nat /\ b * z \in Nat
    BY <1>1
  <2>2. t < b * z
    BY <1>1, <2>1
  <2>3. e <= z
    <3> SUFFICES ASSUME e > z PROVE FALSE
      BY <1>0, <1>1
    <3>1. b * e >= b * z
      BY <1>0, <1>1
    <3> QED BY <1>1, <1>t, <2>1, <2>2, <3>1
  <2> QED BY <2>2, <2>3
<1>8. u \in [0..(z - 1) -> Byte] /\ DOMAIN u = 0..(z - 1) /\ \A j \in 0..(z - 1) : j < e => u[j] = w[j]
  <2>1. u \in [0..(z - 1) -> Byte]
    BY <1>u, <1>z, OutBufType
  <2>2. \A j \in 0..(z - 1) : j < e => u[j] = w[j]
    BY <1>u, <1>z DEF OutBuf
  <2> QED BY <2>1, <2>2
<1>9. HoldBits(w, e, V, t)
  <2> SUFFICES ASSUME NEW j \in 0..(e - 1), NEW m \in Nat, m <= b
               PROVE  Bits(w[j], 0, m) = Bits(V, b * j, m)
    BY <1>b DEF HoldBits
  <2>o. PICK o : o = b * j
    OBVIOUS
  <2>1. o \in Nat /\ V \in Int /\ b \in Nat
    BY <1>0, <1>1, <1>2, <2>o
  <2>2. w[j] = Bits(V, o, b)
    BY <1>2, <2>o
  <2>3. Bits(w[j], 0, m) = Bits(V, o, m)
    BY <2>1, <2>2, ByteHolds
  <2> QED BY <2>3, <2>o
<1>10. Moves(h, u, w, z, V)
  BY <1>0, <1>1, <1>2, <1>3, <1>5, <1>6, <1>8, <1>9 DEF Moves
<1>v. PICK v : v = Signed(V, t, g)
  OBVIOUS
<1>11. ASSUME NEW j \in 0..(z - 1) PROVE SignExtend(u, g, t)[j] = Bits(v, b * j, b)
  <2>1. h.sizeBits < ByteBits * z
    BY <1>3, <1>7, <1>b
  <2>2. SignExtend(u, h.isSigned, h.sizeBits)[j] = Bits(Signed(V, h.sizeBits, h.isSigned), ByteBits * j, ByteBits)
    BY <1>10, <2>1, ExtendSign
  <2> QED BY <1>3, <1>b, <1>v, <2>2
<1>12. v \in Int
  <2>1. t - 1 \in Nat
    BY <1>1
  <2>2. 2^t \in Nat /\ 2^(t - 1) \in Nat
    BY <1>1, <2>1, PowType
  <2> QED BY <1>2, <1>v, <2>2 DEF Signed
<1>13. SignExtend(u, g, t) \in [0..(z - 1) -> Byte]
  <2>1. ASSUME NEW j \in 0..(z - 1) PROVE SignExtend(u, g, t)[j] \in Byte
    <3>o. PICK o : o = b * j
      OBVIOUS
    <3>1. o \in Nat /\ b \in Nat
      BY <1>1, <3>o
    <3>2. Bits(v, o, b) \in Nat /\ Bits(v, o, b) < 2^b
      BY <1>12, <3>1, BitsType
    <3> QED BY <1>11, <1>b, <3>2, <3>o, ByteType
  <2>2. DOMAIN SignExtend(u, g, t) = 0..(z - 1) /\ SignExtend(u, g, t) = [j \in 0..(z - 1) |-> SignExtend(u, g, t)[j]]
    BY <1>8 DEF SignExtend
  <2> QED BY <2>1, <2>2
<1>14. Extended(f, e, w, junk) = SignExtend(u, g, t) /\ Meant(f, e, w) = v
  BY <1>b, <1>t, <1>V, <1>v, <1>u, <1>g DEF Extended, Meant
<1>15. ASSUME NEW j \in 0..(n - 1) PROVE SignExtend(u, g, t)[j] = Bits(v, b * j + 0, b)
  <2>1. j \in 0..(z - 1) /\ b * j + 0 = b * j
    BY <1>1
  <2> QED BY <1>11, <2>1
<1> QED BY <1>0, <1>12, <1>13, <1>14, <1>15, <1>b, <1>s, <1>n, <1>z DEF Shown

\* The z bytes w hold s bits of W from the first byte on, and are shifted by l.
Shifts(w, z, n, W, s, l) ==
    /\ z \in Nat /\ w \in [0..(z - 1) -> Byte] /\ n \in Nat /\ n <= z /\ W \in Nat
    /\ s \in Nat /\ s <= ByteBits * n /\ l \in Nat /\ l < ByteBits /\ HoldBits(w, n, W, s)

\* A bit of one of these bytes.
LEMMA HeldBit ==
    ASSUME NEW w, NEW z, NEW n, NEW W, NEW s, NEW l, Shifts(w, z, n, W, s, l),
           NEW j \in Nat, NEW i \in Nat, i < ByteBits, ByteBits * j + i < s
    PROVE  j \in 0..(z - 1) /\ Bits(w[j], i, 1) = Bits(W, ByteBits * j + i, 1)
<1>b. PICK b : b = ByteBits
  OBVIOUS
<1>o. PICK o : o = b * j
  OBVIOUS
<1>0. b \in Nat \ {0} /\ z \in Nat /\ w \in [0..(z - 1) -> Byte] /\ n \in Nat /\ n <= z /\ W \in Nat
      /\ s \in Nat /\ s <= b * n /\ HoldBits(w, n, W, s) /\ W \in Int
  BY <1>b, ByteAssumption DEF Shifts
<1>1. o \in Nat /\ o + i < s /\ i < b
  BY <1>0, <1>b, <1>o
<1>2. j \in 0..(n - 1) /\ j \in 0..(z - 1)
  <2>1. j < n
    <3> SUFFICES ASSUME j >= n PROVE FALSE
      BY <1>0
    <3>1. b * j >= b * n /\ b * n \in Nat
      BY <1>0
    <3> QED BY <1>0, <1>1, <1>o, <3>1
  <2> QED BY <1>0, <2>1
<1>m. PICK m : m = i + 1
  OBVIOUS
<1>3. m \in Nat /\ m <= b /\ o + m <= s /\ i + 1 <= m /\ 1 \in Nat /\ 0 \in Nat /\ 0 + i = i /\ o + i \in Nat
  BY <1>0, <1>1, <1>m
<1>x. PICK x : x = w[j]
  OBVIOUS
<1>4. x \in Int
  <2>1. x \in Nat
    BY <1>0, <1>2, <1>x, ByteType
  <2> QED BY <2>1
<1>5. Bits(x, 0, m) = Bits(W, o, m)
  BY <1>0, <1>2, <1>3, <1>b, <1>o, <1>x DEF HoldBits
<1>6. Bits(Bits(x, 0, m), i, 1) = Bits(x, 0 + i, 1)
  BY <1>3, <1>4, BitsBits
<1>7. Bits(Bits(W, o, m), i, 1) = Bits(W, o + i, 1)
  BY <1>0, <1>1, <1>3, BitsBits
<1> QED BY <1>2, <1>3, <1>5, <1>6, <1>7, <1>b, <1>o, <1>x

\* Bytes shifted are bytes.
LEMMA ShiftLeftType ==
    ASSUME NEW z \in Nat, NEW w \in [0..(z - 1) -> Byte], NEW l \in Nat
    PROVE  /\ ShiftLeft(w, l) \in [0..(z - 1) -> Byte]
           /\ \A j \in 0..(z - 1) :
                  LET c == IF j > 0 THEN (w[j - 1] * 2^l) \div 2^ByteBits ELSE 0
                  IN  ShiftLeft(w, l)[j] = Bits(w[j] * 2^l + c, 0, ByteBits) /\ w[j] \in Nat /\ c \in Nat
<1>L. PICK L : L = 2^l
  OBVIOUS
<1>B. PICK B : B = 2^ByteBits
  OBVIOUS
<1>h. PICK h : h = ShiftLeft(w, l)
  OBVIOUS
<1>1. L \in Nat \ {0} /\ B \in Nat \ {0}
  BY <1>L, <1>B, PowType, ByteType
<1>2. h = [j \in 0..(z - 1) |-> (w[j] * L + (IF j > 0 THEN (w[j - 1] * L) \div B ELSE 0)) % B]
  BY <1>h, <1>L, <1>B DEF ShiftLeft
<1>3. ASSUME NEW j \in 0..(z - 1)
      PROVE  LET c == IF j > 0 THEN (w[j - 1] * L) \div B ELSE 0
             IN  h[j] = Bits(w[j] * L + c, 0, ByteBits) /\ h[j] \in Byte /\ w[j] \in Nat /\ c \in Nat
  <2>c. PICK c : c = IF j > 0 THEN (w[j - 1] * L) \div B ELSE 0
    OBVIOUS
  <2>1. w[j] \in Nat
    BY ByteType
  <2>2. c \in Nat
    <3>1. CASE j > 0
      <4>1. j - 1 \in 0..(z - 1)
        BY <3>1
      <4>y. PICK y : y = w[j - 1] * L
        OBVIOUS
      <4>2. w[j - 1] \in Nat
        BY <4>1, ByteType
      <4>3. y \in Int /\ y >= 0
        BY <1>1, <4>2, <4>y
      <4>4. y \div B \in Nat
        BY <1>1, <4>3, DivMod
      <4> QED BY <2>c, <3>1, <4>4, <4>y
    <3>2. CASE ~(j > 0)
      BY <2>c, <3>2
    <3> QED BY <3>1, <3>2
  <2>u. PICK u : u = w[j] * L + c
    OBVIOUS
  <2>3. u \in Int
    BY <1>1, <2>1, <2>2, <2>u
  <2>4. h[j] = u % B
    BY <1>2, <2>c, <2>u
  <2>5. u \div 1 = u /\ 2^0 = 1
    BY <2>3
  <2>6. Bits(u, 0, ByteBits) = u % B
    BY <2>5, <1>B DEF Bits
  <2>7. u % B \in Nat /\ u % B < B
    BY <1>1, <2>3, DivMod
  <2>8. h[j] \in Byte
    BY <1>B, <2>4, <2>7, ByteType
  <2> QED BY <2>1, <2>2, <2>4, <2>6, <2>8, <2>c, <2>u
<1>4. h \in [0..(z - 1) -> Byte]
  BY <1>2, <1>3
<1> QED BY <1>3, <1>4, <1>h, <1>L, <1>B

\* The value is where its entry is.
LEMMA ShiftedLeft ==
    ASSUME NEW w, NEW z, NEW n, NEW W, NEW s, NEW l, Shifts(w, z, n, W, s, l),
           NEW j \in 0..(z - 1), NEW i \in 0..(ByteBits - 1),
           l <= ByteBits * j + i, ByteBits * j + i < l + s
    PROVE  Bits(ShiftLeft(w, l)[j], i, 1) = Bits(W, ByteBits * j + i - l, 1)
<1>b. PICK b : b = ByteBits
  OBVIOUS
<1>o. PICK o : o = b * j
  OBVIOUS
<1>L. PICK L : L = 2^l
  OBVIOUS
<1>B. PICK B : B = 2^b
  OBVIOUS
<1>c. PICK c : c = IF j > 0 THEN (w[j - 1] * 2^l) \div 2^ByteBits ELSE 0
  OBVIOUS
<1>x. PICK x : x = w[j]
  OBVIOUS
<1>u. PICK u : u = x * L + c
  OBVIOUS
<1>0. b \in Nat \ {0} /\ z \in Nat /\ w \in [0..(z - 1) -> Byte] /\ s \in Nat /\ l \in Nat /\ l < b /\ j \in Nat /\ i \in Nat
      /\ i < b /\ 1 \in Nat /\ 0 \in Nat /\ b \in Nat
  BY <1>b, ByteAssumption DEF Shifts
<1>1. o \in Nat /\ l <= o + i /\ o + i < l + s
  BY <1>0, <1>b, <1>o
<1>2. L \in Nat \ {0} /\ B \in Nat \ {0} /\ L <= B
  BY <1>0, <1>L, <1>B, PowGrows
<1>3. x \in Nat /\ x < B /\ c \in Nat /\ ShiftLeft(w, l)[j] = Bits(u, 0, b)
  <2>1. x \in Nat /\ x < B
    BY <1>0, <1>x, <1>b, <1>B, ByteType
  <2>2. z \in Nat /\ w \in [0..(z - 1) -> Byte] /\ l \in Nat /\ j \in 0..(z - 1)
    BY <1>0
  <2>3. LET d == IF j > 0 THEN (w[j - 1] * 2^l) \div 2^ByteBits ELSE 0
        IN  ShiftLeft(w, l)[j] = Bits(w[j] * 2^l + d, 0, ByteBits) /\ d \in Nat
    BY <2>2, ShiftLeftType
  <2>4. ShiftLeft(w, l)[j] = Bits(x * L + c, 0, b) /\ c \in Nat
    BY <2>3, <1>c, <1>x, <1>L, <1>b, Zenon
  <2> QED BY <2>1, <2>4, <1>u
<1>4. u \in Int /\ c \in Int /\ x \in Int /\ u = L * x + c /\ u = c + L * x
  BY <1>2, <1>3, <1>u
<1>5. Bits(ShiftLeft(w, l)[j], i, 1) = Bits(u, i, 1)
  <2>1. i + 1 <= b /\ 0 + i = i
    BY <1>0
  <2>2. Bits(Bits(u, 0, b), i, 1) = Bits(u, 0 + i, 1)
    BY <1>0, <1>4, <2>1, BitsBits
  <2> QED BY <1>3, <2>1, <2>2
<1>6. CASE l <= i
  <2>r. PICK r : r = i - l
    OBVIOUS
  <2>1. r \in Nat /\ l + r = i /\ r < b /\ o + r < s /\ o + r = o + i - l
    BY <1>0, <1>1, <1>6, <2>r
  <2>2. c < L
    <3>1. CASE j > 0
      <4>1. j - 1 \in 0..(z - 1)
        BY <1>0, <3>1
      <4>y. PICK y : y = w[j - 1]
        OBVIOUS
      <4>2. y \in Nat /\ y < B
        BY <1>0, <1>b, <1>B, <4>1, <4>y, ByteType
      <4>3. c = (y * L) \div B
        BY <1>c, <1>b, <1>B, <1>L, <3>1, <4>y
      <4>4. y * L < B * L /\ y * L \in Nat /\ B * L \in Nat /\ y * L \in Int
        BY <1>2, <4>2
      <4>5. y * L = B * c + ((y * L) % B) /\ (y * L) % B \in Nat
        BY <1>2, <4>3, <4>4, DivMod
      <4> SUFFICES ASSUME c >= L PROVE FALSE
        BY <1>2, <1>3
      <4>6. B * c >= B * L /\ B * c \in Nat
        BY <1>2, <1>3
      <4> QED BY <4>4, <4>5, <4>6
    <3>2. CASE ~(j > 0)
      BY <1>2, <1>c, <3>2
    <3> QED BY <3>1, <3>2
  <2>3. u \div L = x
    BY <1>2, <1>3, <1>4, <2>2, DivIs
  <2>4. Bits(u \div 2^l, r, 1) = Bits(u, l + r, 1)
    <3>1. u \in Int /\ l \in Nat /\ r \in Nat /\ 1 \in Nat
      BY <1>0, <1>4, <2>1
    <3> QED BY <3>1, BitsDiv
  <2>5. Bits(w[j], r, 1) = Bits(W, b * j + r, 1)
    <3>1. j \in Nat /\ r \in Nat /\ r < ByteBits /\ ByteBits * j + r < s
      BY <1>0, <1>b, <1>o, <2>1
    <3>2. Bits(w[j], r, 1) = Bits(W, ByteBits * j + r, 1)
      BY <3>1, HeldBit
    <3> QED BY <3>2, <1>b
  <2> QED BY <1>5, <1>b, <1>o, <1>L, <1>x, <2>1, <2>3, <2>4, <2>5
<1>7. CASE i < l
  <2>1. j > 0
    <3> SUFFICES ASSUME j = 0 PROVE FALSE
      BY <1>0
    <3>1. o = 0
      BY <1>0, <1>o
    <3> QED BY <1>0, <1>1, <1>7, <3>1
  <2>k. PICK k : k = j - 1
    OBVIOUS
  <2>y. PICK y : y = w[k]
    OBVIOUS
  <2>r. PICK r : r = b + i - l
    OBVIOUS
  <2>2. k \in Nat /\ k \in 0..(z - 1) /\ r \in Nat /\ r < b /\ l + r = b + i /\ b * k + r = o + i - l /\ b * k + r < s
    <3>1. k \in Nat /\ k \in 0..(z - 1) /\ r \in Nat /\ r < b /\ l + r = b + i
      BY <1>0, <1>7, <2>1, <2>k, <2>r
    <3>2. b * k = o - b
      BY <1>0, <1>o, <2>k
    <3> QED BY <1>0, <1>1, <2>r, <3>1, <3>2
  <2>3. y \in Nat /\ c = (y * L) \div B
    <3>1. y \in Nat
      BY <1>0, <2>2, <2>y, ByteType
    <3> QED BY <3>1, <1>c, <1>b, <1>B, <1>L, <2>1, <2>y, <2>k
  <2>v. PICK v : v = y * L
    OBVIOUS
  <2>4. v \in Int /\ v = L * y + 0 /\ y \in Int
    BY <1>2, <2>3, <2>v
  <2>5. Bits(u, i, 1) = Bits(c, i, 1)
    <3>1. Differ(u, c, l) /\ i + 1 <= l
      BY <1>0, <1>4, <1>7, <1>L DEF Differ
    <3> QED BY <1>0, <1>4, <3>1, BitsAgree
  <2>6. Bits(v \div 2^b, i, 1) = Bits(v, b + i, 1)
    <3>1. v \in Int /\ b \in Nat /\ i \in Nat /\ 1 \in Nat
      BY <1>0, <2>4
    <3> QED BY <3>1, BitsDiv
  <2>7. Bits(v \div 2^l, r, 1) = Bits(v, l + r, 1)
    <3>1. v \in Int /\ l \in Nat /\ r \in Nat /\ 1 \in Nat
      BY <1>0, <2>2, <2>4
    <3> QED BY <3>1, BitsDiv
  <2>8. v \div L = y
    <3>1. 0 \in Nat /\ 0 < L
      BY <1>2
    <3> QED BY <1>2, <2>4, <3>1, DivIs
  <2>9. Bits(w[k], r, 1) = Bits(W, b * k + r, 1)
    BY <1>b, <2>2, HeldBit
  <2> QED BY <1>5, <1>b, <1>o, <1>B, <1>L, <2>2, <2>3, <2>5, <2>6, <2>7, <2>8, <2>9, <2>v, <2>y
<1> QED BY <1>0, <1>6, <1>7

\* Where byte j of an element of z bytes is in the number that they make up.
At(f, z, j) == IF f.byteOrder = "BE" THEN z - 1 - j ELSE j

Row(w, T, z) == z \in Nat /\ w \in [0..(z - 1) -> T]

\* The order of the device.
LEMMA InOrder ==
    ASSUME NEW f, NEW T, NEW z, NEW w, Row(w, T, z)
    PROVE  /\ SwapEndian(f, w) \in [0..(z - 1) -> T] /\ Len0(w) = z
           /\ \A j \in 0..(z - 1) : /\ At(f, z, j) \in 0..(z - 1) /\ At(f, z, At(f, z, j)) = j
                                    /\ SwapEndian(f, w)[j] = w[At(f, z, j)]
<1>0. z \in Nat /\ w \in [0..(z - 1) -> T]
  BY DEF Row
<1>1. Len0(w) = z
  <2>1. DOMAIN w = 0..(z - 1) /\ Cardinality(0..(z - 1)) = z
    BY <1>0, FS_Interval
  <2> QED BY <2>1 DEF Len0
<1>2. CASE f.byteOrder = "BE"
  <2>1. Swap(w, z, 1) \in [0..(z - 1) -> T]
    <3>1. InWords(w, T, z, z, z, 1)
      BY <1>0 DEF InWords
    <3> QED BY <3>1, Swapped
  <2>2. \A i \in 0..(z - 1) : Swap(w, z, 1)[i] = w[z - 1 - i]
    <3> TAKE i \in 0..(z - 1)
    <3>1. z \div 1 = z /\ i \div 1 = i /\ i % 1 = 0
      BY <1>0
    <3>2. Swap(w, z, 1)[i] = w[((z \div 1) - 1 - (i \div 1)) * 1 + (i % 1)]
      BY <1>0 DEF Swap
    <3>3. (z - 1 - i) * 1 + 0 = z - 1 - i
      BY <1>0
    <3> QED BY <3>1, <3>2, <3>3
  <2>3. SwapEndian(f, w) = Swap(w, z, 1)
    BY <1>1, <1>2 DEF SwapEndian
  <2>4. ASSUME NEW j \in 0..(z - 1)
        PROVE  /\ At(f, z, j) \in 0..(z - 1) /\ At(f, z, At(f, z, j)) = j
               /\ SwapEndian(f, w)[j] = w[At(f, z, j)]
    <3>1. At(f, z, j) = z - 1 - j /\ At(f, z, z - 1 - j) = z - 1 - (z - 1 - j)
      BY <1>2 DEF At
    <3> QED BY <1>0, <2>2, <2>3, <3>1
  <2> QED BY <1>1, <2>1, <2>3, <2>4
<1>3. CASE f.byteOrder # "BE"
  BY <1>0, <1>1, <1>3 DEF SwapEndian, At
<1> QED BY <1>2, <1>3

\* The bits that are not the entry's, in the first and in the last byte of the number.
LowMask(f)  == Low(f.lsBit)
HighMask(f) == LET used == (f.lsBit + f.sizeBits) % ByteBits
               IN  IF used = 0 THEN 0 ELSE Low(ByteBits) - Low(used)

\* The mask at the lower end keeps the bits below the value.
LEMMA LowMaskBits ==
    ASSUME NEW f, Valid(f), NEW i \in 0..(ByteBits - 1)
    PROVE  LowMask(f) \in Nat /\ ((Bits(LowMask(f), i, 1) = 1) <=> (i < f.lsBit))
<1>1. f.lsBit \in Nat /\ i \in Nat
  BY Sizes, ByteAssumption
<1> QED BY <1>1, LowBits DEF LowMask

\* The mask at the upper end keeps the bits above the value.
LEMMA HighMaskBits ==
    ASSUME NEW f, Valid(f), NEW i \in 0..(ByteBits - 1)
    PROVE  /\ HighMask(f) \in Nat
           /\ (Bits(HighMask(f), i, 1) = 1) <=> (ByteBits * (computeSize(f) - 1) + i >= f.lsBit + f.sizeBits)
<1>b. PICK b : b = ByteBits
  OBVIOUS
<1>t. PICK t : t = f.lsBit + f.sizeBits
  OBVIOUS
<1>z. PICK z : z = computeSize(f)
  OBVIOUS
<1>o. PICK o : o = b * (z - 1)
  OBVIOUS
<1>1. b \in Nat \ {0} /\ b \in Nat /\ t \in Nat /\ z \in Nat \ {0} /\ o < t /\ t <= b * z /\ i \in Nat /\ i < b
  <2>1. f.lsBit \in Nat /\ f.sizeBits \in Nat /\ z \in Nat \ {0} /\ t <= b * z
    BY <1>b, <1>t, <1>z, Sizes
  <2>2. o < t
    BY <1>b, <1>t, <1>z, <1>o, SizeTight
  <2> QED BY <2>1, <2>2, <1>b, <1>t, ByteAssumption
<1>2. o \in Nat /\ b * z = o + b
  BY <1>1, <1>o
<1>r. PICK r : r = t - o
  OBVIOUS
<1>3. r \in Nat \ {0} /\ r <= b /\ t = o + r
  BY <1>1, <1>2, <1>r
<1>u. PICK u : u = t % b
  OBVIOUS
<1>4. HighMask(f) = IF u = 0 THEN 0 ELSE Low(b) - Low(u)
  BY <1>u, <1>t, <1>b DEF HighMask
<1>5. CASE r = b
  <2>1. t = b * z + 0 /\ 0 \in Nat /\ 0 < b /\ t \in Int /\ z \in Int
    BY <1>1, <1>2, <1>3, <1>5
  <2>2. t % b = 0
    BY <1>1, <2>1, DivIs
  <2>3. HighMask(f) = 0
    BY <1>4, <1>u, <2>2
  <2>4. 0 < 2^i
    BY <1>1, PowType
  <2>5. Bits(0, i, 1) = 0
    BY <1>1, <2>1, <2>4, BitsAbove
  <2>6. ~(o + i >= t)
    BY <1>1, <1>2, <1>3, <1>5
  <2> QED BY <2>3, <2>5, <2>6, <1>b, <1>t, <1>z, <1>o
<1>6. CASE r < b
  <2>1. t = b * (z - 1) + r /\ t \in Int /\ z - 1 \in Int /\ r \in Nat
    BY <1>1, <1>3, <1>o
  <2>2. t % b = r
    <3>y. PICK y : y = z - 1
      OBVIOUS
    <3>1. t = b * y + r /\ y \in Int
      BY <2>1, <3>y
    <3> QED BY <1>1, <1>6, <2>1, <3>1, DivIs
  <2>3. HighMask(f) = Low(b) - Low(r)
    BY <1>3, <1>4, <1>u, <2>2
  <2>4. r \in Nat /\ r <= b
    BY <1>3
  <2>5. Low(b) - Low(r) \in Nat /\ Bits(Low(b) - Low(r), i, 1) = IF i >= r THEN 1 ELSE 0
    BY <1>1, <2>4, HighBits
  <2>6. o + i >= t <=> i >= r
    BY <1>1, <1>2, <1>3
  <2> QED BY <2>3, <2>5, <2>6, <1>b, <1>t, <1>z, <1>o
<1> QED BY <1>1, <1>3, <1>5, <1>6

\* The mask of byte j of n, as write_func8() takes it from msk1 and mskn.
MaskOf(m, n, j) == CASE n = 1 -> Merge(m.msk1, m.mskn, m.msk1)
                     [] n > 1 /\ j = 0 -> m.msk1
                     [] n > 1 /\ j = n - 1 -> m.mskn
                     [] n > 1 /\ j \notin {0, n - 1} -> 0

\* The mask of a byte depends on where the byte lies in the number.
LEMMA MaskIs ==
    ASSUME NEW f, Valid(f), NEW z, z = computeSize(f), z > 1, NEW j \in 0..(z - 1)
    PROVE  MaskOf(Masks(f), z, j)
               = IF At(f, z, j) = 0 THEN LowMask(f) ELSE IF At(f, z, j) = z - 1 THEN HighMask(f) ELSE 0
<1>1. z \in Nat
  BY Sizes
<1>2. f.byteOrder = "BE" => Masks(f).msk1 = HighMask(f) /\ Masks(f).mskn = LowMask(f)
  BY DEF Masks, HighMask, LowMask
<1>3. f.byteOrder # "BE" => Masks(f).msk1 = LowMask(f) /\ Masks(f).mskn = HighMask(f)
  BY DEF Masks, HighMask, LowMask
<1>4. CASE j = 0
  <2>1. MaskOf(Masks(f), z, j) = Masks(f).msk1
    BY <1>1, <1>4 DEF MaskOf
  <2>2. f.byteOrder = "BE" => At(f, z, j) = z - 1 /\ z - 1 # 0
    BY <1>1, <1>4 DEF At
  <2>3. f.byteOrder # "BE" => At(f, z, j) = 0
    BY <1>4 DEF At
  <2> QED BY <1>2, <1>3, <2>1, <2>2, <2>3
<1>5. CASE j = z - 1
  <2>1. MaskOf(Masks(f), z, j) = Masks(f).mskn
    BY <1>1, <1>5 DEF MaskOf
  <2>2. f.byteOrder # "BE" => At(f, z, j) = z - 1 /\ z - 1 # 0
    BY <1>1, <1>5 DEF At
  <2>3. f.byteOrder = "BE" => At(f, z, j) = 0
    BY <1>1, <1>5 DEF At
  <2> QED BY <1>2, <1>3, <2>1, <2>2, <2>3
<1>6. CASE j # 0 /\ j # z - 1
  <2>1. MaskOf(Masks(f), z, j) = 0
    BY <1>1, <1>6 DEF MaskOf
  <2>2. At(f, z, j) # 0 /\ At(f, z, j) # z - 1
    BY <1>1, <1>6 DEF At
  <2> QED BY <2>1, <2>2
<1> QED BY <1>4, <1>5, <1>6

\* A bit is protected unless it is the entry's.
LEMMA MaskBits ==
    ASSUME NEW f, Valid(f), NEW j \in 0..(computeSize(f) - 1), NEW i \in 0..(ByteBits - 1)
    PROVE  LET p == ByteBits * At(f, computeSize(f), j) + i
           IN  (Bits(MaskOf(Masks(f), computeSize(f), j), i, 1) = 1)
                   <=> ~(f.lsBit <= p /\ p < f.lsBit + f.sizeBits)
<1>b. PICK b : b = ByteBits
  OBVIOUS
<1>l. PICK l : l = f.lsBit
  OBVIOUS
<1>t. PICK t : t = f.lsBit + f.sizeBits
  OBVIOUS
<1>z. PICK z : z = computeSize(f)
  OBVIOUS
<1>k. PICK k : k = At(f, z, j)
  OBVIOUS
<1>o. PICK o : o = b * k
  OBVIOUS
<1>h. PICK h : h = b * (z - 1)
  OBVIOUS
<1>M. PICK M : M = MaskOf(Masks(f), z, j)
  OBVIOUS
<1>1. b \in Nat \ {0} /\ l \in Nat /\ l < b /\ t \in Nat /\ z \in Nat \ {0} /\ h < t /\ i \in Nat /\ i < b
  <2>1. f.lsBit \in Nat /\ f.sizeBits \in Nat /\ z \in Nat \ {0} /\ l < b
    BY <1>b, <1>l, <1>z, Sizes
  <2>2. h < t
    BY <1>b, <1>t, <1>z, <1>h, SizeTight
  <2> QED BY <2>1, <2>2, <1>b, <1>l, <1>t, ByteAssumption
<1>2. k \in Nat /\ k <= z - 1
  BY <1>1, <1>k, <1>z DEF At
<1>3. o \in Nat /\ h \in Nat /\ o <= h
  BY <1>1, <1>2, <1>o, <1>h
<1>4. LowMask(f) \in Nat /\ ((Bits(LowMask(f), i, 1) = 1) <=> (i < l))
  BY <1>l, LowMaskBits
<1>5. HighMask(f) \in Nat /\ ((Bits(HighMask(f), i, 1) = 1) <=> (h + i >= t))
  BY <1>b, <1>t, <1>z, <1>h, HighMaskBits
<1>6. (Bits(M, i, 1) = 1) <=> (o + i < l \/ o + i >= t)
  <2>1. CASE z = 1
    <3>1. o = 0 /\ h = 0
      BY <1>1, <1>2, <1>o, <1>h, <2>1
    <3>2. \/ Masks(f).msk1 = HighMask(f) /\ Masks(f).mskn = LowMask(f)
          \/ Masks(f).msk1 = LowMask(f) /\ Masks(f).mskn = HighMask(f)
      BY DEF Masks, HighMask, LowMask
    <3>3. M = Merge(Masks(f).msk1, Masks(f).mskn, Masks(f).msk1)
      BY <1>M, <2>1 DEF MaskOf
    <3>4. ASSUME NEW x \in Nat, NEW y \in Nat
          PROVE  (Bits(Merge(x, y, x), i, 1) = 1) <=> (Bits(x, i, 1) = 1 \/ Bits(y, i, 1) = 1)
      <4>1. x \in Int /\ y \in Int
        OBVIOUS
      <4>2. Bits(Merge(x, y, x), i, 1) = Bits(IF Bits(x, i, 1) = 1 THEN x ELSE y, i, 1)
        BY <4>1, MergeBits
      <4> QED BY <4>2
    <3> QED BY <1>1, <1>4, <1>5, <3>1, <3>2, <3>3, <3>4
  <2>2. CASE z > 1
    <3>1. M = IF k = 0 THEN LowMask(f) ELSE IF k = z - 1 THEN HighMask(f) ELSE 0
      BY <1>M, <1>k, <1>z, <2>2, MaskIs
    <3>2. b <= h
      <4>1. 1 <= z - 1 /\ z - 1 \in Nat
        BY <1>1, <2>2
      <4>2. b * 1 <= b * (z - 1)
        BY <1>1, <4>1
      <4> QED BY <1>1, <1>h, <4>2
    <3>3. k # 0 => b <= o
      <4>1. k # 0 => b * 1 <= b * k
        BY <1>1, <1>2
      <4> QED BY <1>1, <1>o, <4>1
    <3>4. CASE k = 0
      <4>1. o = 0
        BY <1>1, <1>o, <3>4
      <4> QED BY <1>1, <1>3, <1>4, <3>1, <3>2, <3>4, <4>1
    <3>5. CASE k # 0 /\ k = z - 1
      <4>1. o = h
        BY <1>o, <1>h, <3>5
      <4> QED BY <1>1, <1>3, <1>5, <3>1, <3>3, <3>5, <4>1
    <3>6. CASE k # 0 /\ k # z - 1
      <4>1. Bits(0, i, 1) = 0
        <5>1. 0 \in Nat /\ 0 < 2^i /\ 1 \in Nat
          BY <1>1, PowType
        <5> QED BY <1>1, <5>1, BitsAbove
      <4>2. o + b <= h
        <5>1. k + 1 <= z - 1
          BY <1>1, <1>2, <3>6
        <5>2. b * (k + 1) <= b * (z - 1) /\ b * (k + 1) = b * k + b
          BY <1>1, <1>2, <5>1
        <5> QED BY <1>o, <1>h, <5>2
      <4> QED BY <1>1, <1>3, <3>1, <3>3, <3>6, <4>1, <4>2
    <3> QED BY <3>4, <3>5, <3>6
  <2> QED BY <1>1, <2>1, <2>2
<1>7. (Bits(M, i, 1) = 1) <=> ~(l <= o + i /\ o + i < t)
  BY <1>1, <1>3, <1>6
<1> QED BY <1>7, <1>b, <1>l, <1>t, <1>z, <1>k, <1>o, <1>M

\* The number that is stored.
Kept(f, e, w) == Words(f, Meant(f, e, w) % 2^f.sizeBits)

\* W is in the bits of the entry.
Placed(f, d, W) ==
    \A j \in 0..(computeSize(f) - 1), i \in 0..(ByteBits - 1) :
        LET p == ByteBits * At(f, computeSize(f), j) + i
        IN  f.lsBit <= p /\ p < f.lsBit + f.sizeBits => Bits(d[j], i, 1) = Bits(W, p - f.lsBit, 1)

\* The bytes that are stored: the entry's bits are those of the value.
LEMMA ToDeviceHolds ==
    ASSUME NEW f, NEW e, NEW w, NEW junk, Converting(f, e, w, junk)
    PROVE  /\ ToDevice(f, w, junk) \in [0..(computeSize(f) - 1) -> Byte]
           /\ Kept(f, e, w) \in Nat /\ Kept(f, e, w) < 2^f.sizeBits
           /\ Placed(f, ToDevice(f, w, junk), Kept(f, e, w))
<1>z. PICK z : z = computeSize(f)
  OBVIOUS
<1>n. PICK n : n = b2B(f.sizeBits)
  OBVIOUS
<1>l. PICK l : l = f.lsBit
  OBVIOUS
<1>s. PICK s : s = f.sizeBits
  OBVIOUS
<1>u. PICK u : u = OutBuf(f, e, w, junk)
  OBVIOUS
<1>h. PICK h : h = Extended(f, e, w, junk)
  OBVIOUS
<1>v. PICK v : v = Meant(f, e, w)
  OBVIOUS
<1>W. PICK W : W = Kept(f, e, w)
  OBVIOUS
<1>0. Valid(f) /\ e \in Nat \ {0} /\ e \in Nat /\ w \in [0..(e - 1) -> Byte]
  BY DEF Converting
<1>1. /\ z \in Nat \ {0} /\ z \in Nat /\ n \in Nat /\ n <= z /\ l \in Nat /\ l < ByteBits /\ s \in Nat
      /\ s <= ByteBits * n
  BY <1>0, <1>z, <1>n, <1>l, <1>s, Sizes
<1>2. Shown(f, h, v, 0)
  BY <1>h, <1>v, ExtendedPlain, ExtendedSign
<1>3. v \in Int
  BY <1>2 DEF Shown
<1>4. W = Words(f, Bits(v, 0, s))
  <2>1. 2^0 = 1 /\ v \div 1 = v
    BY <1>3
  <2>2. Bits(v, 0, s) = v % 2^s
    BY <2>1 DEF Bits
  <2> QED BY <2>2, <1>W, <1>v, <1>s DEF Kept
<1>g. PICK g : g = Swap(h, n, WordSwap(f))
  OBVIOUS
<1>5. g \in [0..(z - 1) -> Byte] /\ W \in Nat /\ W < 2^s /\ HoldBits(g, n, W, s)
  BY <1>2, <1>4, <1>g, <1>n, <1>s, <1>z, Holds
<1>6. Shifts(g, z, n, W, s, l)
  BY <1>1, <1>5 DEF Shifts
<1>q. PICK q : q = ShiftLeft(g, l)
  OBVIOUS
<1>7. q \in [0..(z - 1) -> Byte]
  BY <1>1, <1>5, <1>q, ShiftLeftType
<1>r. PICK r : r = SwapEndian(f, q)
  OBVIOUS
<1>8. /\ r \in [0..(z - 1) -> Byte]
      /\ \A j \in 0..(z - 1) : At(f, z, j) \in 0..(z - 1) /\ r[j] = q[At(f, z, j)]
  <2>1. Row(q, Byte, z)
    BY <1>1, <1>7 DEF Row
  <2> QED BY <2>1, <1>r, InOrder
<1>9. ToDevice(f, w, junk) = r
  <2>1. Len0(w) = e
    BY <1>0, NumberDigits
  <2>2. ToDevice(f, w, junk) = Paste(u, 0, r)
    BY <2>1, <1>z, <1>n, <1>l, <1>u, <1>h, <1>g, <1>q, <1>r, Zenon DEF ToDevice, OutBuf, Extended
  <2>3. u \in [0..(z - 1) -> Byte]
    BY <1>u, <1>z, OutBufType
  <2>4. Paste(u, 0, r) = [i \in 0..(z - 1) |-> IF i - 0 \in 0..(z - 1) THEN r[i - 0] ELSE u[i]]
    BY <1>8, <2>3, Pasted
  <2>5. \A i \in 0..(z - 1) : (IF i - 0 \in 0..(z - 1) THEN r[i - 0] ELSE u[i]) = r[i]
    OBVIOUS
  <2>6. Paste(u, 0, r) = [i \in 0..(z - 1) |-> r[i]]
    BY <2>4, <2>5
  <2>7. r = [i \in 0..(z - 1) |-> r[i]]
    BY <1>8
  <2> QED BY <2>2, <2>6, <2>7
<1>11. Placed(f, r, W)
  <2>1. ASSUME NEW j \in 0..(z - 1), NEW i \in 0..(ByteBits - 1)
        PROVE  LET p == ByteBits * At(f, z, j) + i
               IN  l <= p /\ p < l + s => Bits(r[j], i, 1) = Bits(W, p - l, 1)
    <3>k. PICK k : k = At(f, z, j)
      OBVIOUS
    <3>p. PICK p : p = ByteBits * At(f, z, j) + i
      OBVIOUS
    <3>0. p = ByteBits * k + i /\ k \in 0..(z - 1) /\ r[j] = q[k]
      BY <1>8, <3>k, <3>p
    <3>1. ASSUME l <= p, p < l + s PROVE Bits(r[j], i, 1) = Bits(W, p - l, 1)
      <4>1. l <= ByteBits * k + i /\ ByteBits * k + i < l + s
        BY <3>0, <3>1
      <4>2. Bits(ShiftLeft(g, l)[k], i, 1) = Bits(W, ByteBits * k + i - l, 1)
        BY <1>6, <3>0, <4>1, ShiftedLeft
      <4>3. ByteBits * k + i - l = p - l
        <5>o. PICK o : o = ByteBits * k
          OBVIOUS
        <5>1. o \in Int /\ i \in Int /\ l \in Int
          BY <1>1, <3>0, <5>o, ByteAssumption
        <5>2. p = o + i
          BY <3>0, <5>o
        <5> QED BY <5>1, <5>2, <5>o
      <4> QED BY <1>q, <3>0, <4>2, <4>3
    <3>2. l <= p /\ p < l + s => Bits(r[j], i, 1) = Bits(W, p - l, 1)
      BY <3>1
    <3> HIDE <3>1
    <3> QED BY <3>2, <3>p, Zenon
  <2> QED BY <2>1, <1>z, <1>l, <1>s DEF Placed
<1> QED BY <1>5, <1>8, <1>9, <1>11, <1>z, <1>s, <1>W

\* Every byte that is written is that of the number with the entry's bits replaced.
LEMMA Merged ==
    ASSUME NEW f, NEW e, NEW w, NEW junk, Converting(f, e, w, junk),
           NEW a, Row(a, Byte, computeSize(f)), NEW j \in 0..(computeSize(f) - 1)
    PROVE  Merge(a[j], ToDevice(f, w, junk)[j], MaskOf(Masks(f), computeSize(f), j))
               = Stored(f, a, Meant(f, e, w))[j]
<1>b. PICK b : b = ByteBits
  OBVIOUS
<1>z. PICK z : z = computeSize(f)
  OBVIOUS
<1>l. PICK l : l = f.lsBit
  OBVIOUS
<1>s. PICK s : s = f.sizeBits
  OBVIOUS
<1>W. PICK W : W = Kept(f, e, w)
  OBVIOUS
<1>d. PICK d : d = ToDevice(f, w, junk)[j]
  OBVIOUS
<1>m. PICK m : m = MaskOf(Masks(f), z, j)
  OBVIOUS
<1>E. PICK E : E = SwapEndian(f, a)
  OBVIOUS
<1>x. PICK x : x = Number(E)
  OBVIOUS
<1>y. PICK y : y = x + (W - Bits(x, l, s)) * 2^l
  OBVIOUS
<1>k. PICK k : k = At(f, z, j)
  OBVIOUS
<1>o. PICK o : o = b * k
  OBVIOUS
<1>0. /\ Valid(f) /\ b \in Nat \ {0} /\ b \in Nat /\ z \in Nat \ {0} /\ z \in Nat /\ l \in Nat /\ s \in Nat
      /\ a \in [0..(z - 1) -> Byte] /\ j \in 0..(z - 1) /\ 1 \in Nat
  <2>1. Valid(f)
    BY DEF Converting
  <2>2. a \in [0..(z - 1) -> Byte]
    BY <1>z DEF Row
  <2> QED BY <2>1, <2>2, <1>b, <1>z, <1>l, <1>s, ByteAssumption, Sizes
<1>1. /\ E \in [0..(z - 1) -> Byte] /\ Len0(a) = z /\ k \in 0..(z - 1) /\ E[k] = a[j]
  <2>1. Row(a, Byte, z)
    BY <1>z
  <2>2. E \in [0..(z - 1) -> Byte] /\ Len0(a) = z
    BY <2>1, <1>E, InOrder
  <2>3. \A i \in 0..(z - 1) : At(f, z, i) \in 0..(z - 1) /\ At(f, z, At(f, z, i)) = i
    BY <2>1, InOrder
  <2>4. \A i \in 0..(z - 1) : E[i] = a[At(f, z, i)]
    <3>1. \A i \in 0..(z - 1) : SwapEndian(f, a)[i] = a[At(f, z, i)]
      BY <2>1, InOrder
    <3> QED BY <3>1, <1>E
  <2> QED BY <1>0, <2>2, <2>3, <2>4, <1>k
<1>2. x \in Nat /\ x \in Int /\ Bits(x, o, b) = a[j]
  <2>1. x \in Nat /\ Bits(x, b * k, b) = E[k]
    BY <1>0, <1>1, <1>x, <1>b, NumberDigits
  <2> QED BY <1>1, <2>1, <1>o
<1>3. W \in Nat /\ W < 2^s /\ d \in Byte /\ Placed(f, ToDevice(f, w, junk), W)
  <2>1. /\ ToDevice(f, w, junk) \in [0..(z - 1) -> Byte]
        /\ W \in Nat /\ W < 2^s /\ Placed(f, ToDevice(f, w, junk), W)
    BY <1>W, <1>s, <1>z, ToDeviceHolds
  <2> QED BY <1>0, <1>d, <2>1
<1>4. o \in Nat
  BY <1>0, <1>1, <1>o
<1>5. y \in Int /\ \A p \in Nat : Bits(y, p, 1) = IF l <= p /\ p < l + s THEN Bits(W, p - l, 1) ELSE Bits(x, p, 1)
  <2>1. Replaces(x, l, s, W)
    BY <1>0, <1>2, <1>3 DEF Replaces
  <2> QED BY <2>1, <1>y, Replaced
<1>6. Stored(f, a, Meant(f, e, w))[j] = Bits(y, o, b)
  <2>1. Stored(f, a, Meant(f, e, w)) = SwapEndian(f, ToBytes(y, z))
    BY <1>1, <1>E, <1>x, <1>W, <1>y, <1>l, <1>s, Zenon DEF Stored, Whole, Kept, Bits
  <2>2. ToBytes(y, z) \in [0..(z - 1) -> Int]
    <3>1. ASSUME NEW i \in 0..(z - 1) PROVE ToBytes(y, z)[i] \in Int
      <4>p. PICK p : p = b * i
        OBVIOUS
      <4>1. p \in Nat
        BY <1>0, <4>p
      <4>2. Bits(y, p, b) \in Nat
        BY <1>0, <1>5, <4>1, BitsType
      <4>3. ToBytes(y, z)[i] = Bits(y, p, b)
        BY <1>b, <4>p DEF ToBytes, Bits
      <4> QED BY <4>2, <4>3
    <3>2. ToBytes(y, z) = [i \in 0..(z - 1) |-> ToBytes(y, z)[i]]
      BY DEF ToBytes
    <3> QED BY <3>1, <3>2
  <2>3. SwapEndian(f, ToBytes(y, z))[j] = ToBytes(y, z)[k]
    <3>1. Row(ToBytes(y, z), Int, z)
      BY <1>0, <2>2 DEF Row
    <3>2. \A i \in 0..(z - 1) : SwapEndian(f, ToBytes(y, z))[i] = ToBytes(y, z)[At(f, z, i)]
      BY <3>1, InOrder
    <3> QED BY <1>0, <1>k, <3>2
  <2>4. ToBytes(y, z)[k] = Bits(y, o, b)
    BY <1>1, <1>b, <1>o DEF ToBytes, Bits
  <2> QED BY <2>1, <2>3, <2>4
<1>M. PICK M : M = Merge(a[j], d, m)
  OBVIOUS
<1>t. a[j] \in Int /\ d \in Int
  <2>1. a[j] \in Nat /\ d \in Nat
    BY <1>0, <1>3, ByteType
  <2> QED BY <2>1
<1>7. M \in Nat /\ M < 2^b
  <2>1. M \in Byte
    BY <1>t, <1>M, MergeBits
  <2> QED BY <2>1, <1>b, ByteType
<1>8. Bits(y, o, b) \in Nat /\ Bits(y, o, b) < 2^b
  BY <1>0, <1>4, <1>5, BitsType
<1>9. ASSUME NEW i \in 0..(b - 1) PROVE Bits(M, i, 1) = Bits(Bits(y, o, b), i, 1)
  <2>p. PICK p : p = o + i
    OBVIOUS
  <2>1. p \in Nat /\ i \in Nat /\ i + 1 <= b
    BY <1>0, <1>4, <2>p
  <2>2. Bits(Bits(y, o, b), i, 1) = Bits(y, p, 1)
    BY <1>0, <1>4, <1>5, <2>1, <2>p, BitsBits
  <2>3. Bits(a[j], i, 1) = Bits(x, p, 1)
    <3>1. Bits(Bits(x, o, b), i, 1) = Bits(x, p, 1)
      BY <1>0, <1>2, <1>4, <2>1, <2>p, BitsBits
    <3> QED BY <1>2, <3>1
  <2>4. Bits(M, i, 1) = Bits(IF Bits(m, i, 1) = 1 THEN a[j] ELSE d, i, 1)
    BY <1>t, <1>M, <1>b, MergeBits
  <2>5. (Bits(m, i, 1) = 1) <=> ~(l <= p /\ p < l + s)
    BY <1>0, <1>m, <1>z, <1>l, <1>s, <1>b, <1>k, <1>o, <2>p, MaskBits
  <2>6. l <= p /\ p < l + s => Bits(d, i, 1) = Bits(W, p - l, 1)
    BY <1>0, <1>3, <1>d, <1>z, <1>l, <1>s, <1>b, <1>k, <1>o, <2>p DEF Placed
  <2>7. CASE l <= p /\ p < l + s
    <3>1. Bits(m, i, 1) # 1
      BY <2>5, <2>7
    <3>2. Bits(M, i, 1) = Bits(d, i, 1)
      BY <2>4, <3>1
    <3>3. Bits(y, p, 1) = Bits(W, p - l, 1)
      BY <1>5, <2>1, <2>7
    <3> QED BY <2>2, <2>6, <2>7, <3>2, <3>3
  <2>8. CASE ~(l <= p /\ p < l + s)
    <3>1. Bits(m, i, 1) = 1
      BY <2>5, <2>8
    <3>2. Bits(M, i, 1) = Bits(a[j], i, 1)
      BY <2>4, <3>1
    <3>3. Bits(y, p, 1) = Bits(x, p, 1)
      BY <1>5, <2>1, <2>8
    <3> QED BY <2>2, <2>3, <3>2, <3>3
  <2> QED BY <2>7, <2>8
<1>10. M = Bits(y, o, b)
  <2>q. PICK q : q = Bits(y, o, b)
    OBVIOUS
  <2>1. q \in Nat /\ q < 2^b /\ \A i \in 0..(b - 1) : Bits(M, i, 1) = Bits(q, i, 1)
    BY <1>8, <1>9, <2>q
  <2>2. M = q
    BY <1>0, <1>7, <2>1, SameBits
  <2> QED BY <2>2, <2>q
<1> QED BY <1>6, <1>10, <1>M, <1>d, <1>m, <1>z

-----------------------------------------------------------------------------
(* Storing values.                                                         *)

\* The values q stores one after another in memory m0: d[n] is the memory after n of them.
Wrote(q, junk, n, a) ==
    write_func8(a, (n - 1) * q.stride, ToDevice(q.f, Window(q.vals, (n - 1) * q.elsz, q.elsz), junk), Masks(q.f))

Stores(q, junk, m0, m, d) ==
    d = [n \in 0..m |->
            IF n = 0 THEN m0
            ELSE CHOOSE b \in
                     {write_func8(a, (n - 1) * q.stride, w, Masks(q.f)) :
                         a \in {d[n - 1]},
                         w \in {ToDevice(q.f, Window(q.vals, (n - 1) * q.elsz, q.elsz), junk)}} : TRUE]

\* One more.
LEMMA WroteIs ==
    ASSUME NEW q, NEW junk, NEW n, NEW x
    PROVE  (CHOOSE b \in
                     {write_func8(a, (n - 1) * q.stride, w, Masks(q.f)) :
                         a \in {x},
                         w \in {ToDevice(q.f, Window(q.vals, (n - 1) * q.elsz, q.elsz), junk)}} : TRUE)
           = Wrote(q, junk, n, x)
<1> DEFINE S == {write_func8(a, (n - 1) * q.stride, w, Masks(q.f)) :
                         a \in {x},
                         w \in {ToDevice(q.f, Window(q.vals, (n - 1) * q.elsz, q.elsz), junk)}}
<1>1. Wrote(q, junk, n, x) \in S /\ \A p \in S : p = Wrote(q, junk, n, x)
  BY SMT DEF Wrote
<1>2. (CHOOSE p \in S : TRUE) \in S
  BY <1>1
<1> QED BY <1>1, <1>2

\* The stores as a recursive function.
LEMMA StoresIs ==
    ASSUME NEW q, NEW junk, NEW m0, NEW m, NEW d
    PROVE  Stores(q, junk, m0, m, d) <=>
               d = [n \in 0..m |-> IF n = 0 THEN m0
                                   ELSE Wrote(q, junk, n, d[n - 1])]
<1> DEFINE C(n) == CHOOSE b \in
                     {write_func8(a, (n - 1) * q.stride, w, Masks(q.f)) :
                         a \in {d[n - 1]},
                         w \in {ToDevice(q.f, Window(q.vals, (n - 1) * q.elsz, q.elsz), junk)}} : TRUE
           G(n) == Wrote(q, junk, n, d[n - 1])
           A == m0
<1>1. \A n \in 0..m : C(n) = G(n)
  BY WroteIs
<1>2. Stores(q, junk, m0, m, d) <=> d = [n \in 0..m |-> IF n = 0 THEN A ELSE C(n)]
  BY DEF Stores
<1> HIDE DEF C, G, A
<1>3. [n \in 0..m |-> IF n = 0 THEN A ELSE C(n)] = [n \in 0..m |-> IF n = 0 THEN A ELSE G(n)]
  BY <1>1
<1>4. Stores(q, junk, m0, m, d) <=> d = [n \in 0..m |-> IF n = 0 THEN A ELSE G(n)]
  BY <1>2, <1>3, Zenon
<1> QED BY <1>4, Zenon DEF G, A

\* There is one.
LEMMA StoresExist ==
    ASSUME NEW q, NEW junk, NEW m0, NEW n \in Nat
    PROVE  \E d : Stores(q, junk, m0, n, d)
<1> DEFINE S == {m \in Nat : ~ \E d : Stores(q, junk, m0, m, d)}
<1> SUFFICES ASSUME S # {} PROVE FALSE
  OBVIOUS
<1>1. PICK m \in S : \A j \in S : m <= j
  BY Least
<1>2. m \in Nat /\ ~ \E d : Stores(q, junk, m0, m, d)
  OBVIOUS
<1>3. CASE m = 0
  <2> DEFINE d == [k \in 0..0 |-> m0]
  <2>1. d = [k \in 0..0 |-> IF k = 0 THEN m0
                                   ELSE Wrote(q, junk, k, d[k - 1])]
    OBVIOUS
  <2> HIDE DEF d
  <2>2. Stores(q, junk, m0, 0, d)
    BY <2>1, StoresIs
  <2> QED BY <1>2, <1>3, <2>2
<1>4. CASE m # 0
  <2>1. m - 1 \in Nat /\ ~(m <= m - 1)
    BY <1>2, <1>4
  <2>2. PICK h : Stores(q, junk, m0, m - 1, h)
    BY <1>1, <2>1
  <2>h. h = [k \in 0..(m - 1) |-> IF k = 0 THEN m0
                                  ELSE Wrote(q, junk, k, h[k - 1])]
    BY <2>2, StoresIs
  <2> DEFINE d == [k \in 0..m |-> IF k = m THEN Wrote(q, junk, m, h[m - 1]) ELSE h[k]]
  <2>3. \A k \in 0..m : d[k] = IF k = 0 THEN m0
                               ELSE Wrote(q, junk, k, d[k - 1])
    <3> TAKE k \in 0..m
    <3>1. \A l \in 0..(m - 1) : h[l] = IF l = 0 THEN m0
                                       ELSE Wrote(q, junk, l, h[l - 1])
      BY <2>h
    <3>2. CASE k = m
      BY <1>2, <1>4, <3>2
    <3>3. CASE k # m
      <4>1. k \in 0..(m - 1) /\ (k # 0 => k - 1 \in 0..m /\ k - 1 # m)
        BY <1>2, <3>3
      <4> QED BY <3>1, <3>3, <4>1
    <3> QED BY <3>2, <3>3
  <2>4. DOMAIN d = 0..m /\ d = [k \in 0..m |-> d[k]]
    OBVIOUS
  <2> HIDE DEF d
  <2>5. d = [k \in 0..m |-> IF k = 0 THEN m0
                            ELSE Wrote(q, junk, k, d[k - 1])]
    BY <2>3, <2>4
  <2>6. Stores(q, junk, m0, m, d)
    BY <2>5, StoresIs
  <2> QED BY <1>2, <2>6
<1> QED BY <1>3, <1>4

\* What is stored, and where.
Storing(q, junk, M) ==
    /\ Valid(q.f) /\ q.elsz \in Nat \ {0} /\ q.nelms \in Nat \ {0} /\ q.stride \in Nat /\ M \in Nat
    /\ (q.nelms - 1) * q.stride + computeSize(q.f) <= M
    /\ q.vals \in [0..(q.nelms * q.elsz - 1) -> Byte] /\ junk \in Byte

\* One value is stored in memory.
LEMMA WroteType ==
    ASSUME NEW q, NEW junk, NEW M, Storing(q, junk, M), NEW n \in 1..q.nelms, NEW a \in [0..(M - 1) -> Byte]
    PROVE  Wrote(q, junk, n, a) \in [0..(M - 1) -> Byte]
<1>k. PICK k : k = n - 1
  OBVIOUS
<1>e. PICK e : e = q.elsz
  OBVIOUS
<1>z. PICK z : z = computeSize(q.f)
  OBVIOUS
<1>o. PICK off : off = k * q.stride
  OBVIOUS
<1>N. PICK N : N = q.nelms
  OBVIOUS
<1>d. PICK d : d = q.stride
  OBVIOUS
<1>0. /\ Valid(q.f) /\ e \in Nat \ {0} /\ N \in Nat \ {0} /\ d \in Nat /\ M \in Nat
      /\ (N - 1) * d + z <= M
      /\ q.vals \in [0..(N * e - 1) -> Byte] /\ junk \in Byte
  BY <1>e, <1>z, <1>N, <1>d DEF Storing
<1>1. z \in Nat /\ k \in Nat /\ k <= N - 1 /\ N - 1 \in Nat /\ k < N
  <2>1. z \in Nat
    BY <1>0, <1>z, Sizes
  <2>2. n \in 1..N
    BY <1>N
  <2> QED BY <1>0, <1>k, <2>1, <2>2
<1>2. off \in Nat /\ off + z <= M
  <2>1. k * d <= (N - 1) * d /\ k * d \in Nat /\ (N - 1) * d \in Nat
    BY <1>0, <1>1
  <2> QED BY <1>0, <1>1, <1>o, <1>d, <2>1
<1>w. PICK w : w = Window(q.vals, k * e, e)
  OBVIOUS
<1>3. w \in [0..(e - 1) -> Byte]
  <2>1. ASSUME NEW j \in 0..(e - 1) PROVE q.vals[k * e + j] \in Byte
    <3>1. j \in Nat /\ j < e /\ e \in Nat /\ N \in Nat /\ k * e \in Nat
      BY <1>0, <1>1
    <3>2. k * e + j < N * e /\ N * e \in Nat
      BY <1>1, <3>1, ElementApart
    <3>3. k * e + j \in 0..(N * e - 1)
      BY <3>1, <3>2
    <3> QED BY <1>0, <3>3
  <2> QED BY <1>w, <2>1 DEF Window
<1>s. PICK s : s = ToDevice(q.f, w, junk)
  OBVIOUS
<1>4. s \in [0..(z - 1) -> Int]
  <2>1. Converting(q.f, e, w, junk)
    BY <1>0, <1>3 DEF Converting
  <2>2. s \in [0..(z - 1) -> Byte]
    BY <2>1, <1>s, <1>z, ToDeviceHolds
  <2>3. Byte \subseteq Int
    BY ByteType
  <2> QED BY <2>2, <2>3
<1>5. write_func8(a, off, s, Masks(q.f)) \in [0..(M - 1) -> Byte]
  BY <1>0, <1>1, <1>2, <1>4, WriteType
<1> QED BY <1>5, <1>d, <1>k, <1>e, <1>o, <1>w, <1>s DEF Wrote

\* setVal() leaves r after it has stored one value after another.
Runs(q, junk, m0, r, d) ==
    r = d[q.nelms] /\ d[0] = m0 /\ \A n \in 1..q.nelms : d[n] = Wrote(q, junk, n, d[n - 1])

\* setVal() stores one value after the other.
LEMMA SetRuns ==
    ASSUME NEW q, NEW junk, NEW m0, q.nelms \in Nat
    PROVE  \E d : Runs(q, junk, m0, setVal(q.f, m0, q.stride, q.vals, q.nelms, q.elsz, junk), d)
<1> DEFINE Is(d) == d = [n \in 0..q.nelms |->
            IF n = 0 THEN m0
            ELSE CHOOSE b \in
                     {write_func8(a, (n - 1) * q.stride, w, Masks(q.f)) :
                         a \in {d[n - 1]},
                         w \in {ToDevice(q.f, Window(q.vals, (n - 1) * q.elsz, q.elsz), junk)}} : TRUE]
           d == CHOOSE g : Is(g)
<1>0. q.nelms \in Nat /\ q.nelms \in 0..q.nelms /\ 0 \in 0..q.nelms
  OBVIOUS
<1>1. setVal(q.f, m0, q.stride, q.vals, q.nelms, q.elsz, junk) = d[q.nelms]
  BY DEF setVal
<1>2. ASSUME NEW g PROVE Is(g) <=> Stores(q, junk, m0, q.nelms, g)
  BY DEF Stores
<1> HIDE DEF Is
<1>3. \E g : Is(g)
  <2>1. PICK g : Stores(q, junk, m0, q.nelms, g)
    BY <1>0, StoresExist
  <2>2. Is(g)
    BY <1>2, <2>1
  <2> QED BY <2>2
<1>4. Is(d)
  BY <1>3
<1>5. Stores(q, junk, m0, q.nelms, d)
  BY <1>2, <1>4
<1> HIDE DEF d
<1>6. \A n \in 0..q.nelms : d[n] = IF n = 0 THEN m0 ELSE Wrote(q, junk, n, d[n - 1])
  <2>1. d = [n \in 0..q.nelms |-> IF n = 0 THEN m0 ELSE Wrote(q, junk, n, d[n - 1])]
    BY <1>5, StoresIs
  <2> QED BY <2>1
<1>7. d[0] = m0 /\ \A n \in 1..q.nelms : d[n] = Wrote(q, junk, n, d[n - 1])
  BY <1>0, <1>6
<1>8. Runs(q, junk, m0, setVal(q.f, m0, q.stride, q.vals, q.nelms, q.elsz, junk), d)
  BY <1>1, <1>7 DEF Runs
<1> QED BY <1>8

\* setVal() leaves bytes in the memory.
LEMMA SetType ==
    ASSUME NEW q, NEW junk, NEW M, Storing(q, junk, M), NEW m0 \in [0..(M - 1) -> Byte]
    PROVE  setVal(q.f, m0, q.stride, q.vals, q.nelms, q.elsz, junk) \in [0..(M - 1) -> Byte]
<1>0. q.nelms \in Nat
  BY DEF Storing
<1>r. PICK r : r = setVal(q.f, m0, q.stride, q.vals, q.nelms, q.elsz, junk)
  OBVIOUS
<1>d. PICK d : Runs(q, junk, m0, r, d)
  BY <1>0, <1>r, SetRuns
<1>1. r = d[q.nelms] /\ d[0] = m0 /\ \A n \in 1..q.nelms : d[n] = Wrote(q, junk, n, d[n - 1])
  BY <1>d DEF Runs
<1>7. d[q.nelms] \in [0..(M - 1) -> Byte]
  <2> DEFINE S == {n \in Nat : n <= q.nelms /\ d[n] \notin [0..(M - 1) -> Byte]}
  <2> SUFFICES ASSUME S # {} PROVE FALSE
    BY <1>0
  <2>1. PICK m \in S : \A j \in S : m <= j
    BY Least
  <2>2. m \in Nat /\ m <= q.nelms /\ d[m] \notin [0..(M - 1) -> Byte]
    OBVIOUS
  <2>3. CASE m = 0
    BY <1>1, <2>2, <2>3
  <2>4. CASE m # 0
    <3>1. m - 1 \in Nat /\ m - 1 <= q.nelms /\ ~(m <= m - 1) /\ m \in 1..q.nelms
      BY <1>0, <2>2, <2>4
    <3>2. d[m - 1] \in [0..(M - 1) -> Byte]
      BY <2>1, <3>1
    <3>3. Wrote(q, junk, m, d[m - 1]) \in [0..(M - 1) -> Byte]
      BY <3>1, <3>2, WroteType
    <3>4. d[m] = Wrote(q, junk, m, d[m - 1])
      BY <1>1, <3>1
    <3> QED BY <2>2, <3>3, <3>4
  <2> QED BY <2>3, <2>4
<1> QED BY <1>1, <1>7, <1>r

\* Element k of the array, and the value that is stored in it.
OldAt(q, a, k) == Window(a, k * q.stride, computeSize(q.f))
ValAt(q, k)    == Meant(q.f, q.elsz, Window(q.vals, k * q.elsz, q.elsz))

\* Values are stored in elements that do not overlap.
Separate(q, junk, M) == Storing(q, junk, M) /\ computeSize(q.f) <= q.stride

\* Where a byte of the memory lies.
LEMMA Position ==
    ASSUME NEW d \in Nat \ {0}, NEW z \in Nat, z <= d, NEW k \in Nat, NEW i \in Nat
    PROVE  /\ i \div d \in Nat /\ i % d \in Nat
           /\ (i - k * d \in 0..(z - 1)) <=> (i \div d = k /\ i % d < z)
           /\ i \div d = k => i - k * d = i % d
<1>q. PICK q : q = i \div d
  OBVIOUS
<1>r. PICK r : r = i % d
  OBVIOUS
<1>1. q \in Nat /\ r \in Nat /\ r < d /\ i = d * q + r
  <2>1. i \in Int /\ i >= 0
    OBVIOUS
  <2> QED BY <2>1, <1>q, <1>r, DivMod
<1>2. q = k => i - k * d = r
  BY <1>1
<1>3. ASSUME i - k * d \in 0..(z - 1) PROVE q = k /\ r < z
  <2>j. PICK j : j = i - k * d
    OBVIOUS
  <2>1. j \in Nat /\ j < z /\ j < d
    BY <1>3, <2>j
  <2>2. i = d * k + j /\ k \in Int /\ i \in Int
    BY <2>1, <2>j
  <2>3. i \div d = k /\ i % d = j
    BY <2>1, <2>2, DivIs
  <2> QED BY <1>q, <1>r, <2>1, <2>3
<1>4. ASSUME q = k, r < z PROVE i - k * d \in 0..(z - 1)
  BY <1>1, <1>2, <1>4
<1> QED BY <1>1, <1>2, <1>3, <1>4, <1>q, <1>r

\* One value is stored: in its element, in the bits of the entry.
LEMMA WroteAt ==
    ASSUME NEW q, NEW junk, NEW M, Separate(q, junk, M), NEW n \in 1..q.nelms, NEW a, Row(a, Byte, M),
           NEW i \in 0..(M - 1)
    PROVE  Wrote(q, junk, n, a)[i] = IF i \div q.stride = n - 1 /\ i % q.stride < computeSize(q.f)
                                     THEN Stored(q.f, OldAt(q, a, n - 1), ValAt(q, n - 1))[i % q.stride]
                                     ELSE a[i]
<1>k. PICK k : k = n - 1
  OBVIOUS
<1>e. PICK e : e = q.elsz
  OBVIOUS
<1>f. PICK f : f = q.f
  OBVIOUS
<1>z. PICK z : z = computeSize(f)
  OBVIOUS
<1>N. PICK N : N = q.nelms
  OBVIOUS
<1>d. PICK d : d = q.stride
  OBVIOUS
<1>o. PICK off : off = k * d
  OBVIOUS
<1>0. /\ Valid(f) /\ e \in Nat \ {0} /\ N \in Nat \ {0} /\ d \in Nat /\ M \in Nat
      /\ (N - 1) * d + z <= M /\ z <= d
      /\ q.vals \in [0..(N * e - 1) -> Byte] /\ junk \in Byte /\ a \in [0..(M - 1) -> Byte]
  BY <1>e, <1>z, <1>N, <1>d, <1>f DEF Separate, Storing, Row
<1>1. z \in Nat \ {0} /\ z \in Nat /\ d \in Nat \ {0} /\ k \in Nat /\ k <= N - 1 /\ N - 1 \in Nat /\ k < N /\ i \in Nat
  <2>1. z \in Nat \ {0}
    BY <1>0, <1>z, Sizes
  <2>2. n \in 1..N
    BY <1>N
  <2> QED BY <1>0, <1>k, <2>1, <2>2
<1>2. off \in Nat /\ off + z <= M
  <2>1. k * d <= (N - 1) * d /\ k * d \in Nat /\ (N - 1) * d \in Nat
    BY <1>0, <1>1
  <2> QED BY <1>0, <1>1, <1>o, <2>1
<1>w. PICK w : w = Window(q.vals, k * e, e)
  OBVIOUS
<1>3. w \in [0..(e - 1) -> Byte]
  <2>1. ASSUME NEW j \in 0..(e - 1) PROVE q.vals[k * e + j] \in Byte
    <3>1. j \in Nat /\ j < e /\ e \in Nat /\ N \in Nat /\ k * e \in Nat
      BY <1>0, <1>1
    <3>2. k * e + j < N * e /\ N * e \in Nat
      BY <1>1, <3>1, ElementApart
    <3>3. k * e + j \in 0..(N * e - 1)
      BY <3>1, <3>2
    <3> QED BY <1>0, <3>3
  <2> QED BY <1>w, <2>1 DEF Window
<1>4. Converting(f, e, w, junk)
  BY <1>0, <1>3 DEF Converting
<1>s. PICK s : s = ToDevice(f, w, junk)
  OBVIOUS
<1>5. s \in [0..(z - 1) -> Byte] /\ Len0(s) = z
  <2>1. s \in [0..(z - 1) -> Byte]
    BY <1>4, <1>s, <1>z, ToDeviceHolds
  <2>2. Row(s, Byte, z)
    BY <1>1, <2>1 DEF Row
  <2> QED BY <2>1, <2>2, InOrder
<1>c. PICK c : c = OldAt(q, a, k)
  OBVIOUS
<1>6. Row(c, Byte, computeSize(f)) /\ \A j \in 0..(z - 1) : c[j] = a[off + j]
  <2>1. c = [j \in 0..(z - 1) |-> a[off + j]]
    BY <1>c, <1>d, <1>f, <1>z, <1>o DEF OldAt, Window
  <2>2. \A j \in 0..(z - 1) : off + j \in 0..(M - 1)
    BY <1>0, <1>1, <1>2
  <2> QED BY <1>0, <1>1, <1>z, <2>1, <2>2 DEF Row
<1>v. PICK v : v = [j \in DOMAIN s |-> Merge(a[off + j], s[j], MaskOf(Masks(f), Len0(s), j))]
  OBVIOUS
<1>7. Wrote(q, junk, n, a) = Paste(a, off, v)
  <2>1. Wrote(q, junk, n, a) = write_func8(a, off, s, Masks(f))
    BY <1>k, <1>e, <1>f, <1>d, <1>o, <1>w, <1>s DEF Wrote
  <2>2. write_func8(a, off, s, Masks(f))
            = Paste(a, off, [j \in DOMAIN s |-> Merge(a[off + j], s[j], MaskOf(Masks(f), Len0(s), j))])
    BY Zenon DEF write_func8, MaskOf
  <2> QED BY <2>1, <2>2, <1>v
<1>8. DOMAIN v = 0..(z - 1) /\ \A j \in 0..(z - 1) : v[j] = Stored(f, c, Meant(f, e, w))[j]
  <2>1. DOMAIN v = 0..(z - 1)
    BY <1>5, <1>v
  <2>2. ASSUME NEW j \in 0..(z - 1) PROVE v[j] = Stored(f, c, Meant(f, e, w))[j]
    <3>1. v[j] = Merge(c[j], s[j], MaskOf(Masks(f), z, j))
      BY <1>5, <1>6, <1>v
    <3>2. j \in 0..(computeSize(f) - 1)
      BY <1>z
    <3>3. Merge(c[j], ToDevice(f, w, junk)[j], MaskOf(Masks(f), computeSize(f), j)) = Stored(f, c, Meant(f, e, w))[j]
      BY <1>4, <1>6, <3>2, Merged
    <3> QED BY <1>s, <1>z, <3>1, <3>3
  <2> QED BY <2>1, <2>2
<1>9. Paste(a, off, v)[i] = IF i - off \in 0..(z - 1) THEN v[i - off] ELSE a[i]
  <2>1. Paste(a, off, v) = [y \in DOMAIN a |-> IF y - off \in DOMAIN v THEN v[y - off] ELSE a[y]]
    BY Pasted
  <2>2. i \in DOMAIN a
    BY <1>0
  <2> QED BY <1>8, <2>1, <2>2
<1>10. /\ (i - off \in 0..(z - 1)) <=> (i \div d = k /\ i % d < z)
       /\ i \div d = k => i - off = i % d
  BY <1>0, <1>1, <1>o, Position
<1>11. ValAt(q, k) = Meant(f, e, w)
  BY <1>f, <1>e, <1>w DEF ValAt
<1>12. Wrote(q, junk, n, a)[i] = IF i \div d = k /\ i % d < z THEN Stored(f, c, ValAt(q, k))[i % d] ELSE a[i]
  <2>1. CASE i \div d = k /\ i % d < z
    <3>1. i - off \in 0..(z - 1) /\ i - off = i % d
      BY <1>10, <2>1
    <3>2. Wrote(q, junk, n, a)[i] = v[i - off]
      BY <1>7, <1>9, <3>1
    <3>3. v[i - off] = Stored(f, c, Meant(f, e, w))[i - off]
      BY <1>8, <3>1
    <3> QED BY <1>11, <2>1, <3>1, <3>2, <3>3
  <2>2. CASE ~(i \div d = k /\ i % d < z)
    <3>1. i - off \notin 0..(z - 1)
      BY <1>10, <2>2
    <3> QED BY <1>7, <1>9, <2>2, <3>1
  <2> QED BY <2>1, <2>2
<1> QED BY <1>12, <1>k, <1>f, <1>z, <1>d, <1>c

\* n values are stored and the rest of the memory is as it was.
StoredSoFar(q, m0, M, n, a) ==
    \A i \in 0..(M - 1) :
        a[i] = IF i \div q.stride < n /\ i % q.stride < computeSize(q.f)
               THEN Stored(q.f, OldAt(q, m0, i \div q.stride), ValAt(q, i \div q.stride))[i % q.stride]
               ELSE m0[i]

\* One more.
LEMMA StoredNext ==
    ASSUME NEW q, NEW junk, NEW M, Separate(q, junk, M), NEW m0, NEW n \in 1..q.nelms, NEW a, Row(a, Byte, M),
           StoredSoFar(q, m0, M, n - 1, a)
    PROVE  StoredSoFar(q, m0, M, n, Wrote(q, junk, n, a))
<1>k. PICK k : k = n - 1
  OBVIOUS
<1>z. PICK z : z = computeSize(q.f)
  OBVIOUS
<1>N. PICK N : N = q.nelms
  OBVIOUS
<1>d. PICK d : d = q.stride
  OBVIOUS
<1>0. Valid(q.f) /\ N \in Nat \ {0} /\ d \in Nat /\ M \in Nat /\ (N - 1) * d + z <= M /\ z <= d
  BY <1>z, <1>N, <1>d DEF Separate, Storing
<1>1. z \in Nat \ {0} /\ z \in Nat /\ d \in Nat \ {0} /\ k \in Nat /\ k <= N - 1 /\ N - 1 \in Nat /\ k + 1 = n
  <2>1. z \in Nat \ {0}
    BY <1>0, <1>z, Sizes
  <2>2. n \in 1..N
    BY <1>N
  <2> QED BY <1>0, <1>k, <2>1, <2>2
<1>2. ASSUME NEW i \in 0..(M - 1)
      PROVE  a[i] = IF i \div d < k /\ i % d < z
                    THEN Stored(q.f, OldAt(q, m0, i \div d), ValAt(q, i \div d))[i % d] ELSE m0[i]
  BY <1>k, <1>z, <1>d DEF StoredSoFar
<1>3. OldAt(q, a, k) = OldAt(q, m0, k)
  <2>o. PICK o : o = k * d
    OBVIOUS
  <2>1. o \in Nat /\ o + z <= M
    <3>1. k * d <= (N - 1) * d /\ k * d \in Nat /\ (N - 1) * d \in Nat
      BY <1>0, <1>1
    <3> QED BY <1>0, <1>1, <2>o, <3>1
  <2>2. ASSUME NEW j \in 0..(z - 1) PROVE a[o + j] = m0[o + j]
    <3>i. PICK i : i = o + j
      OBVIOUS
    <3>1. i \in 0..(M - 1) /\ i \in Nat /\ i - k * d \in 0..(z - 1)
      BY <1>0, <1>1, <2>1, <2>o, <3>i
    <3>2. i \div d = k
      <4>1. d \in Nat \ {0} /\ z \in Nat /\ z <= d /\ k \in Nat /\ i \in Nat
        BY <1>0, <1>1, <3>1
      <4>2. (i - k * d \in 0..(z - 1)) <=> (i \div d = k /\ i % d < z)
        BY <4>1, Position
      <4> QED BY <3>1, <4>2
    <3>3. ~(i \div d < k)
      BY <1>1, <3>2
    <3>4. a[i] = m0[i]
      BY <1>2, <3>1, <3>3
    <3> QED BY <3>4, <3>i
  <2>3. OldAt(q, a, k) = [j \in 0..(z - 1) |-> a[o + j]] /\ OldAt(q, m0, k) = [j \in 0..(z - 1) |-> m0[o + j]]
    BY <1>d, <1>z, <2>o DEF OldAt, Window
  <2> QED BY <2>2, <2>3
<1>b. PICK b : b = Wrote(q, junk, n, a)
  OBVIOUS
<1>4. ASSUME NEW i \in 0..(M - 1)
      PROVE  b[i] = IF i \div d < n /\ i % d < z
                    THEN Stored(q.f, OldAt(q, m0, i \div d), ValAt(q, i \div d))[i % d] ELSE m0[i]
  <2>u. PICK u : u = i \div d
    OBVIOUS
  <2>r. PICK r : r = i % d
    OBVIOUS
  <2>0. u \in Nat /\ r \in Nat
    <3>1. i \in Nat
      BY <1>0
    <3> QED BY <1>0, <1>1, <2>u, <2>r, <3>1, Position
  <2>1. b[i] = IF u = k /\ r < z THEN Stored(q.f, OldAt(q, m0, k), ValAt(q, k))[r] ELSE a[i]
    <3>1. Wrote(q, junk, n, a)[i] = IF i \div q.stride = n - 1 /\ i % q.stride < computeSize(q.f)
                                    THEN Stored(q.f, OldAt(q, a, n - 1), ValAt(q, n - 1))[i % q.stride]
                                    ELSE a[i]
      BY WroteAt
    <3> QED BY <3>1, <1>3, <1>k, <1>z, <1>d, <1>b, <2>u, <2>r
  <2>2. a[i] = IF u < k /\ r < z THEN Stored(q.f, OldAt(q, m0, u), ValAt(q, u))[r] ELSE m0[i]
    BY <1>2, <2>u, <2>r
  <2>3. (u < n) <=> (u = k \/ u < k)
    BY <1>1, <2>0
  <2>4. ~(u = k /\ u < k)
    BY <1>1, <2>0
  <2>5. b[i] = IF u < n /\ r < z THEN Stored(q.f, OldAt(q, m0, u), ValAt(q, u))[r] ELSE m0[i]
    BY <2>1, <2>2, <2>3, <2>4
  <2> QED BY <2>5, <2>u, <2>r
<1> QED BY <1>4, <1>b, <1>d, <1>z DEF StoredSoFar

\* setVal() stores all values, each in its element, and nothing else.
THEOREM StoredAll ==
    ASSUME NEW q, NEW junk, NEW M, Separate(q, junk, M), NEW m0 \in [0..(M - 1) -> Byte]
    PROVE  StoredSoFar(q, m0, M, q.nelms, setVal(q.f, m0, q.stride, q.vals, q.nelms, q.elsz, junk))
<1>0. q.nelms \in Nat /\ Storing(q, junk, M) /\ M \in Nat /\ q.stride \in Nat \ {0}
  <2>1. Valid(q.f)
    BY DEF Separate, Storing
  <2>2. computeSize(q.f) \in Nat \ {0}
    BY <2>1, Sizes
  <2> QED BY <2>2 DEF Separate, Storing
<1>r. PICK r : r = setVal(q.f, m0, q.stride, q.vals, q.nelms, q.elsz, junk)
  OBVIOUS
<1>d. PICK d : Runs(q, junk, m0, r, d)
  BY <1>0, <1>r, SetRuns
<1>1. r = d[q.nelms] /\ d[0] = m0 /\ \A n \in 1..q.nelms : d[n] = Wrote(q, junk, n, d[n - 1])
  BY <1>d DEF Runs
<1> DEFINE P(n) == Row(d[n], Byte, M) /\ StoredSoFar(q, m0, M, n, d[n])
<1>2. P(q.nelms)
  <2> DEFINE S == {n \in Nat : n <= q.nelms /\ ~P(n)}
  <2> SUFFICES ASSUME S # {} PROVE FALSE
    BY <1>0
  <2>1. PICK m \in S : \A j \in S : m <= j
    BY Least
  <2>2. m \in Nat /\ m <= q.nelms /\ ~P(m)
    OBVIOUS
  <2>3. CASE m = 0
    <3>1. Row(d[0], Byte, M)
      BY <1>0, <1>1 DEF Row
    <3>2. \A i \in 0..(M - 1) : ~(i \div q.stride < 0)
      <4> TAKE i \in 0..(M - 1)
      <4>1. i \in Int /\ i >= 0
        BY <1>0
      <4>2. i \div q.stride \in Nat
        BY <1>0, <4>1, DivMod
      <4> QED BY <4>2
    <3>3. StoredSoFar(q, m0, M, 0, d[0])
      BY <1>1, <3>2 DEF StoredSoFar
    <3> QED BY <2>2, <2>3, <3>1, <3>3
  <2>4. CASE m # 0
    <3>1. m - 1 \in Nat /\ m - 1 <= q.nelms /\ ~(m <= m - 1) /\ m \in 1..q.nelms
      BY <1>0, <2>2, <2>4
    <3>2. P(m - 1)
      BY <2>1, <3>1
    <3>a. PICK a : a = d[m - 1]
      OBVIOUS
    <3>3. Row(a, Byte, M) /\ StoredSoFar(q, m0, M, m - 1, a) /\ a \in [0..(M - 1) -> Byte]
      BY <3>2, <3>a DEF Row
    <3>4. d[m] = Wrote(q, junk, m, a)
      BY <1>1, <3>1, <3>a
    <3>5. StoredSoFar(q, m0, M, m, d[m])
      BY <3>1, <3>3, <3>4, StoredNext
    <3>6. Row(d[m], Byte, M)
      BY <1>0, <3>1, <3>3, <3>4, WroteType DEF Row
    <3> QED BY <2>2, <3>5, <3>6
  <2> QED BY <2>3, <2>4
<1> QED BY <1>1, <1>2, <1>r

-----------------------------------------------------------------------------
(* The data of the transactions.                                           *)

\* The parts of t's read that have got a number.
Issued(t) == {i \in Nat \ {0} : i < user[t].part \/ (i = user[t].part /\ user[t].pc \in {"add", "send"})}

\* The data of part i are in the buffer.
Landed(t, i) == \A j \in DOMAIN Data(t, i) : buf[t][(i - 1) * Size(t) + j] = Data(t, i)[j]

\* The memory holds bytes.
Bytes == mem \in [0..(Len0(scen.mem) - 1) -> Byte]

\* A transaction that is being issued has the last number, and nobody else has.
Numbers ==
    /\ \A i \in DOMAIN pending : pending[i].tid <= tid
    /\ \A m \in net : m.tid \in Int /\ m.tid <= tid
    /\ \A t \in Active :
           user[t].pc \in {"add", "send"} =>
               /\ user[t].tid = tid
               /\ \A u \in Active \ {t} : user[u].pc \notin {"add", "send"}
               /\ \A m \in net : m.tid # tid
               /\ \A i \in DOMAIN pending :
                      pending[i].tid = tid =>
                          user[t].pc = "send" /\ pending[i].xact = <<t, user[t].part>>

\* An answer carries the data of the transaction that has its number.
Carried ==
    /\ \A m \in net : \A i \in DOMAIN pending :
           pending[i].tid = m.tid => m.data = Data(pending[i].xact[1], pending[i].xact[2])
    /\ hnd.pc = "complete" => hnd.data = Data(hnd.xact[1], hnd.xact[2])

\* All parts are issued, one after another.
InParts ==
    \A t \in Active :
        /\ user[t].pc = "set" => user[t].part = 1
        /\ user[t].pc \in {"set", "get", "add", "send"} => user[t].part \in Parts(t)
        /\ user[t].pc \in {"drop", "done"} => \A i \in Parts(t) : i < user[t].part
        /\ \A i \in refs[t] : i = 0 \/ i \in Parts(t)

\* Until the callback the buffer has its size, and holds what was brought by the
\* parts that were completed, unless there was an error.
Brought ==
    /\ DOMAIN buf = Active /\ DOMAIN err = Active
    /\ \A t \in Active : err[t] \in BOOLEAN
    /\ \A t \in Active : cb[t] = <<>> =>
           /\ DOMAIN buf[t] = 0..(BufLen(Req(t)) - 1)
           /\ ~err[t] => \A i \in Issued(t) \ refs[t] : i \in Parts(t) => Landed(t, i)
    /\ hnd.pc = "drop" => err[hnd.xact[1]] \/ Landed(hnd.xact[1], hnd.xact[2])
    /\ thr.pc = "drop" => err[thr.xact[1]]

DInv == Bytes /\ Numbers /\ Carried /\ InParts /\ Brought /\ ValueRead

-----------------------------------------------------------------------------
\* How many bytes a part of t's read brings.
Extent(t) == IF Collapsed(t) THEN Req(t).nelms * Size(t) ELSE Size(t)

\* A request whose elements lie in M bytes of memory.
Within(q, M) ==
    /\ Valid(q.f) /\ q.elsz \in Nat \ {0} /\ q.nelms \in Nat \ {0} /\ q.stride \in Nat /\ M \in Nat
    /\ (q.nelms - 1) * q.stride + computeSize(q.f) <= M

\* All requests of an orderly scenario are of this kind.
LEMMA RequestsFit ==
    ASSUME Orderly, Types, NEW t \in Active
    PROVE  /\ Within(Req(t), Len0(scen.mem)) /\ t \in Threads
           /\ scen.mem \in [0..(Len0(scen.mem) - 1) -> Byte] /\ scen.junk \in Byte
           /\ DOMAIN Req(t).vals # {} =>
                  /\ Req(t).vals \in [0..(Req(t).nelms * Req(t).elsz - 1) -> Byte] /\ Active = {t}
<1>1. scen \in Scenarios /\ t \in DOMAIN scen.reqs
  BY DEF Types, Active
<1>2. t \in Threads /\ scen.reqs[t].nelms \in Nat \ {0}
  BY <1>1, ScenarioAssumption
<1>m. PICK M : M = Len0(scen.mem)
  OBVIOUS
<1>q. PICK q : q = Req(t)
  OBVIOUS
<1>3. /\ M \in Nat /\ scen.mem \in [0..(M - 1) -> Byte] /\ scen.junk \in Byte
      /\ Valid(q.f) /\ q.elsz \in Nat \ {0} /\ q.stride \in Nat
      /\ (q.nelms - 1) * q.stride + computeSize(q.f) <= M
      /\ DOMAIN q.vals # {} => /\ q.vals \in [0..(q.nelms * q.elsz - 1) -> Byte]
                               /\ DOMAIN scen.reqs = {t}
  BY <1>1, <1>m, <1>q, Zenon DEF Orderly, Req
<1>4. q.nelms \in Nat \ {0}
  BY <1>2, <1>q DEF Req
<1>5. Within(q, M)
  BY <1>3, <1>4 DEF Within
<1> QED BY <1>2, <1>3, <1>5, <1>m, <1>q DEF Active

\* Where the parts of a read come to lie: one after another, within the buffer.
LEMMA Layout ==
    ASSUME NEW t, NEW M, Within(Req(t), M)
    PROVE  /\ Size(t) \in Nat \ {0} /\ Extent(t) \in Nat \ {0} /\ BufLen(Req(t)) \in Nat
           /\ 1 \in Parts(t)
           /\ \A i \in Parts(t) :
                  /\ i \in Nat \ {0} /\ DOMAIN Data(t, i) = 0..(Extent(t) - 1)
                  /\ (i - 1) * Size(t) \in Nat /\ (i - 1) * Size(t) + Extent(t) <= BufLen(Req(t))
                  /\ i + 1 \in Parts(t) \/ \A l \in Parts(t) : l <= i
           /\ \A i, l \in Parts(t) : i < l => (i - 1) * Size(t) + Extent(t) <= (l - 1) * Size(t)
<1>q. PICK q : q = Req(t)
  OBVIOUS
<1>z. PICK z : z = Size(t)
  OBVIOUS
<1>n. PICK n : n = q.nelms
  OBVIOUS
<1>e. PICK e : e = q.elsz
  OBVIOUS
<1>x. PICK x : x = Extent(t)
  OBVIOUS
<1>b. PICK b : b = BufLen(q)
  OBVIOUS
<1>0. Valid(q.f) /\ e \in Nat \ {0} /\ n \in Nat \ {0}
  BY <1>q, <1>e, <1>n DEF Within
<1>1. z = computeSize(q.f) /\ z \in Nat \ {0}
  BY <1>0, <1>q, <1>z, Sizes DEF Size
<1>2. x = IF Collapsed(t) THEN n * z ELSE z
  BY <1>q, <1>z, <1>n, <1>x DEF Extent
<1>3. Parts(t) = IF Collapsed(t) \/ n = 1 THEN {1} ELSE 1..n
  BY <1>q, <1>n DEF Parts
<1>4. n * z \in Nat \ {0} /\ z <= n * z /\ 1 * z = z /\ (1 - 1) * z = 0
  <2>1. \A y \in Nat : z <= (1 + y) * z
    BY <1>1
  <2>2. n - 1 \in Nat /\ n = 1 + (n - 1)
    BY <1>0
  <2> QED BY <1>0, <1>1, <2>1, <2>2
<1>5. b \in Nat /\ n * z <= b
  <2>1. b = n * (IF z > e THEN z ELSE e)
    BY <1>q, <1>b, <1>n, <1>e, <1>1 DEF BufLen
  <2>2. \A y \in Nat : y >= z => n * z <= n * y /\ n * y \in Nat
    BY <1>0, <1>1
  <2>3. (IF z > e THEN z ELSE e) \in Nat /\ (IF z > e THEN z ELSE e) >= z
    BY <1>0, <1>1
  <2> QED BY <2>1, <2>2, <2>3
<1>6. x \in Nat \ {0}
  BY <1>1, <1>2, <1>4
<1>7. ASSUME NEW i \in Parts(t)
      PROVE  /\ i \in Nat \ {0} /\ i <= n /\ DOMAIN Data(t, i) = 0..(x - 1)
             /\ (i - 1) * z \in Nat /\ (i - 1) * z + x <= b
             /\ i + 1 \in Parts(t) \/ \A l \in Parts(t) : l <= i
  <2>1. i \in Nat \ {0} /\ i <= n /\ (Collapsed(t) => i = 1)
    BY <1>0, <1>3, <1>7
  <2>2. i + 1 \in Parts(t) \/ \A l \in Parts(t) : l <= i
    BY <1>0, <1>3, <1>7, <2>1
  <2>3. DOMAIN Data(t, i) = 0..(x - 1)
    BY <1>2, <1>q, <1>z, <1>n DEF Data, Window
  <2>4. (i - 1) * z \in Nat
    BY <1>1, <2>1
  <2>5. (i - 1) * z + x <= n * z
    <3>1. CASE Collapsed(t)
      BY <1>2, <1>4, <2>1, <3>1
    <3>2. CASE ~Collapsed(t)
      <4>1. \A a, c \in Nat : a <= c => a * z <= c * z
        BY <1>1
      <4>2. i * z <= n * z
        BY <1>0, <2>1, <4>1
      <4>3. (i - 1) * z + z = i * z
        BY <1>1, <2>1
      <4> QED BY <1>2, <3>2, <4>2, <4>3
    <3> QED BY <3>1, <3>2
  <2> QED BY <1>4, <1>5, <1>6, <2>1, <2>2, <2>3, <2>4, <2>5
<1>8. ASSUME NEW i \in Parts(t), NEW l \in Parts(t), i < l
      PROVE  (i - 1) * z + x <= (l - 1) * z
  <2>1. ~Collapsed(t) /\ i \in Nat \ {0} /\ l \in Nat \ {0}
    BY <1>3, <1>7, <1>8
  <2>2. x = z
    BY <1>2, <2>1
  <2>3. \A a, c \in Nat : a <= c => a * z <= c * z
    BY <1>1
  <2>4. i * z <= (l - 1) * z
    BY <1>8, <2>1, <2>3
  <2>5. (i - 1) * z + z = i * z
    BY <1>1, <2>1
  <2> QED BY <2>2, <2>4, <2>5
<1>9. 1 \in Parts(t)
  BY <1>0, <1>3
<1>10. /\ \A i \in Parts(t) :
             /\ i \in Nat \ {0} /\ DOMAIN Data(t, i) = 0..(x - 1)
             /\ (i - 1) * z \in Nat /\ (i - 1) * z + x <= b
             /\ i + 1 \in Parts(t) \/ \A l \in Parts(t) : l <= i
       /\ \A i, l \in Parts(t) : i < l => (i - 1) * z + x <= (l - 1) * z
  BY <1>7, <1>8, Zenon
<1> QED BY <1>q, <1>z, <1>x, <1>b, <1>1, <1>5, <1>6, <1>9, <1>10, Zenon

\* When all parts have landed the buffer holds the elements as they are in memory.
LEMMA Delivered ==
    ASSUME NEW t, NEW M, Within(Req(t), M), mem \in [0..(M - 1) -> Byte],
           DOMAIN buf[t] = 0..(BufLen(Req(t)) - 1), \A i \in Parts(t) : Landed(t, i)
    PROVE  /\ Input(Req(t).f, buf[t], Req(t).nelms, Req(t).elsz)
           /\ \A k \in 0..(Req(t).nelms - 1) :
                  Window(buf[t], k * Size(t), Size(t)) = Window(mem, k * Req(t).stride, Size(t))
<1>q. PICK q : q = Req(t)
  OBVIOUS
<1>z. PICK z : z = Size(t)
  OBVIOUS
<1>n. PICK n : n = q.nelms
  OBVIOUS
<1>e. PICK e : e = q.elsz
  OBVIOUS
<1>d. PICK d : d = q.stride
  OBVIOUS
<1>b. PICK b : b = buf[t]
  OBVIOUS
<1>m. PICK m : m = mem
  OBVIOUS
<1>0. /\ Valid(q.f) /\ e \in Nat \ {0} /\ n \in Nat \ {0} /\ d \in Nat /\ M \in Nat
      /\ (n - 1) * d + z <= M /\ z = computeSize(q.f) /\ m \in [0..(M - 1) -> Byte]
  BY <1>q, <1>e, <1>n, <1>d, <1>z, <1>m DEF Within, Size
<1>1. z \in Nat \ {0}
  BY Layout, <1>z
<1>2. DOMAIN b = 0..(n * Larger(z, e) - 1)
  BY <1>q, <1>b, <1>n, <1>e, <1>0 DEF BufLen, Larger
<1>3. Parts(t) = IF Collapsed(t) \/ n = 1 THEN {1} ELSE 1..n
  BY <1>q, <1>n DEF Parts
<1>4. \A i \in Parts(t) : \A j \in DOMAIN Data(t, i) : b[(i - 1) * z + j] = Data(t, i)[j]
  BY <1>b, <1>z DEF Landed
<1>5. ASSUME NEW k \in 0..(n - 1)
      PROVE  Window(b, k * z, z) = Window(m, k * d, z) /\ Window(b, k * z, z) \in [0..(z - 1) -> Byte]
  <2>1. k \in Nat /\ k <= n - 1 /\ n - 1 \in Nat /\ k * z \in Nat /\ k * d \in Nat
    BY <1>0, <1>1
  <2>2. k * d + z <= M
    <3>1. \A x, y \in Nat : x <= y => x * d <= y * d /\ x * d \in Nat /\ y * d \in Nat
      BY <1>0
    <3>2. k * d <= (n - 1) * d /\ k * d \in Nat /\ (n - 1) * d \in Nat
      BY <2>1, <3>1
    <3>3. (n - 1) * d + z <= M /\ z \in Nat /\ M \in Nat
      BY <1>0, <1>1
    <3> QED BY <3>2, <3>3
  <2>3. ASSUME NEW j \in 0..(z - 1) PROVE b[k * z + j] = m[k * d + j]
    <3>1. CASE Collapsed(t)
      <4>1. z = d /\ 1 \in Parts(t) /\ Data(t, 1) = Window(m, 0, n * z)
        BY <1>3, <1>q, <1>z, <1>d, <1>n, <1>m, <3>1 DEF Collapsed, Data
      <4>2. k * z + j \in 0..(n * z - 1) /\ k * z + j \in Nat
        <5>1. k < n /\ n \in Nat /\ j \in Nat /\ z \in Nat /\ j < z
          BY <1>0, <1>1, <2>1
        <5>2. k * z + j < n * z /\ n * z \in Nat
          BY <2>1, <5>1, ElementApart
        <5> QED BY <2>1, <5>1, <5>2
      <4>3. b[(1 - 1) * z + (k * z + j)] = Window(m, 0, n * z)[k * z + j]
        BY <1>4, <4>1, <4>2 DEF Window
      <4>4. (1 - 1) * z + (k * z + j) = k * z + j /\ 0 + (k * z + j) = k * z + j
        BY <1>1, <4>2
      <4>5. Window(m, 0, n * z)[k * z + j] = m[0 + (k * z + j)]
        BY <4>2 DEF Window
      <4> QED BY <4>1, <4>3, <4>4, <4>5
    <3>2. CASE ~Collapsed(t)
      <4>1. k + 1 \in Parts(t) /\ (k + 1) - 1 = k
        BY <1>0, <1>3, <2>1, <3>2
      <4>2. Data(t, k + 1) = Window(m, k * d, z)
        BY <1>q, <1>z, <1>d, <1>m, <3>2, <4>1 DEF Data
      <4> QED BY <1>4, <4>1, <4>2 DEF Window
    <3> QED BY <3>1, <3>2
  <2>4. \A j \in 0..(z - 1) : k * d + j \in 0..(M - 1)
    BY <1>0, <1>1, <2>1, <2>2
  <2>5. \A j \in 0..(z - 1) : b[k * z + j] \in Byte
    BY <1>0, <2>3, <2>4
  <2> QED BY <2>3, <2>5 DEF Window
<1>6. Input(q.f, b, n, e)
  BY <1>0, <1>2, <1>5 DEF Input
<1> QED BY <1>5, <1>6, <1>q, <1>z, <1>n, <1>e, <1>d, <1>b, <1>m

\* A part of the read lands in the buffer, and the other parts stay as they are.
LEMMA Landing ==
    ASSUME NEW t, NEW M, Within(Req(t), M), NEW p \in Parts(t),
           DOMAIN buf[t] = 0..(BufLen(Req(t)) - 1)
    PROVE  LET b == Paste(buf[t], (p - 1) * Size(t), Data(t, p))
           IN  /\ DOMAIN b = 0..(BufLen(Req(t)) - 1)
               /\ \A j \in DOMAIN Data(t, p) : b[(p - 1) * Size(t) + j] = Data(t, p)[j]
               /\ \A i \in Parts(t) : i # p /\ Landed(t, i) =>
                      \A j \in DOMAIN Data(t, i) : b[(i - 1) * Size(t) + j] = Data(t, i)[j]
<1>z. PICK z : z = Size(t)
  OBVIOUS
<1>x. PICK x : x = Extent(t)
  OBVIOUS
<1>L. PICK L : L = BufLen(Req(t))
  OBVIOUS
<1>o. PICK off : off = (p - 1) * z
  OBVIOUS
<1>b. PICK b : b = Paste(buf[t], off, Data(t, p))
  OBVIOUS
<1>1. /\ z \in Nat \ {0} /\ x \in Nat \ {0} /\ L \in Nat
      /\ \A i \in Parts(t) :
             /\ i \in Nat \ {0} /\ DOMAIN Data(t, i) = 0..(x - 1)
             /\ (i - 1) * z \in Nat /\ (i - 1) * z + x <= L
      /\ \A i, l \in Parts(t) : i < l => (i - 1) * z + x <= (l - 1) * z
  BY <1>z, <1>x, <1>L, Layout
<1>2. off \in Nat /\ off + x <= L /\ DOMAIN Data(t, p) = 0..(x - 1) /\ p \in Nat \ {0}
  BY <1>1, <1>o
<1>3. Fits(buf[t], L, off, Data(t, p), x)
  BY <1>1, <1>2, <1>L DEF Fits
<1>4. /\ DOMAIN b = 0..(L - 1) /\ \A j \in 0..(x - 1) : b[off + j] = Data(t, p)[j]
      /\ \A y \in 0..(L - 1) : y < off \/ y >= off + x => b[y] = buf[t][y]
  BY <1>3, <1>b, PastedIn
<1>5. ASSUME NEW i \in Parts(t), i # p, Landed(t, i), NEW j \in DOMAIN Data(t, i)
      PROVE  b[(i - 1) * z + j] = Data(t, i)[j]
  <2>a. PICK a : a = (i - 1) * z
    OBVIOUS
  <2>1. /\ a \in Nat /\ a + x <= L /\ i \in Nat \ {0} /\ j \in 0..(x - 1)
        /\ (i < p => a + x <= off) /\ (p < i => off + x <= a)
    BY <1>1, <1>o, <2>a
  <2>2. i < p \/ p < i
    BY <1>2, <1>5, <2>1
  <2>3. a + j \in 0..(L - 1) /\ (a + j < off \/ a + j >= off + x)
    <3>1. /\ a \in Nat /\ x \in Nat /\ L \in Nat /\ off \in Nat /\ j \in Nat /\ j < x
          /\ a + x <= L /\ (a + x <= off \/ off + x <= a)
      BY <1>1, <1>2, <2>1, <2>2
    <3> QED BY <3>1
  <2>4. b[a + j] = buf[t][a + j]
    BY <1>4, <2>3
  <2>5. buf[t][a + j] = Data(t, i)[j]
    BY <1>5, <1>z, <2>a DEF Landed
  <2> QED BY <2>a, <2>4, <2>5
<1> QED BY <1>2, <1>4, <1>5, <1>b, <1>o, <1>z, <1>L

-----------------------------------------------------------------------------
\* What a request asks for depends on the scenario, and on the memory.
LEMMA SameRequests ==
    ASSUME UNCHANGED scen
    PROVE  /\ Active' = Active
           /\ \A t : /\ Req(t)' = Req(t) /\ Size(t)' = Size(t) /\ Parts(t)' = Parts(t)
                     /\ BufLen(Req(t))' = BufLen(Req(t))
           /\ mem' = mem => \A t, i : Data(t, i)' = Data(t, i)
<1>1. \A t : Req(t)' = Req(t)
  BY DEF Req
<1>2. \A t : Size(t)' = Size(t)
  BY <1>1 DEF Size
<1>3. \A t : Collapsed(t)' = Collapsed(t)
  BY <1>1, <1>2 DEF Collapsed
<1>4. \A t : Parts(t)' = Parts(t)
  BY <1>1, <1>3 DEF Parts
<1>5. \A t : BufLen(Req(t))' = BufLen(Req(t))
  BY <1>1
<1>6. ASSUME mem' = mem, NEW t, NEW i PROVE Data(t, i)' = Data(t, i)
  BY <1>1, <1>2, <1>3, <1>6, Zenon DEF Data
<1> QED BY <1>1, <1>2, <1>4, <1>5, <1>6 DEF Active

\* No number is new, and nothing is added to the list or to the net.
LEMMA NumbersKept ==
    ASSUME Numbers, UNCHANGED <<scen, tid>>, net' \subseteq net,
           \A i \in DOMAIN pending' : \E j \in DOMAIN pending : pending'[i] = pending[j],
           \A t \in Active : user'[t] = user[t] \/ user'[t].pc \notin {"add", "send"}
    PROVE  Numbers'
<1>0. Active' = Active
  BY SameRequests
<1>1. \A i \in DOMAIN pending' : pending'[i].tid <= tid
  BY DEF Numbers
<1>2. \A m \in net' : m.tid \in Int /\ m.tid <= tid
  BY DEF Numbers
<1>3. ASSUME NEW t \in Active, user'[t].pc \in {"add", "send"}
      PROVE  /\ user'[t].tid = tid
             /\ \A u \in Active \ {t} : user'[u].pc \notin {"add", "send"}
             /\ \A m \in net' : m.tid # tid
             /\ \A i \in DOMAIN pending' :
                    pending'[i].tid = tid =>
                        user'[t].pc = "send" /\ pending'[i].xact = <<t, user'[t].part>>
  <2>1. user'[t] = user[t]
    BY <1>3
  <2>2. /\ user[t].tid = tid
        /\ \A u \in Active \ {t} : user[u].pc \notin {"add", "send"}
        /\ \A m \in net : m.tid # tid
        /\ \A i \in DOMAIN pending :
               pending[i].tid = tid =>
                   user[t].pc = "send" /\ pending[i].xact = <<t, user[t].part>>
    BY <1>3, <2>1 DEF Numbers
  <2>3. \A u \in Active \ {t} : user'[u].pc \notin {"add", "send"}
    BY <2>2
  <2>4. \A m \in net' : m.tid # tid
    BY <2>2
  <2>5. ASSUME NEW i \in DOMAIN pending', pending'[i].tid = tid
        PROVE  user'[t].pc = "send" /\ pending'[i].xact = <<t, user'[t].part>>
    <3>1. PICK j \in DOMAIN pending : pending'[i] = pending[j]
      OBVIOUS
    <3> QED BY <2>1, <2>2, <2>5, <3>1
  <2> QED BY <2>1, <2>2, <2>3, <2>4, <2>5
<1> QED BY <1>0, <1>1, <1>2, <1>3 DEF Numbers

\* The same for the data that the answers carry.
LEMMA CarriedKept ==
    ASSUME Carried, UNCHANGED <<scen, mem>>, net' \subseteq net,
           \A i \in DOMAIN pending' : \E j \in DOMAIN pending : pending'[i] = pending[j],
           hnd'.pc = "complete" => hnd'.data = Data(hnd'.xact[1], hnd'.xact[2])
    PROVE  Carried'
<1>1. \A t, i : Data(t, i)' = Data(t, i)
  BY SameRequests
<1>2. \A m \in net' : \A i \in DOMAIN pending' :
          pending'[i].tid = m.tid => m.data = Data(pending'[i].xact[1], pending'[i].xact[2])
  BY DEF Carried
<1> QED BY <1>1, <1>2 DEF Carried

\* A thread goes through the steps of one part.
LEMMA InPartsKept ==
    ASSUME InParts, UNCHANGED scen,
           \A t \in Active :
               /\ user'[t].part = user[t].part
               /\ \/ user'[t].pc = user[t].pc
                  \/ user[t].pc = "set" /\ user'[t].pc = "get"
                  \/ user[t].pc = "get" /\ user'[t].pc = "add"
                  \/ user[t].pc = "add" /\ user'[t].pc = "send"
                  \/ user[t].pc = "drop" /\ user'[t].pc = "done"
               /\ \A i \in refs'[t] : i \in refs[t] \/ i \in Parts(t)
    PROVE  InParts'
<1>1. Active' = Active /\ \A t : Parts(t)' = Parts(t)
  BY SameRequests
<1> QED BY <1>1 DEF InParts

\* No completion is touched, and no part is new among those that have landed.
LEMMA BroughtKept ==
    ASSUME Brought, UNCHANGED <<scen, mem, err, buf, cb>>,
           \A t \in Active : \A i \in Parts(t) :
               i \in Issued(t)' \ refs'[t] => i \in Issued(t) \ refs[t],
           hnd'.pc = "drop" => hnd' = hnd, thr'.pc = "drop" => thr' = thr
    PROVE  Brought'
<1>1. Active' = Active /\ \A t : Parts(t)' = Parts(t) /\ BufLen(Req(t))' = BufLen(Req(t))
  BY SameRequests
<1>2. \A t, i : Landed(t, i)' <=> Landed(t, i)
  BY SameRequests DEF Landed
<1> HIDE DEF Landed, Issued
<1> QED BY <1>1, <1>2 DEF Brought

\* The result of a read stays.
LEMMA ValuesKept ==
    ASSUME ValueRead, UNCHANGED <<scen, mem>>,
           \A t \in Active : cb'[t] = <<FALSE>> => cb[t] = <<FALSE>> /\ buf'[t] = buf[t]
    PROVE  ValueRead'
<1>1. Active' = Active /\ \A t : Req(t)' = Req(t) /\ Size(t)' = Size(t)
  BY SameRequests
<1> QED BY <1>1 DEF ValueRead

-----------------------------------------------------------------------------
\* A thread that has not read yet has nothing under way.
LEMMA NothingYet ==
    ASSUME IInv, InParts, NEW t \in Active, user[t].pc = "set"
    PROVE  /\ cb[t] = <<>> /\ Issued(t) = {}
           /\ \A x \in Xact : x[1] = t => ~Listed(x) /\ thr.xact # x /\ hnd.xact # x
<1>1. user[t].part = 1
  BY DEF InParts
<1>2. refs[t] \subseteq Nat /\ 0 \in refs[t] /\ 1 \notin refs[t] /\ \A i \in refs[t] : i <= 1
  BY <1>1 DEF IInv, Types, InTurn
<1>3. cb[t] = <<>>
  BY <1>2 DEF IInv, LastCalls
<1>4. Issued(t) = {}
  BY <1>1 DEF Issued
<1>5. ASSUME NEW x \in Xact, x[1] = t PROVE ~Listed(x) /\ thr.xact # x /\ hnd.xact # x
  <2>1. x[2] \in Nat \ {0}
    BY DEF Xact
  <2>2. x[2] \notin refs[t]
    BY <1>2, <2>1
  <2> QED BY <1>5, <2>2 DEF IInv, Referred
<1> QED BY <1>3, <1>4, <1>5

\* A value is stored, by a thread that has the device for itself.
LEMMA SetData ==
    ASSUME Orderly, IInv, DInv, NEW t \in Active, Set(t)
    PROVE  DInv'
<1>1. /\ user[t].pc = "set" /\ user' = [user EXCEPT ![t].pc = "get"]
      /\ mem' = IF DOMAIN Req(t).vals = {} THEN mem
                ELSE setVal(Req(t).f, mem, Req(t).stride, Req(t).vals, Req(t).nelms, Req(t).elsz, scen.junk)
      /\ UNCHANGED <<scen, pending, thr, now, tid, net, hnd, buf, refs, err, cb>>
  BY DEF Set, aioVars
<1>2. /\ Active' = Active /\ user'[t].pc = "get" /\ user'[t].part = user[t].part
      /\ \A u \in Active \ {t} : user'[u] = user[u]
  BY <1>1, SameRequests DEF IInv, Types, UserState
<1>3. Numbers'
  <2>1. \A u \in Active : user'[u] = user[u] \/ user'[u].pc \notin {"add", "send"}
    BY <1>2
  <2>2. \A i \in DOMAIN pending' : \E j \in DOMAIN pending : pending'[i] = pending[j]
    BY <1>1
  <2> QED BY <1>1, <2>1, <2>2, NumbersKept DEF DInv
<1>4. InParts'
  BY <1>1, <1>2, InPartsKept DEF DInv
<1>5. \A u \in Active : Issued(u)' = Issued(u)
  BY <1>1, <1>2 DEF Issued
<1>6. CASE DOMAIN Req(t).vals = {}
  <2>1. mem' = mem
    BY <1>1, <1>6
  <2>2. Bytes'
    BY <1>1, <2>1 DEF DInv, Bytes
  <2>3. Carried'
    <3>1. \A i \in DOMAIN pending' : \E j \in DOMAIN pending : pending'[i] = pending[j]
      BY <1>1
    <3>2. hnd'.pc = "complete" => hnd'.data = Data(hnd'.xact[1], hnd'.xact[2])
      BY <1>1 DEF DInv, Carried
    <3> QED BY <1>1, <2>1, <3>1, <3>2, CarriedKept DEF DInv
  <2>4. Brought'
    BY <1>1, <1>5, <2>1, BroughtKept DEF DInv
  <2>5. ValueRead'
    BY <1>1, <2>1, ValuesKept DEF DInv
  <2> QED BY <1>3, <1>4, <2>2, <2>3, <2>4, <2>5 DEF DInv
<1>7. CASE DOMAIN Req(t).vals # {}
  <2>1. /\ Active = {t} /\ Within(Req(t), Len0(scen.mem)) /\ scen.junk \in Byte
        /\ Req(t).vals \in [0..(Req(t).nelms * Req(t).elsz - 1) -> Byte]
    BY <1>7, RequestsFit DEF IInv
  <2>2. Bytes'
    <3>1. Storing(Req(t), scen.junk, Len0(scen.mem))
      BY <2>1 DEF Storing, Within
    <3>2. mem \in [0..(Len0(scen.mem) - 1) -> Byte]
      BY DEF DInv, Bytes
    <3>3. mem' \in [0..(Len0(scen.mem) - 1) -> Byte]
      BY <1>1, <1>7, <3>1, <3>2, SetType
    <3> QED BY <1>1, <3>3 DEF Bytes
  <2>3. /\ cb[t] = <<>> /\ Issued(t) = {}
        /\ \A x \in Xact : x[1] = t => ~Listed(x) /\ thr.xact # x /\ hnd.xact # x
    BY <1>1, NothingYet DEF DInv
  <2>4. \A x \in Xact : ~Listed(x) /\ thr.xact # x /\ hnd.xact # x
    BY <2>1, <2>3 DEF IInv, Referred
  <2>5. DOMAIN pending = {} /\ thr.pc # "drop" /\ hnd.pc # "drop" /\ hnd.pc # "complete"
    <3>1. \A i \in DOMAIN pending : pending[i].xact \in Xact
      BY Listing DEF IInv
    <3>2. DOMAIN pending = {}
      BY <2>4, <3>1 DEF Listed
    <3> QED BY <2>4, <3>2 DEF IInv, Types, Hands
  <2>6. Carried'
    BY <1>1, <2>5 DEF Carried
  <2>7. Brought'
    <3>1. BufLen(Req(t))' = BufLen(Req(t))
      BY <1>1, SameRequests
    <3> QED BY <1>1, <1>2, <1>5, <2>1, <2>3, <2>5, <3>1 DEF Brought, DInv
  <2>8. ValueRead'
    BY <1>1, <1>2, <2>1, <2>3 DEF ValueRead
  <2> QED BY <1>3, <1>4, <2>2, <2>6, <2>7, <2>8 DEF DInv
<1> QED BY <1>6, <1>7

\* A part gets its number, which no transaction had before.
LEMMA StampData ==
    ASSUME Orderly, IInv, DInv, NEW t \in Active, Stamp(t)
    PROVE  DInv'
<1>1. /\ user[t].pc = "get" /\ tid' = tid + 1
      /\ \A u \in Active : user[u].pc \notin {"add", "send"}
      /\ user' = [user EXCEPT ![t] = [@ EXCEPT !.pc = "add", !.tid = tid + 1, !.timeout = now + Timeout]]
      /\ refs' = [refs EXCEPT ![t] = @ \union {user[t].part}]
      /\ UNCHANGED <<scen, pending, thr, now, mem, net, hnd, buf, err, cb>>
  BY DEF Stamp, aioVars
<1>2. /\ Active' = Active /\ user'[t].pc = "add" /\ user'[t].part = user[t].part /\ user'[t].tid = tid + 1
      /\ \A u \in Active \ {t} : user'[u] = user[u]
      /\ refs'[t] = refs[t] \union {user[t].part} /\ \A u \in Active \ {t} : refs'[u] = refs[u]
  BY <1>1, SameRequests DEF IInv, Types, UserState
<1>3. user[t].part \in Parts(t) /\ user[t].part \in Nat
  BY <1>1 DEF DInv, InParts, IInv, Types, UserState
<1>4. Numbers'
  <2>0. tid \in Int
    BY DEF IInv, Types
  <2>1. \A i \in DOMAIN pending : pending[i].tid \in Int /\ pending[i].tid <= tid
    BY Listing DEF IInv, Entry, DInv, Numbers
  <2>2. \A m \in net : m.tid \in Int /\ m.tid <= tid
    BY DEF DInv, Numbers
  <2>3. \A i \in DOMAIN pending : pending[i].tid <= tid + 1 /\ pending[i].tid # tid + 1
    BY <2>0, <2>1
  <2>4. \A m \in net : m.tid \in Int /\ m.tid <= tid + 1 /\ m.tid # tid + 1
    BY <2>0, <2>2
  <2> QED BY <1>1, <1>2, <2>3, <2>4 DEF Numbers
<1>5. InParts'
  BY <1>1, <1>2, <1>3, InPartsKept DEF DInv
<1>6. Carried'
  <2>1. \A i \in DOMAIN pending' : \E j \in DOMAIN pending : pending'[i] = pending[j]
    BY <1>1
  <2>2. hnd'.pc = "complete" => hnd'.data = Data(hnd'.xact[1], hnd'.xact[2])
    BY <1>1 DEF DInv, Carried
  <2> QED BY <1>1, <2>1, <2>2, CarriedKept DEF DInv
<1>7. Brought'
  <2>1. ASSUME NEW u \in Active, NEW i \in Parts(u), i \in Issued(u)' \ refs'[u]
        PROVE  i \in Issued(u) \ refs[u]
    <3>1. CASE u = t
      BY <1>1, <1>2, <2>1, <3>1 DEF Issued
    <3>2. CASE u # t
      BY <1>1, <1>2, <2>1, <3>2 DEF Issued
    <3> QED BY <3>1, <3>2
  <2> QED BY <1>1, <2>1, BroughtKept DEF DInv
<1>8. Bytes' /\ ValueRead'
  BY <1>1, ValuesKept DEF DInv, Bytes
<1> QED BY <1>4, <1>5, <1>6, <1>7, <1>8 DEF DInv

\* The transaction enters the list.
LEMMA AddData ==
    ASSUME Orderly, IInv, DInv, NEW t \in Active, Add(t)
    PROVE  DInv'
<1>e. PICK e : e = [xact |-> <<t, user[t].part>>, tid |-> user[t].tid, timeout |-> user[t].timeout]
  OBVIOUS
<1>n. PICK n : n = Len(pending)
  OBVIOUS
<1>1. /\ user[t].pc = "add" /\ user' = [user EXCEPT ![t].pc = "send"]
      /\ pending' = Append(pending, e)
      /\ thr' = [thr EXCEPT !.pc = IF pending = <<>> /\ @ = "wait" THEN "run" ELSE @]
      /\ UNCHANGED <<scen, mem, now, tid, net, hnd, buf, refs, err, cb>>
  BY <1>e DEF Add, post
<1>2. /\ Active' = Active /\ user'[t].pc = "send" /\ user'[t].part = user[t].part /\ user'[t].tid = user[t].tid
      /\ \A u \in Active \ {t} : user'[u] = user[u]
  BY <1>1, SameRequests DEF IInv, Types, UserState
<1>3. /\ user[t].tid = tid
      /\ \A u \in Active \ {t} : user[u].pc \notin {"add", "send"}
      /\ \A m \in net : m.tid # tid
      /\ \A i \in DOMAIN pending : pending[i].tid # tid
  BY <1>1 DEF DInv, Numbers
<1>4. e.xact = <<t, user[t].part>> /\ e.tid = tid
  BY <1>e, <1>3
<1>5. /\ DOMAIN pending = 1..n /\ n \in Nat /\ DOMAIN pending' = 1..(n + 1)
      /\ \A i \in 1..n : pending'[i] = pending[i]
      /\ pending'[n + 1] = e
  <2>1. pending \in Seq(Entry)
    BY DEF IInv, Types
  <2>2. e \in Entry
    BY <1>e, ActiveThreads DEF IInv, Types, UserState, Entry, Xact
  <2>3. Len(pending') = n + 1 /\ pending' \in Seq(Entry)
    BY <1>n, <1>1, <2>1, <2>2, AppendProperties
  <2> QED BY <1>n, <1>1, <2>1, <2>2, <2>3, AppendProperties, LenProperties
<1>6. \A i \in DOMAIN pending' : (i \in DOMAIN pending /\ pending'[i] = pending[i]) \/ pending'[i] = e
  BY <1>5
<1>7. Numbers'
  <2>0. tid \in Int
    BY DEF IInv, Types
  <2>1. \A i \in DOMAIN pending' : pending'[i].tid <= tid
    BY <1>4, <1>6, <2>0 DEF DInv, Numbers
  <2>2. \A i \in DOMAIN pending' : pending'[i].tid = tid => pending'[i].xact = <<t, user[t].part>>
    BY <1>3, <1>4, <1>6
  <2>3. \A m \in net : m.tid \in Int /\ m.tid <= tid
    BY DEF DInv, Numbers
  <2> QED BY <1>1, <1>2, <1>3, <2>1, <2>2, <2>3 DEF Numbers
<1>8. InParts'
  BY <1>1, <1>2, InPartsKept DEF DInv
<1>9. Carried'
  <2>1. \A u, i : Data(u, i)' = Data(u, i)
    BY <1>1, SameRequests
  <2>2. \A m \in net : \A i \in DOMAIN pending' :
            pending'[i].tid = m.tid => m.data = Data(pending'[i].xact[1], pending'[i].xact[2])
    BY <1>3, <1>4, <1>6 DEF DInv, Carried
  <2>3. hnd.pc = "complete" => hnd.data = Data(hnd.xact[1], hnd.xact[2])
    BY DEF DInv, Carried
  <2> QED BY <1>1, <2>1, <2>2, <2>3 DEF Carried
<1>10. Brought'
  <2>1. \A u \in Active : Issued(u)' = Issued(u)
    BY <1>1, <1>2 DEF Issued
  <2>2. thr'.pc = "drop" => thr' = thr
    BY <1>1 DEF IInv, Types
  <2> QED BY <1>1, <2>1, <2>2, BroughtKept DEF DInv
<1>11. Bytes' /\ ValueRead'
  BY <1>1, ValuesKept DEF DInv, Bytes
<1> QED BY <1>7, <1>8, <1>9, <1>10, <1>11 DEF DInv

\* The request is answered, perhaps: the answer has the data of the transaction
\* that has its number.
LEMMA SendData ==
    ASSUME Orderly, IInv, DInv, NEW t \in Active, Send(t)
    PROVE  DInv'
<1>p. PICK p : p = user[t].part
  OBVIOUS
<1>1. /\ user[t].pc = "send"
      /\ user' = [user EXCEPT ![t] = [pc |-> IF p + 1 \in Parts(t) THEN "get" ELSE "drop",
                                      part |-> p + 1, tid |-> 0, timeout |-> 0]]
      /\ \A m \in net' : m \in net \/ (m.tid = user[t].tid /\ m.data = Data(t, p))
      /\ UNCHANGED <<scen, mem, now, pending, thr, tid, hnd, buf, refs, err, cb>>
  BY <1>p DEF Send, aioVars
<1>2. /\ Active' = Active /\ user'[t].pc = (IF p + 1 \in Parts(t) THEN "get" ELSE "drop")
      /\ user'[t].part = p + 1
      /\ \A u \in Active \ {t} : user'[u] = user[u]
  BY <1>1, SameRequests DEF IInv, Types, UserState
<1>3. /\ user[t].tid = tid /\ tid \in Int
      /\ \A u \in Active \ {t} : user[u].pc \notin {"add", "send"}
      /\ \A i \in DOMAIN pending : pending[i].tid = tid => pending[i].xact = <<t, p>>
  BY <1>1, <1>p DEF DInv, Numbers, IInv, Types
<1>4. p \in Parts(t) /\ p \in Nat \ {0}
  BY <1>1, <1>p DEF DInv, InParts, IInv, Types, UserState
<1>5. Numbers'
  <2>1. \A m \in net' : m.tid \in Int /\ m.tid <= tid
    BY <1>1, <1>3 DEF DInv, Numbers
  <2>2. \A i \in DOMAIN pending : pending[i].tid <= tid
    BY DEF DInv, Numbers
  <2>3. \A u \in Active : user'[u].pc \notin {"add", "send"}
    BY <1>2, <1>3
  <2> QED BY <1>1, <1>2, <2>1, <2>2, <2>3 DEF Numbers
<1>6. InParts'
  <2>1. \A u : Parts(u)' = Parts(u)
    BY <1>1, SameRequests
  <2>2. p + 1 \notin Parts(t) => \A i \in Parts(t) : i < p + 1
    <3>1. Within(Req(t), Len0(scen.mem))
      BY RequestsFit DEF IInv
    <3>2. p + 1 \in Parts(t) \/ \A l \in Parts(t) : l <= p
      BY <1>4, <3>1, Layout
    <3>3. \A l \in Parts(t) : l \in Nat
      BY <3>1, Layout
    <3> QED BY <1>4, <3>2, <3>3
  <2> QED BY <1>1, <1>2, <2>1, <2>2 DEF DInv, InParts
<1>7. Carried'
  <2>1. \A u, i : Data(u, i)' = Data(u, i)
    BY <1>1, SameRequests
  <2>2. \A m \in net' : \A i \in DOMAIN pending :
            pending[i].tid = m.tid => m.data = Data(pending[i].xact[1], pending[i].xact[2])
    <3> SUFFICES ASSUME NEW m \in net', NEW i \in DOMAIN pending, pending[i].tid = m.tid
                 PROVE  m.data = Data(pending[i].xact[1], pending[i].xact[2])
      OBVIOUS
    <3>1. CASE m \in net
      BY <3>1 DEF DInv, Carried
    <3>2. CASE m.tid = user[t].tid /\ m.data = Data(t, p)
      <4>1. pending[i].xact = <<t, p>>
        BY <1>3, <3>2
      <4>2. pending[i].xact[1] = t /\ pending[i].xact[2] = p
        BY <4>1
      <4> QED BY <3>2, <4>2
    <3> QED BY <1>1, <3>1, <3>2
  <2>3. hnd.pc = "complete" => hnd.data = Data(hnd.xact[1], hnd.xact[2])
    BY DEF DInv, Carried
  <2> QED BY <1>1, <2>1, <2>2, <2>3 DEF Carried
<1>8. Brought'
  <2>1. ASSUME NEW u \in Active, NEW i \in Issued(u)' PROVE i \in Issued(u)
    <3>1. CASE u = t
      <4>1. i \in Nat \ {0} /\ i < p + 1
        BY <1>2, <1>4, <2>1, <3>1 DEF Issued
      <4>2. i < p \/ i = p
        BY <1>4, <4>1
      <4> QED BY <1>1, <1>p, <3>1, <4>1, <4>2 DEF Issued
    <3>2. CASE u # t
      BY <1>2, <2>1, <3>2 DEF Issued
    <3> QED BY <3>1, <3>2
  <2> QED BY <1>1, <2>1, BroughtKept DEF DInv
<1>9. Bytes' /\ ValueRead'
  BY <1>1, ValuesKept DEF DInv, Bytes
<1> QED BY <1>5, <1>6, <1>7, <1>8, <1>9 DEF DInv

-----------------------------------------------------------------------------
\* A step of the threads that complete transactions by which no reference goes
\* and no buffer or error changes.
LEMMA QuietStep ==
    ASSUME IInv, DInv, UNCHANGED <<scen, mem, user, tid, buf, refs, err, cb>>, net' \subseteq net,
           \A i \in DOMAIN pending' : \E j \in DOMAIN pending : pending'[i] = pending[j],
           hnd'.pc = "complete" => hnd'.data = Data(hnd'.xact[1], hnd'.xact[2]),
           hnd'.pc = "drop" => hnd' = hnd, thr'.pc = "drop" => thr' = thr
    PROVE  DInv'
<1>1. Numbers'
  BY NumbersKept DEF DInv
<1>2. Carried'
  BY CarriedKept DEF DInv
<1>3. InParts'
  BY InPartsKept DEF DInv
<1>4. Brought'
  <2>1. \A t : Issued(t)' = Issued(t)
    BY DEF Issued
  <2> QED BY <2>1, BroughtKept DEF DInv
<1>5. Bytes' /\ ValueRead'
  BY ValuesKept DEF DInv, Bytes
<1> QED BY <1>1, <1>2, <1>3, <1>4, <1>5 DEF DInv

\* What is left of the list was in it before.
LEMMA StillListed ==
    ASSUME IInv, NEW i \in DOMAIN pending
    PROVE  \A k \in DOMAIN RemoveAt(pending, i) :
               \E j \in DOMAIN pending : RemoveAt(pending, i)[k] = pending[j]
<1>r. PICK r : r = RemoveAt(pending, i)
  OBVIOUS
<1>1. pending \in Seq(Entry) /\ DOMAIN pending = 1..Len(pending) /\ Len(pending) \in Nat
  BY Listing DEF IInv, Types
<1>2. /\ DOMAIN r = 1..(Len(pending) - 1)
      /\ \A j \in DOMAIN r : r[j] = IF j < i THEN pending[j] ELSE pending[j + 1]
  BY <1>1, <1>r, TakenOff
<1>3. ASSUME NEW k \in DOMAIN r PROVE \E j \in DOMAIN pending : r[k] = pending[j]
  <2>1. k \in DOMAIN pending /\ k + 1 \in DOMAIN pending
    BY <1>1, <1>2
  <2> QED BY <1>2, <2>1
<1> QED BY <1>3, <1>r

\* An answer arrives or is lost: the data are those of the transaction it is for.
LEMMA AnswerData ==
    ASSUME IInv, DInv, NEW m \in net, Answer(m) \/ Lose(m)
    PROVE  DInv'
<1>0. UNCHANGED <<scen, mem, user, tid, buf, refs, err, cb>> /\ net' \subseteq net
  BY DEF Answer, Lose
<1>1. hnd.pc = "complete" => hnd.data = Data(hnd.xact[1], hnd.xact[2])
  BY DEF DInv, Carried
<1>2. CASE UNCHANGED <<pending, thr, hnd>>
  <2>1. \A i \in DOMAIN pending' : \E j \in DOMAIN pending : pending'[i] = pending[j]
    BY <1>2
  <2> QED BY <1>0, <1>1, <1>2, <2>1, QuietStep
<1>3. CASE Answer(m) /\ Found(m.tid) # {}
  <2>i. PICK i : i = First(m.tid)
    OBVIOUS
  <2>1. /\ pending' = RemoveAt(pending, i) /\ UNCHANGED <<now, thr>>
        /\ hnd' = [pc |-> "complete", xact |-> pending[i].xact, ok |-> m.ok, data |-> m.data]
    BY <1>3, <2>i DEF Answer, takeOff
  <2>2. i \in DOMAIN pending /\ pending[i].tid = m.tid
    BY <1>3, <2>i, FirstFound DEF IInv
  <2>3. m.data = Data(pending[i].xact[1], pending[i].xact[2])
    BY <2>2 DEF DInv, Carried
  <2>4. hnd'.pc = "complete" /\ hnd'.data = Data(hnd'.xact[1], hnd'.xact[2])
    BY <2>1, <2>3
  <2>5. \A k \in DOMAIN pending' : \E j \in DOMAIN pending : pending'[k] = pending[j]
    BY <2>1, <2>2, StillListed
  <2> QED BY <1>0, <2>1, <2>4, <2>5, QuietStep
<1> QED BY <1>2, <1>3 DEF Answer, Lose, aioVars

\* The timeout thread looks at the list, or sleeps, or time goes by.
LEMMA TimeData ==
    ASSUME IInv, DInv, TimeoutCheck \/ TimeoutWake \/ Clock \/ UNCHANGED vars
    PROVE  DInv'
<1>0. UNCHANGED <<scen, mem, user, tid, buf, refs, err, cb, net, hnd>>
  BY DEF TimeoutCheck, TimeoutWake, Clock, vars
<1>1. hnd.pc = "complete" => hnd.data = Data(hnd.xact[1], hnd.xact[2])
  BY DEF DInv, Carried
<1>2. thr'.pc = "drop" => thr' = thr
  BY DEF TimeoutCheck, Check, TimeoutWake, Wake, Clock, Tick, vars, aioVars, IInv, Types
<1>3. \A i \in DOMAIN pending' : \E j \in DOMAIN pending : pending'[i] = pending[j]
  <2>1. CASE pending' = pending
    BY <2>1
  <2>2. CASE pending # <<>> /\ pending' = Tail(pending)
    <3>1. pending \in Seq(Entry) /\ DOMAIN pending = 1..Len(pending) /\ Len(pending) \in Nat
      BY Listing DEF IInv, Types
    <3>2. /\ Tail(pending) \in Seq(Entry) /\ Len(Tail(pending)) = Len(pending) - 1
          /\ \A j \in 1..(Len(pending) - 1) : Tail(pending)[j] = pending[j + 1]
      BY <2>2, <3>1, HeadTailProperties, SMTT(60)
    <3>3. DOMAIN pending' = 1..(Len(pending) - 1)
      BY <2>2, <3>2, LenProperties
    <3>4. ASSUME NEW i \in DOMAIN pending' PROVE \E j \in DOMAIN pending : pending'[i] = pending[j]
      <4>1. i + 1 \in DOMAIN pending
        BY <3>1, <3>3
      <4> QED BY <2>2, <3>2, <3>3, <4>1
    <3> QED BY <3>4
  <2> QED BY <2>1, <2>2 DEF TimeoutCheck, Check, TimeoutWake, Wake, Clock, Tick, vars, aioVars
<1> QED BY <1>0, <1>1, <1>2, <1>3, QuietStep

-----------------------------------------------------------------------------
\* A transaction in the hands of a thread is a part of a read that is not called
\* back yet.
LEMMA HeldPart ==
    ASSUME IInv, DInv, NEW x \in Xact, thr.xact = x \/ hnd.xact = x
    PROVE  x[1] \in Active /\ x[2] \in Parts(x[1]) /\ x[2] \in refs[x[1]] /\ cb[x[1]] = <<>> /\ x[2] # 0
<1>1. x[1] \in Active /\ x[2] \in refs[x[1]] /\ x[2] # 0
  BY DEF IInv, Referred, Xact
<1> QED BY <1>1 DEF IInv, LastCalls, DInv, InParts

\* A transaction is completed: its data land in the buffer, or the error is noted.
LEMMA CompleteData ==
    ASSUME Orderly, IInv, DInv, HandlerComplete \/ TimeoutComplete
    PROVE  DInv'
<1>0. UNCHANGED <<scen, mem, user, tid, refs, cb, net, pending>>
  BY DEF HandlerComplete, TimeoutComplete, Complete, aioVars
<1>1. /\ Active' = Active /\ \A t, i : Data(t, i)' = Data(t, i)
      /\ \A t : Parts(t)' = Parts(t) /\ BufLen(Req(t))' = BufLen(Req(t)) /\ Size(t)' = Size(t)
      /\ \A t : Issued(t)' = Issued(t)
  BY <1>0, SameRequests DEF Issued
<1>2. /\ DOMAIN buf = Active /\ DOMAIN err = Active
      /\ \A t \in Active : err[t] \in BOOLEAN
      /\ \A t \in Active : cb[t] = <<>> =>
             /\ DOMAIN buf[t] = 0..(BufLen(Req(t)) - 1)
             /\ ~err[t] => \A i \in Issued(t) \ refs[t] : i \in Parts(t) => Landed(t, i)
      /\ hnd.pc = "drop" => err[hnd.xact[1]] \/ Landed(hnd.xact[1], hnd.xact[2])
      /\ thr.pc = "drop" => err[thr.xact[1]]
  BY DEF DInv, Brought
<1>3. Numbers' /\ InParts' /\ Bytes'
  <2>1. \A i \in DOMAIN pending' : \E j \in DOMAIN pending : pending'[i] = pending[j]
    BY <1>0
  <2> QED BY <1>0, <2>1, NumbersKept, InPartsKept DEF DInv, Bytes
<1>4. CASE TimeoutComplete
  <2>t. PICK t : t = thr.xact[1]
    OBVIOUS
  <2>1. /\ thr.pc = "complete" /\ thr' = [thr EXCEPT !.pc = "drop"] /\ UNCHANGED <<hnd, buf>>
        /\ err' = [err EXCEPT ![t] = @ \/ ~FALSE]
    BY <1>4, <2>t DEF TimeoutComplete, Complete
  <2>2. t \in Active
    BY <2>1, <2>t, HeldPart DEF IInv, Types, Hands
  <2>3. /\ DOMAIN err' = Active /\ err'[t] = TRUE /\ \A u \in Active \ {t} : err'[u] = err[u]
        /\ thr'.pc = "drop" /\ thr'.xact = thr.xact
    BY <1>2, <2>1, <2>2 DEF IInv, Types
  <2>4. \A u, i : Landed(u, i)' <=> Landed(u, i)
    BY <1>1, <2>1 DEF Landed
  <2>5. hnd.pc = "drop" => hnd.xact[1] \in Active
    BY HeldPart DEF IInv, Types, Hands
  <2>6. Brought'
    <3>1. \A u \in Active : err'[u] \in BOOLEAN
      BY <1>2, <2>3
    <3>2. \A u \in Active : err[u] => err'[u]
      BY <1>2, <2>3
    <3>3. hnd'.pc = "drop" => err'[hnd'.xact[1]] \/ Landed(hnd'.xact[1], hnd'.xact[2])
      BY <1>2, <2>1, <2>5, <3>2
    <3>4. thr'.pc = "drop" => err'[thr'.xact[1]]
      BY <2>3, <2>t
    <3> HIDE DEF Landed, Issued
    <3> QED BY <1>0, <1>1, <1>2, <2>1, <2>2, <2>3, <2>4, <3>1, <3>2, <3>3, <3>4 DEF Brought
  <2>7. Carried' /\ ValueRead'
    BY <1>0, <1>1, <2>1, ValuesKept DEF DInv, Carried
  <2> QED BY <1>3, <2>6, <2>7 DEF DInv
<1>5. CASE HandlerComplete
  <2>t. PICK t : t = hnd.xact[1]
    OBVIOUS
  <2>p. PICK p : p = hnd.xact[2]
    OBVIOUS
  <2>b. PICK b : b = IF hnd.ok THEN Paste(buf[t], (p - 1) * Size(t), Data(t, p)) ELSE buf[t]
    OBVIOUS
  <2>1. /\ hnd.pc = "complete" /\ hnd' = [hnd EXCEPT !.pc = "drop"] /\ UNCHANGED thr
        /\ buf' = IF hnd.ok THEN [buf EXCEPT ![t] = Paste(@, (p - 1) * Size(t), hnd.data)] ELSE buf
        /\ err' = [err EXCEPT ![t] = @ \/ ~hnd.ok]
    BY <1>5, <2>t, <2>p DEF HandlerComplete, Complete, aioVars
  <2>2. /\ hnd.xact \in Xact /\ t \in Active /\ p \in Parts(t) /\ p \in refs[t] /\ cb[t] = <<>>
        /\ hnd.data = Data(t, p)
    <3>1. hnd.xact \in Xact /\ hnd.data = Data(t, p)
      BY <2>1, <2>t, <2>p DEF IInv, Types, Hands, DInv, Carried
    <3> QED BY <2>t, <2>p, <3>1, HeldPart
  <2>3. DOMAIN buf' = Active /\ buf'[t] = b /\ \A u \in Active \ {t} : buf'[u] = buf[u]
    BY <1>2, <2>1, <2>2, <2>b
  <2>4. /\ DOMAIN err' = Active /\ \A u \in Active \ {t} : err'[u] = err[u]
        /\ err'[t] = (err[t] \/ ~hnd.ok)
    BY <1>2, <2>1, <2>2
  <2>5. err'[t] \in BOOLEAN /\ (~err'[t] => ~err[t] /\ hnd.ok) /\ (err[t] => err'[t]) /\ (~hnd.ok => err'[t])
    BY <2>4
  <2>6. hnd'.pc = "drop" /\ hnd'.xact = hnd.xact
    <3>1. hnd' = [pc |-> "drop", xact |-> hnd.xact, ok |-> hnd.ok, data |-> hnd.data]
      BY <2>1 DEF IInv, Types
    <3> QED BY <3>1
  <2>7. Within(Req(t), Len0(scen.mem)) /\ DOMAIN buf[t] = 0..(BufLen(Req(t)) - 1)
    BY <1>2, <2>2, RequestsFit DEF IInv
  <2>8. /\ DOMAIN b = 0..(BufLen(Req(t)) - 1)
        /\ hnd.ok => \A j \in DOMAIN Data(t, p) : b[(p - 1) * Size(t) + j] = Data(t, p)[j]
        /\ \A i \in Parts(t) : i # p /\ Landed(t, i) =>
               \A j \in DOMAIN Data(t, i) : b[(i - 1) * Size(t) + j] = Data(t, i)[j]
    <3>1. CASE hnd.ok
      BY <2>2, <2>7, <2>b, <3>1, Landing
    <3>2. CASE ~hnd.ok
      BY <2>7, <2>b, <3>2 DEF Landed
    <3> QED BY <3>1, <3>2
  <2>9. \A u \in Active \ {t} : \A i : Landed(u, i)' <=> Landed(u, i)
    BY <1>1, <2>3 DEF Landed
  <2>10. /\ hnd.ok => Landed(t, p)'
         /\ \A i \in Parts(t) : i # p /\ Landed(t, i) => Landed(t, i)'
    BY <1>1, <2>3, <2>8 DEF Landed
  <2>11. Brought'
    <3> HIDE DEF Landed, Issued
    <3>1. \A u \in Active : err'[u] \in BOOLEAN
      BY <1>2, <2>4, <2>5
    <3>2. ASSUME NEW u \in Active, cb'[u] = <<>>
          PROVE  /\ DOMAIN buf'[u] = 0..(BufLen(Req(u)) - 1)
                 /\ ~err'[u] => \A i \in Issued(u) \ refs[u] : i \in Parts(u) => Landed(u, i)'
      <4>1. CASE u = t
        BY <1>0, <1>2, <2>2, <2>3, <2>5, <2>8, <2>10, <4>1
      <4>2. CASE u # t
        BY <1>0, <1>2, <2>3, <2>4, <2>9, <3>2, <4>2
      <4> QED BY <4>1, <4>2
    <3>3. err'[hnd'.xact[1]] \/ Landed(t, p)'
      BY <2>5, <2>6, <2>10, <2>t
    <3>4. thr'.pc = "drop" => err'[thr'.xact[1]]
      <4>1. thr.pc = "drop" => thr.xact[1] \in Active
        BY HeldPart DEF IInv, Types, Hands
      <4> QED BY <1>2, <2>1, <2>4, <2>5, <4>1
    <3>5. Landed(t, p)' => Landed(hnd.xact[1], hnd.xact[2])'
      BY <2>6, <2>t, <2>p
    <3> QED BY <1>0, <1>1, <2>3, <2>4, <2>6, <3>1, <3>2, <3>3, <3>4, <3>5, <2>t, <2>p DEF Brought
  <2>12. Carried'
    BY <1>0, <1>1, <2>6 DEF DInv, Carried
  <2>13. ValueRead'
    <3>1. \A u \in Active : cb'[u] = <<FALSE>> => cb[u] = <<FALSE>> /\ buf'[u] = buf[u]
      BY <1>0, <2>2, <2>3
    <3> QED BY <1>0, <3>1, ValuesKept DEF DInv
  <2> QED BY <1>3, <2>11, <2>12, <2>13 DEF DInv
<1> QED BY <1>4, <1>5

-----------------------------------------------------------------------------
\* A reference of t goes, that of the thread when it has issued all parts, or that
\* of a part that has landed or failed.  With the last one the values are there.
LEMMA DropData ==
    ASSUME Orderly, IInv, DInv, NEW t \in Active, NEW i \in refs[t], Drop(t, i),
           \/ i = 0 /\ user[t].pc = "drop"
           \/ i # 0 /\ (err[t] \/ Landed(t, i)),
           \A u \in Active : user'[u].part = user[u].part
                             /\ (user'[u] = user[u] \/ (user[u].pc = "drop" /\ user'[u].pc = "done")),
           UNCHANGED pending,
           hnd'.pc # "complete" \/ hnd' = hnd,
           hnd'.pc # "drop" \/ (hnd' = hnd /\ hnd.xact \in Xact /\ hnd.xact # <<t, i>>),
           thr'.pc # "drop" \/ thr' = thr
    PROVE  DInv'
<1>0. /\ refs' = [refs EXCEPT ![t] = @ \ {i}] /\ UNCHANGED <<scen, mem, tid, net, err>>
      /\ cb' = IF refs[t] \ {i} # {} THEN cb ELSE [cb EXCEPT ![t] = Append(@, err[t])]
      /\ buf' = IF refs[t] \ {i} # {} \/ err[t] THEN buf
                ELSE [buf EXCEPT ![t] = doComplete(Req(t).f, buf[t], Req(t).nelms, Req(t).elsz)]
  BY DEF Drop
<1>1. /\ Active' = Active /\ \A u, l : Data(u, l)' = Data(u, l)
      /\ \A u : Parts(u)' = Parts(u) /\ BufLen(Req(u))' = BufLen(Req(u)) /\ Size(u)' = Size(u) /\ Req(u)' = Req(u)
  BY <1>0, SameRequests
<1>2. /\ DOMAIN buf = Active /\ DOMAIN err = Active
      /\ \A u \in Active : err[u] \in BOOLEAN
      /\ \A u \in Active : cb[u] = <<>> =>
             /\ DOMAIN buf[u] = 0..(BufLen(Req(u)) - 1)
             /\ ~err[u] => \A l \in Issued(u) \ refs[u] : l \in Parts(u) => Landed(u, l)
      /\ hnd.pc = "drop" => err[hnd.xact[1]] \/ Landed(hnd.xact[1], hnd.xact[2])
      /\ thr.pc = "drop" => err[thr.xact[1]]
  BY DEF DInv, Brought
<1>3. \A u \in Active : Issued(u)' = Issued(u)
  BY <1>1 DEF Issued
<1>4. Numbers' /\ InParts' /\ Bytes'
  <2>1. \A l \in DOMAIN pending' : \E j \in DOMAIN pending : pending'[l] = pending[j]
    OBVIOUS
  <2>2. \A u \in Active : user'[u] = user[u] \/ user'[u].pc \notin {"add", "send"}
    OBVIOUS
  <2>3. \A u \in Active : refs'[u] \subseteq refs[u]
    BY <1>0 DEF IInv, Types
  <2>4. Numbers'
    BY <1>0, <2>1, <2>2, NumbersKept DEF DInv
  <2>5. InParts'
    BY <1>0, <2>3, InPartsKept DEF DInv
  <2> QED BY <1>0, <2>4, <2>5 DEF DInv, Bytes
<1>5. Carried'
  BY <1>0, <1>1 DEF DInv, Carried
<1>6. /\ refs'[t] = refs[t] \ {i} /\ \A u \in Active \ {t} : refs'[u] = refs[u]
      /\ cb[t] = <<>> /\ \A u \in Active \ {t} : cb'[u] = cb[u] /\ buf'[u] = buf[u]
      /\ DOMAIN buf' = Active
  BY <1>0, <1>2 DEF IInv, Types, LastCalls
<1>7. \A u \in Active \ {t} : \A l : Landed(u, l)' <=> Landed(u, l)
  BY <1>1, <1>6 DEF Landed
<1>8. thr'.pc = "drop" => err'[thr'.xact[1]]
  BY <1>0, <1>2
<1>9. ASSUME hnd'.pc = "drop"
      PROVE  hnd' = hnd /\ hnd.xact[1] \in Active /\ (hnd.xact[1] = t => refs[t] \ {i} # {})
  <2>1. hnd' = hnd /\ hnd.xact \in Xact /\ hnd.xact # <<t, i>>
    BY <1>9
  <2>2. hnd.xact[1] \in Active /\ hnd.xact[2] \in refs[hnd.xact[1]]
    BY <2>1, HeldPart
  <2>3. hnd.xact = <<hnd.xact[1], hnd.xact[2]>>
    BY <2>1 DEF Xact
  <2> QED BY <2>1, <2>2, <2>3
<1>10. CASE refs[t] \ {i} # {}
  <2>1. cb' = cb /\ buf' = buf
    BY <1>0, <1>10
  <2>2. \A u, l : Landed(u, l)' <=> Landed(u, l)
    BY <1>1, <2>1 DEF Landed
  <2>3. Brought'
    <3> HIDE DEF Landed, Issued
    <3>1. ASSUME NEW u \in Active, cb[u] = <<>>, ~err[u], NEW l \in Issued(u) \ refs'[u], l \in Parts(u)
          PROVE  Landed(u, l)
      <4>1. CASE l \notin refs[u]
        BY <1>2, <3>1, <4>1
      <4>2. CASE l \in refs[u]
        <5>1. u = t /\ l = i
          BY <1>6, <3>1, <4>2
        <5>2. l # 0
          BY <3>1 DEF Issued
        <5> QED BY <3>1, <5>1, <5>2
      <4> QED BY <4>1, <4>2
    <3> QED BY <1>0, <1>1, <1>2, <1>3, <1>8, <1>9, <2>1, <2>2, <3>1 DEF Brought
  <2>4. ValueRead'
    BY <1>0, <2>1, ValuesKept DEF DInv
  <2> QED BY <1>4, <1>5, <2>3, <2>4 DEF DInv
<1>11. CASE refs[t] \ {i} = {}
  <2>1. cb'[t] = <<err[t]>>
    BY <1>0, <1>6, <1>11 DEF IInv, Types
  <2>2. cb'[t] # <<>>
    BY <2>1
  <2>3. Brought'
    <3> HIDE DEF Landed, Issued
    <3>1. hnd'.pc = "drop" => err'[hnd'.xact[1]] \/ Landed(hnd.xact[1], hnd.xact[2])'
      BY <1>0, <1>2, <1>7, <1>9, <1>11
    <3>2. \A u \in Active : cb'[u] = <<>> => u # t
      BY <2>2
    <3> QED BY <1>0, <1>1, <1>2, <1>3, <1>6, <1>7, <1>8, <3>1, <3>2 DEF Brought
  <2>4. ASSUME cb'[t] = <<FALSE>>, NEW k \in 0..(Req(t).nelms - 1)
        PROVE  Window(buf'[t], k * Req(t).elsz, Req(t).elsz)
                   = ToBytes(FieldValue(Req(t).f, Window(mem, k * Req(t).stride, Size(t))), Req(t).elsz)
    <3>1. ~err[t]
      <4>1. \A a, b : <<a>> = <<b>> => a = b
        OBVIOUS
      <4>2. <<err[t]>> = <<FALSE>>
        BY <2>1, <2>4
      <4>3. err[t] = FALSE
        BY <4>1, <4>2, Zenon
      <4> QED BY <4>3
    <3>2. buf'[t] = doComplete(Req(t).f, buf[t], Req(t).nelms, Req(t).elsz)
      BY <1>0, <1>2, <1>11, <3>1
    <3>3. ASSUME NEW l \in Parts(t) PROVE Landed(t, l)
      <4>0. Within(Req(t), Len0(scen.mem))
        BY RequestsFit DEF IInv
      <4>1. l \in Nat \ {0}
        BY <4>0, Layout
      <4>2. CASE l \in refs[t]
        BY <1>11, <3>1, <4>1, <4>2
      <4>3. CASE l \notin refs[t]
        <5>1. user[t].pc \in {"drop", "done"}
          BY <1>11 DEF IInv, InTurn
        <5>2. l < user[t].part
          BY <5>1 DEF DInv, InParts
        <5>3. l \in Issued(t)
          BY <4>1, <5>2 DEF Issued
        <5> QED BY <1>2, <1>6, <3>1, <4>3, <5>3
      <4> QED BY <4>2, <4>3
    <3>4. /\ Within(Req(t), Len0(scen.mem)) /\ mem \in [0..(Len0(scen.mem) - 1) -> Byte]
          /\ DOMAIN buf[t] = 0..(BufLen(Req(t)) - 1)
      BY <1>2, <1>6, RequestsFit DEF IInv, DInv, Bytes
    <3>5. /\ Input(Req(t).f, buf[t], Req(t).nelms, Req(t).elsz)
          /\ Window(buf[t], k * Size(t), Size(t)) = Window(mem, k * Req(t).stride, Size(t))
      BY <2>4, <3>3, <3>4, Delivered
    <3>6. Window(doComplete(Req(t).f, buf[t], Req(t).nelms, Req(t).elsz), k * Req(t).elsz, Req(t).elsz)
              = ToBytes(FieldValue(Req(t).f, Window(buf[t], k * Size(t), Size(t))), Req(t).elsz)
      BY <3>5, Converted DEF Size
    <3> QED BY <3>2, <3>5, <3>6
  <2>5. ValueRead'
    <3>1. ASSUME NEW u \in Active, cb'[u] = <<FALSE>>, NEW k \in 0..(Req(u).nelms - 1)
          PROVE  Window(buf'[u], k * Req(u).elsz, Req(u).elsz)
                     = ToBytes(FieldValue(Req(u).f, Window(mem, k * Req(u).stride, Size(u))), Req(u).elsz)
      <4>1. CASE u = t
        BY <2>4, <3>1, <4>1
      <4>2. CASE u # t
        BY <1>6, <3>1, <4>2 DEF DInv, ValueRead
      <4> QED BY <4>1, <4>2
    <3> QED BY <1>0, <1>1, <3>1 DEF ValueRead
  <2> QED BY <1>4, <1>5, <2>3, <2>5 DEF DInv
<1> QED BY <1>10, <1>11

\* The three threads that may give up a reference.
LEMMA DropsData ==
    ASSUME Orderly, IInv, DInv, HandlerDrop \/ TimeoutDrop \/ \E t \in Active : Return(t)
    PROVE  DInv'
<1>1. CASE HandlerDrop
  <2>x. PICK x : x = hnd.xact
    OBVIOUS
  <2>1. /\ hnd.pc = "drop" /\ Drop(x[1], x[2]) /\ hnd' = HandlerIdle
        /\ UNCHANGED <<pending, thr, user>>
    BY <1>1, <2>x DEF HandlerDrop, aioVars
  <2>2. x \in Xact
    BY <2>1, <2>x DEF IInv, Types, Hands
  <2>3. x[1] \in Active /\ x[2] \in refs[x[1]] /\ x[2] # 0 /\ (err[x[1]] \/ Landed(x[1], x[2]))
    BY <2>1, <2>2, <2>x, HeldPart DEF DInv, Brought
  <2>4. hnd'.pc = "pop"
    BY <2>1 DEF HandlerIdle
  <2> HIDE DEF Landed
  <2> QED BY <2>1, <2>3, <2>4, DropData
<1>2. CASE TimeoutDrop
  <2>x. PICK x : x = thr.xact
    OBVIOUS
  <2>1. /\ thr.pc = "drop" /\ Drop(x[1], x[2]) /\ thr' = [thr EXCEPT !.pc = "run", !.xact = NoXact]
        /\ UNCHANGED <<pending, hnd, user>>
    BY <1>2, <2>x DEF TimeoutDrop
  <2>2. x \in Xact /\ x = <<x[1], x[2]>>
    BY <2>1, <2>x DEF IInv, Types, Hands, Xact
  <2>3. x[1] \in Active /\ x[2] \in refs[x[1]] /\ x[2] # 0 /\ err[x[1]]
    BY <2>1, <2>2, <2>x, HeldPart DEF DInv, Brought
  <2>4. thr'.pc = "run"
    BY <2>1 DEF IInv, Types
  <2>5. hnd.pc = "drop" => hnd.xact \in Xact /\ hnd.xact # <<x[1], x[2]>>
    BY <2>2, <2>x DEF IInv, Types, Hands, OnePlace
  <2> HIDE DEF Landed
  <2> QED BY <2>1, <2>3, <2>4, <2>5, DropData
<1>3. ASSUME NEW t \in Active, Return(t) PROVE DInv'
  <2>1. /\ user[t].pc = "drop" /\ user' = [user EXCEPT ![t].pc = "done"] /\ Drop(t, 0)
        /\ UNCHANGED <<pending, thr, hnd>>
    BY <1>3 DEF Return, aioVars
  <2>2. 0 \in refs[t]
    BY <2>1 DEF IInv, InTurn
  <2>3. /\ user'[t].pc = "done" /\ user'[t].part = user[t].part
        /\ \A u \in Active \ {t} : user'[u] = user[u]
    BY <2>1 DEF IInv, Types, UserState
  <2>4. hnd.pc = "drop" => hnd.xact \in Xact /\ hnd.xact # <<t, 0>>
    BY DEF IInv, Types, Hands, Xact
  <2>5. \A u \in Active : user'[u].part = user[u].part
                          /\ (user'[u] = user[u] \/ (user[u].pc = "drop" /\ user'[u].pc = "done"))
    BY <2>1, <2>3
  <2> HIDE DEF Landed
  <2> QED BY <2>1, <2>2, <2>4, <2>5, DropData
<1> QED BY <1>1, <1>2, <1>3

-----------------------------------------------------------------------------
\* The invariant holds at the start.
LEMMA InitiallyData == Orderly /\ Init => DInv
<1> SUFFICES ASSUME Orderly, Init PROVE DInv
  OBVIOUS
<1>0. /\ scen \in Scenarios /\ mem = scen.mem /\ pending = <<>> /\ net = {}
      /\ user = [t \in Active |-> [pc |-> "set", part |-> 1, tid |-> 0, timeout |-> 0]]
      /\ hnd.pc = "pop" /\ thr.pc = "run"
      /\ buf = [t \in Active |-> [i \in 0..(BufLen(Req(t)) - 1) |-> 0]]
      /\ refs = [t \in Active |-> {0}]
      /\ err = [t \in Active |-> FALSE]
      /\ cb = [t \in Active |-> <<>>]
  BY DEF Init, AioInit, HandlerIdle
<1>1. Types
  BY Initially DEF IInv
<1>2. Bytes
  BY <1>0 DEF Orderly, Bytes
<1>3. Numbers /\ Carried
  BY <1>0 DEF Numbers, Carried
<1>4. InParts
  <2>1. \A t \in Active : 1 \in Parts(t)
    BY <1>1, RequestsFit, Layout
  <2> QED BY <1>0, <2>1 DEF InParts
<1>5. Brought
  <2>1. \A t \in Active : Issued(t) = {}
    BY <1>0 DEF Issued
  <2> QED BY <1>0, <2>1 DEF Brought
<1>6. ValueRead
  <2>1. \A t \in Active : cb[t] # <<FALSE>>
    BY <1>0
  <2> QED BY <2>1 DEF ValueRead
<1> QED BY <1>2, <1>3, <1>4, <1>5, <1>6 DEF DInv

\* Every step keeps it.
LEMMA InductiveData == Orderly /\ IInv /\ DInv /\ [Next]_vars => DInv'
<1> SUFFICES ASSUME Orderly, IInv, DInv, [Next]_vars PROVE DInv'
  OBVIOUS
<1>1. CASE HandlerStep
  BY <1>1, CompleteData, DropsData DEF HandlerStep
<1>2. CASE TimeoutStep \/ Clock \/ UNCHANGED vars
  BY <1>2, CompleteData, DropsData, TimeData DEF TimeoutStep
<1>3. ASSUME NEW t \in Active, UserStep(t) PROVE DInv'
  BY <1>3, SetData, StampData, AddData, SendData, DropsData DEF UserStep
<1>4. ASSUME NEW m \in net, Answer(m) \/ Lose(m) PROVE DInv'
  BY <1>4, AnswerData
<1> QED BY <1>1, <1>2, <1>3, <1>4 DEF Next

\* A read that is reported to be good has brought the values of all elements,
\* whatever was lost, late or timed out: for entries of any size, position, sign,
\* byte order and word order, arrays of any length and stride, integers of any
\* size and bytes of any number of bits.
THEOREM ValuesRight == Orderly => (Spec => []ValueRead)
<1>1. SUFFICES ASSUME Orderly PROVE Spec => []ValueRead
  OBVIOUS
<1>2. Init => IInv /\ DInv
  BY <1>1, Initially, InitiallyData
<1>3. IInv /\ DInv /\ [Next]_vars => (IInv /\ DInv)'
  BY <1>1, Inductive, InductiveData
<1>4. DInv => ValueRead
  BY DEF DInv
<1> QED BY <1>2, <1>3, <1>4, PTL DEF Spec

-----------------------------------------------------------------------------
(* The memory after setVal().                                              *)

\* Nothing is stored before the call of setVal(), everything after it.
Unwritten(t) == mem = scen.mem
Written(t)   == StoredSoFar(Req(t), scen.mem, Len0(scen.mem), Req(t).nelms, mem)
WInv ==
    \A t \in Active : DOMAIN Req(t).vals # {} => IF user[t].pc = "set" THEN Unwritten(t) ELSE Written(t)

\* It is what WriteKeeps says.
LEMMA WInvKeeps == DInv /\ WInv => WriteKeeps
<1> SUFFICES ASSUME DInv, WInv PROVE WriteKeeps
  OBVIOUS
<1>1. DOMAIN mem = 0..(Len0(scen.mem) - 1)
  BY DEF DInv, Bytes
<1>2. ASSUME NEW t \in Active, user[t].pc # "set", DOMAIN Req(t).vals # {} PROVE Written(t)
  BY <1>2 DEF WInv
<1> QED BY <1>1, <1>2 DEF WriteKeeps, Written, StoredSoFar, OldAt, ValAt, Meant, Size

\* setVal() of t.
LEMMA SetWrites ==
    ASSUME Orderly, Apart, IInv, DInv, WInv, NEW t \in Active, Set(t)
    PROVE  WInv'
<1>1. /\ user[t].pc = "set" /\ user' = [user EXCEPT ![t].pc = "get"]
      /\ mem' = IF DOMAIN Req(t).vals = {} THEN mem
                ELSE setVal(Req(t).f, mem, Req(t).stride, Req(t).vals, Req(t).nelms, Req(t).elsz, scen.junk)
      /\ UNCHANGED scen
  BY DEF Set
<1>2. Active' = Active /\ (\A u : Req(u)' = Req(u)) /\ user'[t].pc = "get"
  BY <1>1 DEF Active, Req, IInv, Types, UserState
<1>3. CASE DOMAIN Req(t).vals = {}
  <2>1. \A u \in Active : DOMAIN Req(u).vals = {}
    <3> SUFFICES ASSUME NEW u \in Active, DOMAIN Req(u).vals # {} PROVE FALSE
      OBVIOUS
    <3>1. Active = {u}
      BY RequestsFit DEF IInv
    <3> QED BY <1>3, <3>1
  <2> QED BY <1>2, <2>1 DEF WInv
<1>4. CASE DOMAIN Req(t).vals # {}
  <2>q. PICK q : q = Req(t)
    OBVIOUS
  <2>M. PICK M : M = Len0(scen.mem)
    OBVIOUS
  <2>1. /\ Active = {t} /\ Within(q, M) /\ scen.junk \in Byte /\ scen.mem \in [0..(M - 1) -> Byte]
        /\ q.vals \in [0..(q.nelms * q.elsz - 1) -> Byte]
    BY <1>4, <2>q, <2>M, RequestsFit DEF IInv
  <2>2. computeSize(q.f) <= q.stride
    BY <1>4, <2>q DEF Apart, IInv, Types, Active, Req
  <2>3. Separate(q, scen.junk, M)
    BY <2>1, <2>2 DEF Separate, Storing, Within
  <2>4. mem = scen.mem
    BY <1>1, <1>4 DEF WInv, Unwritten
  <2>5. mem' = setVal(q.f, scen.mem, q.stride, q.vals, q.nelms, q.elsz, scen.junk)
    BY <1>1, <1>4, <2>4, <2>q
  <2>6. StoredSoFar(q, scen.mem, M, q.nelms, mem')
    BY <2>1, <2>3, <2>5, StoredAll
  <2>7. Written(t)'
    BY <1>1, <1>2, <2>6, <2>q, <2>M DEF Written
  <2> QED BY <1>2, <2>1, <2>7 DEF WInv
<1> QED BY <1>3, <1>4

\* All other steps leave the memory alone.
LEMMA OthersKeep ==
    ASSUME IInv, WInv, UNCHANGED <<scen, mem>>,
           \A u \in Active : user'[u] = user[u] \/ (user[u].pc # "set" /\ user'[u].pc # "set")
    PROVE  WInv'
<1>1. Active' = Active /\ \A u : Req(u)' = Req(u)
  BY DEF Active, Req
<1>2. \A u : (Unwritten(u)' <=> Unwritten(u)) /\ (Written(u)' <=> Written(u))
  BY <1>1 DEF Unwritten, Written
<1> QED BY <1>1, <1>2 DEF WInv

\* The memory holds what WInv says after every step.
LEMMA InductiveWrites == Orderly /\ Apart /\ IInv /\ DInv /\ WInv /\ [Next]_vars => WInv'
<1> SUFFICES ASSUME Orderly, Apart, IInv, DInv, WInv, [Next]_vars PROVE WInv'
  OBVIOUS
<1>0. user \in [Active -> UserState]
  BY DEF IInv, Types
<1>1. CASE HandlerStep \/ TimeoutStep \/ Clock \/ UNCHANGED vars
  <2>1. UNCHANGED <<scen, mem, user>>
    BY <1>1 DEF HandlerStep, TimeoutStep, Clock, HandlerComplete, HandlerDrop, TimeoutCheck, TimeoutWake,
                TimeoutComplete, TimeoutDrop, Complete, Drop, vars
  <2> QED BY <2>1, OthersKeep
<1>2. ASSUME NEW t \in Active, UserStep(t) PROVE WInv'
  <2>1. CASE Set(t)
    BY <2>1, SetWrites
  <2>2. CASE Stamp(t)
    <3>1. /\ UNCHANGED <<scen, mem>> /\ user[t].pc = "get"
          /\ user' = [user EXCEPT ![t] = [@ EXCEPT !.pc = "add", !.tid = tid + 1, !.timeout = now + Timeout]]
      BY <2>2 DEF Stamp
    <3>2. user'[t].pc = "add" /\ \A u \in Active \ {t} : user'[u] = user[u]
      BY <1>0, <3>1 DEF UserState
    <3> QED BY <3>1, <3>2, OthersKeep
  <2>3. CASE Add(t)
    <3>1. UNCHANGED <<scen, mem>> /\ user[t].pc = "add" /\ user' = [user EXCEPT ![t].pc = "send"]
      BY <2>3 DEF Add
    <3>2. user'[t].pc = "send" /\ \A u \in Active \ {t} : user'[u] = user[u]
      BY <1>0, <3>1 DEF UserState
    <3> QED BY <3>1, <3>2, OthersKeep
  <2>4. CASE Send(t)
    <3>p. PICK p : p = IF user[t].part + 1 \in Parts(t) THEN "get" ELSE "drop"
      OBVIOUS
    <3>1. /\ UNCHANGED <<scen, mem>> /\ user[t].pc = "send"
          /\ user' = [user EXCEPT ![t] = [pc |-> p, part |-> @.part + 1, tid |-> 0, timeout |-> 0]]
      BY <2>4, <3>p DEF Send
    <3>2. user'[t].pc = p /\ p # "set" /\ \A u \in Active \ {t} : user'[u] = user[u]
      BY <1>0, <3>1, <3>p
    <3> QED BY <3>1, <3>2, OthersKeep
  <2>5. CASE Return(t)
    <3>1. UNCHANGED <<scen, mem>> /\ user[t].pc = "drop" /\ user' = [user EXCEPT ![t].pc = "done"]
      BY <2>5 DEF Return, Drop
    <3>2. user'[t].pc = "done" /\ \A u \in Active \ {t} : user'[u] = user[u]
      BY <1>0, <3>1 DEF UserState
    <3> QED BY <3>1, <3>2, OthersKeep
  <2> QED BY <1>2, <2>1, <2>2, <2>3, <2>4, <2>5 DEF UserStep
<1>3. ASSUME NEW m \in net, Answer(m) \/ Lose(m) PROVE WInv'
  <2>1. UNCHANGED <<scen, mem, user>>
    BY <1>3 DEF Answer, Lose
  <2> QED BY <2>1, OthersKeep
<1> QED BY <1>1, <1>2, <1>3 DEF Next

\* setVal() stores every value in the bits of its entry and leaves all other bits
\* of the memory as they were, for entries of any size, position, sign, byte order
\* and word order, arrays of any length whose elements do not overlap, integers of
\* any size and bytes of any number of bits; and no later step of a read changes
\* the memory.
THEOREM WritesRight == Orderly /\ Apart => (Spec => []WriteKeeps)
<1>1. SUFFICES ASSUME Orderly, Apart PROVE Spec => []WriteKeeps
  OBVIOUS
<1>2. Init => WInv
  BY DEF Init, WInv, Unwritten, Active
<1>3. Init => IInv /\ DInv /\ WInv
  BY <1>1, <1>2, Initially, InitiallyData
<1>4. IInv /\ DInv /\ WInv /\ [Next]_vars => (IInv /\ DInv /\ WInv)'
  BY <1>1, Inductive, InductiveData, InductiveWrites
<1>5. IInv /\ DInv /\ WInv => WriteKeeps
  BY WInvKeeps
<1> QED BY <1>3, <1>4, <1>5, PTL DEF Spec
==============================================================================
