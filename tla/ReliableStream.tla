--------------------------- MODULE ReliableStream ---------------------------
(***************************************************************************)
(* What RSSI promises to the users at the two ends of a link: in each      *)
(* direction a stream that neither loses, nor repeats, nor reorders data.  *)
(* Data is lost only when an end that has gone down starts over: what it   *)
(* had received and its user had not read is gone, and what it had sent    *)
(* becomes frail: it may still arrive, in order and once, or never.        *)
(***************************************************************************)
EXTENDS Naturals, Sequences

CONSTANTS End, Peer(_)

VARIABLES sent,   \* [End -> how many payloads this user has pushed: 1, 2, ...]
          got,    \* [End -> the payloads this user has popped, one after the other]
          q,      \* [End -> payloads on their way to the user at this end]
          frail,  \* [End -> those of them that may get lost]
          up      \* [End -> is this end up?]
vars == <<sent, got, q, frail, up>>

Init == /\ sent = [e \in End |-> 0]
        /\ got = [e \in End |-> <<>>]
        /\ q = [e \in End |-> <<>>]
        /\ frail = [e \in End |-> {}]
        /\ up = [e \in End |-> FALSE]

Elements(s) == {s[i] : i \in DOMAIN s}
Without(s, lost) == LET stays(p) == p \notin lost IN SelectSeq(s, stays)

\* The user's next payload goes to the end of the stream.
Push(e) ==
    /\ up[e]
    /\ sent' = [sent EXCEPT ![e] = @ + 1]
    /\ q' = [q EXCEPT ![Peer(e)] = Append(@, sent'[e])]
    /\ UNCHANGED <<got, frail, up>>

\* The user gets what is at the head, and nothing else.
Read(e) ==
    /\ q[e] # <<>>
    /\ got' = [got EXCEPT ![e] = Append(@, Head(q[e]))]
    /\ Head(q[e]) \notin frail[e]
    /\ q' = [q EXCEPT ![e] = Tail(@)]
    /\ UNCHANGED <<sent, frail, up>>

\* Some frail payloads are lost, others arrive.
Settle(e) ==
    /\ frail[e] # {}
    /\ \E lost \in SUBSET frail[e] : \E arrived \in SUBSET frail[e] :
          /\ q' = [q EXCEPT ![e] = Without(@, lost)]
          /\ frail' = [frail EXCEPT ![e] = @ \ (lost \cup arrived)]
    /\ UNCHANGED <<sent, got, up>>

GoDown(e) == up' = [up EXCEPT ![e] = FALSE] /\ UNCHANGED <<sent, got, q, frail>>

\* The n payloads at hand, and maybe some frail ones, are gone; what e has sent
\* is lost or at risk.
StartOver(e) ==
    /\ ~up[e]
    /\ up' = [up EXCEPT ![e] = TRUE]
    /\ \E n \in 0..Len(q[e]) : \E strays \in SUBSET frail[e] :
       \E lost \in SUBSET Elements(q[Peer(e)]) :
       \E atRisk \in SUBSET (Elements(q[Peer(e)]) \ lost) :
         LET gone == strays \cup Elements(SubSeq(q[e], 1, n))
         IN  /\ q' = [q EXCEPT ![e] = Without(@, gone), ![Peer(e)] = Without(@, lost)]
             /\ frail' = [frail EXCEPT ![e] = @ \ gone,
                                       ![Peer(e)] = (@ \ lost) \cup atRisk]
    /\ UNCHANGED <<sent, got>>

Next ==
    \E e \in End :
        \/ Push(e) \/ Read(e) \/ Settle(e) \/ GoDown(e) \/ StartOver(e)

Spec == Init /\ [][Next]_vars
=============================================================================
