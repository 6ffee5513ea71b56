----------------------------- MODULE MCRssiNode -----------------------------
(***************************************************************************)
(* Instances of RssiNode for TLC: a client, which may send two segments    *)
(* ahead, or a server, which may send one; both receive through a window   *)
(* of two segments.                                                        *)
(***************************************************************************)
EXTENDS RssiNode

VARIABLE role   \* "server" or "client", for good

NarrowPar == {[ossMX |-> 1, rexMX |-> 1, cakMX |-> 1]}
WidePar   == {[ossMX |-> 2, rexMX |-> 1, cakMX |-> 1]}

\* The constants of the cfg are the client's.
Server == INSTANCE RssiNode WITH IsServer <- TRUE, PeerPar <- NarrowPar

EitherInit == role \in {"client", "server"} /\ IF role = "client" THEN Init ELSE Server!Init
EitherNext == \/ role = "client" /\ Next /\ UNCHANGED role
              \/ role = "server" /\ Server!Next /\ UNCHANGED role
EitherSpec == EitherInit /\ [][EitherNext]_<<vars, role>>

\* What waits at the head of a client's reassembly buffer is drained when the user
\* has made room (drainReassembleBuffer(), handleUsrOutputEvent()).
ClientDrains == role = "client" => OutputFlows
=============================================================================
