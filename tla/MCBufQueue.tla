----------------------------- MODULE MCBufQueue -----------------------------
(* The instance of BufQueue for TLC; its constants are in queue.cfg.         *)
EXTENDS BufQueue
=============================================================================
