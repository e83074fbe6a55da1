---------------------------- MODULE MCTcpSockets ----------------------------
(* Web clients are alike.                                                  *)
EXTENDS TcpSockets, TLC

Symmetric == Permutations(WebPeers)
=============================================================================
