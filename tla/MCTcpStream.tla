----------------------------- MODULE MCTcpStream -----------------------------
(* One connection, so socket 1 is that of the client.                      *)
EXTENDS TcpStream

ASSUME OneConnection
=============================================================================
