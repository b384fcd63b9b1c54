------------------------------ MODULE MCTcpConn ------------------------------
(* TcpConn with a send buffer of five units, which holds one message of three  *)
(* or two of two: they wrap, fill it up and have to wait for room.             *)
EXTENDS TcpConn

MCBodyLens == {1, 2}
=============================================================================
