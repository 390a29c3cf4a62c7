------------------------------- MODULE MCServer -------------------------------
(* The server with three client connections over a pool of two.            *)
EXTENDS Server
=============================================================================
