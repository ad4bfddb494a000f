---------------------------- MODULE MCWebsocket ----------------------------
(***************************************************************************)
(* WebsocketServer with a few connections.  They are interchangeable.      *)
(***************************************************************************)
EXTENDS WebsocketServer, TLC

Symmetry == Permutations(Conn)
=============================================================================
