---------------------------- MODULE MCAuthQueue ----------------------------
(***************************************************************************)
(* The authentication queue for TLC.  A client is authenticated once and   *)
(* leaves once, so the number of clients bounds the length of the queue.   *)
(* With MaxPending 0 any waiting client makes the queue too long for the   *)
(* next listener.                                                          *)
(***************************************************************************)
EXTENDS AuthQueue

CONSTANTS c1, c2, c3, h1, h2

ThreeClients == {c1, c2, c3}
TwoHandlers == {h1, h2}
=============================================================================
