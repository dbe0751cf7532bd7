--------------------------- MODULE MCSessionClient ---------------------------
(* A tab with one request or two under way.                                  *)
EXTENDS SessionClient, TLC

CONSTANTS c1, c2
=============================================================================
