---------------------------- MODULE MCRandomDev ----------------------------
(* A small instance of RandomDev for TLC.                                  *)
EXTENDS RandomDev
=============================================================================
