----------------------------- MODULE MCBookFlow -----------------------------
(* A book that moves and moves back, the io thread and one poller.           *)
EXTENDS BookFlow

CONSTANTS x, y
MCSigOf == <<x, y>>
=============================================================================
