----------------------------- MODULE MCSession -----------------------------
(* Instances of Session small enough for TLC.                              *)
EXTENDS Session

MCDefaultViewport == [width |-> 800, height |-> 600, scale |-> 1]

(* `out`, `drawn` and `attached` are written by every command and read by  *)
(* none, so two states that differ in them only have the same future.  A   *)
(* run takes states apart by the part of them its properties read.         *)
WithAttached == <<counters, pages, store, attached>>
WithDrawn == <<counters, pages, store, drawn>>
=============================================================================
