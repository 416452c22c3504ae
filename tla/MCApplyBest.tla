---------------------------- MODULE MCApplyBest ----------------------------
(***************************************************************************)
(* Constant values for TLC.                                                *)
(***************************************************************************)
EXTENDS ApplyBest

TwoKnobs == {"shared_buffers", "work_mem"}
OneStatic == {"shared_buffers"}
Old == [k \in Knob |-> "old"]
AsWritten == [v \in Value |-> v]

(* Test and activation ask for the same champion.                          *)
Champion == [a \in Application |-> [k \in Knob |-> "new"]]
=============================================================================
