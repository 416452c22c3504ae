---------------------------- MODULE MCController ----------------------------
(***************************************************************************)
(* Constant values for TLC: a knob that needs a restart and one that does  *)
(* not, and applications that ask for both.                                *)
(***************************************************************************)
EXTENDS Controller

TwoKnobs == {"shared_buffers", "work_mem"}
OneStatic == {"shared_buffers"}
Old == [k \in TwoKnobs |-> "old"]
Both == [a \in Application |-> [k \in TwoKnobs |-> "new"]]
AsWritten == [v \in Value |-> v]

Callers == Permutations(Caller)
=============================================================================
