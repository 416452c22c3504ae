---------------------------- MODULE RestoreSoak ----------------------------
(***************************************************************************)
(* The restore soak (campaigns/restore_soak.py): a series of restores in a *)
(* row.  A series that is over, passed or failed, can be followed by a new *)
(* one; one that is under way cannot.                                      *)
(***************************************************************************)
EXTENDS RestoreValidation

Active == kind = "soak"

CreateSoak ==
  /\ Active
  /\ Idling
  /\ validation \notin {"PLANNED", "RUNNING"}
  /\ PlanSeries(FALSE)

RunSoakNext(c) == Active /\ Repetition(c)
=============================================================================
