--------------------------- MODULE MCTrialWorker ---------------------------
(***************************************************************************)
(* Constant values for TLC.  A configuration chooses the workers, the      *)
(* trials with their workflow kinds, and how often a trial may be tried.   *)
(***************************************************************************)
EXTENDS TrialWorker

CONSTANTS t1, t2

AllTuned           == [t \in Trial |-> Tuned]
AllHealth          == [t \in Trial |-> Health]
TunedAndSaturation == [t \in Trial |-> IF t = t1 THEN Tuned ELSE Saturation]

Once        == [t \in Trial |-> 1]
Twice       == [t \in Trial |-> 2]
OnceOrTwice == [t \in Trial |-> IF t = t1 THEN 2 ELSE 1]

(* Workers run the same program.                                           *)
SymmetricWorkers == Permutations(Worker)
=============================================================================
