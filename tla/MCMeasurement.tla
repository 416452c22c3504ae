--------------------------- MODULE MCMeasurement ---------------------------
(***************************************************************************)
(* Two seconds measured by two threads.  A client may leave transactions   *)
(* in both seconds, failures, a transaction after the end in front of      *)
(* those of the other thread, or too few to be promoted.                   *)
(***************************************************************************)
EXTENDS Measurement

Good(i) == [at |-> i, latency |-> "some"]
Bad(i) == [at |-> i, latency |-> "negative"]
Lost(i) == [at |-> i, latency |-> "none"]
Ordinary == << <<Good(0), Good(1)>>, <<Good(0)>> >>
Failing == << <<Good(0), Lost(1)>>, <<Bad(1), Good(1)>> >>
Overrun == << <<Good(1), Good(2)>>, <<Good(1)>> >>
Slow == << <<>>, <<Good(1)>> >>
FourLogs == {Ordinary, Failing, Overrun, Slow}
OneLog == {Ordinary}
=============================================================================
