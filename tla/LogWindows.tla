----------------------------- MODULE LogWindows -----------------------------
(***************************************************************************)
(* How analysis/windows.py and workload.py read the transaction logs of a  *)
(* measurement.  pgbench leaves one file per thread; a line has the second *)
(* it was logged in, counted from the start of the measurement, and a      *)
(* latency: a number, a negative one or none.  The last two stand for a    *)
(* failed transaction, and the readers treat them differently.  Values of  *)
(* latencies, and the percentiles taken of them, are left out; without     *)
(* them a reading is the set of lines it has taken.                        *)
(***************************************************************************)
EXTENDS Naturals, SequencesExt

Line == [at : Nat, latency : {"some", "negative", "none"}]

(* The lines of some files; each knows the file it is in and its number.   *)
LineOf(files, i, j) ==
  [file |-> i, number |-> j, at |-> files[i][j].at, latency |-> files[i][j].latency]

Lines(files) ==
  UNION {{LineOf(files, i, j) : j \in DOMAIN files[i]} : i \in DOMAIN files}

With(lines, latencies) == Cardinality({l \in lines : l.latency \in latencies})

(* Without a latency there is nothing to take percentiles of.              *)
Usable(lines) == With(lines, {"some"}) > 0

(* parse_pgbench_logs: a line without a latency is a failure and no        *)
(* transaction, a negative one is both.                                    *)
Count(lines) ==
  [transactions |-> With(lines, {"some", "negative"}),
   failures |-> With(lines, {"negative", "none"})]

(* parse_pgbench_log_records: lines without a latency are skipped.         *)
Records(lines) == {l \in lines : l.latency # "none"}

(* calculate_window over the interval [from, to); without a successful     *)
(* transaction it raises.                                                  *)
Unusable == [transactions |-> 0, failures |-> 0]

CalculateWindow(records, from, to) ==
  LET selected == {l \in records : from <= l.at /\ l.at < to}
  IN  IF Usable(selected) THEN Count(selected) ELSE Unusable

(* Mutant: the first record behind the window ends the whole reading.      *)
ReadFilesAsOne(records, end) ==
  {r \in records :
     \A q \in records :
       q.file < r.file \/ (q.file = r.file /\ q.number <= r.number) => q.at < end}

(* analyze_prefix_windows stops reading a file at the first record that    *)
(* lies behind the longest window, and goes on with the next file.         *)
ReadFiles(records, end) ==
  {r \in records :
     \A q \in records : q.file = r.file /\ q.number <= r.number => q.at < end}

PrefixWindows(lines, windows) ==
  LET records == ReadFiles(Records(lines), Max(windows))
  IN  [w \in windows |-> CalculateWindow(records, 0, w)]

(* The two halves and the whole of a measurement of 2 * prefix seconds,    *)
(* and the windows of one second each.                                     *)
Halves(lines, prefix) ==
  LET records == Records(lines) IN
  [first  |-> CalculateWindow(records, 0, prefix),
   second |-> CalculateWindow(records, prefix, 2 * prefix),
   full   |-> CalculateWindow(records, 0, 2 * prefix)]

RollingWindows(lines, seconds) ==
  [i \in 1..seconds |-> CalculateWindow(Records(lines), i - 1, i)]
=============================================================================
