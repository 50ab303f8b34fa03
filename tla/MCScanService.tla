--------------------------- MODULE MCScanService ---------------------------
(***************************************************************************)
(* ScanService for TLC: processes that come and go with nobody reading, a  *)
(* page whose requests overlap in a calm process, a reader whose scan      *)
(* vanishes while it reads, and a second submission to a scan.             *)
(***************************************************************************)
EXTENDS ScanService

CONSTANTS a1, a2, w1, s1, s2, t1, t2

Upheaval(procs, redis) ==
  [procs |-> procs, tasks |-> {t1}, redis |-> redis, slots |-> {}, view |-> "tasks", selected |-> TRUE,
   others |-> {}, stream |-> TRUE, retries |-> 0, upsets |-> 2]
Overlap(view, changes) ==
  [procs |-> {a1}, tasks |-> {t1}, redis |-> FALSE, slots |-> {s1, s2}, view |-> view, selected |-> changes = 0,
   others |-> {}, stream |-> FALSE, retries |-> 0, upsets |-> changes]
Vanishing ==
  [procs |-> {a1, a2}, tasks |-> {t1}, redis |-> FALSE, slots |-> {s1}, view |-> "tasks", selected |-> FALSE,
   others |-> {"copilot"}, stream |-> FALSE, retries |-> 1, upsets |-> 0]
\* Two tasks, the second submitted to a scan that may be running, failed or completed.
Resubmission(slots, stream, retries) ==
  [procs |-> {a1}, tasks |-> {t1, t2}, redis |-> FALSE, slots |-> slots, view |-> "progress", selected |-> FALSE,
   others |-> {"client"}, stream |-> stream, retries |-> retries, upsets |-> 0]

Stories == {Upheaval({a1, a2, w1}, TRUE), Upheaval({a1, a2}, FALSE),
            Overlap("tasks", 0), Overlap("progress", 1), Vanishing,
            Resubmission({s1}, FALSE, 0), Resubmission({}, TRUE, 1)}

=============================================================================
