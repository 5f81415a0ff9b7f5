----------------------------- MODULE MCMonitor -----------------------------
(* Values for model-checking Monitor: a canary host and another, each with  *)
(* an api and perhaps a job.                                                *)
EXTENDS Monitor

Fine == [status |-> "running", code |-> 0, oom |-> FALSE, error |-> FALSE, restarts |-> 0, unhealthy |-> FALSE,
         policy |-> "always", logs |-> << >>, set |-> FALSE, newer |-> FALSE, pinned |-> TRUE,
         privileged |-> FALSE, socket |-> FALSE]
Line(hits) == [hits |-> hits, error |-> TRUE]
Loops == [Fine EXCEPT !.status = "restarting", !.code = 1, !.restarts = 2, !.logs = <<Line({"missing-env"})>>]
Noisy == [Fine EXCEPT !.logs = <<Line({"app-crash"}), Line({})>>]
Crashed == [Fine EXCEPT !.status = "exited", !.code = 1, !.policy = "no", !.logs = <<Line({"app-crash", "dns-failure"})>>]
Stopped == [Fine EXCEPT !.status = "exited", !.code = 143, !.newer = TRUE,
                         !.logs = <<Line({"missing-env"})>>, !.set = TRUE]

Vital(disk, mem, load) == [disk |-> {disk}, mem |-> {mem}, load |-> {load}]
MCVitals == {Vital(85, 7, 2), [Unprobed EXCEPT !.mem = {4}]}

MCCondition == {Fine, Loops, Noisy, Crashed, Stopped}
MCBegins ==
  {[h \in Host |-> [reach |-> TRUE, vitals |-> Vital(IF h = "a" THEN 95 ELSE 50, 40, 0),
                    box |-> [c \in Container |-> IF c = Service \/ h = "b" THEN Fine ELSE Gone]]]}
MCSink == [pager |-> "failing", chat |-> "info"]
=============================================================================
