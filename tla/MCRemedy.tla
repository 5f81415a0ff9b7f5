------------------------------- MODULE MCRemedy -------------------------------
(* Values for model-checking Remedy.                                          *)
EXTENDS Remedy

Well == [status |-> "running", code |-> 0, oom |-> FALSE, error |-> FALSE, restarts |-> 0, unhealthy |-> FALSE,
         policy |-> "always", logs |-> << >>, set |-> FALSE, newer |-> FALSE, pinned |-> TRUE,
         privileged |-> FALSE, socket |-> FALSE]
Says(code) == <<[hits |-> {code}, error |-> TRUE]>>
Sick == [Well EXCEPT !.unhealthy = TRUE]
Broken == [Well EXCEPT !.status = "exited", !.code = 1]
Unset == [Sick EXCEPT !.logs = Says("missing-env")]
Killed == [Well EXCEPT !.status = "exited", !.code = 137, !.oom = TRUE]
KilledFull == [Killed EXCEPT !.logs = Says("disk-full")]

MCAilment == {Well, Sick, Broken, Unset, Killed, KilledFull}
MCAilmentFull == {Well, KilledFull}
MCRecovers == {Well, Broken}
MCRules == {{"start-exited", "restart-unhealthy", "raise-memory"}, {"raise-memory"}}
===============================================================================
