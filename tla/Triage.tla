------------------------------ MODULE Triage ------------------------------
(***************************************************************************)
(* How a host's verdict is found: the rules of the triage over the facts   *)
(* of one container (src/aisb/insights/triage.py), the report of `system   *)
(* doctor` over all of them, and the host's verdict (fleet/health.py).     *)
(* Evidence, hints and wording are left out; a log line is what the        *)
(* signatures and the level find in it.                                    *)
(*                                                                         *)
(* Facts of a container: [status, code: exit code, oom, error, restarts,   *)
(* unhealthy, policy: restart policy, logs: lines [hits, error], set: the  *)
(* variable a line calls missing is set, newer: the tag points to another  *)
(* image, pinned, privileged, socket].                                     *)
(***************************************************************************)
EXTENDS Integers, Sequences, FiniteSets

\* A finding of a rule; `at` is when it was found, among those of its rule.
Finding(severity, code, rule, at) == [severity |-> severity, code |-> code, rule |-> rule, at |-> at]

\* A rule's findings, from what it looks for, in order: <<holds, severity, code>>.
Yields(rule, looked) ==
  {Finding(looked[i][2], looked[i][3], rule, i) : i \in {j \in DOMAIN looked : looked[j][1]}}

ExitCodes == [x \in {125, 126, 127, 134, 139} |->
  CASE x = 125 -> "docker-run-failure" [] x = 126 -> "not-executable" [] x = 127 -> "command-not-found"
    [] x = 134 -> "aborted" [] x = 139 -> "segfault"]

Restarting(f) == f.status = "restarting"

StateRules(f) ==
  LET looping == Restarting(f) \/ f.restarts >= 3
      ended == f.status \in {"exited", "dead"} \/ Restarting(f) \/ (f.status = "created" /\ f.code # 0)
      known == f.code \in DOMAIN ExitCodes
      killed == f.code = 137 /\ ~f.oom
  IN Yields(1,
            << <<f.error, "critical", "start-error">>,
               <<f.oom, "critical", "oom-killed">>,
               <<looping, "critical", "crash-loop">>,
               <<ended /\ known, "critical", IF known THEN ExitCodes[f.code] ELSE "">>,
               <<ended /\ killed, "warning", "sigkill">>,
               <<ended /\ f.code = 143, "info", "sigterm">>,
               <<ended /\ ~known /\ ~killed /\ f.code \notin {0, 143} /\ ~looping /\ ~f.oom, "warning", "app-error">>,
               <<f.unhealthy, "critical", "unhealthy">>,
               <<f.status = "created", "warning", "never-started">>,
               <<f.status = "paused", "warning", "paused">> >>)

Signatures ==
  <<"missing-env", "dependency-unreachable", "dns-failure", "port-in-use", "permission-denied", "wrong-arch",
    "missing-file", "memory-exhausted", "disk-full", "tls-error", "auth-failure", "app-crash">>

\* The facts a container may show.
Signs == {Signatures[j] : j \in DOMAIN Signatures}
LogLine == [hits : SUBSET Signs, error : BOOLEAN]
Facts ==
  [status : {"created", "running", "restarting", "removing", "paused", "exited", "dead"}, code : Int, oom : BOOLEAN,
   error : BOOLEAN, restarts : Nat, unhealthy : BOOLEAN, policy : {"no", "always", "on-failure", "unless-stopped"},
   logs : Seq(LogLine), set : BOOLEAN, newer : BOOLEAN, pinned : BOOLEAN, privileged : BOOLEAN, socket : BOOLEAN]

\* Facts.failing.
Failing(f) == Restarting(f) \/ f.oom \/ (f.status \in {"exited", "dead"} /\ f.code # 0)

\* The generic signature claims only lines that no other explains.
Hits(f, code) ==
  {i \in DOMAIN f.logs : code \in f.logs[i].hits /\ (code = "app-crash" => f.logs[i].hits = {code})}

\* Variant of LogSeverity: errors in a log are never more than a warning.
LogSeverityMild(f) == "warning"

LogSeverity(f) == IF Failing(f) THEN "critical" ELSE "warning"

LogRules(f) ==
  LET severity(code) == IF code = "missing-env" /\ f.set THEN "info" ELSE LogSeverity(f)
      leftover == \E i \in DOMAIN f.logs : f.logs[i].hits = {} /\ f.logs[i].error
  IN Yields(2, [j \in DOMAIN Signatures |-> <<Hits(f, Signatures[j]) # {}, severity(Signatures[j]), Signatures[j]>>])
     \cup Yields(3, << <<leftover, LogSeverity(f), "log-errors">> >>)

ImageRules(f) == Yields(4, << <<f.newer, "warning", "stale-image">>, <<~f.pinned, "info", "unpinned-image">> >>)

ConfigRules(f) ==
  Yields(5,
         << <<f.privileged, "warning", "privileged">>, <<f.socket, "warning", "docker-socket-mounted">>,
            <<f.status = "exited" /\ f.code # 0 /\ f.policy = "no", "info", "no-restart-policy">> >>)

Symptoms == {"crash-loop", "app-error", "sigkill", "sigterm", "app-crash", "log-errors", "unhealthy"}

\* verdict().
Verdict(found) ==
  LET severities == {x.severity : x \in found}
  IN IF "critical" \in severities THEN "failing" ELSE IF "warning" \in severities THEN "degraded" ELSE "healthy"

\* sorted(): by severity, causes before symptoms, then in the order found.
Standing(x) ==
  <<CASE x.severity = "critical" -> 0 [] x.severity = "warning" -> 1 [] x.severity = "info" -> 2,
    IF x.code \in Symptoms THEN 1 ELSE 0, x.rule, x.at>>

Before(x, y) ==
  \E k \in 1 .. 4 : Standing(x)[k] < Standing(y)[k] /\ \A l \in 1 .. k - 1 : Standing(x)[l] = Standing(y)[l]

Foremost(found) == CHOOSE x \in found : \A y \in found \ {x} : Before(x, y)

Diagnose(f) ==
  LET found == StateRules(f) \cup LogRules(f) \cup ImageRules(f) \cup ConfigRules(f)
      causes == {x \in found : x.code \notin Symptoms /\ x.severity # "info"}
  IN [verdict |-> Verdict(found), cause |-> IF causes = {} THEN "" ELSE Foremost(causes).code, findings |-> found]

\* The problems system.doctor reports of a host's containers, from what it
\* read of each: name -> facts.
Problems(read) ==
  {[container |-> c, verdict |-> Diagnose(read[c]).verdict,
    why |-> IF Diagnose(read[c]).cause # "" THEN Diagnose(read[c]).cause ELSE Foremost(Diagnose(read[c]).findings).code]
     : c \in {x \in DOMAIN read : Diagnose(read[x]).verdict # "healthy"}}

\* The thresholds of assess() for the vitals [disk: % used, mem: % available,
\* load: per cpu]; each is {} when the probe did not print it.
Over(v, limit) == \E x \in v : x >= limit
Under(v, limit) == \E x \in v : x < limit

If(holds, x) == IF holds THEN {x} ELSE {}

Assess(vitals, problems) ==
  LET of(verdicts) == {<<p.container, p.verdict, p.why>> : p \in {x \in problems : x.verdict \in verdicts}}
      bad == of({"failing"}) \cup If(Over(vitals.disk, 90), <<"disk", vitals.disk>>)
             \cup If(Under(vitals.mem, 5), <<"mem", vitals.mem>>)
      poor == of({"degraded"}) \cup If(Over(vitals.disk, 80) /\ ~Over(vitals.disk, 90), <<"disk", vitals.disk>>)
              \cup If(Under(vitals.mem, 10) /\ ~Under(vitals.mem, 5), <<"mem", vitals.mem>>)
              \cup If(Over(vitals.load, 2), <<"load", vitals.load>>)
  IN [verdict |-> IF bad # {} THEN "failing" ELSE IF poor # {} THEN "degraded" ELSE "healthy", reasons |-> bad \cup poor]
=============================================================================
