------------------------------- MODULE Remedy -------------------------------
(***************************************************************************)
(* `system remediate` (src/aisb/api/system.py, insights/remediate.py): the *)
(* containers with problems are diagnosed one after the other, what can be *)
(* fixed automatically becomes an action, what needs a person a            *)
(* suggestion; then the actions are taken, each an operation of its own    *)
(* under the policy.  Meanwhile containers fail, recover and go away, and  *)
(* others change their limits.  Memory is counted in units of 16 MiB.      *)
(***************************************************************************)
EXTENDS Triage, FiniteSetsExt, SequencesExt

CONSTANTS
  Box,         \* the containers
  Ailment,     \* the facts a container may come to show, see Triage
  Recovers,    \* the facts of a container after a start or a restart
  Memory,      \* the limits others may set; 0 is no limit
  Rules,       \* --rule, the sets of rules asked for
  MaxActions,  \* --max-actions
  MaxTurns     \* bound: changes of the containers by others

ASSUME RemedyAssumption == IsFiniteSet(Box) /\ Memory \subseteq Nat /\ MaxActions \in Nat

Removed == [status |-> "removed"]

VARIABLES
  ward,         \* the containers: [facts, limit], facts may be Removed
  rules,       \* the rules of this call
  stage,       \* "scan", "examine", "inspect", "act", or how it ended
  targets,     \* the containers with problems not looked at yet
  report,      \* the diagnosis of the first of them
  actions,     \* what is to be done: [box, rule, limit]
  suggestions, \* [box, code]
  taken,       \* the results: [action, status, before: the limit until then]
  seen,        \* for every container examined: its diagnosis and limit
  turns

remedyVars == <<ward, rules, stage, targets, report, actions, suggestions, taken, seen, turns>>

NeedsHuman ==
  {"missing-env", "missing-file", "disk-full", "tls-error", "auth-failure", "dependency-unreachable", "dns-failure",
   "start-error", "port-in-use", "permission-denied", "wrong-arch", "crash-loop", "never-started", "stale-image",
   "paused"}

RemedyInit ==
  /\ ward \in [Box -> [facts : Ailment, limit : Memory]]
  /\ rules \in Rules
  /\ stage = "scan" /\ targets = << >> /\ report = << >> /\ actions = << >>
  /\ suggestions = {} /\ taken = << >> /\ seen = << >> /\ turns = 0

-----------------------------------------------------------------------------
(* plan(): the actions and suggestions for one container, from its         *)
(* diagnosis and its limit.                                                *)

Codes(r) == {x.code : x \in r.findings}

Has(r, code) == code \in Codes(r)

\* 1.25 times the limit, rounded up to 16 MiB.
Grown(limit) == (5 * limit + 3) \div 4

Action(b, rule, limit) == [box |-> b, rule |-> rule, limit |-> limit]

Suggest(b, codes) == {[box |-> b, code |-> c] : c \in codes}

\* Variant of Blocked: the most important finding decides.
BlockedFirst(r) == {x.code : x \in {y \in r.findings : y = Foremost(r.findings)}} \cap NeedsHuman

Blocked(r) == Codes(r) \cap NeedsHuman

Ended(r) == r.status \in {"exited", "dead"}

Raises(b, r, limit) == Has(r, "oom-killed") /\ limit # 0 /\ "raise-memory" \in rules

\* The early return after an OOM kill: what else blocks is not suggested.
RaisesAndStarts(b, r, limit) == Raises(b, r, limit) /\ Ended(r) /\ "start-exited" \in rules

Planned(b, r, limit) ==
  LET raise == IF Raises(b, r, limit) THEN <<Action(b, "raise-memory", Grown(limit))>> ELSE << >>
      start == <<Action(b, "start-exited", 0)>>
  IN IF RaisesAndStarts(b, r, limit) THEN raise \o start
     ELSE IF Blocked(r) # {} THEN raise
     ELSE IF Has(r, "unhealthy") /\ r.status = "running" /\ "restart-unhealthy" \in rules
     THEN raise \o <<Action(b, "restart-unhealthy", 0)>>
     ELSE IF Ended(r) /\ "start-exited" \in rules /\ ~Has(r, "oom-killed") THEN raise \o start
     ELSE raise

Suggested(b, r, limit) ==
  (IF Has(r, "oom-killed") /\ limit = 0 THEN Suggest(b, {"no-limit"}) ELSE {})
    \cup (IF RaisesAndStarts(b, r, limit) THEN {} ELSE Suggest(b, Blocked(r)))

-----------------------------------------------------------------------------
(* The call.                                                               *)

\* system.doctor(): the problems, worst first.
Scan ==
  LET ill == {b \in Box : ward[b].facts # Removed /\ Diagnose(ward[b].facts).verdict # "healthy"}
      worst(b) == IF Diagnose(ward[b].facts).verdict = "failing" THEN 0 ELSE 1
  IN /\ stage = "scan"
     /\ \E order \in SetToSeqs(ill) :
          /\ \A i, j \in DOMAIN order : i < j => worst(order[i]) <= worst(order[j])
          /\ targets' = order
     /\ stage' = "examine"
     /\ UNCHANGED <<ward, rules, report, actions, suggestions, taken, seen, turns>>

\* containers.doctor() of the next one; a container that is gone ends the call.
Examine ==
  /\ stage = "examine" /\ targets # << >>
  /\ LET f == ward[Head(targets)].facts
     IN IF f = Removed THEN stage' = "not found" /\ UNCHANGED report
        ELSE /\ stage' = "inspect"
             /\ report' = [status |-> f.status, policy |-> f.policy, findings |-> Diagnose(f).findings]
  /\ UNCHANGED <<ward, rules, targets, actions, suggestions, taken, seen, turns>>

\* Then its limit is read, and the plan made.
InspectLimit ==
  /\ stage = "inspect"
  /\ LET b == Head(targets)
         limit == ward[b].limit
     IN IF ward[b].facts = Removed
        THEN stage' = "not found" /\ UNCHANGED <<targets, actions, suggestions, seen>>
        ELSE /\ stage' = "examine" /\ targets' = Tail(targets)
             /\ actions' = actions \o Planned(b, report, limit)
             /\ suggestions' = suggestions \cup Suggested(b, report, limit)
             /\ seen' = [x \in DOMAIN seen \cup {b} |->
                           IF x = b THEN [report |-> report, limit |-> limit, calm |-> TRUE] ELSE seen[x]]
  /\ UNCHANGED <<ward, rules, report, taken, turns>>

StartActing ==
  /\ stage = "examine" /\ targets = << >>
  /\ stage' = "act"
  /\ actions' = SubSeq(actions, 1, Min({MaxActions, Len(actions)}))
  /\ UNCHANGED <<ward, rules, targets, report, suggestions, taken, seen, turns>>

\* containers.start and restart: a start of a running container changes nothing.
Restarted(f, rule) ==
  IF rule = "start-exited" /\ f.status \notin {"exited", "dead", "created"} THEN {f} ELSE Recovers

Applied(a) ==
  LET here == ward[a.box]
  IN IF a.rule = "raise-memory" THEN {[here EXCEPT !.limit = a.limit]}
     ELSE {[here EXCEPT !.facts = f] : f \in Restarted(here.facts, a.rule)}

Took(a, status) == taken' = Append(taken, [action |-> a, status |-> status])

Do ==
  /\ stage = "act" /\ actions # << >>
  /\ ward[Head(actions).box].facts # Removed
  /\ \E after \in Applied(Head(actions)) : ward' = [ward EXCEPT ![Head(actions).box] = after]
  /\ Took(Head(actions), "done") /\ actions' = Tail(actions)
  /\ UNCHANGED <<rules, stage, targets, report, suggestions, seen, turns>>

\* The daemon refuses, or the container is gone; the next action is taken.
Fails ==
  /\ stage = "act" /\ actions # << >>
  /\ Took(Head(actions), "failed") /\ actions' = Tail(actions)
  /\ UNCHANGED <<ward, rules, stage, targets, report, suggestions, seen, turns>>

\* The policy denies an action: that is no DockerError, and ends the call.
Denied ==
  /\ stage = "act" /\ actions # << >>
  /\ stage' = "denied"
  /\ UNCHANGED <<ward, rules, targets, report, actions, suggestions, taken, seen, turns>>

Return ==
  /\ stage = "act" /\ actions = << >>
  /\ stage' = "over"
  /\ UNCHANGED <<ward, rules, targets, report, actions, suggestions, taken, seen, turns>>

-----------------------------------------------------------------------------
(* The others.                                                             *)

Disturb(b, to) ==
  /\ turns < MaxTurns /\ stage \in {"scan", "examine", "inspect", "act"}
  /\ ward[b].facts # Removed /\ to # ward[b]
  /\ ward' = [ward EXCEPT ![b] = to] /\ turns' = turns + 1
  /\ seen' = [x \in DOMAIN seen |-> IF x = b THEN [seen[x] EXCEPT !.calm = FALSE] ELSE seen[x]]
  /\ UNCHANGED <<rules, stage, targets, report, actions, suggestions, taken>>

Others(b) ==
  \/ \E f \in Ailment \cup {Removed} : Disturb(b, [ward[b] EXCEPT !.facts = f])
  \/ \E m \in Memory : Disturb(b, [ward[b] EXCEPT !.limit = m])

RemedyNext ==
  \/ Scan \/ Examine \/ InspectLimit \/ StartActing \/ Do \/ Fails \/ Denied \/ Return
  \/ \E b \in Box : Others(b)

RemedySpec == RemedyInit /\ [][RemedyNext]_remedyVars

-----------------------------------------------------------------------------
\* The actions taken of a container, and which of them were done.
Upon(b) == {i \in DOMAIN taken : taken[i].action.box = b}

\* A container whose diagnosis names a cause that needs a person is left alone,
\* with a suggestion for each such cause - unless it was killed for its memory.
PersonDecides ==
  \A b \in DOMAIN seen :
    LET personal == Codes(seen[b].report) \cap NeedsHuman IN
    (personal # {} /\ ~Has(seen[b].report, "oom-killed")) =>
      Upon(b) = {} /\ Suggest(b, personal) \subseteq suggestions

-----------------------------------------------------------------------------
(* What the documentation says and the code does not do.                   *)

\* remediate.py:4: "everything that needs a decision (a missing variable, a bad
\* image, a crash loop) becomes a suggestion with the reason"; crash loops are
\* left out here, since an OOM kill explains one.
DecisionsSuggested ==
  \A b \in DOMAIN seen :
    Suggest(b, (Codes(seen[b].report) \cap NeedsHuman) \ {"crash-loop"}) \subseteq suggestions
=============================================================================
