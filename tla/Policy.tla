------------------------------- MODULE Policy -------------------------------
(***************************************************************************)
(* Policy rules (src/aisb/policy.py): pure evaluation of a list of rules   *)
(* for one call                                                            *)
(*     [op, tier, source, user, host, ticket, traits, day, hour].          *)
(* host is Local for the local endpoint; ticket is "none", "good" or "bad" *)
(* for the pattern of the rules; traits are the conditions of deny_if that *)
(* the arguments meet.  A rule is a record with some of the fields mode,   *)
(* match, deny, ticket, pattern, days, hours, deny_if; match is a record   *)
(* with some of op, tier, source, user (what the globs accept) and hosts   *)
(* (a selector).                                                           *)
(***************************************************************************)
EXTENDS Selector

CONSTANT Local  \* no host: the endpoint of this machine

GOVERNANCE_READS == {"policy.rules", "policy.check", "audit.log", "audit.verify",
                     "audit.anchor", "config.show"}

ImageOps == {"containers.run", "images.pull", "fleet.ship", "images.tag"}

Has(r, f) == f \in DOMAIN r

\* The local endpoint has no groups and no labels; it is `local`, `all` or `*`.
IsLocal(t) == t.kind = "all" \/ (t.kind = "host" /\ t.arg = Local)

LocalMatches(e) ==
  /\ Plain(e) = {} \/ \E t \in Plain(e) : IsLocal(t)
  /\ \A t \in Terms(e) : (t.op = "&" => IsLocal(t)) /\ (t.op = "!" => ~IsLocal(t))

\* A host of another inventory is looked up in one that holds it alone.
HostMatches(inv, e, h) ==
  IF h = Local THEN LocalMatches(e)
  ELSE LET known == IF h \in inv.hosts THEN inv
                    ELSE [inv EXCEPT !.hosts = {h}, !.in = [x \in {h} |-> {}]]
       IN h \in Select(known, e)

Matches(inv, m, c) ==
  /\ \A f \in {"op", "tier", "source", "user"} : Has(m, f) => c[f] \in m[f]
  /\ Has(m, "hosts") => HostMatches(inv, m.hosts, c.host)

\* Windows may wrap midnight.
InWindow(r, c) ==
  /\ Has(r, "days") => c.day \in r.days
  /\ Has(r, "hours") => IF r.hours[1] <= r.hours[2]
                        THEN r.hours[1] <= c.hour /\ c.hour < r.hours[2]
                        ELSE c.hour >= r.hours[1] \/ c.hour < r.hours[2]

Conditions(r, c) ==
  {x \in c.traits : x \in r.deny_if /\ (x \in {"image", "image_tag"} => c.op \in ImageOps)}

Reasons(r, c) ==
  {x \in {"deny", "ticket", "pattern", "window", "deny_if"} :
     /\ Has(r, x) \/ x = "window"
     /\ CASE x = "deny" -> TRUE
          [] x = "ticket" -> c.ticket = "none"
          [] x = "pattern" -> c.ticket = "bad"
          [] x = "window" -> ~InWindow(r, c)
          [] x = "deny_if" -> Conditions(r, c) # {}}

\* A broad rule does not lock away the reads that explain it.
Applies(inv, r, c) ==
  /\ c.op \in GOVERNANCE_READS => Has(r.match, "op")
  /\ Matches(inv, r.match, c)

\* check(): <<rule, reason>> of every violation.
Check(inv, rules, c) ==
  UNION {{<<i, x>> : x \in IF Applies(inv, rules[i], c) THEN Reasons(rules[i], c) ELSE {}}
           : i \in DOMAIN rules}

\* enforce(): there is a violation of a rule that does not only warn.
Denied(inv, rules, c) ==
  \E v \in Check(inv, rules, c) : ~Has(rules[v[1]], "mode")
=============================================================================
