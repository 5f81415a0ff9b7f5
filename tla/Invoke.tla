------------------------------- MODULE Invoke -------------------------------
(***************************************************************************)
(* The way of every operation (src/aisb/ops.py, invoke): preview, policy,  *)
(* hooks, call, audit record.  Requests come from the command line, the    *)
(* MCP server or the portal (cli.py, mcp.py, portal.py); fleet operations  *)
(* invoke an operation again on every host (api/fleet.py, _run), and       *)
(* system remediate invokes several in a row (api/system.py).              *)
(*                                                                         *)
(* A thread is a client's own, <<c, Local>>, or one of its fan-out's       *)
(* workers, <<c, h>>; it holds a stack of invocations.  A fault is any     *)
(* call that fails; MaxFaults bounds them, conf.most the requests.         *)
(***************************************************************************)
EXTENDS Policy, Integers, FiniteSets

CONSTANTS
  Client, Front,   \* the clients, and whether each is "cli", "mcp" or "portal"
  Op, Tier,        \* operations with their tiers, "read", "mutate" or "destroy"
  Fan,             \* the operations of the fleet that run another on every host
  Calls,           \* operations that invoke others in turn
  Sends,           \* how many mutating requests another operation sends
  Inventory,       \* the fleet inventory
  Request,         \* what each client may ask
  Conf,            \* configurations: [rules, max: the highest tier of each front,
                   \*   most: how many requests each client makes]
  MaxFaults

Rank == [read |-> 0, mutate |-> 1, destroy |-> 2]

\* An operation that invokes others is none of the fleet's; what it invokes is of
\* a tier no higher than its own and invokes nothing in turn.
ASSUME InvokeAssumption ==
  /\ Tier \in [Op -> DOMAIN Rank] /\ Fan \subseteq Op
  /\ DOMAIN Calls \subseteq Op \ Fan
  /\ \A o \in DOMAIN Calls : /\ Calls[o] \in Seq(Op \ (Fan \cup DOMAIN Calls))
                             /\ \A i \in DOMAIN Calls[o] : Rank[Tier[Calls[o][i]]] <= Rank[Tier[o]]
  /\ Sends \in [Op -> Nat] /\ MaxFaults \in Nat
  /\ \A c \in Client : Front[c] \in {"cli", "mcp", "portal"}
  /\ "free" \notin Client  \* of the lock
  /\ \A k \in Conf : k.max \in [{"cli", "mcp", "portal"} -> DOMAIN Rank]
  /\ \A c \in Client : /\ Request[c] # {}
                       /\ \A r \in Request[c] : r.op \in Op /\ {r.dry, r.yes} \subseteq BOOLEAN

Endpoint == {Local} \cup Inventory.hosts
Thread == Client \X Endpoint
Main(c) == <<c, Local>>
Unseen == -1

VARIABLES
  conf,      \* the configuration
  request,   \* the request of each client
  stack,     \* the invocations of each thread, innermost first
  ver,       \* the number of changes to each endpoint
  cache,     \* the portal's overview: [of: a version of Local, fresh]
  lock,      \* who holds the portal's lock
  view,      \* where the client is with an overview: "none", "wait", "read", "store"
  seen,      \* the version of Local each client's overview shows
  floor,     \* the version acknowledged when it was asked for
  acked,     \* the version of Local at the portal's last acknowledgement
  dead,      \* the MCP server has died
  asked, faults,  \* how many
  open, permit, noted, changed, recorded, answer  \* history: see Guardrail

flow == <<conf, request, stack>>
portal == <<cache, lock, view, seen, floor, acked>>
count == <<asked, faults>>
history == <<open, permit, noted, changed, recorded, answer>>
vars == <<flow, ver, portal, dead, count, history>>

Nothing == [c \in Client |-> {}]

Init ==
  /\ conf \in Conf
  /\ request = [c \in Client |-> CHOOSE r \in Request[c] : TRUE]
  /\ stack = [t \in Thread |-> << >>]
  /\ ver = [e \in Endpoint |-> 0]
  /\ cache = [of |-> 0, fresh |-> FALSE] /\ lock = "free"
  /\ view = [c \in Client |-> "none"]
  /\ seen = [c \in Client |-> Unseen] /\ floor = [c \in Client |-> 0] /\ acked = 0
  /\ dead = FALSE /\ asked = [c \in Client |-> 0] /\ faults = 0
  /\ open = {} /\ answer = [c \in Client |-> "none"]
  /\ permit = Nothing /\ noted = Nothing /\ changed = Nothing /\ recorded = Nothing

----------------------------------------------------------------------------
(* Invocations.                                                            *)

Frame(op, cmd, to, dry, yes) ==
  [op |-> op, cmd |-> cmd, to |-> to, dry |-> dry, yes |-> yes,
   at |-> "enter", i |-> 0, bad |-> FALSE, exc |-> "none"]

At(t, place) == stack[t] # << >> /\ Head(stack[t]).at = place

\* The innermost invocation of t becomes f.
Now(t, f) == stack' = [stack EXCEPT ![t] = <<f>> \o Tail(@)]

Preview(f) == Tier[f.op] # "read" /\ (f.dry \/ (Tier[f.op] = "destroy" /\ ~f.yes))

\* The call policy sees: the worker's host is in the context.
PolicyCall(c, r, o, e) ==
  [op |-> o, tier |-> Tier[o], source |-> Front[c], user |-> "operator", host |-> e,
   ticket |-> r.ticket, traits |-> r.traits, day |-> 1, hour |-> 12]

Forbidden(c, r, o, e) == Denied(Inventory, conf.rules, PolicyCall(c, r, o, e))

Fault == faults < MaxFaults /\ faults' = faults + 1

\* Preview, or policy.
Enter(t) ==
  /\ At(t, "enter")
  /\ LET f == Head(stack[t])
         no == ~Preview(f) /\ Forbidden(t[1], request[t[1]], f.op, t[2])
     IN Now(t, [f EXCEPT !.at = IF no THEN "end"
                                ELSE IF Preview(f) \/ Tier[f.op] = "read" THEN "call" ELSE "hook",
                         !.exc = IF no THEN "denied" ELSE "none"])
  /\ UNCHANGED <<conf, request, ver, portal, dead, count, history>>

\* The session's hook notes how to undo the call, or fails.
Hook(t) ==
  /\ At(t, "hook")
  /\ LET f == Head(stack[t])
     IN \/ /\ Now(t, [f EXCEPT !.at = "call"])
           /\ noted' = [noted EXCEPT ![t[1]] = @ \cup {<<f.op, t[2]>>}]
           /\ UNCHANGED count
        \/ /\ Fault /\ \E e \in {"docker", "os"} : Now(t, [f EXCEPT !.at = "end", !.exc = e])
           /\ UNCHANGED <<noted, asked>>
  /\ UNCHANGED <<conf, request, ver, portal, dead, open, permit, changed, recorded, answer>>

\* A read, or a call whose mutating requests are recorded and not sent.
Look(t) ==
  /\ At(t, "call")
  /\ LET f == Head(stack[t])
     IN /\ f.op \notin Fan /\ (Preview(f) \/ Tier[f.op] = "read")
        /\ \/ Now(t, [f EXCEPT !.at = "end"]) /\ UNCHANGED faults
           \/ Fault /\ \E e \in {"docker", "value", "os", "type"} :
                         Now(t, [f EXCEPT !.at = "end", !.exc = e])
  /\ UNCHANGED <<conf, request, ver, portal, dead, asked, history>>

\* One mutating request of a call: done; refused; done, and the answer lost.
\* A call may also end well with a result that says it did not: unmet.
Send(t) ==
  /\ At(t, "call")
  /\ LET f == Head(stack[t])
         does == /\ ver' = [ver EXCEPT ![t[2]] = @ + 1]
                 /\ changed' = [changed EXCEPT ![t[1]] = @ \cup {<<f.op, t[2]>>}]
         ends == IF f.i + 1 >= Sends[f.op] THEN "end" ELSE "call"
     IN /\ f.op \notin Fan \cup DOMAIN Calls /\ ~Preview(f) /\ Tier[f.op] # "read"
        /\ \/ does /\ Now(t, [f EXCEPT !.at = ends, !.i = @ + 1]) /\ UNCHANGED faults
           \/ Fault /\ does /\ Now(t, [f EXCEPT !.at = "end", !.exc = "os"])
           \/ Fault /\ does /\ Now(t, [f EXCEPT !.at = "end", !.bad = TRUE])
           \/ /\ Fault /\ UNCHANGED <<ver, changed>>
              /\ \E e \in {"docker", "value", "type"} : Now(t, [f EXCEPT !.at = "end", !.exc = e])
  /\ UNCHANGED <<conf, request, portal, dead, asked, open, permit, noted, recorded, answer>>

\* Variant of Fits: the tier of the inner operation does not matter.
FitsAny(f) == f.cmd \in Op \ Fan /\ Resolves(Inventory, f.to)

\* _inner, and the selection of hosts.
Fits(f) == f.cmd \in Op \ Fan /\ Tier[f.cmd] = Tier[f.op] /\ Resolves(Inventory, f.to)

\* A fleet operation: a worker for each host, confirmed, or planning.
Spread(t) ==
  /\ At(t, "call")
  /\ LET f == Head(stack[t])
         one == <<Frame(f.cmd, "none", << >>, Preview(f), ~Preview(f))>>
     IN /\ f.op \in Fan
        /\ IF Fits(f)
           THEN stack' = [s \in Thread |->
                            IF s = t THEN <<[f EXCEPT !.at = "gather"]>> \o Tail(stack[t])
                            ELSE IF s[1] = t[1] /\ s[2] \in Select(Inventory, f.to) THEN one
                            ELSE stack[s]]
           ELSE Now(t, [f EXCEPT !.at = "end", !.exc = "value"])
  /\ UNCHANGED <<conf, request, ver, portal, dead, count, history>>

\* The host is not reached: its worker fails before it invokes anything.
Unreachable(t) ==
  /\ t[2] # Local /\ At(t, "enter") /\ Fault
  /\ Now(t, [Head(stack[t]) EXCEPT !.at = "out", !.exc = "docker"])
  /\ UNCHANGED <<conf, request, ver, portal, dead, asked, history>>

Workers(c) == {<<c, h>> : h \in {h \in Inventory.hosts : stack[<<c, h>>] # << >>}}

\* What _one takes for a failed host.
Caught == {"none", "docker", "value", "os", "denied"}

\* fan_out returns when every worker has; what _one does not catch is raised.
Gather(t) ==
  /\ At(t, "gather") /\ \A w \in Workers(t[1]) : At(w, "out") /\ Len(stack[w]) = 1
  /\ LET ends == {Head(stack[w]) : w \in Workers(t[1])}
         raised == \E f \in ends : f.exc \notin Caught
         f == [Head(stack[t]) EXCEPT !.at = "end", !.exc = IF raised THEN "type" ELSE "none",
                                     !.bad = \E g \in ends : g.bad \/ g.exc # "none"]
     IN stack' = [s \in Thread |-> IF s = t THEN <<f>> \o Tail(stack[t])
                                   ELSE IF s \in Workers(t[1]) THEN << >> ELSE stack[s]]
  /\ UNCHANGED <<conf, request, ver, portal, dead, count, history>>

\* remediate: the next of its actions, each confirmed.
Remedy(t) ==
  /\ At(t, "call")
  /\ LET f == Head(stack[t])
     IN /\ f.op \in DOMAIN Calls /\ ~Preview(f)
        /\ IF f.i < Len(Calls[f.op])
           THEN stack' = [stack EXCEPT ![t] =
                  <<Frame(Calls[f.op][f.i + 1], "none", << >>, FALSE, TRUE),
                    [f EXCEPT !.at = "sub", !.i = @ + 1]>> \o Tail(@)]
           ELSE Now(t, [f EXCEPT !.at = "end"])
  /\ UNCHANGED <<conf, request, ver, portal, dead, count, history>>

\* An action of remediate is over: it goes on after the errors it catches.
Back(t) ==
  /\ At(t, "out") /\ Len(stack[t]) > 1
  /\ LET f == Head(stack[t])
         g == stack[t][2]
         on == f.exc \in {"none", "docker", "value"}
     IN stack' = [stack EXCEPT ![t] =
          <<[g EXCEPT !.at = IF on THEN "call" ELSE "end", !.bad = @ \/ f.exc # "none",
                      !.exc = IF on THEN "none" ELSE f.exc]>> \o Tail(Tail(@))]
  /\ UNCHANGED <<conf, request, ver, portal, dead, count, history>>

\* The record of a call, however it ended; writing it may fail.  Reads are
\* not recorded, nor previews.
Audit(t) ==
  /\ At(t, "end")
  /\ LET f == Head(stack[t])
         quiet == Preview(f) \/ Tier[f.op] = "read"
     IN \/ /\ Now(t, [f EXCEPT !.at = "out"])
           /\ recorded' = IF quiet THEN recorded
                          ELSE [recorded EXCEPT ![t[1]] = @ \cup {<<f.op, t[2]>>}]
           /\ UNCHANGED faults
        \/ /\ ~quiet /\ Fault /\ Now(t, [f EXCEPT !.at = "out", !.exc = "os"])
           /\ UNCHANGED recorded
  /\ UNCHANGED <<conf, request, ver, portal, dead, asked, open, permit, noted, changed, answer>>

----------------------------------------------------------------------------
(* Fronts.                                                                 *)

Offered(c, o) == Rank[Tier[o]] <= Rank[conf.max[Front[c]]]

\* An operation and those it invokes.
Within(o) == {o} \cup (IF o \in DOMAIN Calls THEN {Calls[o][i] : i \in DOMAIN Calls[o]} ELSE {})

\* What the request r of c may change: by the operation itself, by the one it
\* spreads over the hosts, or by those that either invokes, if the front offers
\* it, the request confirms it, and policy forbids none of the invocations that
\* lead to it.
Permit(c, r) ==
  {x \in (Within(r.op) \X {Local}) \cup (Within(r.cmd) \X Inventory.hosts) :
     /\ x[1] \in Op /\ Tier[x[1]] # "read" /\ Offered(c, x[1]) /\ ~r.dry
     /\ Tier[x[1]] = "destroy" => r.yes /\ Front[c] # "portal"
     /\ ~Forbidden(c, r, r.op, Local) /\ ~Forbidden(c, r, x[1], x[2])
     /\ x[2] # Local => ~Forbidden(c, r, r.cmd, x[2])}

\* A request arrives at its front; the portal never confirms.
Ask(c) ==
  /\ c \notin open /\ asked[c] < conf.most[c] /\ asked' = [asked EXCEPT ![c] = @ + 1]
  /\ ~(dead /\ Front[c] = "mcp")
  /\ \E r \in Request[c] :
       /\ request' = [request EXCEPT ![c] = r]
       /\ permit' = [permit EXCEPT ![c] = Permit(c, r)]
       /\ IF r.op = "overview"
          THEN /\ view' = [view EXCEPT ![c] = "wait"]
               /\ floor' = [floor EXCEPT ![c] = acked] /\ seen' = [seen EXCEPT ![c] = Unseen]
               /\ UNCHANGED stack
          ELSE /\ stack' = [stack EXCEPT ![Main(c)] =
                    <<[Frame(r.op, r.cmd, r.to, r.dry, r.yes /\ Front[c] # "portal")
                       EXCEPT !.at = IF Offered(c, r.op) THEN "enter" ELSE "banned"]>>]
               /\ UNCHANGED <<view, floor, seen>>
  /\ open' = open \cup {c} /\ answer' = [answer EXCEPT ![c] = "none"]
  /\ noted' = [noted EXCEPT ![c] = {}]
  /\ changed' = [changed EXCEPT ![c] = {}]
  /\ recorded' = [recorded EXCEPT ![c] = {}]
  /\ UNCHANGED <<conf, ver, cache, lock, acked, dead, faults>>

\* How each front answers: exit codes, error texts, HTTP statuses.
Says(front, f) ==
  IF f.at = "banned" THEN "refused"
  ELSE CASE f.exc = "denied" -> "denied"
         [] f.exc \in {"docker", "value"} -> "error"
         [] f.exc = "type" -> IF front = "cli" THEN "crash" ELSE "error"
         [] f.exc = "os" -> IF front = "portal" THEN "error" ELSE "crash"
         [] f.exc = "none" -> IF Preview(f) THEN "shown" ELSE IF f.bad THEN "unmet" ELSE "ok"

Close(c, a) == open' = open \ {c} /\ answer' = [answer EXCEPT ![c] = a]

\* Variant of Reply: the portal does not wait for its lock to drop the overview.
ReplyUnlocked(c) ==
  /\ At(Main(c), "out") \/ At(Main(c), "banned")
  /\ Len(stack[Main(c)]) = 1
  /\ LET f == Head(stack[Main(c)])
         drops == Front[c] = "portal" /\ f.exc = "none" /\ f.at = "out" /\ Tier[f.op] # "read"
     IN /\ dead' = (dead \/ (Front[c] = "mcp" /\ Says("mcp", f) = "crash"))
        /\ cache' = IF drops THEN [cache EXCEPT !.fresh = FALSE] ELSE cache
        /\ acked' = IF drops THEN ver[Local] ELSE acked
        /\ Close(c, Says(Front[c], f))
  /\ stack' = [stack EXCEPT ![Main(c)] = << >>]
  /\ UNCHANGED <<conf, request, ver, lock, view, seen, floor, count, permit, noted, changed, recorded>>

\* The answer.  The MCP server dies of what it does not catch; the portal drops
\* its overview, under the lock, when a change went well.
Reply(c) ==
  /\ At(Main(c), "out") \/ At(Main(c), "banned")
  /\ Len(stack[Main(c)]) = 1
  /\ LET f == Head(stack[Main(c)])
         drops == Front[c] = "portal" /\ f.exc = "none" /\ f.at = "out" /\ Tier[f.op] # "read"
     IN /\ dead' = (dead \/ (Front[c] = "mcp" /\ Says("mcp", f) = "crash"))
        /\ drops => lock = "free"
        /\ cache' = IF drops THEN [cache EXCEPT !.fresh = FALSE] ELSE cache
        /\ acked' = IF drops THEN ver[Local] ELSE acked
        /\ Close(c, Says(Front[c], f))
  /\ stack' = [stack EXCEPT ![Main(c)] = << >>]
  /\ UNCHANGED <<conf, request, ver, lock, view, seen, floor, count, permit, noted, changed, recorded>>

\* cached_overview: the lock is held while the overview is made.
Overview(c) ==
  /\ view[c] = "wait" /\ lock = "free"
  /\ IF cache.fresh
     THEN /\ view' = [view EXCEPT ![c] = "none"] /\ seen' = [seen EXCEPT ![c] = cache.of]
          /\ Close(c, "ok") /\ UNCHANGED lock
     ELSE /\ view' = [view EXCEPT ![c] = "read"] /\ lock' = c
          /\ UNCHANGED <<seen, open, answer>>
  /\ UNCHANGED <<flow, ver, cache, floor, acked, dead, count, permit, noted, changed, recorded>>

\* Variant of ReadOverview: an error leaves the lock taken.
ReadOverviewStuck(c) ==
  /\ view[c] = "read"
  /\ \/ /\ view' = [view EXCEPT ![c] = "store"] /\ seen' = [seen EXCEPT ![c] = ver[Local]]
        /\ UNCHANGED <<open, answer, faults>>
     \/ /\ Fault /\ view' = [view EXCEPT ![c] = "none"]
        /\ Close(c, "error") /\ UNCHANGED seen
  /\ UNCHANGED <<flow, ver, cache, lock, floor, acked, dead, asked, permit, noted, changed, recorded>>

ReadOverview(c) ==
  /\ view[c] = "read"
  /\ \/ /\ view' = [view EXCEPT ![c] = "store"] /\ seen' = [seen EXCEPT ![c] = ver[Local]]
        /\ UNCHANGED <<lock, open, answer, faults>>
     \/ /\ Fault /\ view' = [view EXCEPT ![c] = "none"] /\ lock' = "free"
        /\ Close(c, "error") /\ UNCHANGED seen
  /\ UNCHANGED <<flow, ver, cache, floor, acked, dead, asked, permit, noted, changed, recorded>>

StoreOverview(c) ==
  /\ view[c] = "store" /\ lock' = "free"
  /\ cache' = [of |-> seen[c], fresh |-> TRUE]
  /\ view' = [view EXCEPT ![c] = "none"] /\ Close(c, "ok")
  /\ UNCHANGED <<flow, ver, seen, floor, acked, dead, count, permit, noted, changed, recorded>>

\* CACHE_S pass.
Expire ==
  /\ cache.fresh /\ cache' = [cache EXCEPT !.fresh = FALSE]
  /\ UNCHANGED <<flow, ver, lock, view, seen, floor, acked, dead, count, history>>

Step(t) ==
  \/ Enter(t) \/ Hook(t) \/ Look(t) \/ Send(t) \/ Spread(t) \/ Unreachable(t)
  \/ Gather(t) \/ Remedy(t) \/ Back(t) \/ Audit(t)

AtFront(c) == Reply(c) \/ Overview(c) \/ ReadOverview(c) \/ StoreOverview(c)

Next ==
  \/ \E t \in Thread : Step(t)
  \/ \E c \in Client : Ask(c) \/ AtFront(c)
  \/ Expire

Spec == Init /\ [][Next]_vars

\* Threads run, every request to Docker ends (all have a time limit), and the
\* lock goes to those who wait.
FairSpec ==
  /\ Spec
  /\ \A t \in Thread : WF_vars(Step(t))
  /\ \A c \in Client : WF_vars(AtFront(c))

----------------------------------------------------------------------------
(* Properties.                                                             *)

Guard == INSTANCE Guardrail WITH Permits <- SUBSET (Op \X Endpoint), Change <- Op \X Endpoint

\* invoke(): "policy (deny -> PolicyDenied; previews list violations instead)
\* -> preview or HOOKS -> call -> audit record".  Whatever the front, the
\* nesting and the failures, only what the request, its confirmation and the
\* policy of each endpoint allow is changed, after its undo was noted, and
\* nothing is answered as done that is not recorded.
Guarded == Guard!Spec

\* "destroy never", "if o.tier is not Tier.READ: self._cache = None": an
\* overview asked for after the portal has acknowledged a change shows it.
OverviewShowsChanges ==
  \A c \in Client : view[c] = "none" /\ seen[c] # Unseen => seen[c] >= floor[c]

\* Every request is answered; the requests of the others as well, when one
\* waits for the lock or a worker fails.
Answered == \A c \in Client : c \in open ~> c \notin open
=============================================================================
