------------------------------ MODULE Converge ------------------------------
(***************************************************************************)
(* Stacks on one host: `stack up` and `down` (src/aisb/api/stack.py,       *)
(* stack.py) and the desired-state commands of the fleet on it, `fleet     *)
(* diff`, `converge` and `replace-drifted` (api/fleet.py), run by several  *)
(* processes at once against a daemon whose containers exit or are paused, *)
(* while stack files are edited and processes are killed.  Every call to   *)
(* the daemon is a step.                                                   *)
(*                                                                         *)
(* A command is [kind, k: the stack it names, only: the services of `down  *)
(* --service`, wait: not --no-wait, volumes].  The process Cron runs       *)
(* `fleet converge` again and again.                                       *)
(***************************************************************************)
EXTENDS Naturals, Sequences, FiniteSets

CONSTANTS
  Stacks,      \* the services of each assigned stack, in order: <<{service}>>
  deps,        \* for each service, those of its stack it depends on
  Process, Cron,
  Commands,     \* the commands the others may be given
  Digest,      \* the digests a service's configuration may have
  MaxCommands, MaxEvents \* bounds: commands but Cron's; those, faults and edits

Service == UNION {Stacks[k] : k \in DOMAIN Stacks}

\* parse() refuses a stack without services; diff, converge and replace-drifted
\* are of all the assigned stacks, from the first.
ASSUME ConvergeAssumption ==
  /\ Stacks \in Seq(SUBSET Service)
  /\ Cron \in Process
  /\ \A k \in DOMAIN Stacks : Stacks[k] # {} /\ IsFiniteSet(Stacks[k])
  /\ \A k \in DOMAIN Stacks : \A s \in Stacks[k] : deps[s] \subseteq Stacks[k] \ {s}
  /\ \A j, k \in DOMAIN Stacks : j # k => Stacks[j] \cap Stacks[k] = {}
  /\ \A c \in Commands :
       /\ c \in [kind : {"up", "down", "ps", "diff", "converge", "replace"}, k : DOMAIN Stacks,
                 only : SUBSET Stacks[c.k], wait : BOOLEAN, volumes : BOOLEAN]
       /\ c.kind \in {"diff", "converge", "replace"} => c.k = 1

VARIABLES
  want,   \* the digest of each service in the stack files
  box,    \* the container of each service: None or [id, hash, state, ready]
  nets, vols, \* the stacks whose network, whose volumes exist
  me,     \* the processes, see Idle
  given, faults

stackVars == <<want, box, nets, vols, me, given, faults>>

None == [id |-> 0]
AnyDigest == CHOOSE d \in Digest : TRUE
Up(s) == box[s] # None /\ box[s].state \in {"running", "paused"}

\* at: what the process does next; want, rows, order: the digests, the
\* containers and the order of services it has read; pos: the service it is
\* at; passed: those its `up` has found ready, or drifted and passed by;
\* todo: containers to delete; had: every stack was as it should be; said:
\* its last report, while nothing has changed since; quiet: nothing but it has
\* changed anything since it began.
Idle(c, said) ==
  [at |-> "idle", cmd |-> c, k |-> 1, want |-> << >>, rows |-> << >>, order |-> << >>, pos |-> 1,
   passed |-> {}, todo |-> {}, had |-> TRUE, said |-> said, quiet |-> TRUE]

Converging == [kind |-> "converge", k |-> 1, only |-> {}, wait |-> TRUE, volumes |-> FALSE]

Rest == Idle(Converging, "nothing")

ConvergeInit ==
  /\ want = [s \in Service |-> AnyDigest]
  /\ box = [s \in Service |-> None] /\ nets = {} /\ vols = {}
  /\ me = [p \in Process |-> Rest]
  /\ given = 0 /\ faults = 0

----------------------------------------------------------------------------
(* Steps of a process.                                                     *)

At(p, at) == me[p].at = at
Here(p) == me[p].order[me[p].pos]
World == <<want, box, nets, vols>>

Disturbed(m) == IF m.at = "idle" THEN Rest ELSE [m EXCEPT !.quiet = FALSE]

\* p goes on as m, having changed nothing, or having changed something.
Goes(p, m) == me' = [me EXCEPT ![p] = m] /\ UNCHANGED <<World, given, faults>>
Acts(p, m) ==
  /\ me' = [x \in Process |-> IF x = p THEN m ELSE Disturbed(me[x])]
  /\ UNCHANGED <<want, given, faults>>

Ended(p, said) == IF said = "ok" /\ me[p].quiet THEN Idle(me[p].cmd, "ok") ELSE Rest
Raise(p) == Goes(p, Ended(p, "error"))

Begins(p, c, at) == [Idle(c, "nothing") EXCEPT !.at = at, !.k = c.k, !.want = want]

\* stk.parse(), the state file and the op's parameters.
Begin(p) ==
  /\ At(p, "idle")
  /\ \E c \in IF p = Cron THEN {Converging} ELSE Commands :
       me' = [me EXCEPT ![p] = Begins(p, c, CASE c.kind = "up" -> "load"
                                              [] c.kind = "down" -> "list"
                                              [] c.kind \in {"converge", "replace", "diff", "ps"} -> "rows")]
  /\ IF p = Cron THEN given' = given ELSE given < MaxCommands /\ given + faults < MaxEvents /\ given' = given + 1
  /\ UNCHANGED <<World, faults>>

Row(s) == IF box[s] = None THEN None ELSE [hash |-> box[s].hash, state |-> box[s].state]

\* _stack_rows(), once for all the stacks of the host.
Rows(p) == At(p, "rows") /\ Goes(p, [me[p] EXCEPT !.rows = [s \in Service |-> Row(s)], !.at = "plan"])

\* stack.plan() of p's k-th stack: the states but "ok".
Missing(p, k) == {s \in Stacks[k] : me[p].rows[s] = None}
Drift(p, k) == {s \in Stacks[k] \ Missing(p, k) : me[p].rows[s].hash # me[p].want[s]}

\* Variant of NotRunning: a container that was never started is not noticed.
NotRunningExited(p, k) ==
  {s \in Stacks[k] \ (Missing(p, k) \cup Drift(p, k)) : me[p].rows[s].state = "exited"}

NotRunning(p, k) ==
  {s \in Stacks[k] \ (Missing(p, k) \cup Drift(p, k)) : me[p].rows[s].state # "running"}

Clean(p, k) == Missing(p, k) \cup NotRunning(p, k) \cup Drift(p, k) = {}

\* To the next stack; what was read of this one is not used again.
Forget(f, k, any) == [s \in Service |-> IF s \in Stacks[k] THEN any ELSE f[s]]
OnTo(m) == [m EXCEPT !.k = @ + 1, !.at = "plan", !.order = << >>, !.pos = 1, !.passed = {},
                     !.rows = Forget(@, m.k, None), !.want = Forget(@, m.k, AnyDigest)]

\* One stack of diff, converge or replace-drifted, or the report of all.
Plan(p) ==
  /\ At(p, "plan")
  /\ LET k == me[p].k
         kind == me[p].cmd.kind
     IN IF k \notin DOMAIN Stacks THEN Goes(p, Ended(p, IF me[p].had THEN "ok" ELSE "not ok"))
        ELSE Goes(p,
          CASE kind = "diff" -> OnTo([me[p] EXCEPT !.had = @ /\ Clean(p, k)])
            [] kind = "ps" -> Ended(p, IF Clean(p, k) THEN "ok" ELSE "not ok")
            [] kind = "converge" -> IF Missing(p, k) \cup NotRunning(p, k) = {} THEN OnTo(me[p])
                                    ELSE [me[p] EXCEPT !.at = "load"]
            [] kind = "replace" -> IF Drift(p, k) = {} THEN OnTo(me[p])
                                   ELSE [me[p] EXCEPT !.at = "list"])

----------------------------------------------------------------------------
(* stack up                                                                *)

\* Variant of Orders: the services in any order.
OrdersAny(k) ==
  LET S == Stacks[k] IN {o \in [1..Cardinality(S) -> S] : \A s \in S : \E i \in DOMAIN o : o[i] = s}

\* static_order(): a service after those it depends on.
Orders(k) ==
  {o \in OrdersAny(k) : \A i, j \in DOMAIN o : o[j] \in deps[o[i]] => j < i}

\* `stack up` reads the file once more.
Load(p) ==
  /\ At(p, "load")
  /\ \E o \in Orders(me[p].k) :
       Goes(p, [me[p] EXCEPT !.at = "net", !.order = o, !.rows = IF @ = << >> THEN @ ELSE Forget(@, me[p].k, None),
                  !.want = [s \in Service |-> IF s \in Stacks[me[p].k] THEN want[s] ELSE @[s]]])

\* Look for the network, and create it if there is none.
FindNet(p) ==
  At(p, "net") /\ Goes(p, [me[p] EXCEPT !.at = IF me[p].k \in nets THEN "vols" ELSE "mknet"])

MakeNet(p) ==
  /\ At(p, "mknet")
  /\ IF me[p].k \in nets THEN Raise(p)
     ELSE /\ Acts(p, [me[p] EXCEPT !.at = "vols"]) /\ nets' = nets \cup {me[p].k}
          /\ UNCHANGED <<box, vols>>

\* A volume that exists is returned by a create: no race to lose.
MakeVols(p) ==
  /\ At(p, "vols")
  /\ IF me[p].k \in vols THEN Goes(p, [me[p] EXCEPT !.at = "look"])
     ELSE /\ Acts(p, [me[p] EXCEPT !.at = "look"]) /\ vols' = vols \cup {me[p].k}
          /\ UNCHANGED <<box, nets>>

\* up() of a stack returns.
Back(p, ok) ==
  IF me[p].cmd.kind \in {"converge", "replace"} /\ ok THEN OnTo(me[p])
  ELSE Ended(p, IF ok THEN "ok" ELSE "not ok")

\* The service p is at is done with.
Pass(p) ==
  LET m == [me[p] EXCEPT !.passed = @ \cup {Here(p)}]
  IN IF m.pos = Len(m.order) THEN Back(p, TRUE) ELSE [m EXCEPT !.pos = @ + 1, !.at = "look"]

\* Variant of Found: one that does not run is created, though its name is taken.
FoundCreates(p) ==
  LET there == box[Here(p)] IN
  IF there # None /\ there.hash # me[p].want[Here(p)] THEN "drift"
  ELSE IF Up(Here(p)) THEN "gate" ELSE "create"

\* What up() does about the container of the service it inspects by name;
\* State.Running also holds of a paused one.
Found(p) ==
  LET there == box[Here(p)] IN
  IF there = None THEN "create" ELSE IF there.hash # me[p].want[Here(p)] THEN "drift"
  ELSE IF Up(Here(p)) THEN "gate" ELSE "start"

Look(p) ==
  /\ At(p, "look")
  /\ Goes(p, IF Found(p) = "drift" THEN Pass(p) ELSE [me[p] EXCEPT !.at = Found(p)])

\* An id that no container has and no process is about to delete.
FreshId ==
  CHOOSE n \in 1..(Cardinality(Service) * (Cardinality(Process) + 1)) :
    n \notin {box[s].id : s \in Service} \cup UNION {me[p].todo : p \in Process}

\* create_from(): the name may have been taken since.
Create(p) ==
  /\ At(p, "create")
  /\ IF box[Here(p)] # None THEN Raise(p)
     ELSE /\ Acts(p, [me[p] EXCEPT !.at = "start"])
          /\ box' = [box EXCEPT ![Here(p)] = [id |-> FreshId, hash |-> me[p].want[Here(p)],
                                              state |-> "created", ready |-> FALSE]]
          /\ UNCHANGED <<nets, vols>>

\* Fails if the container or its network is gone; no change if it runs.
StartService(p) ==
  /\ At(p, "start")
  /\ IF box[Here(p)] = None \/ me[p].k \notin nets THEN Raise(p)
     ELSE IF Up(Here(p)) THEN Goes(p, [me[p] EXCEPT !.at = "gate"])
     ELSE /\ Acts(p, [me[p] EXCEPT !.at = "gate"])
          /\ box' = [box EXCEPT ![Here(p)].state = "running"] /\ UNCHANGED <<nets, vols>>

\* A service that did not become ready in time: up() stops there.
Late(p) == Back(p, FALSE)

\* _ready(), or nothing with --no-wait: it was ready at some moment before
\* `within`, or not.  What a paused container's rule finds depends on the rule.
Gate(p) ==
  LET there == box[Here(p)] IN
  /\ At(p, "gate")
  /\ IF ~me[p].cmd.wait THEN Goes(p, Pass(p))
     ELSE IF there = None THEN Raise(p)
     ELSE \/ Up(Here(p)) /\ there.ready /\ Goes(p, Pass(p))
          \/ (~there.ready \/ there.state # "running") /\ Goes(p, Late(p))

----------------------------------------------------------------------------
(* stack down                                                              *)

Attached(k) == {s \in Stacks[k] : Up(s)}
Ids(ss) == {box[s].id : s \in {x \in ss : box[x] # None}}

\* down() lists the containers by label: of the stack, or of --service; of
\* replace-drifted, those that had drifted when it listed them.
List(p) ==
  /\ At(p, "list")
  /\ LET only == IF me[p].cmd.kind = "replace" THEN Drift(p, me[p].k) ELSE me[p].cmd.only
     IN Goes(p, [me[p] EXCEPT !.at = "delete",
                   !.todo = Ids(IF only = {} THEN Stacks[me[p].k] ELSE only)])

\* down() has removed what it was to remove.
Downed(p) ==
  CASE me[p].cmd.kind = "replace" -> [me[p] EXCEPT !.at = "load"]
    [] me[p].cmd.kind = "down" /\ me[p].cmd.only # {} -> Ended(p, "ok")
    [] OTHER -> [me[p] EXCEPT !.at = "nets"]

\* One DELETE by id, which fails if another has been quicker.
Delete(p) ==
  /\ At(p, "delete")
  /\ IF me[p].todo = {} THEN Goes(p, Downed(p))
     ELSE \E id \in me[p].todo :
            IF id \notin Ids(Service) THEN Raise(p)
            ELSE /\ Acts(p, [me[p] EXCEPT !.todo = @ \ {id}])
                 /\ box' = [s \in Service |-> IF box[s].id = id THEN None ELSE box[s]]
                 /\ UNCHANGED <<nets, vols>>

DropVols(p) == IF me[p].cmd.volumes THEN [me[p] EXCEPT !.at = "rmvols"] ELSE Ended(p, "ok")

\* The stack's network, kept if others are attached to it.
FindNets(p) ==
  /\ At(p, "nets")
  /\ Goes(p, IF me[p].k \notin nets \/ Attached(me[p].k) # {} THEN DropVols(p)
             ELSE [me[p] EXCEPT !.at = "rmnet"])

RemoveNet(p) ==
  /\ At(p, "rmnet")
  /\ IF me[p].k \notin nets \/ Attached(me[p].k) # {} THEN Raise(p)
     ELSE Acts(p, DropVols(p)) /\ nets' = nets \ {me[p].k} /\ UNCHANGED <<box, vols>>

\* The stack's volumes, as they are listed now; one in use is refused.
RemoveVols(p) ==
  /\ At(p, "rmvols")
  /\ IF me[p].k \notin vols THEN Goes(p, Ended(p, "ok"))
     ELSE IF Ids(Stacks[me[p].k]) # {} THEN Raise(p)
     ELSE Acts(p, Ended(p, "ok")) /\ vols' = vols \ {me[p].k} /\ UNCHANGED <<box, nets>>

----------------------------------------------------------------------------
(* The host and its users.                                                 *)

\* A running service becomes ready.
Warm(s) ==
  /\ Up(s) /\ ~box[s].ready /\ box' = [box EXCEPT ![s].ready = TRUE]
  /\ UNCHANGED <<want, nets, vols, me, given, faults>>

Disturbs ==
  /\ given + faults < MaxEvents /\ faults' = faults + 1
  /\ me' = [p \in Process |-> Disturbed(me[p])]
  /\ UNCHANGED <<nets, vols, given>>

Exits(s) ==
  /\ Up(s) /\ Disturbs /\ UNCHANGED want
  /\ box' = [box EXCEPT ![s].state = "exited", ![s].ready = FALSE]

Pause(s) ==
  /\ Up(s) /\ Disturbs /\ UNCHANGED want
  /\ box' = [box EXCEPT ![s].state = IF @ = "running" THEN "paused" ELSE "running"]

\* The configuration of a service is changed in its stack's file.
EditStack(s) ==
  \E d \in Digest \ {want[s]} : want' = [want EXCEPT ![s] = d] /\ Disturbs /\ UNCHANGED box

Kill(p) ==
  /\ ~At(p, "idle") /\ given + faults < MaxEvents /\ faults' = faults + 1
  /\ me' = [me EXCEPT ![p] = Ended(p, "error")] /\ UNCHANGED <<World, given>>

Step(p) ==
  \/ Rows(p) \/ Plan(p) \/ Load(p) \/ FindNet(p) \/ MakeNet(p) \/ MakeVols(p) \/ Look(p)
  \/ Create(p) \/ StartService(p) \/ Gate(p) \/ List(p) \/ Delete(p) \/ FindNets(p) \/ RemoveNet(p)
  \/ RemoveVols(p)

ConvergeNext ==
  \/ \E p \in Process : Begin(p) \/ Step(p) \/ Kill(p)
  \/ \E s \in Service : Warm(s) \/ Exits(s) \/ Pause(s) \/ EditStack(s)

ConvergeSpec == ConvergeInit /\ [][ConvergeNext]_stackVars

\* A process that is not killed goes on, Cron comes again, and a service that
\* runs becomes ready.
ConvergeFairness ==
  /\ WF_stackVars(Begin(Cron))
  /\ \A p \in Process : WF_stackVars(Step(p))
  /\ \A s \in Service : WF_stackVars(Warm(s))

ConvergeFairSpec == ConvergeSpec /\ ConvergeFairness

----------------------------------------------------------------------------
(* Properties.                                                             *)

InPlace(s) == Up(s) /\ box[s].hash = want[s]
Drifted(s) == box[s] # None /\ box[s].hash # want[s]

Achieved(c) ==
  CASE c.kind = "up" -> \A s \in Stacks[c.k] : Drifted(s) \/ (InPlace(s) /\ (c.wait => box[s].ready))
    [] c.kind = "down" -> \A s \in IF c.only = {} THEN Stacks[c.k] ELSE c.only : box[s] = None
    [] c.kind = "converge" -> \A s \in Service : Drifted(s) \/ InPlace(s)
    [] c.kind = "replace" -> \A s \in Service : ~Drifted(s)
    [] c.kind = "diff" -> \A s \in Service : InPlace(s) /\ box[s].state = "running"
    [] c.kind = "ps" -> \A s \in Stacks[c.k] : InPlace(s) /\ box[s].state = "running"

\* A command that reports success has achieved what it is for, unless another
\* process or a fault has interfered since it began: services in place but
\* for those reported as drifted, none drifted, none left; in whatever half
\* done state its predecessors left the host.
OkMeansDone == \A p \in Process : me[p].at = "idle" /\ me[p].said = "ok" => Achieved(me[p].cmd)

\* "start services in dependency order, each gated on real readiness": a
\* waiting `up` starts a service only after it has found each service it
\* depends on ready or drifted, since it began.
StartsInOrder ==
  [][\A p \in Process : \A s \in Service :
       At(p, "start") /\ Here(p) = s /\ me[p].cmd.wait /\ ~Up(s) /\ Up(s)'
         => deps[s] \subseteq me[p].passed]_stackVars

\* "Bring hosts to the desired state": converge, run again and again, has
\* every service running or drifted in the end and keeps it so, whatever
\* faults, kills, edits and other commands came before, unless one is left
\* paused: `up` takes it for running and its gate may fail for ever.
Heals ==
  <>[]((\A s \in Service : InPlace(s) \/ Drifted(s))
       \/ \E s \in Service : box[s] # None /\ box[s].state = "paused")
=============================================================================
