------------------------------- MODULE Service -------------------------------
(***************************************************************************)
(* Work on the database in one container (src/aisb/api/services.py and     *)
(* services/): `db clone` and `db advise` create it from a source and wait *)
(* until the service is ready, `svc ready` waits, `db grant-readonly` and  *)
(* `revoke-readonly` make and drop the role that `db query` connects as.   *)
(* The official images run a temporary server while they initialize an     *)
(* empty data directory.  The role's password is kept in a file of the     *)
(* user (services/roles.py) for every container.  Processes interleave at  *)
(* every call, and may be killed; the container may stop and be started.   *)
(***************************************************************************)
EXTENDS Naturals, FiniteSets

CONSTANTS
  Process, Command,
  Modes,       \* of config [db] readonly_role: "auto", "required"
  MaxCommands, MaxFaults \* bounds

ASSUME ServiceAssumption ==
  /\ IsFiniteSet(Process)
  /\ Command \subseteq {"clone", "advise", "ready", "grant", "grant other", "revoke", "query"}

VARIABLES
  box,     \* the container: [phase, data: initialized, log: lines of its log]
  role,    \* the password of the role in its database, 0 for no role
  creds,   \* the file: the passwords stored for this container and another
  me,      \* the processes: see Idle
  mode, given, faults

serviceVars == <<box, role, creds, me, mode, given, faults>>

NoBox == [phase |-> "none", data |-> FALSE, log |-> {}]
Answers == box.phase \in {"temporary", "real"}

\* at: what it does next; pending, green: of the last poll of ready(); pw: the
\* password it has made or loaded; file: what it has read of the file; had:
\* the role existed; said: its report, until another changes the role or the
\* file; alone: no other has since it began.
Idle(c, said, alone) ==
  [at |-> "idle", cmd |-> c, pending |-> FALSE, green |-> FALSE, pw |-> 0, file |-> <<0, 0>>,
   had |-> FALSE, said |-> said, alone |-> alone]

ServiceInit ==
  /\ box \in {NoBox, [NoBox EXCEPT !.phase = "real", !.data = TRUE]}
  /\ role = 0 /\ creds = <<0, 0>> /\ mode \in Modes
  /\ me = [p \in Process |-> Idle("query", "nothing", TRUE)] /\ given = 0 /\ faults = 0

At(p, at) == me[p].at = at

\* p goes on as m, having changed nothing; having changed the container; or
\* having changed the role or the file.
Moves(p, m) == me' = [me EXCEPT ![p] = m] /\ UNCHANGED <<mode, given, faults>>
GoesOn(p, m) == Moves(p, m) /\ UNCHANGED <<box, role, creds>>
Runs(p, m) == Moves(p, m) /\ UNCHANGED <<role, creds>>
Interferes(p, m) ==
  /\ me' = [x \in Process |-> IF x = p THEN m
                            ELSE IF me[x].at = "idle" THEN Idle("query", "nothing", TRUE)
                            ELSE [me[x] EXCEPT !.alone = FALSE]]
  /\ UNCHANGED <<mode, given, faults>>

Ends(p, said) == IF me[p].alone THEN Idle(me[p].cmd, said, TRUE) ELSE Idle("query", "nothing", TRUE)
Raise(p) == GoesOn(p, Ends(p, "error"))
On(p, at) == [me[p] EXCEPT !.at = at]

\* A password that is nowhere in use.
Passwords ==
  {role, creds[1], creds[2]} \cup UNION {{me[p].pw, me[p].file[1], me[p].file[2]} : p \in Process}
New == CHOOSE n \in 1..(Cardinality(Process) * 3 + 4) : n \notin Passwords

First(c) == CASE c \in {"clone", "advise"} -> "create" [] c = "ready" -> "inspect"
              [] c = "grant" -> "exists" [] c = "grant other" -> "read"
              [] c = "revoke" -> "drop" [] c = "query" -> "access"

\* adapter(): the commands on a database refuse a container that is not running.
BeginCommand(p) ==
  /\ At(p, "idle") /\ given < MaxCommands /\ given' = given + 1
  /\ \E c \in Command :
       /\ c \notin {"clone", "advise"} => box.phase # "none"
       /\ c \in {"grant", "revoke", "query"} => box.phase # "off"
       /\ me' = [me EXCEPT ![p] = [Idle(c, "nothing", TRUE) EXCEPT !.at = First(c), !.pw = IF c = "grant other" THEN New ELSE 0]]
  /\ UNCHANGED <<box, role, creds, mode, faults>>

----------------------------------------------------------------------------
(* clone, advise and ready                                                 *)

\* create_from(), which fails if the name is taken.
Create(p) ==
  /\ At(p, "create")
  /\ IF box.phase # "none" THEN Raise(p)
     ELSE Runs(p, On(p, "start")) /\ box' = [NoBox EXCEPT !.phase = "off"]

StartBox(p) ==
  /\ At(p, "start")
  /\ IF box.phase = "none" THEN Raise(p)
     ELSE /\ Runs(p, On(p, "inspect"))
          /\ box' = IF box.phase = "off" THEN [box EXCEPT !.phase = "boot"] ELSE box

\* ready() has its answer: clone goes on, or reports that it did not.
Answered(p, ok) ==
  IF me[p].cmd = "ready" THEN Ends(p, IF ok THEN "ready" ELSE "not ready")
  ELSE IF ok THEN On(p, "load")
  ELSE IF me[p].cmd = "advise" THEN On(p, "remove") ELSE Ends(p, "not ready")

\* One poll of ready(): inspect the container,
InspectBox(p) ==
  /\ At(p, "inspect")
  /\ IF box.phase = "none" THEN Raise(p)
     ELSE GoesOn(p, IF box.phase = "off" THEN Answered(p, FALSE) ELSE On(p, "logs"))

\* Variant of Pending: the log of the initialization is not looked at.
PendingNever == FALSE

\* An initialization has begun, and no line says that one is complete.
Pending == "started" \in box.log /\ "complete" \notin box.log

\* read its log,
Logs(p) ==
  /\ At(p, "logs")
  /\ IF box.phase = "none" THEN Raise(p) ELSE GoesOn(p, [On(p, "probe") EXCEPT !.pending = Pending])

\* and ask the server: ready once probes have passed for --stable seconds, the
\* one before this one among them; given up at any poll after --within.
Probe(p) ==
  /\ At(p, "probe")
  /\ LET passes == ~me[p].pending /\ Answers
     IN IF passes /\ me[p].green THEN GoesOn(p, Answered(p, TRUE))
        ELSE \/ GoesOn(p, [On(p, "inspect") EXCEPT !.green = passes])
             \/ GoesOn(p, Answered(p, FALSE))

\* The dump of the source is run into the clone.
LoadDump(p) ==
  /\ At(p, "load")
  /\ IF ~Answers THEN IF me[p].cmd = "advise" THEN GoesOn(p, On(p, "remove")) ELSE Raise(p)
     ELSE GoesOn(p, IF me[p].cmd = "advise" THEN On(p, "remove") ELSE Ends(p, "cloned"))

\* advise removes its clone, whatever came of the measurements.
RemoveBox(p) ==
  /\ At(p, "remove")
  /\ IF box.phase = "none" THEN Raise(p)
     ELSE Interferes(p, Ends(p, "advised")) /\ box' = NoBox /\ role' = 0 /\ UNCHANGED creds

----------------------------------------------------------------------------
(* The read-only role                                                      *)

\* Does the role exist?
Exists(p) ==
  At(p, "exists") /\ IF ~Answers THEN Raise(p) ELSE GoesOn(p, [On(p, "alter") EXCEPT !.had = role # 0])

\* CREATE or ALTER ROLE, as it was found, with a new password.
Alter(p) ==
  /\ At(p, "alter")
  /\ IF ~Answers \/ me[p].had # (role # 0) THEN Raise(p)
     ELSE /\ Interferes(p, [On(p, "prove") EXCEPT !.pw = New])
          /\ role' = New /\ UNCHANGED <<box, creds>>

\* Log in as the role before relying on it.
Prove(p) ==
  At(p, "prove") /\ IF ~Answers \/ role # me[p].pw THEN Raise(p) ELSE GoesOn(p, On(p, "read"))

\* roles.save() and forget(): read the whole file, then write the whole file.
ReadCreds(p) == At(p, "read") /\ GoesOn(p, [On(p, "write") EXCEPT !.file = creds])

\* Variant of Stored: the credential it found is left in place.
StoredOld(p) ==
  LET k == IF me[p].cmd = "grant other" THEN 2 ELSE 1
  IN IF me[p].file[k] # 0 THEN me[p].file ELSE [me[p].file EXCEPT ![k] = me[p].pw]

\* The file with the container's credential: a new one, or none any more.
Stored(p) == [me[p].file EXCEPT ![IF me[p].cmd = "grant other" THEN 2 ELSE 1] = me[p].pw]

\* Nothing is written to forget what the file did not hold.
WriteCreds(p) ==
  /\ At(p, "write")
  /\ IF Stored(p) = me[p].file /\ me[p].pw = 0 THEN GoesOn(p, Ends(p, "revoked"))
     ELSE /\ creds' = Stored(p) /\ UNCHANGED <<box, role>>
          /\ Interferes(p, Ends(p, IF me[p].cmd = "grant" THEN "granted" ELSE "revoked"))

\* DROP ROLE IF EXISTS, then forget the credential.
Drop(p) ==
  /\ At(p, "drop")
  /\ IF ~Answers THEN Raise(p)
     ELSE Interferes(p, [On(p, "read") EXCEPT !.pw = 0]) /\ role' = 0 /\ UNCHANGED <<box, creds>>

\* _readonly_access(): the stored role, or else only a read-only session,
\* which the configuration may refuse.
Access(p) ==
  /\ At(p, "access")
  /\ IF creds[1] # 0 THEN GoesOn(p, [On(p, "login") EXCEPT !.pw = creds[1]])
     ELSE IF mode = "required" THEN Raise(p) ELSE GoesOn(p, [On(p, "login") EXCEPT !.pw = 0])

\* Without a credential it connects as the owner of the database.
Login(p) ==
  /\ At(p, "login")
  /\ IF ~Answers \/ me[p].pw \notin {0, role} THEN Raise(p)
     ELSE GoesOn(p, Ends(p, IF me[p].pw = 0 THEN "as owner" ELSE "as role"))

----------------------------------------------------------------------------
(* The container, and other commands.                                      *)

Becomes(phase, data, lines) ==
  /\ box' = [phase |-> phase, data |-> box.data \/ data, log |-> box.log \cup lines]
  /\ UNCHANGED <<role, creds, me, mode, given, faults>>

\* The image's entrypoint: an empty data directory is initialized, with a
\* temporary server, which is stopped before the line that says so.
Boot == box.phase = "boot" /\ IF box.data THEN Becomes("real", FALSE, {}) ELSE Becomes("init", FALSE, {"started"})
Temporary == box.phase = "init" /\ Becomes("temporary", TRUE, {})
Swap == box.phase = "temporary" /\ Becomes("swap", TRUE, {})
Real == box.phase = "swap" /\ Becomes("real", TRUE, {"complete"})

Fault == faults < MaxFaults /\ faults' = faults + 1 /\ UNCHANGED <<role, creds, mode, given>>

\* The container stops; it is started again with its data and its log.
Stop ==
  /\ box.phase \notin {"none", "off"} /\ Fault
  /\ box' = [box EXCEPT !.phase = "off"] /\ UNCHANGED me

Restart == box.phase = "off" /\ box.log # {} /\ Becomes("boot", FALSE, {})

Kill(p) == ~At(p, "idle") /\ Fault /\ me' = [me EXCEPT ![p] = Idle("query", "nothing", TRUE)] /\ UNCHANGED box

Step(p) ==
  \/ Create(p) \/ StartBox(p) \/ InspectBox(p) \/ Logs(p) \/ Probe(p) \/ LoadDump(p) \/ RemoveBox(p)
  \/ Exists(p) \/ Alter(p) \/ Prove(p) \/ ReadCreds(p) \/ WriteCreds(p) \/ Drop(p)
  \/ Access(p) \/ Login(p)

ServiceNext ==
  \/ \E p \in Process : BeginCommand(p) \/ Step(p) \/ Kill(p)
  \/ Boot \/ Temporary \/ Swap \/ Real \/ Stop \/ Restart

ServiceSpec == ServiceInit /\ [][ServiceNext]_serviceVars

----------------------------------------------------------------------------
(* Properties.                                                             *)

\* "Wait until the service really answers", since "a log-line wait fires too
\* early": ready() never takes the temporary server of a first start for the
\* service, however its inspections, logs and probes fall between the steps of
\* the entrypoint, stops and restarts.
ReadyIsReal ==
  [][\A p \in Process : At(p, "probe") /\ (me'[p].at = "load" \/ me'[p].said = "ready")
                         => box.phase = "real"]_serviceVars

\* A grant that reports success has stored the password the role logs in with,
\* whatever half-done grants and revokes came before, and queries, stops and
\* kills leave it so, until another command changes the role or the file.
GrantHolds == \A p \in Process : me[p].said = "granted" => role # 0 /\ creds[1] = role
=============================================================================
