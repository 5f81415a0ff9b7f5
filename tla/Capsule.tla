------------------------------- MODULE Capsule -------------------------------
(***************************************************************************)
(* `aisb capsule create` and `aisb capsule load` (src/aisb/api/capsule.py, *)
(* redact.py): one container bundled into a file, with a sample of its     *)
(* database taken by the steps of Dataset while the application inserts,   *)
(* and created again from the file on another machine.  Any call to a      *)
(* daemon may fail; nothing is rolled back.  A member of the file is       *)
(* written by one step.  With capsule.at = "off" Dataset runs by itself.   *)
(***************************************************************************)
EXTENDS Dataset

CONSTANTS
  Mounts,    \* the container's mounts
  Where,     \* the secrets in its environment and labels: name -> "env" or "label"
  Command,   \* its arguments, each a [flag, value], "none" for what it lacks
  Flags,     \* the flags whose value is a secret
  Tokens,    \* the values that are a secret wherever they are
  Known,     \* the sets of images the other machine may begin with
  MaxLoads   \* bound: times the file is loaded

ASSUME CapsuleAssumption ==
  Where \in [DOMAIN Where -> {"env", "label"}] /\ MaxLoads \in Nat

VARIABLES
  capsule,  \* the creating command: [at, volumes, db_sample, image, sql]
  file,     \* what it has written, see NoFile
  load,     \* the loading command, see Loading
  there     \* the other machine: images, the container of the name asked for,
            \* its volumes and the rows of its database

cvars == <<capsule, file, load, there>>
allvars == <<vars, cvars>>

\* cut: placeholders stand for these secrets; db: there is a schema.
NoFile == [manifest |-> FALSE, cut |-> {}, db |-> FALSE, sampled |-> FALSE,
           rows |-> << >>, mounts |-> {}, image |-> FALSE]

Loading(at, n) == [at |-> at, n |-> n, supplied |-> {}, ref |-> "none", missing |-> {}, todo |-> {}, report |-> "none"]

\* redact.args: the name that stands for an argument, or "none". A secret flag
\* takes the next argument for its value, unless it is a flag as well.
NameOf(i) ==
  LET arg == Command[i]
      before == IF i > 1 /\ Command[i - 1].value = "none" THEN Command[i - 1].flag ELSE "none"
      taken == arg.flag = "none" /\ before \in Flags
  IN CASE taken -> before
       [] arg.flag \in Flags /\ arg.value # "none" -> arg.flag
       [] ~taken /\ arg.flag \notin Flags /\ arg.value \in Tokens -> arg.value
       [] OTHER -> "none"

InCommand == {NameOf(i) : i \in DOMAIN Command} \ {"none"}
Secrets == InCommand \cup DOMAIN Where

NoContainer == [state |-> "none", has |-> {}, placeholders |-> {}, rows |-> << >>]

CapsuleInit ==
  /\ schema \in Schemas /\ db \in Databases(schema) /\ inserts = 0
  /\ sample = Sampling("roots", schema, FALSE) /\ seed = Seeding("off", {})
  /\ capsule \in {c \in [at : {"inspect"}, volumes : BOOLEAN, db_sample : BOOLEAN, image : BOOLEAN, sql : BOOLEAN] :
                    c.db_sample => c.sql}
  /\ file = NoFile /\ load = Loading("idle", 0)
  /\ there \in [images : Known, container : {NoContainer}, volumes : {{}}]

AloneInit ==
  /\ Init
  /\ capsule = [at |-> "off", volumes |-> FALSE, db_sample |-> FALSE, image |-> FALSE, sql |-> FALSE]
  /\ file = NoFile /\ load = Loading("idle", MaxLoads)
  /\ there = [images |-> {}, container |-> NoContainer, volumes |-> {}]

----------------------------------------------------------------------------
(* create                                                                  *)

Writes(at, f) == capsule' = [capsule EXCEPT !.at = at] /\ file' = f /\ UNCHANGED <<vars, load, there>>

\* The configuration, with a placeholder for every secret; the service is
\* looked at only if it is a running SQL server.
Inspect ==
  /\ capsule.at = "inspect"
  /\ Writes(IF capsule.sql THEN "schema" ELSE "volumes", [file EXCEPT !.cut = Secrets])

DumpSchema ==
  /\ capsule.at = "schema"
  /\ Writes(IF capsule.db_sample THEN "sampling" ELSE "volumes", [file EXCEPT !.db = TRUE])

\* Db.sample has come to its end.
AddSample ==
  /\ capsule.at = "sampling" /\ sample.at = "done"
  /\ Writes("volumes", [file EXCEPT !.sampled = TRUE, !.rows = sample.out])

AddVolume ==
  /\ capsule.at = "volumes"
  /\ IF capsule.volumes /\ file.mounts # Mounts
     THEN \E m \in Mounts \ file.mounts : Writes("volumes", [file EXCEPT !.mounts = @ \cup {m}])
     ELSE Writes("manifest", [file EXCEPT !.image = capsule.image])

\* The manifest is the last member: a file without one is no capsule.
AddManifest == capsule.at = "manifest" /\ Writes("done", [file EXCEPT !.manifest = TRUE])

CreateFails ==
  /\ capsule.at \in {"inspect", "schema", "sampling", "volumes", "manifest"}
  /\ Writes("failed", file)

Create == Inspect \/ DumpSchema \/ AddSample \/ AddVolume \/ AddManifest \/ CreateFails

----------------------------------------------------------------------------
(* load                                                                    *)

Loads(l, w) == load' = l /\ there' = w /\ UNCHANGED <<vars, capsule, file>>

\* Secrets of the configuration that stay placeholders, by where they are.
Unfilled(where, supplied) == {s \in file.cut \ supplied : IF s \in InCommand THEN where = "command" ELSE Where[s] = where}

\* What the file itself forbids is refused before the first change.
Check ==
  /\ load.at = "idle" /\ load.n < MaxLoads /\ capsule.at \in {"done", "failed"}
  /\ \E supplied \in SUBSET Secrets :
       LET l == [Loading("image", load.n + 1) EXCEPT !.supplied = supplied]
       IN Loads(IF ~file.manifest \/ Unfilled("command", supplied) # {} THEN [l EXCEPT !.at = "refused"] ELSE l, there)

\* The image in the file is loaded; then the first name known here is taken,
\* else the first that can be pulled.
Candidates == <<"id", "digest", "ref">>

EnsureImage ==
  /\ load.at = "image"
  /\ LET images == there.images \cup IF file.image THEN {"id"} ELSE {}
         known == {i \in 1..3 : Candidates[i] \in images}
     IN IF known # {}
        THEN LET i == CHOOSE j \in known : \A k \in known : j <= k
             IN Loads([load EXCEPT !.at = "create", !.ref = Candidates[i]], [there EXCEPT !.images = images])
        ELSE \/ \E i \in 2..3 :
                  Loads([load EXCEPT !.at = "create", !.ref = Candidates[i]],
                        [there EXCEPT !.images = @ \cup {Candidates[i], "id"}])
             \/ Loads([load EXCEPT !.at = "refused"], there)

\* Variant of Dropped: the label is kept as it is in the file.
DroppedEnv(supplied) == Unfilled("env", supplied)

\* A variable or a label whose secret is not supplied is left out.
Dropped(supplied) == Unfilled("env", supplied) \cup Unfilled("label", supplied)

\* A container with the supplied secrets and a volume for each mount in the
\* file.  If the image has gone meanwhile, it is pulled by the name taken.
CreateContainer ==
  /\ load.at = "create"
  /\ LET dropped == Dropped(load.supplied)
         created == [there EXCEPT
           !.images = @ \cup {load.ref},
           !.container = [state |-> "created", has |-> (Secrets \ file.cut) \cup (file.cut \cap load.supplied),
                          placeholders |-> (file.cut \ load.supplied) \ dropped,
                          rows |-> [t \in Tables(schema) |-> {}]],
           !.volumes = @ \cup {<<m, "empty">> : m \in {n \in file.mounts : \A v \in @ : v[1] # n}}]
     IN IF there.container.state = "none" /\ (load.ref \in there.images \/ load.ref # "id")
        THEN Loads([load EXCEPT !.at = "put", !.todo = file.mounts,
                      !.missing = Unfilled("env", load.supplied) \cup Unfilled("label", load.supplied)], created)
        ELSE Loads([load EXCEPT !.at = "failed"], there)

\* Each archive is unpacked into its volume, then the container is started.
PutArchives ==
  /\ load.at = "put"
  /\ IF load.todo = {}
     THEN Loads([load EXCEPT !.at = "replay"], [there EXCEPT !.container.state = "running"])
     ELSE \E m \in load.todo :
            Loads([load EXCEPT !.todo = @ \ {m}],
                  [there EXCEPT !.volumes = {v \in @ : v[1] # m} \cup {<<m, "restored">>}])

\* The database is in a volume, or there is none, or it has to be ready.
Replay ==
  /\ load.at = "replay"
  /\ IF ~file.db THEN Loads([load EXCEPT !.at = "done"], there)
     ELSE IF file.mounts # {} THEN Loads([load EXCEPT !.at = "done", !.report = "from volumes"], there)
     ELSE \/ Loads([load EXCEPT !.at = "done", !.report = "error"], there)
          \/ Loads([load EXCEPT !.at = "script", !.todo = IF file.sampled THEN Tables(schema) ELSE {}], there)

\* What is said of the database when its scripts are through, or one failed.
Reported(ok) == IF ~ok THEN "error" ELSE IF file.sampled THEN "schema and sample" ELSE "schema"

\* The statements of the sample, one table after the other, without checks.
RunScript ==
  /\ load.at = "script"
  /\ IF load.todo = {} THEN Loads([load EXCEPT !.at = "done", !.report = Reported(TRUE)], there)
     ELSE \/ \E t \in Firsts(schema, Tables(schema), load.todo) :
               Loads([load EXCEPT !.todo = @ \ {t}], [there EXCEPT !.container.rows[t] = file.rows[t]])
          \/ Loads([load EXCEPT !.at = "done", !.report = Reported(FALSE)], there)

LoadFails == load.at \in {"image", "create", "put"} /\ Loads([load EXCEPT !.at = "failed"], there)

Load == Check \/ EnsureImage \/ CreateContainer \/ PutArchives \/ Replay \/ RunScript \/ LoadFails

\* Between two loads the container may be removed; its named volumes stay.
Again ==
  /\ load.at \in {"done", "failed", "refused"} /\ load.n < MaxLoads
  /\ \E gone \in BOOLEAN :
       Loads(Loading("idle", load.n), IF gone THEN [there EXCEPT !.container = NoContainer] ELSE there)

\* Someone removes the images of that machine before the container is created.
Prune == load.at = "create" /\ there.images # {} /\ Loads(load, [there EXCEPT !.images = {}])

Elsewhere == capsule.at \in {"off", "sampling"} /\ SampleNext /\ UNCHANGED cvars
Others == (SeedNext \/ AppInsert) /\ UNCHANGED cvars

CapsuleNext == Elsewhere \/ Others \/ Create \/ Load \/ Again \/ Prune

CapsuleSpec == (AloneInit \/ CapsuleInit) /\ [][CapsuleNext]_allvars

----------------------------------------------------------------------------
(* Properties.                                                             *)

\* "Referentially complete subset" of a sample, "then DB schema + sample once
\* the service is ready" of a capsule: the rows sampled hold every row they
\* refer to, though each table is read by several queries and rows are inserted
\* between them; and a load that says so has left those very rows, though it
\* checks nothing.
SampleIsWhole ==
  /\ sample.at = "done" => Refers(schema, sample.out)
  /\ load.report = "schema and sample" =>
       there.container.rows = file.rows /\ Refers(schema, there.container.rows)

\* "Redacted secrets must be supplied": whatever the order of failing and
\* repeated loads, a container that runs has no placeholder for a secret, lacks
\* none of its command, and the load has named all it lacks.
SecretsAccounted ==
  load.at \in {"replay", "script", "done"} =>
    /\ there.container.placeholders = {} /\ load.missing = Secrets \ there.container.has
    /\ load.missing \cap InCommand = {}
=============================================================================
