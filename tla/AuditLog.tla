------------------------------ MODULE AuditLog ------------------------------
(***************************************************************************)
(* The hash-chained audit log (src/aisb/audit.py).  Writers are threads    *)
(* and processes that call record(); each loads the signing key, takes the *)
(* lock, reads the hash of the last line, appends its record and releases  *)
(* the lock.  A write may stop half way (a kill, a full disk), the key     *)
(* that is configured may change, and someone who can write the file but   *)
(* has no key may change it.  verify() and anchor() read the log.          *)
(*                                                                         *)
(* Hashes are modelled by what they commit to: SHA-256 over the previous   *)
(* hash and the record, taken as collision-free, is a one-to-one code of   *)
(* the sequence of records it was computed over, so that sequence is the   *)
(* hash.  A mac is the pair of the key and the hash it signs.              *)
(***************************************************************************)
EXTENDS Integers, Sequences, FiniteSets

CONSTANTS
  Writer,     \* threads and processes that record changes
  Event,      \* what a record says: op, arguments, outcome
  Key,        \* signing keys
  None,       \* no key, no mac, no lock holder
  Scrap,      \* a line that is not JSON: a piece of a record, or pieces of two
  MaxLog,     \* bound on the number of lines
  MaxAnchors, \* bound on the number of checkpoints
  MaxTamper,  \* bound on the number of changes made to the file from outside
  MaxConfig,  \* bound on the number of changes of the configured key
  MaxTorn     \* bound on the number of writes that stop half way

\* What load_key() finds.  "unusable": a key file is configured and missing,
\* too short or readable by others, so that it raises.
KeyState == Key \cup {None, "unusable"}

\* What the digest of a record covers, besides the previous hash.
Body == [event: Event, kid: Key \cup {None}, unsigned: BOOLEAN]

Hash == Seq(Body)

GENESIS == << >>

Mac == (Key \X Hash) \cup {None}

Rec == [prev: Hash, body: Body, hash: Hash, mac: Mac]

Line == Rec \cup {Scrap}

\* Constants are told apart from what they stand beside.
ASSUME AuditAssumption ==
  /\ None \notin Key /\ None \notin Writer /\ None \notin Key \X Hash
  /\ "unusable" \notin Key \cup {None}
  /\ Scrap \notin Rec
  /\ {MaxLog, MaxAnchors, MaxTamper, MaxConfig, MaxTorn} \subseteq Nat

VARIABLES
  log,      \* the lines of the file
  tail,     \* how it ends: "clean", "cut" in a record, "bare": no newline
  lock,     \* the writer that holds the lock
  pc,       \* where each writer is
  key,      \* the key each writer has loaded
  seen,     \* the hash each writer has read from the last line
  config,   \* the key that is configured now
  anchors,  \* the checkpoints saved elsewhere
  made,     \* history: the records that were written or begun, in order
  tampers,  \* number of changes from outside so far
  changes,  \* number of changes of the configured key so far
  tears     \* number of writes that stopped half way so far

vars == <<log, tail, lock, pc, key, seen, config, anchors, made,
          tampers, changes, tears>>
writers == <<lock, pc, key, seen>>
counters == <<tampers, changes, tears>>

----------------------------------------------------------------------------
(* Hashes, lines and verify().                                             *)

\* _digest: the hash of a record after prev.
Digest(prev, body) == Append(prev, body)

MacOf(k, h) == IF k \in Key THEN <<k, h>> ELSE None

\* Variant of Signed: the mac signs the hash of the record before.
SignedPrev(prev, body, k) ==
  [prev |-> prev, body |-> body, hash |-> Digest(prev, body), mac |-> MacOf(k, prev)]

\* A record made by record() with key k.
Signed(prev, body, k) ==
  [prev |-> prev, body |-> body, hash |-> Digest(prev, body),
   mac |-> MacOf(k, Digest(prev, body))]

BodyOf(e, k) == [event |-> e, kid |-> IF k \in Key THEN k ELSE None,
                 unsigned |-> k = "unusable"]

\* Variant of Written: a line left without a newline is written over.
WrittenOver(line) ==
  IF tail = "clean" THEN Append(log, line) ELSE [log EXCEPT ![Len(log)] = line]

\* The write lands after the last newline: a line left without one swallows it.
Written(line) ==
  IF tail = "clean" THEN Append(log, line) ELSE [log EXCEPT ![Len(log)] = Scrap]

\* The hash of the line before line n, GENESIS without one or if it is not JSON.
HashBefore(lg, n) == IF n = 1 \/ lg[n - 1] = Scrap THEN GENESIS ELSE lg[n - 1].hash

\* _last_hash, read under the lock.
LastHash == HashBefore(log, Len(log) + 1)

Signatures(lg, n) == {i \in 1..n : lg[i] # Scrap /\ lg[i].mac # None}

\* verify() stops at line n: with an error if the line is not JSON, else with
\* the report that the chain, the content or the signature is wrong.
Unchained(lg, n) == lg[n].prev # HashBefore(lg, n)

Modified(lg, n) == lg[n].hash # Digest(HashBefore(lg, n), lg[n].body)

Stripped(lg, n) == lg[n].mac = None /\ Signatures(lg, n - 1) # {}

\* Variant of Forged: only the key id is compared.
ForgedKid(lg, n, k) == lg[n].mac # None /\ k # None /\ lg[n].body.kid # k

Forged(lg, n, k) ==
  lg[n].mac # None /\ k # None /\ (lg[n].body.kid # k \/ lg[n].mac # <<k, lg[n].hash>>)

Broken(lg, n, k) ==
  \/ lg[n] = Scrap
  \/ Unchained(lg, n) \/ Modified(lg, n)
  \/ lg[n].body.unsigned \/ Stripped(lg, n) \/ Forged(lg, n, k)

\* Variant of Misses: checkpoints past the end of the log are passed over.
MissesWithin(lg, a, k) ==
  a.records <= Len(lg) /\ (a.head # HashBefore(lg, a.records + 1) \/ (k # None /\ a.kid # None /\ a.kid # k))

\* The log no longer holds checkpoint a, or a was signed with another key.
Misses(lg, a, k) ==
  \/ a.records > Len(lg)
  \/ a.records <= Len(lg) /\ a.head # HashBefore(lg, a.records + 1)
  \/ k # None /\ a.kid # None /\ a.kid # k

BrokenLines(lg, k) == {n \in 1..Len(lg) : Broken(lg, n, k)}

Passes(lg, k, as) ==
  k # "unusable" /\ BrokenLines(lg, k) = {} /\ \A a \in as : ~Misses(lg, a, k)

\* An exception instead of a verdict: the key cannot be loaded, or a line does
\* not parse and nothing before it was wrong.
Raises(lg, k, as) ==
  \/ k = "unusable"
  \/ \E n \in BrokenLines(lg, k) :
       /\ lg[n] = Scrap
       /\ \A m \in BrokenLines(lg, k) : n <= m
       /\ \A a \in as : a.records \in 1..(n - 1) => ~Misses(lg, a, k)

\* verify() with key k against the checkpoints as.
Verify(lg, k, as) ==
  IF Passes(lg, k, as) THEN "ok" ELSE IF Raises(lg, k, as) THEN "error" ELSE "broken"

Bodies(lg) == [n \in 1..Len(lg) |-> lg[n].body]

Init ==
  /\ log = << >>
  /\ tail = "clean"
  /\ lock = None
  /\ pc = [w \in Writer |-> "idle"]
  /\ key = [w \in Writer |-> None]
  /\ seen = [w \in Writer |-> GENESIS]
  /\ config \in KeyState
  /\ anchors = {}
  /\ made = << >>
  /\ tampers = 0 /\ changes = 0 /\ tears = 0

----------------------------------------------------------------------------
(* record().                                                               *)

\* load_key, before the lock is taken.  A key that cannot be used does not
\* lose the record: it is written unsigned and says so.
LoadKey(w) ==
  /\ pc[w] = "idle"
  /\ pc' = [pc EXCEPT ![w] = "keyed"]
  /\ key' = [key EXCEPT ![w] = config]
  /\ UNCHANGED <<log, tail, lock, seen, config, anchors, made, counters>>

\* Variant of Lock: the last hash is read before the lock is free.
LockEarly(w) ==
  /\ pc[w] = "keyed"
  /\ lock' = w
  /\ seen' = [seen EXCEPT ![w] = LastHash]
  /\ pc' = [pc EXCEPT ![w] = "locked"]
  /\ UNCHANGED <<log, tail, key, config, anchors, made, counters>>

\* Take the lock (the threads' and the file's) and read the last hash.
Lock(w) ==
  /\ pc[w] = "keyed"
  /\ lock = None
  /\ lock' = w
  /\ seen' = [seen EXCEPT ![w] = LastHash]
  /\ pc' = [pc EXCEPT ![w] = "locked"]
  /\ UNCHANGED <<log, tail, key, config, anchors, made, counters>>

Record(w, e) == Signed(seen[w], BodyOf(e, key[w]), key[w])

Release(w) ==
  /\ pc' = [pc EXCEPT ![w] = "idle"]
  /\ lock' = None
  /\ key' = [key EXCEPT ![w] = None]
  /\ seen' = [seen EXCEPT ![w] = GENESIS]

\* Write the record of event e and release the lock.
Write(w, e) ==
  /\ pc[w] = "locked"
  /\ Len(made) < MaxLog
  /\ log' = Written(Record(w, e))
  /\ tail' = "clean"
  /\ made' = Append(made, Record(w, e))
  /\ Release(w)
  /\ UNCHANGED <<config, anchors, counters>>

\* The write stops within the record or just before its newline; the lock is
\* released by the finally clause, or by the kernel with the process.
Tear(w, e) ==
  /\ pc[w] = "locked"
  /\ Len(made) < MaxLog
  /\ tears < MaxTorn
  /\ tears' = tears + 1
  /\ \/ tail' = "cut" /\ log' = Written(Scrap)
     \/ tail' = "bare" /\ log' = Written(Record(w, e))
  /\ made' = Append(made, Record(w, e))
  /\ Release(w)
  /\ UNCHANGED <<config, anchors, tampers, changes>>

\* The process dies before it writes anything.
Die(w) ==
  /\ pc[w] \in {"keyed", "locked"}
  /\ pc' = [pc EXCEPT ![w] = "idle"]
  /\ lock' = IF lock = w THEN None ELSE lock
  /\ key' = [key EXCEPT ![w] = None]
  /\ seen' = [seen EXCEPT ![w] = GENESIS]
  /\ UNCHANGED <<log, tail, config, anchors, made, counters>>

----------------------------------------------------------------------------
(* Around it.                                                              *)

\* Another key is configured, or the key file becomes unusable or usable.
Configure(k) ==
  /\ changes < MaxConfig
  /\ k # config
  /\ config' = k
  /\ changes' = changes + 1
  /\ UNCHANGED <<log, tail, writers, anchors, made, tampers, tears>>

\* anchor(): a checkpoint of the log as it is, refused when verify() fails.
\* bodies is history: the records it stands for.
Anchor ==
  /\ Cardinality(anchors) < MaxAnchors
  /\ Passes(log, config, {})
  /\ anchors' = anchors \cup {[records |-> Len(log), head |-> HashBefore(log, Len(log) + 1),
                               kid |-> config, bodies |-> Bodies(log)]}
  /\ UNCHANGED <<log, tail, writers, config, made, counters>>

\* Lines from i on re-chained: prev and hash recomputed, the macs taken off
\* with the key id they name, or left as they were.
Rechained(lg, i, strip) ==
  LET text(n) == IF n >= i /\ strip THEN [lg[n].body EXCEPT !.kid = None] ELSE lg[n].body
      upto(n) == [j \in 1..n |-> text(j)]
  IN [n \in 1..Len(lg) |->
        IF n < i THEN lg[n]
        ELSE [prev |-> upto(n - 1), body |-> text(n), hash |-> upto(n),
              mac |-> IF strip THEN None ELSE lg[n].mac]]

Edited(line, e) == [line EXCEPT !.body = [line.body EXCEPT !.event = e]]

\* The file is changed without the key: a record edited, removed or moved, the
\* newest records dropped, the chain recomputed.
Tamper ==
  /\ tampers < MaxTamper
  /\ tampers' = tampers + 1
  /\ tail = "clean" /\ \A n \in 1..Len(log) : log[n] # Scrap
  /\ \E i \in 1..Len(log) :
       \/ \E e \in Event : log' = [log EXCEPT ![i] = Edited(log[i], e)]
       \/ log' = SubSeq(log, 1, i - 1) \o SubSeq(log, i + 1, Len(log))
       \/ i < Len(log) /\ log' = [log EXCEPT ![i] = log[i + 1], ![i + 1] = log[i]]
       \/ log' = SubSeq(log, 1, i - 1)
       \/ \E strip \in BOOLEAN : log' = Rechained(log, i, strip)
  /\ UNCHANGED <<tail, writers, config, anchors, made, changes, tears>>

Next ==
  \/ \E w \in Writer :
       \/ LoadKey(w) \/ Lock(w) \/ Die(w)
       \/ \E e \in Event : Write(w, e) \/ Tear(w, e)
  \/ \E k \in KeyState : Configure(k)
  \/ Anchor
  \/ Tamper

Spec == Init /\ [][Next]_vars

----------------------------------------------------------------------------
(* Properties.                                                             *)

\* Every variable keeps its type; a file that does not end in a newline ends
\* in some line, and only "cut" ends in a piece of one.
TypeOK ==
  /\ log \in Seq(Line)
  /\ tail \in {"clean", "cut", "bare"}
  /\ tail # "clean" => log # << >>
  /\ lock \in Writer \cup {None}
  /\ pc \in [Writer -> {"idle", "keyed", "locked"}]
  /\ key \in [Writer -> KeyState]
  /\ seen \in [Writer -> Hash]
  /\ config \in KeyState
  /\ anchors \subseteq [records: Nat, head: Hash, kid: Key \cup {None}, bodies: Hash]
  /\ made \in Seq(Rec)
  /\ {tampers, changes, tears} \subseteq Nat

\* record(): "writes are serialized across threads and processes".  In a file
\* nobody else changed and no write of which stopped half way, the lines are
\* the records of the calls in the order they were made, each chained to the
\* one before it.
ChainHolds ==
  (tampers = 0 /\ tears = 0) =>
    /\ log = made
    /\ \A n \in 1..Len(log) : /\ log[n].prev = HashBefore(log, n)
                              /\ log[n].hash = Digest(log[n].prev, log[n].body)

\* A write that stops half way may spoil its own record and the next one; it
\* never makes them go unnoticed: a log that verifies, and that nobody else
\* changed, holds every record that was ever written, in order.
NoSilentLoss == (tampers = 0 /\ Passes(log, config, {})) => log = made

\* verify() raises no false alarm: with one key, usable from the first record
\* on, a log that nobody touched verifies, checkpoints included.
HonestLogVerifies ==
  (tampers = 0 /\ tears = 0 /\ changes = 0 /\ config # "unusable") =>
     Verify(log, config, anchors) = "ok"

\* "Rewriting then needs the key": whoever changed the file, a log that
\* verifies and holds a signature is, record by record, one that record() has
\* signed as it stands; only dropping the newest records goes unseen.
SignedLogIsGenuine ==
  \A k \in Key :
    (Passes(log, k, {}) /\ Signatures(log, Len(log)) # {}) =>
       \E i \in 1..Len(made) : made[i].mac = <<k, Bodies(log)>>

\* Checkpoints: a log that verifies against them holds, record by record, what
\* it held when each was taken: nothing was dropped or rewritten before it.
AnchorsHold ==
  Passes(log, config, anchors) =>
    \A a \in anchors : /\ Len(log) >= a.records
                       /\ SubSeq(Bodies(log), 1, a.records) = a.bodies
=============================================================================
