-------------------------------- MODULE Pool --------------------------------
(***************************************************************************)
(* The connection pool of a fleet command (src/aisb/fleet/runner.py and    *)
(* ssh.py), lock by lock: workers ask it for the SSH tunnel of a host and  *)
(* for port forwards, tunnels die, and the command closes it at its end.   *)
(* FanOut takes `get` for one step; this module is what it rests on.       *)
(*                                                                         *)
(* Without a time limit one worker at a time uses a host, and all are done *)
(* when the pool is closed.  With one, abandoned workers go on.            *)
(***************************************************************************)
EXTENDS Naturals, FiniteSets

CONSTANTS
  Thread,   \* the workers
  Machine,  \* the hosts
  MaxConns  \* bound: connections opened

ASSUME PoolAssumption == "free" \notin Thread /\ MaxConns \in Nat  \* of the latches

VARIABLES
  abandons, \* whether there is a time limit, so that workers may be abandoned
  main,     \* the pool: "open", "closing", "closed", or "broken" off closing
  guard,    \* who holds _guard: a worker needs it for a moment only
  latch,     \* who holds the latch of each host
  conns,    \* _conns: the connection of each host, 0 for none
  keys,     \* the hosts close() began to go through, and those left
  conn,     \* every connection ever opened: its host, the tunnel and the
            \* forward of its Forwarder, each "none", "up", "dead" or "closed"
  at,       \* where each worker is
  host,     \* the host it asks for
  mine      \* the connection it was given

poolVars == <<abandons, main, guard, latch, conns, keys, conn, at, host, mine>>

Conn == 1..MaxConns

PoolInit ==
  /\ abandons \in BOOLEAN
  /\ main = "open" /\ guard = "free" /\ keys = [begun |-> {}, left |-> {}]
  /\ latch = [h \in Machine |-> "free"]
  /\ conns = [h \in Machine |-> 0]
  /\ conn = [c \in Conn |-> [host |-> "none", tunnel |-> "none", forward |-> "none"]]
  /\ at = [t \in Thread |-> "idle"]
  /\ host \in [Thread -> Machine]
  /\ mine = [t \in Thread |-> 0]

Goes(t, where) == at' = [at EXCEPT ![t] = where]
Shut(c) == conn' = [conn EXCEPT ![c].tunnel = "closed", ![c].forward = "closed"]

----------------------------------------------------------------------------
(* get, a worker                                                           *)

\* The host's latch is looked up under the guard.
Ask(t) ==
  /\ at[t] = "idle" /\ guard = "free"
  /\ abandons \/ (main = "open" /\ \A u \in Thread : at[u] = "idle" \/ host[u] # host[t])
  /\ Goes(t, "latch") /\ UNCHANGED <<abandons, main, guard, latch, conns, keys, conn, host, mine>>

\* Variant of Take: the latch is not waited for.
TakeAnyway(t) ==
  /\ at[t] = "latch"
  /\ latch' = [latch EXCEPT ![host[t]] = t]
  /\ Goes(t, "check") /\ UNCHANGED <<abandons, main, guard, conns, keys, conn, host, mine>>

Take(t) ==
  /\ at[t] = "latch" /\ latch[host[t]] = "free"
  /\ latch' = [latch EXCEPT ![host[t]] = t]
  /\ Goes(t, "check") /\ UNCHANGED <<abandons, main, guard, conns, keys, conn, host, mine>>

Gives(t, c) ==
  /\ mine' = [mine EXCEPT ![t] = c] /\ latch' = [latch EXCEPT ![host[t]] = "free"]
  /\ Goes(t, "use")

\* The connection there is, if its tunnel is alive.
Hit(t) ==
  LET c == conns[host[t]]
  IN /\ at[t] = "check" /\ c # 0 /\ conn[c].tunnel = "up"
     /\ Gives(t, c) /\ UNCHANGED <<abandons, main, guard, conns, keys, conn, host>>

\* A dead one is closed, with its forwards, before another is opened.
Miss(t) ==
  LET c == conns[host[t]]
  IN /\ at[t] = "check" /\ (c # 0 => conn[c].tunnel # "up")
     /\ IF c = 0 THEN UNCHANGED conn ELSE Shut(c)
     /\ Goes(t, "open") /\ UNCHANGED <<abandons, main, guard, latch, conns, keys, host, mine>>

Opened(c) == conn[c].tunnel # "none"

\* ssh comes up, or it fails and the exception frees the latch.
Open(t) ==
  /\ at[t] = "open"
  /\ \/ \E c \in Conn :
          /\ ~Opened(c) /\ \A d \in Conn : d < c => Opened(d)
          /\ conn' = [conn EXCEPT ![c] = [host |-> host[t], tunnel |-> "up", forward |-> "none"]]
          /\ mine' = [mine EXCEPT ![t] = c]
          /\ Goes(t, "store") /\ UNCHANGED latch
     \/ /\ latch' = [latch EXCEPT ![host[t]] = "free"] /\ Goes(t, "idle") /\ UNCHANGED <<conn, mine>>
  /\ UNCHANGED <<abandons, main, guard, conns, keys, host>>

Store(t) ==
  /\ at[t] = "store"
  /\ conns' = [conns EXCEPT ![host[t]] = mine[t]]
  /\ Gives(t, mine[t]) /\ UNCHANGED <<abandons, main, guard, keys, conn, host>>

\* Forwarder: a port of the connection's host; a forward that died is opened
\* again.
Dial(t) ==
  /\ at[t] = "use" /\ conn[mine[t]].forward # "up"
  /\ conn' = [conn EXCEPT ![mine[t]].forward = "up"]
  /\ UNCHANGED <<abandons, main, guard, latch, conns, keys, at, host, mine>>

\* The worker is done; its next attempt may be at another host.
Leave(t) ==
  /\ at[t] = "use" /\ Goes(t, "idle") /\ mine' = [mine EXCEPT ![t] = 0]
  /\ \E h \in Machine : host' = [host EXCEPT ![t] = h]
  /\ UNCHANGED <<abandons, main, guard, latch, conns, keys, conn>>

Dies(c) ==
  /\ conn' \in {[conn EXCEPT ![c].tunnel = IF @ = "up" THEN "dead" ELSE @],
                [conn EXCEPT ![c].forward = IF @ = "up" THEN "dead" ELSE @]}
  /\ conn' # conn /\ UNCHANGED <<abandons, main, guard, latch, conns, keys, at, host, mine>>

----------------------------------------------------------------------------
(* close, the command's own thread                                         *)

Held == {h \in Machine : conns[h] # 0}

CloseBegins ==
  /\ main = "open" /\ guard = "free" /\ (abandons \/ \A t \in Thread : at[t] = "idle")
  /\ main' = "closing" /\ guard' = "main" /\ keys' = [begun |-> Held, left |-> Held]
  /\ UNCHANGED <<abandons, latch, conns, conn, at, host, mine>>

\* Variant of CloseOne: its forwards are left.
CloseTunnel ==
  /\ main = "closing" /\ Held = keys.begun
  /\ \E h \in keys.left :
       conn' = [conn EXCEPT ![conns[h]].tunnel = "closed"] /\ keys' = [keys EXCEPT !.left = @ \ {h}]
  /\ UNCHANGED <<abandons, main, guard, latch, conns, at, host, mine>>

CloseOne ==
  /\ main = "closing" /\ Held = keys.begun
  /\ \E h \in keys.left : Shut(conns[h]) /\ keys' = [keys EXCEPT !.left = @ \ {h}]
  /\ UNCHANGED <<abandons, main, guard, latch, conns, at, host, mine>>

\* The end; or the loop is broken off, as a worker has stored a connection of
\* a host that was not there when it began.
CloseEnds ==
  /\ main = "closing"
  /\ \/ Held = keys.begun /\ keys.left = {} /\ main' = "closed" /\ conns' = [h \in Machine |-> 0]
     \/ Held # keys.begun /\ main' = "broken" /\ UNCHANGED conns
  /\ guard' = "free" /\ UNCHANGED <<abandons, latch, keys, conn, at, host, mine>>

Get(t) == Ask(t) \/ Take(t) \/ Hit(t) \/ Miss(t) \/ Open(t) \/ Store(t)

PoolNext ==
  \/ \E t \in Thread : Get(t) \/ Dial(t) \/ Leave(t)
  \/ \E c \in Conn : Dies(c)
  \/ CloseBegins \/ CloseOne \/ CloseEnds

PoolSpec == PoolInit /\ [][PoolNext]_poolVars

----------------------------------------------------------------------------
(* Properties.                                                             *)

\* "a host costs one SSH handshake per command": until the pool is closed a host
\* has one live tunnel at most, whoever asks for it at once, whatever dies.
OnePerHost ==
  main = "open" =>
    \A c, d \in Conn : {conn[c].tunnel, conn[d].tunnel} = {"up"} /\ conn[c].host = conn[d].host => c = d

\* "Reuse connections for the duration of the block": a closed pool leaves no
\* ssh behind, neither tunnel nor forward, unless workers were abandoned.
NothingLeft ==
  main \in {"closed", "broken"} /\ ~abandons =>
    main = "closed" /\ \A c \in Conn : "up" \notin {conn[c].tunnel, conn[c].forward}
=============================================================================
