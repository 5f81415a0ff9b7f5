----------------------------- MODULE FleetProofs -----------------------------
(***************************************************************************)
(* Proofs about the fleet's connection pool (Pool), for any number of      *)
(* workers, hosts and connections, and about its fan-out (FanOut), for any *)
(* number of hosts, workers and retries and any size of batch.             *)
(***************************************************************************)
EXTENDS FanOut, Pool, FiniteSetTheorems, SequenceTheorems, TLAPS

----------------------------------------------------------------------------
(* The connection pool.                                                    *)

Link == {"none", "up", "dead", "closed"}

PoolTyped ==
  /\ abandons \in BOOLEAN /\ main \in {"open", "closing", "closed", "broken"}
  /\ latch \in [Machine -> Thread \cup {"free"}]
  /\ conns \in [Machine -> Conn \cup {0}]
  /\ keys \in [begun : SUBSET Machine, left : SUBSET Machine]
  /\ conn \in [Conn -> [host : Machine \cup {"none"}, tunnel : Link, forward : Link]]
  /\ at \in [Thread -> {"idle", "latch", "check", "open", "store", "use"}]
  /\ host \in [Thread -> Machine]
  /\ mine \in [Thread -> Conn \cup {0}]

\* A worker at a host's connection holds its latch; what it opens is for that
\* host, whose last connection has no tunnel any more.
WorkerOK(t) ==
  /\ at[t] \in {"check", "open", "store"} => latch[host[t]] = t
  /\ at[t] \in {"open", "store"} /\ conns[host[t]] # 0 => conn[conns[host[t]]].tunnel # "up"
  /\ at[t] = "store" => mine[t] # 0 /\ conn[mine[t]].host = host[t]
  /\ at[t] \in {"store", "use"} => mine[t] # 0 /\ Opened(mine[t])

\* The connection kept for a host is its own.
KeptOK(h) == conns[h] # 0 => conn[conns[h]].host = h /\ Opened(conns[h])

Storing(c) == \E t \in Thread : at[t] = "store" /\ mine[t] = c

\* A live tunnel is the one kept for its host, or about to be.
TunnelOK(c) ==
  /\ main = "open" /\ conn[c].tunnel = "up" => conns[conn[c].host] = c \/ Storing(c)
  /\ IF Opened(c) THEN conn[c].host \in Machine ELSE conn[c].forward = "none"

\* The second invariant, when no worker is abandoned: a host has one worker, who
\* uses the connection kept for it; what is alive is kept, and what is kept will
\* be closed.
LoneWorker(t) ==
  /\ main # "open" => at[t] = "idle"
  /\ \A u \in Thread \ {t} : at[t] # "idle" /\ at[u] # "idle" => host[t] # host[u]
  /\ at[t] = "use" => conns[host[t]] = mine[t]
  /\ at[t] \in {"open", "store"} /\ conns[host[t]] # 0 => conn[conns[host[t]]].forward # "up"

Alive(c) == "up" \in {conn[c].tunnel, conn[c].forward}

KeptAlive(c) ==
  Alive(c) => /\ main = "open" => conns[conn[c].host] = c \/ Storing(c)
              /\ main = "closing" => conns[conn[c].host] = c /\ conn[c].host \in keys.left
              /\ main \in {"open", "closing"}

Unabandoned ==
  ~abandons =>
    /\ \A t \in Thread : LoneWorker(t)
    /\ \A c \in Conn : KeptAlive(c)
    /\ main = "closing" => keys.begun = Held
    /\ main # "broken"

PoolInv ==
  /\ PoolTyped
  /\ \A t \in Thread : WorkerOK(t)
  /\ \A h \in Machine : KeptOK(h)
  /\ \A c \in Conn : TunnelOK(c)
  /\ Unabandoned

LEMMA InitPoolInv == PoolInit => PoolInv
  BY DEF PoolInit, PoolInv, PoolTyped, WorkerOK, KeptOK, TunnelOK, Unabandoned, LoneWorker, KeptAlive,
         Alive, Storing, Opened, Held, Conn, Link

\* What an end of ssh may do to a connection.
Weakens(k, x) ==
  /\ x.host = k.host /\ (x.tunnel = "none" <=> k.tunnel = "none")
  /\ x.tunnel = "up" => k.tunnel = "up"
  /\ x.forward = "up" => k.forward = "up"
  /\ k.forward = "none" => x.forward = "none"

\* The two ways Open goes.
OpensAs(t, c) ==
  /\ at[t] = "open" /\ ~Opened(c)
  /\ conn' = [conn EXCEPT ![c] = [host |-> host[t], tunnel |-> "up", forward |-> "none"]]
  /\ mine' = [mine EXCEPT ![t] = c]
  /\ Goes(t, "store") /\ UNCHANGED <<abandons, main, guard, latch, conns, keys, host>>

OpenFails(t) ==
  /\ at[t] = "open" /\ latch' = [latch EXCEPT ![host[t]] = "free"]
  /\ Goes(t, "idle") /\ UNCHANGED <<abandons, main, guard, conns, keys, host, conn, mine>>

LEMMA AskPool ==
  ASSUME PoolInv, NEW t \in Thread, Ask(t)
  PROVE  PoolInv'
  <1>1. PoolTyped'
    BY DEF PoolInv, PoolTyped, Link, Ask, Goes
  <1>2. ASSUME NEW u \in Thread PROVE WorkerOK(u)'
    BY PoolAssumption DEF PoolInv, PoolTyped, WorkerOK, KeptOK, Opened, Ask, Goes
  <1>3. ASSUME NEW h \in Machine PROVE KeptOK(h)'
    BY DEF PoolInv, PoolTyped, WorkerOK, KeptOK, Opened, Ask, Goes
  <1>4. ASSUME NEW d \in Conn PROVE TunnelOK(d)'
    BY DEF PoolInv, PoolTyped, WorkerOK, KeptOK, TunnelOK, Storing, Opened, Ask, Goes
  <1>5. Unabandoned'
    <2> SUFFICES ASSUME ~abandons PROVE Unabandoned'
      BY DEF Unabandoned, Ask, Goes
    <2>1. ASSUME NEW u \in Thread PROVE LoneWorker(u)'
      BY DEF PoolInv, PoolTyped, WorkerOK, KeptOK, Unabandoned, LoneWorker, Opened, Ask, Goes
    <2>2. ASSUME NEW d \in Conn PROVE KeptAlive(d)'
      BY DEF PoolInv, PoolTyped, WorkerOK, KeptOK, TunnelOK, Unabandoned, LoneWorker, KeptAlive, Alive,
             Storing, Opened, Ask, Goes
    <2>3. (main = "closing" => keys.begun = Held)' /\ main' # "broken"
      BY DEF PoolInv, PoolTyped, Unabandoned, Held, Ask, Goes
    <2>4. QED
      BY <2>1, <2>2, <2>3 DEF Unabandoned
  <1>6. QED
    BY <1>1, <1>2, <1>3, <1>4, <1>5 DEF PoolInv

LEMMA TakePool ==
  ASSUME PoolInv, NEW t \in Thread, Take(t)
  PROVE  PoolInv'
  <1>1. PoolTyped'
    BY DEF PoolInv, PoolTyped, Link, Take, Goes
  <1>2. ASSUME NEW u \in Thread PROVE WorkerOK(u)'
    BY PoolAssumption DEF PoolInv, PoolTyped, WorkerOK, KeptOK, Opened, Take, Goes
  <1>3. ASSUME NEW h \in Machine PROVE KeptOK(h)'
    BY DEF PoolInv, PoolTyped, WorkerOK, KeptOK, Opened, Take, Goes
  <1>4. ASSUME NEW d \in Conn PROVE TunnelOK(d)'
    BY DEF PoolInv, PoolTyped, WorkerOK, KeptOK, TunnelOK, Storing, Opened, Take, Goes
  <1>5. Unabandoned'
    <2> SUFFICES ASSUME ~abandons PROVE Unabandoned'
      BY DEF Unabandoned, Take, Goes
    <2>1. ASSUME NEW u \in Thread PROVE LoneWorker(u)'
      BY DEF PoolInv, PoolTyped, WorkerOK, KeptOK, Unabandoned, LoneWorker, Opened, Take, Goes
    <2>2. ASSUME NEW d \in Conn PROVE KeptAlive(d)'
      BY DEF PoolInv, PoolTyped, WorkerOK, KeptOK, TunnelOK, Unabandoned, LoneWorker, KeptAlive, Alive,
             Storing, Opened, Take, Goes
    <2>3. (main = "closing" => keys.begun = Held)' /\ main' # "broken"
      BY DEF PoolInv, PoolTyped, Unabandoned, Held, Take, Goes
    <2>4. QED
      BY <2>1, <2>2, <2>3 DEF Unabandoned
  <1>6. QED
    BY <1>1, <1>2, <1>3, <1>4, <1>5 DEF PoolInv

LEMMA HitPool ==
  ASSUME PoolInv, NEW t \in Thread, Hit(t)
  PROVE  PoolInv'
  <1>1. PoolTyped'
    BY DEF PoolInv, PoolTyped, Link, Hit, Gives, Goes
  <1>2. ASSUME NEW u \in Thread PROVE WorkerOK(u)'
    BY PoolAssumption DEF PoolInv, PoolTyped, WorkerOK, KeptOK, Opened, Hit, Gives, Goes
  <1>3. ASSUME NEW h \in Machine PROVE KeptOK(h)'
    BY DEF PoolInv, PoolTyped, WorkerOK, KeptOK, Opened, Hit, Gives, Goes
  <1>4. ASSUME NEW d \in Conn PROVE TunnelOK(d)'
    BY DEF PoolInv, PoolTyped, WorkerOK, KeptOK, TunnelOK, Storing, Opened, Hit, Gives, Goes
  <1>5. Unabandoned'
    <2> SUFFICES ASSUME ~abandons PROVE Unabandoned'
      BY DEF Unabandoned, Hit, Gives, Goes
    <2>1. ASSUME NEW u \in Thread PROVE LoneWorker(u)'
      BY DEF PoolInv, PoolTyped, WorkerOK, KeptOK, Unabandoned, LoneWorker, Opened, Hit, Gives, Goes
    <2>2. ASSUME NEW d \in Conn PROVE KeptAlive(d)'
      BY DEF PoolInv, PoolTyped, WorkerOK, KeptOK, TunnelOK, Unabandoned, LoneWorker, KeptAlive, Alive,
             Storing, Opened, Hit, Gives, Goes
    <2>3. (main = "closing" => keys.begun = Held)' /\ main' # "broken"
      BY DEF PoolInv, PoolTyped, Unabandoned, Held, Hit, Gives, Goes
    <2>4. QED
      BY <2>1, <2>2, <2>3 DEF Unabandoned
  <1>6. QED
    BY <1>1, <1>2, <1>3, <1>4, <1>5 DEF PoolInv

LEMMA MissPool ==
  ASSUME PoolInv, NEW t \in Thread, Miss(t)
  PROVE  PoolInv'
  <1> DEFINE k == conns[host[t]]
  <1>0. /\ at[t] = "check" /\ at' = [at EXCEPT ![t] = "open"]
        /\ UNCHANGED <<abandons, main, latch, conns, keys, host, mine>>
        /\ \A d \in Conn : /\ conn'[d].host = conn[d].host
                           /\ conn'[d].tunnel = "up" => conn[d].tunnel = "up"
                           /\ Opened(d) => conn'[d].tunnel # "none"
        /\ k # 0 => conn'[k].tunnel # "up"
    BY DEF PoolInv, PoolTyped, KeptOK, Opened, Miss, Shut, Goes
  <1>1. PoolTyped'
    BY DEF PoolInv, PoolTyped, Link, Miss, Shut, Goes
  <1>2. ASSUME NEW u \in Thread PROVE WorkerOK(u)'
    <2>1. WorkerOK(u) /\ host[u] \in Machine /\ conns[host[u]] \in Conn \cup {0} /\ mine[u] \in Conn \cup {0}
          /\ at \in [Thread -> {"idle", "latch", "check", "open", "store", "use"}]
      BY DEF PoolInv, PoolTyped
    <2>2. at'[u] \in {"open", "store"} /\ conns[host[u]] # 0 => conn'[conns[host[u]]].tunnel # "up"
      BY <1>0, <2>1 DEF WorkerOK
    <2>3. at'[u] = "store" => mine[u] # 0 /\ conn'[mine[u]].host = host[u]
      BY <1>0, <2>1 DEF WorkerOK
    <2>4. at'[u] \in {"store", "use"} => mine[u] # 0 /\ conn'[mine[u]].tunnel # "none"
      BY <1>0, <2>1 DEF WorkerOK
    <2>5. at'[u] \in {"check", "open", "store"} => latch[host[u]] = u
      BY <1>0, <2>1 DEF WorkerOK
    <2>6. QED
      BY <1>0, <2>2, <2>3, <2>4, <2>5 DEF WorkerOK, Opened
  <1>3. ASSUME NEW h \in Machine PROVE KeptOK(h)'
    BY DEF PoolInv, PoolTyped, WorkerOK, KeptOK, Opened, Miss, Shut, Goes
  <1>4. ASSUME NEW d \in Conn PROVE TunnelOK(d)'
    BY DEF PoolInv, PoolTyped, WorkerOK, KeptOK, TunnelOK, Storing, Opened, Miss, Shut, Goes
  <1>5. Unabandoned'
    <2> SUFFICES ASSUME ~abandons PROVE Unabandoned'
      BY DEF Unabandoned, Miss, Shut, Goes
    <2>1. ASSUME NEW u \in Thread PROVE LoneWorker(u)'
      BY DEF PoolInv, PoolTyped, WorkerOK, KeptOK, Unabandoned, LoneWorker, Opened, Miss, Shut, Goes
    <2>2. ASSUME NEW d \in Conn PROVE KeptAlive(d)'
      BY DEF PoolInv, PoolTyped, WorkerOK, KeptOK, TunnelOK, Unabandoned, LoneWorker, KeptAlive, Alive,
             Storing, Opened, Miss, Shut, Goes
    <2>3. (main = "closing" => keys.begun = Held)' /\ main' # "broken"
      BY DEF PoolInv, PoolTyped, Unabandoned, Held, Miss, Shut, Goes
    <2>4. QED
      BY <2>1, <2>2, <2>3 DEF Unabandoned
  <1>6. QED
    BY <1>1, <1>2, <1>3, <1>4, <1>5 DEF PoolInv

LEMMA OpenPool ==
  ASSUME PoolInv, NEW t \in Thread, Open(t)
  PROVE  PoolInv'
  <1>0. (\E c \in Conn : OpensAs(t, c)) \/ OpenFails(t)
    BY DEF Open, OpensAs, OpenFails
  <1>1. PoolTyped'
    BY DEF PoolInv, PoolTyped, Link, Open, Goes
  <1>2. ASSUME NEW u \in Thread PROVE WorkerOK(u)'
    <2>1. WorkerOK(u) /\ WorkerOK(t)
      BY DEF PoolInv
    <2>2. ASSUME NEW c \in Conn, OpensAs(t, c) PROVE WorkerOK(u)'
      <3>1. /\ at'[t] = "store" /\ mine'[t] = c /\ \A v \in Thread \ {t} : at'[v] = at[v] /\ mine'[v] = mine[v]
            /\ conn'[c].host = host[t] /\ conn'[c].tunnel = "up"
            /\ \A d \in Conn \ {c} : conn'[d] = conn[d]
            /\ at[t] = "open" /\ conn[c].tunnel = "none"
            /\ UNCHANGED <<latch, conns, host>>
        BY <2>2 DEF PoolInv, PoolTyped, OpensAs, Goes, Opened
      <3>2. host[u] \in Machine /\ conns[host[u]] \in Conn \cup {0} /\ mine[u] \in Conn \cup {0} /\ KeptOK(host[u])
            /\ 0 \notin Conn
        BY DEF PoolInv, PoolTyped, Conn
      <3>3. conns[host[u]] # 0 => conns[host[u]] # c
        BY <3>1, <3>2 DEF KeptOK, Opened
      <3>4. CASE u = t
        BY <2>1, <3>1, <3>2, <3>3, <3>4 DEF WorkerOK, Opened
      <3>5. CASE u # t
        BY <2>1, <3>1, <3>2, <3>3, <3>5 DEF WorkerOK, Opened
      <3>6. QED
        BY <3>4, <3>5
    <2>3. CASE OpenFails(t)
      BY <2>1, <2>3, PoolAssumption DEF PoolInv, PoolTyped, WorkerOK, Opened, OpenFails, Goes
    <2>4. QED
      BY <1>0, <2>2, <2>3
  <1>3. ASSUME NEW h \in Machine PROVE KeptOK(h)'
    BY DEF PoolInv, PoolTyped, WorkerOK, KeptOK, Opened, Open, Goes
  <1>4. ASSUME NEW d \in Conn PROVE TunnelOK(d)'
    <2>1. TunnelOK(d)
      BY DEF PoolInv
    <2>2. ASSUME NEW c \in Conn, OpensAs(t, c) PROVE TunnelOK(d)'
      <3>1. Storing(d) => Storing(d)'
        BY <2>2 DEF PoolInv, PoolTyped, Storing, OpensAs, Goes
      <3>2. Storing(c)'
        BY <2>2 DEF PoolInv, PoolTyped, Storing, OpensAs, Goes
      <3>3. conn'[d] = (IF d = c THEN [host |-> host[t], tunnel |-> "up", forward |-> "none"] ELSE conn[d])
            /\ UNCHANGED <<main, conns>>
        BY <2>2 DEF PoolInv, PoolTyped, OpensAs
      <3>4. QED
        BY <2>1, <3>1, <3>2, <3>3 DEF TunnelOK, Opened, PoolInv, PoolTyped
    <2>3. CASE OpenFails(t)
      BY <2>1, <2>3 DEF PoolInv, PoolTyped, TunnelOK, Storing, Opened, OpenFails, Goes
    <2>4. QED
      BY <1>0, <2>2, <2>3
  <1>5. Unabandoned'
    <2> SUFFICES ASSUME ~abandons PROVE Unabandoned'
      BY DEF Unabandoned, Open, Goes
    <2>1. ASSUME NEW u \in Thread PROVE LoneWorker(u)'
      BY DEF PoolInv, PoolTyped, WorkerOK, KeptOK, Unabandoned, LoneWorker, Opened, Open, Goes
    <2>2. ASSUME NEW d \in Conn PROVE KeptAlive(d)'
      BY DEF PoolInv, PoolTyped, WorkerOK, KeptOK, TunnelOK, Unabandoned, LoneWorker, KeptAlive, Alive,
             Storing, Opened, Open, Goes
    <2>3. (main = "closing" => keys.begun = Held)' /\ main' # "broken"
      BY DEF PoolInv, PoolTyped, Unabandoned, Held, Open, Goes
    <2>4. QED
      BY <2>1, <2>2, <2>3 DEF Unabandoned
  <1>6. QED
    BY <1>1, <1>2, <1>3, <1>4, <1>5 DEF PoolInv

LEMMA StorePool ==
  ASSUME PoolInv, NEW t \in Thread, Store(t)
  PROVE  PoolInv'
  <1> DEFINE h0 == host[t]
             c0 == mine[t]
  <1>0. /\ at[t] = "store" /\ UNCHANGED <<abandons, main, keys, conn, host, mine>>
        /\ at' = [at EXCEPT ![t] = "use"] /\ conns' = [conns EXCEPT ![h0] = c0]
        /\ 0 \notin Conn /\ c0 \in Conn /\ conn[c0].host = h0 /\ h0 \in Machine /\ latch[h0] = t
        /\ conns[h0] # 0 => conns[h0] \in Conn /\ conn[conns[h0]].tunnel # "up"
    BY DEF PoolInv, PoolTyped, WorkerOK, Store, Gives, Goes, Conn
  <1>0a. \A d \in Conn : Storing(d) => Storing(d)' \/ d = c0
    BY <1>0 DEF PoolInv, PoolTyped, Storing
  <1>1. PoolTyped'
    BY DEF PoolInv, PoolTyped, Link, Store, Gives, Goes
  <1>2. ASSUME NEW u \in Thread PROVE WorkerOK(u)'
    BY PoolAssumption DEF PoolInv, PoolTyped, WorkerOK, KeptOK, Opened, Store, Gives, Goes
  <1>3. ASSUME NEW h \in Machine PROVE KeptOK(h)'
    BY DEF PoolInv, PoolTyped, WorkerOK, KeptOK, Opened, Store, Gives, Goes
  <1>4. ASSUME NEW d \in Conn PROVE TunnelOK(d)'
    <2>1. TunnelOK(d)
      BY DEF PoolInv
    <2>2. conn[d].tunnel = "up" /\ conns[conn[d].host] = d => conns'[conn[d].host] = d
      <3>1. conn[d].tunnel = "up" => conn[d].host \in Machine
        BY <2>1 DEF TunnelOK, Opened
      <3>2. conns \in [Machine -> Conn \cup {0}]
        BY DEF PoolInv, PoolTyped
      <3>3. QED
        BY <1>0, <3>1, <3>2
    <2>3. conns'[conn[c0].host] = c0
      BY <1>0 DEF PoolInv, PoolTyped
    <2>4. QED
      BY <1>0, <1>0a, <2>1, <2>2, <2>3 DEF TunnelOK, Opened
  <1>5. Unabandoned'
    <2> SUFFICES ASSUME ~abandons PROVE Unabandoned'
      BY DEF Unabandoned, Store, Gives, Goes
    <2>1. ASSUME NEW u \in Thread PROVE LoneWorker(u)'
      BY DEF PoolInv, PoolTyped, WorkerOK, KeptOK, Unabandoned, LoneWorker, Opened, Store, Gives, Goes
    <2>2. ASSUME NEW d \in Conn PROVE KeptAlive(d)'
      <3>1. KeptAlive(d) /\ LoneWorker(t)
        BY DEF PoolInv, Unabandoned
      <3>2. main = "open"
        BY <1>0, <3>1 DEF LoneWorker
      <3>3. conns[h0] # 0 => ~Alive(conns[h0])
        BY <1>0, <3>1 DEF LoneWorker, Alive
      <3>4. Alive(d) /\ conns[conn[d].host] = d => conns'[conn[d].host] = d
        <4>1. Alive(d) => conn[d].host \in Machine
          BY DEF PoolInv, TunnelOK, Opened, Alive
        <4>2. conns \in [Machine -> Conn \cup {0}]
          BY DEF PoolInv, PoolTyped
        <4>3. QED
          BY <1>0, <3>3, <4>1, <4>2
      <3>5. conns'[conn[c0].host] = c0
        BY <1>0 DEF PoolInv, PoolTyped
      <3>6. QED
        BY <1>0, <1>0a, <3>1, <3>2, <3>4, <3>5 DEF KeptAlive, Alive
    <2>3. (main = "closing" => keys.begun = Held)' /\ main' # "broken"
      <3>1. main = "open"
        BY <1>0 DEF PoolInv, Unabandoned, LoneWorker
      <3>2. QED
        BY <1>0, <3>1
    <2>4. QED
      BY <2>1, <2>2, <2>3 DEF Unabandoned
  <1>6. QED
    BY <1>1, <1>2, <1>3, <1>4, <1>5 DEF PoolInv

LEMMA DialPool ==
  ASSUME PoolInv, NEW t \in Thread, Dial(t)
  PROVE  PoolInv'
  <1>1. PoolTyped'
    BY DEF PoolInv, PoolTyped, Link, Dial
  <1>2. ASSUME NEW u \in Thread PROVE WorkerOK(u)'
    BY PoolAssumption DEF PoolInv, PoolTyped, WorkerOK, KeptOK, Opened, Dial
  <1>3. ASSUME NEW h \in Machine PROVE KeptOK(h)'
    BY DEF PoolInv, PoolTyped, WorkerOK, KeptOK, Opened, Dial
  <1>4. ASSUME NEW d \in Conn PROVE TunnelOK(d)'
    BY DEF PoolInv, PoolTyped, WorkerOK, KeptOK, TunnelOK, Storing, Opened, Dial
  <1>5. Unabandoned'
    <2> SUFFICES ASSUME ~abandons PROVE Unabandoned'
      BY DEF Unabandoned, Dial
    <2>1. ASSUME NEW u \in Thread PROVE LoneWorker(u)'
      BY DEF PoolInv, PoolTyped, WorkerOK, KeptOK, Unabandoned, LoneWorker, Opened, Dial
    <2>2. ASSUME NEW d \in Conn PROVE KeptAlive(d)'
      BY DEF PoolInv, PoolTyped, WorkerOK, KeptOK, TunnelOK, Unabandoned, LoneWorker, KeptAlive, Alive,
             Storing, Opened, Dial
    <2>3. (main = "closing" => keys.begun = Held)' /\ main' # "broken"
      BY DEF PoolInv, PoolTyped, Unabandoned, Held, Dial
    <2>4. QED
      BY <2>1, <2>2, <2>3 DEF Unabandoned
  <1>6. QED
    BY <1>1, <1>2, <1>3, <1>4, <1>5 DEF PoolInv

LEMMA LeavePool ==
  ASSUME PoolInv, NEW t \in Thread, Leave(t)
  PROVE  PoolInv'
  <1>1. PoolTyped'
    BY DEF PoolInv, PoolTyped, Link, Leave, Goes
  <1>2. ASSUME NEW u \in Thread PROVE WorkerOK(u)'
    BY PoolAssumption DEF PoolInv, PoolTyped, WorkerOK, KeptOK, Opened, Leave, Goes
  <1>3. ASSUME NEW h \in Machine PROVE KeptOK(h)'
    BY DEF PoolInv, PoolTyped, WorkerOK, KeptOK, Opened, Leave, Goes
  <1>4. ASSUME NEW d \in Conn PROVE TunnelOK(d)'
    BY DEF PoolInv, PoolTyped, WorkerOK, KeptOK, TunnelOK, Storing, Opened, Leave, Goes
  <1>5. Unabandoned'
    <2> SUFFICES ASSUME ~abandons PROVE Unabandoned'
      BY DEF Unabandoned, Leave, Goes
    <2>1. ASSUME NEW u \in Thread PROVE LoneWorker(u)'
      BY DEF PoolInv, PoolTyped, WorkerOK, KeptOK, Unabandoned, LoneWorker, Opened, Leave, Goes
    <2>2. ASSUME NEW d \in Conn PROVE KeptAlive(d)'
      BY DEF PoolInv, PoolTyped, WorkerOK, KeptOK, TunnelOK, Unabandoned, LoneWorker, KeptAlive, Alive,
             Storing, Opened, Leave, Goes
    <2>3. (main = "closing" => keys.begun = Held)' /\ main' # "broken"
      BY DEF PoolInv, PoolTyped, Unabandoned, Held, Leave, Goes
    <2>4. QED
      BY <2>1, <2>2, <2>3 DEF Unabandoned
  <1>6. QED
    BY <1>1, <1>2, <1>3, <1>4, <1>5 DEF PoolInv

LEMMA DiesPool ==
  ASSUME PoolInv, NEW c \in Conn, Dies(c)
  PROVE  PoolInv'
  <1>0. UNCHANGED <<abandons, main, latch, conns, keys, at, host, mine>>
    BY DEF Dies
  <1>0a. conn' \in [Conn -> [host : Machine \cup {"none"}, tunnel : Link, forward : Link]]
         /\ \A d \in Conn : Weakens(conn[d], conn'[d])
    <2>1. conn \in [Conn -> [host : Machine \cup {"none"}, tunnel : Link, forward : Link]]
      BY DEF PoolInv, PoolTyped
    <2>2. PICK x : /\ x \in [host : Machine \cup {"none"}, tunnel : Link, forward : Link]
                   /\ Weakens(conn[c], x) /\ conn' = [conn EXCEPT ![c] = x]
      <3> DEFINE k == conn[c]
                 x1 == [k EXCEPT !.tunnel = IF k.tunnel = "up" THEN "dead" ELSE k.tunnel]
                 x2 == [k EXCEPT !.forward = IF k.forward = "up" THEN "dead" ELSE k.forward]
      <3>1. k \in [host : Machine \cup {"none"}, tunnel : Link, forward : Link]
        BY <2>1
      <3>2. conn' = [conn EXCEPT ![c] = x1] \/ conn' = [conn EXCEPT ![c] = x2]
        BY <2>1 DEF Dies
      <3> HIDE DEF k
      <3>3. x1 \in [host : Machine \cup {"none"}, tunnel : Link, forward : Link] /\ Weakens(k, x1)
        BY <3>1 DEF Link, Weakens
      <3>4. x2 \in [host : Machine \cup {"none"}, tunnel : Link, forward : Link] /\ Weakens(k, x2)
        BY <3>1 DEF Link, Weakens
      <3>5. QED
        BY <3>2, <3>3, <3>4 DEF k
    <2>3. QED
      BY <2>1, <2>2 DEF Weakens
  <1>1. PoolTyped'
    BY <1>0, <1>0a DEF PoolInv, PoolTyped
  <1>2. ASSUME NEW u \in Thread PROVE WorkerOK(u)'
    <2>1. WorkerOK(u) /\ host[u] \in Machine /\ conns[host[u]] \in Conn \cup {0} /\ mine[u] \in Conn \cup {0}
      BY DEF PoolInv, PoolTyped
    <2>2. QED
      BY <1>0, <1>0a, <2>1 DEF WorkerOK, Opened, Weakens
  <1>3. ASSUME NEW h \in Machine PROVE KeptOK(h)'
    <2>1. KeptOK(h) /\ conns[h] \in Conn \cup {0}
      BY DEF PoolInv, PoolTyped
    <2>2. QED
      BY <1>0, <1>0a, <2>1 DEF KeptOK, Opened, Weakens
  <1>4. ASSUME NEW d \in Conn PROVE TunnelOK(d)'
    <2>1. TunnelOK(d) /\ (Storing(d) <=> Storing(d)')
      BY <1>0 DEF PoolInv, Storing
    <2>2. QED
      BY <1>0, <1>0a, <2>1 DEF TunnelOK, Opened, Weakens
  <1>5. Unabandoned'
    <2> SUFFICES ASSUME ~abandons PROVE Unabandoned'
      BY DEF Unabandoned, Dies
    <2>1. ASSUME NEW u \in Thread PROVE LoneWorker(u)'
      <3>1. LoneWorker(u) /\ host[u] \in Machine /\ conns[host[u]] \in Conn \cup {0}
        BY DEF PoolInv, PoolTyped, Unabandoned
      <3>2. QED
        BY <1>0, <1>0a, <3>1 DEF LoneWorker, Weakens
    <2>2. ASSUME NEW d \in Conn PROVE KeptAlive(d)'
      <3>1. KeptAlive(d) /\ (Storing(d) <=> Storing(d)')
        BY <1>0 DEF PoolInv, Unabandoned, Storing
      <3>2. QED
        BY <1>0, <1>0a, <3>1 DEF KeptAlive, Alive, Weakens
    <2>3. (main = "closing" => keys.begun = Held)' /\ main' # "broken"
      BY DEF PoolInv, PoolTyped, Unabandoned, Held, Dies
    <2>4. QED
      BY <2>1, <2>2, <2>3 DEF Unabandoned
  <1>6. QED
    BY <1>1, <1>2, <1>3, <1>4, <1>5 DEF PoolInv

LEMMA CloseBeginsPool ==
  ASSUME PoolInv, CloseBegins
  PROVE  PoolInv'
  <1>0. /\ main = "open" /\ (abandons \/ \A t \in Thread : at[t] = "idle")
        /\ main' = "closing" /\ keys' = [begun |-> Held, left |-> Held]
        /\ UNCHANGED <<abandons, latch, conns, conn, at, host, mine>> /\ Held \subseteq Machine
    BY DEF CloseBegins, Held
  <1>1. PoolTyped'
    BY <1>0 DEF PoolInv, PoolTyped
  <1>2. ASSUME NEW u \in Thread PROVE WorkerOK(u)'
    BY PoolAssumption DEF PoolInv, PoolTyped, WorkerOK, KeptOK, Opened, CloseBegins
  <1>3. ASSUME NEW h \in Machine PROVE KeptOK(h)'
    BY DEF PoolInv, PoolTyped, WorkerOK, KeptOK, Opened, CloseBegins
  <1>4. ASSUME NEW d \in Conn PROVE TunnelOK(d)'
    BY DEF PoolInv, PoolTyped, WorkerOK, KeptOK, TunnelOK, Storing, Opened, CloseBegins
  <1>5. Unabandoned'
    <2> SUFFICES ASSUME ~abandons PROVE Unabandoned'
      BY DEF Unabandoned, CloseBegins
    <2>1. ASSUME NEW u \in Thread PROVE LoneWorker(u)'
      BY DEF PoolInv, PoolTyped, WorkerOK, KeptOK, Unabandoned, LoneWorker, Opened, CloseBegins
    <2>2. ASSUME NEW d \in Conn PROVE KeptAlive(d)'
      <3>1. KeptAlive(d) /\ ~Storing(d)
        BY <1>0 DEF PoolInv, Unabandoned, Storing
      <3>2. TunnelOK(d) /\ conn[d].host \in Machine \cup {"none"}
        BY DEF PoolInv, PoolTyped
      <3>3. Alive(d) /\ conns[conn[d].host] = d => conn[d].host \in Held
        BY <3>2 DEF Held, Conn, Alive, TunnelOK, Opened
      <3>4. QED
        BY <1>0, <3>1, <3>3 DEF KeptAlive, Alive
    <2>3. (main = "closing" => keys.begun = Held)' /\ main' # "broken"
      BY DEF PoolInv, PoolTyped, Unabandoned, Held, CloseBegins
    <2>4. QED
      BY <2>1, <2>2, <2>3 DEF Unabandoned
  <1>6. QED
    BY <1>1, <1>2, <1>3, <1>4, <1>5 DEF PoolInv

LEMMA CloseOnePool ==
  ASSUME PoolInv, CloseOne
  PROVE  PoolInv'
  <1>0. PICK h0 \in keys.left :
           /\ conn' = [conn EXCEPT ![conns[h0]].tunnel = "closed", ![conns[h0]].forward = "closed"]
           /\ keys' = [keys EXCEPT !.left = @ \ {h0}]
    BY DEF CloseOne, Shut
  <1>1. PoolTyped'
    <2>1. keys' \in [begun : SUBSET Machine, left : SUBSET Machine]
      BY <1>0 DEF PoolInv, PoolTyped
    <2>2. conn' \in [Conn -> [host : Machine \cup {"none"}, tunnel : Link, forward : Link]]
      BY <1>0 DEF PoolInv, PoolTyped, Link
    <2>3. QED
      BY <2>1, <2>2 DEF PoolInv, PoolTyped, CloseOne
  <1>2. ASSUME NEW u \in Thread PROVE WorkerOK(u)'
    BY PoolAssumption DEF PoolInv, PoolTyped, WorkerOK, KeptOK, Opened, CloseOne, Shut
  <1>3. ASSUME NEW h \in Machine PROVE KeptOK(h)'
    BY DEF PoolInv, PoolTyped, WorkerOK, KeptOK, Opened, CloseOne, Shut
  <1>4. ASSUME NEW d \in Conn PROVE TunnelOK(d)'
    BY DEF PoolInv, PoolTyped, WorkerOK, KeptOK, TunnelOK, Storing, Opened, CloseOne, Shut
  <1>5. Unabandoned'
    <2> SUFFICES ASSUME ~abandons PROVE Unabandoned'
      BY DEF Unabandoned, CloseOne, Shut
    <2>1. ASSUME NEW u \in Thread PROVE LoneWorker(u)'
      BY DEF PoolInv, PoolTyped, WorkerOK, KeptOK, Unabandoned, LoneWorker, Opened, CloseOne, Shut
    <2>2. ASSUME NEW d \in Conn PROVE KeptAlive(d)'
      BY DEF PoolInv, PoolTyped, WorkerOK, KeptOK, TunnelOK, Unabandoned, LoneWorker, KeptAlive, Alive,
             Storing, Opened, CloseOne, Shut
    <2>3. (main = "closing" => keys.begun = Held)' /\ main' # "broken"
      BY DEF PoolInv, PoolTyped, Unabandoned, Held, CloseOne, Shut
    <2>4. QED
      BY <2>1, <2>2, <2>3 DEF Unabandoned
  <1>6. QED
    BY <1>1, <1>2, <1>3, <1>4, <1>5 DEF PoolInv

LEMMA CloseEndsPool ==
  ASSUME PoolInv, CloseEnds
  PROVE  PoolInv'
  <1>1. PoolTyped'
    BY DEF PoolInv, PoolTyped, Link, CloseEnds
  <1>2. ASSUME NEW u \in Thread PROVE WorkerOK(u)'
    BY PoolAssumption DEF PoolInv, PoolTyped, WorkerOK, KeptOK, Opened, CloseEnds
  <1>3. ASSUME NEW h \in Machine PROVE KeptOK(h)'
    BY DEF PoolInv, PoolTyped, WorkerOK, KeptOK, Opened, CloseEnds
  <1>4. ASSUME NEW d \in Conn PROVE TunnelOK(d)'
    BY DEF PoolInv, PoolTyped, WorkerOK, KeptOK, TunnelOK, Storing, Opened, CloseEnds
  <1>5. Unabandoned'
    <2> SUFFICES ASSUME ~abandons PROVE Unabandoned'
      BY DEF Unabandoned, CloseEnds
    <2>1. ASSUME NEW u \in Thread PROVE LoneWorker(u)'
      BY DEF PoolInv, PoolTyped, WorkerOK, KeptOK, Unabandoned, LoneWorker, Opened, CloseEnds
    <2>2. ASSUME NEW d \in Conn PROVE KeptAlive(d)'
      BY DEF PoolInv, PoolTyped, WorkerOK, KeptOK, TunnelOK, Unabandoned, LoneWorker, KeptAlive, Alive,
             Storing, Opened, CloseEnds
    <2>3. (main = "closing" => keys.begun = Held)' /\ main' # "broken"
      BY DEF PoolInv, PoolTyped, Unabandoned, Held, CloseEnds
    <2>4. QED
      BY <2>1, <2>2, <2>3 DEF Unabandoned
  <1>6. QED
    BY <1>1, <1>2, <1>3, <1>4, <1>5 DEF PoolInv

LEMMA NextPoolInv == PoolInv /\ [PoolNext]_poolVars => PoolInv'
  <1> SUFFICES ASSUME PoolInv, [PoolNext]_poolVars PROVE PoolInv'
    OBVIOUS
  <1>1. ASSUME NEW t \in Thread, Get(t) \/ Dial(t) \/ Leave(t) PROVE PoolInv'
    BY <1>1, AskPool, TakePool, HitPool, MissPool, OpenPool, StorePool, DialPool, LeavePool DEF Get
  <1>2. ASSUME NEW c \in Conn, Dies(c) PROVE PoolInv'
    BY <1>2, DiesPool
  <1>3. CASE CloseBegins \/ CloseOne \/ CloseEnds
    BY <1>3, CloseBeginsPool, CloseOnePool, CloseEndsPool
  <1>4. CASE UNCHANGED poolVars
    BY <1>4 DEF poolVars, PoolInv, PoolTyped, WorkerOK, KeptOK, TunnelOK, Unabandoned, LoneWorker, KeptAlive,
                Alive, Storing, Opened, Held
  <1>5. QED
    BY <1>1, <1>2, <1>3, <1>4 DEF PoolNext

\* Pool.get and its latch: "a host costs one SSH handshake per command".
THEOREM OneTunnelPerHost == PoolSpec => []OnePerHost
  <1>1. PoolInv => OnePerHost
    <2> SUFFICES ASSUME PoolInv, main = "open", NEW c \in Conn, NEW d \in Conn,
                        conn[c].tunnel = "up", conn[d].tunnel = "up", conn[c].host = conn[d].host
                 PROVE  c = d
      BY DEF OnePerHost
    <2>1. /\ conns[conn[c].host] = c \/ Storing(c)
          /\ conns[conn[d].host] = d \/ Storing(d)
      BY DEF PoolInv, TunnelOK
    <2>2. \A t \in Thread, e \in Conn : at[t] = "store" /\ mine[t] = e =>
            /\ latch[conn[e].host] = t
            /\ conns[conn[e].host] # 0 => conn[conns[conn[e].host]].tunnel # "up"
      BY DEF PoolInv, WorkerOK
    <2>3. \A e \in Conn : e # 0
      BY DEF Conn
    <2>4. QED
      BY <2>1, <2>2, <2>3 DEF Storing
  <1>2. QED
    BY <1>1, InitPoolInv, NextPoolInv, PTL DEF PoolSpec

\* Pool.close, at the end of pooled(): when no worker was abandoned, no tunnel
\* and no forward is left, and no error breaks the closing off.
THEOREM NoTunnelLeft == PoolSpec => []NothingLeft
  <1>1. PoolInv => NothingLeft
    BY DEF PoolInv, PoolTyped, Unabandoned, KeptAlive, Alive, NothingLeft
  <1>2. QED
    BY <1>1, InitPoolInv, NextPoolInv, PTL DEF PoolSpec

----------------------------------------------------------------------------
(* The fan-out.                                                            *)

Place == {"todo", "queued", "attempt", "settle", "backoff", "done", "cancelled"}
Result == Outcome \cup {"none", "timeout"}

FanOutTyped ==
  /\ limit \in BOOLEAN /\ phase \in {"next", "gather", "raising", "returned", "raised"}
  /\ first \in Nat \ {0}
  /\ results \in Seq(Host \X Result) /\ skipped \in Seq(Host)
  /\ place \in [Host -> Place] /\ attempt \in [Host -> Nat] /\ res \in [Host -> Result]
  /\ work \in [Host -> {"none", "connect", "working"}]
  /\ overdue \subseteq Host /\ tunnel \subseteq Host

\* The hosts before the batch have a result, final, or are skipped, in order.
Told ==
  /\ \A i \in 1..Len(results) : i \in Host /\ results[i] = <<i, res[i]>> /\ place[i] = "done"
  /\ \A j \in 1..Len(skipped) : skipped[j] = Len(results) + j
  /\ Len(results) + Len(skipped) = IF first > N THEN N ELSE first - 1
  /\ skipped # << >> => FailFast /\ SomeFailed

\* Those from the next batch on have not been touched.
Ahead ==
  /\ phase = "next" => \A h \in Host : first <= h => place[h] = "todo"
  /\ phase = "gather" => /\ first <= N /\ ~(FailFast /\ SomeFailed)
                         /\ \A h \in Host : first + Size <= h => place[h] = "todo"
  /\ phase = "returned" => first > N

FanOutInv == FanOutTyped /\ Told /\ Ahead

LEMMA FunctionIsSeq ==
  ASSUME NEW S, NEW n \in Nat, NEW f \in [1..n -> S]
  PROVE  f \in Seq(S) /\ Len(f) = n /\ DOMAIN f = 1..n
  OBVIOUS

LEMMA ChunkFacts ==
  ASSUME first \in Nat \ {0}, first <= N
  PROVE  LET k == IF first + Size > N THEN N - first + 1 ELSE Size
         IN /\ Cardinality(Chunk) = k /\ k \in Nat \ {0} /\ first + k - 1 <= N
            /\ InOrder \in Seq(Host) /\ Len(InOrder) = k /\ DOMAIN InOrder = 1..k
            /\ \A i \in 1..k : InOrder[i] = first + i - 1 /\ InOrder[i] \in Chunk
  <1> DEFINE k == IF first + Size > N THEN N - first + 1 ELSE Size
             m == first + k - 1
  <1>1. N \in Nat /\ Size \in Nat \ {0} /\ Host = 1..N
    BY FanOutAssumption DEF Host
  <1>2. k \in Nat \ {0} /\ m <= N /\ m \in Nat
    BY <1>1
  <1>3. Chunk = first..m
    BY <1>1 DEF Chunk
  <1>4. Cardinality(Chunk) = k
    <2>1. first \in Int /\ m \in Int
      BY <1>2
    <2> HIDE DEF m
    <2>3. Cardinality(first..m) = IF first > m THEN 0 ELSE m - first + 1
      BY <2>1, FS_Interval
    <2>2. QED
      BY <1>2, <1>3, <2>3 DEF m
  <1>5. InOrder = [i \in 1..k |-> first + i - 1]
    BY <1>4 DEF InOrder
  <1> HIDE DEF k
  <1>6. \A i \in 1..k : first + i - 1 \in first..m /\ first + i - 1 \in Host
    BY <1>1, <1>2
  <1>7. InOrder \in Seq(Host) /\ Len(InOrder) = k /\ DOMAIN InOrder = 1..k
    <2>1. k \in Nat /\ \A i \in 1..k : first + i - 1 \in Host
      BY <1>2, <1>6
    <2>2. InOrder \in [1..k -> Host]
      BY <1>5, <2>1
    <2>3. QED
      BY <2>1, <2>2, FunctionIsSeq
  <1>8. QED
    BY <1>2, <1>3, <1>4, <1>5, <1>6, <1>7 DEF k

LEMMA InitFanOutInv == FanOutInit => FanOutInv
  BY FanOutAssumption DEF FanOutInit, FanOutInv, FanOutTyped, Told, Ahead, Place, Result, Host

\* A step of a host's worker or attempt: what is done stays done, and what has
\* not been touched stays so.
LEMMA HostStep ==
  ASSUME FanOutInv, UNCHANGED <<limit, phase, first, results, skipped>>, FanOutTyped',
         \A h \in Host : place[h] = "done" => res'[h] = res[h] /\ place'[h] = "done",
         \A h \in Host : place[h] = "todo" => place'[h] = "todo"
  PROVE  FanOutInv'
  <1>1. Told'
    BY DEF FanOutInv, Told, SomeFailed
  <1>2. Ahead'
    BY DEF FanOutInv, Ahead, SomeFailed
  <1>3. QED
    BY <1>1, <1>2 DEF FanOutInv

LEMMA WorkerFanOut ==
  ASSUME FanOutInv, NEW h \in Host, Worker(h) \/ Expire(h) \/ Attempt(h) \/ TunnelDies(h)
  PROVE  /\ FanOutInv'
         /\ \A g \in Host : place[g] = "done" => res'[g] = res[g] /\ place'[g] = "done"
  <1>1. UNCHANGED <<limit, phase, first, results, skipped>>
    BY DEF Worker, StartHost, Again, Try, SettleHost, GiveUp, Expire, Attempt, Connect, End, TunnelDies
  <1>2. /\ place' \in [Host -> Place] /\ attempt' \in [Host -> Nat] /\ res' \in [Host -> Result]
        /\ work' \in [Host -> {"none", "connect", "working"}]
        /\ overdue' \subseteq Host /\ tunnel' \subseteq Host
    <2>1. CASE StartHost(h) \/ Again(h)
      <3>1. /\ place' = [place EXCEPT ![h] = "attempt"] /\ attempt' = [attempt EXCEPT ![h] = @ + 1]
            /\ work' = [work EXCEPT ![h] = "connect"] /\ res' = [res EXCEPT ![h] = "none"]
            /\ UNCHANGED <<overdue, tunnel>>
        BY <2>1 DEF StartHost, Again, Try
      <3>2. QED
        BY <3>1 DEF FanOutInv, FanOutTyped, Place, Result
    <2>2. CASE SettleHost(h) \/ GiveUp(h)
      BY <2>2 DEF FanOutInv, FanOutTyped, Place, Result, SettleHost, GiveUp
    <2>3. ASSUME NEW o \in Outcome, End(h, o)
          PROVE  /\ place' \in [Host -> Place] /\ attempt' \in [Host -> Nat] /\ res' \in [Host -> Result]
                 /\ work' \in [Host -> {"none", "connect", "working"}]
                 /\ overdue' \subseteq Host /\ tunnel' \subseteq Host
      <3>1. (IF limit /\ o = "crash" THEN "timeout" ELSE o) \in Result
        BY DEF Result
      <3>2. QED
        BY <2>3, <3>1 DEF FanOutInv, FanOutTyped, Place, End
    <2>4. CASE Connect(h) \/ Expire(h) \/ TunnelDies(h)
      BY <2>4 DEF FanOutInv, FanOutTyped, Connect, Expire, TunnelDies
    <2>5. QED
      BY <2>1, <2>2, <2>3, <2>4 DEF Worker, Attempt
  <1>3. FanOutTyped'
    BY <1>1, <1>2 DEF FanOutInv, FanOutTyped
  <1>4. \A g \in Host : place[g] = "done" => res'[g] = res[g] /\ place'[g] = "done"
    BY DEF FanOutInv, FanOutTyped,
           Worker, StartHost, Again, Try, SettleHost, GiveUp, Expire, Attempt, Connect, End, TunnelDies
  <1>5. \A g \in Host : place[g] = "todo" => place'[g] = "todo"
    BY DEF FanOutInv, FanOutTyped,
           Worker, StartHost, Again, Try, SettleHost, GiveUp, Expire, Attempt, Connect, End, TunnelDies
  <1>6. QED
    BY <1>1, <1>3, <1>4, <1>5, HostStep

LEMMA BatchFanOut ==
  ASSUME FanOutInv, Batch
  PROVE  /\ FanOutInv'
         /\ \A g \in Host : place[g] = "done" => res'[g] = res[g] /\ place'[g] = "done"
  <1>1. /\ phase = "next" /\ phase' = "gather" /\ first <= N /\ ~(FailFast /\ SomeFailed)
        /\ place' = [h \in Host |-> IF h \in Chunk THEN "queued" ELSE place[h]]
        /\ UNCHANGED <<limit, first, results, skipped, attempt, res, work, overdue, tunnel>>
    BY DEF Batch
  <1>2. FanOutTyped'
    BY <1>1 DEF FanOutInv, FanOutTyped, Place
  <1>3. \A h \in Host : place[h] = "done" => h \notin Chunk
    BY <1>1 DEF FanOutInv, Ahead, Chunk
  <1>4. Told'
    BY <1>1, <1>3 DEF FanOutInv, Told, SomeFailed
  <1>5. \A h \in Host : first + Size <= h => h \notin Chunk /\ first <= h
    BY FanOutAssumption DEF Chunk, Host, FanOutInv, FanOutTyped
  <1>6. Ahead'
    BY <1>1, <1>5 DEF FanOutInv, Ahead, SomeFailed
  <1>7. QED
    BY <1>1, <1>2, <1>3, <1>4, <1>6 DEF FanOutInv

LEMMA SkipFanOut ==
  ASSUME FanOutInv, SkipBatch
  PROVE  FanOutInv'
  <1> DEFINE k == IF first + Size > N THEN N - first + 1 ELSE Size
  <1>1. /\ phase = "next" /\ first <= N /\ FailFast /\ SomeFailed
        /\ skipped' = skipped \o InOrder /\ first' = first + Size
        /\ UNCHANGED <<limit, phase, results, place, attempt, res, work, overdue, tunnel>>
    BY DEF SkipBatch
  <1>2. first \in Nat \ {0} /\ N \in Nat /\ Size \in Nat \ {0} /\ skipped \in Seq(Host) /\ results \in Seq(Host \X Result)
    BY FanOutAssumption DEF FanOutInv, FanOutTyped
  <1>3. /\ k \in Nat \ {0} /\ InOrder \in Seq(Host) /\ Len(InOrder) = k
        /\ \A i \in 1..k : InOrder[i] = first + i - 1
    BY <1>1, <1>2, ChunkFacts
  <1> HIDE DEF k
  <1>4. /\ skipped' \in Seq(Host) /\ Len(skipped') = Len(skipped) + k
        /\ \A j \in 1..Len(skipped') : skipped'[j] = IF j <= Len(skipped) THEN skipped[j] ELSE InOrder[j - Len(skipped)]
    <2>1. /\ skipped \o InOrder \in Seq(Host) /\ Len(skipped \o InOrder) = Len(skipped) + Len(InOrder)
          /\ \A j \in 1..(Len(skipped) + Len(InOrder)) :
               (skipped \o InOrder)[j] = IF j <= Len(skipped) THEN skipped[j] ELSE InOrder[j - Len(skipped)]
      BY <1>2, <1>3, ConcatProperties
    <2>2. QED
      BY <1>1, <1>3, <2>1
  <1>5. FanOutTyped'
    BY <1>1, <1>2, <1>4 DEF FanOutInv, FanOutTyped
  <1>6. /\ Len(results) \in Nat /\ Len(skipped) \in Nat
        /\ Len(results) + Len(skipped) = first - 1
        /\ \A j \in 1..Len(skipped) : skipped[j] = Len(results) + j
    BY <1>1, <1>2 DEF FanOutInv, Told
  <1>7. \A j \in 1..Len(skipped') : skipped'[j] = Len(results) + j
    <2> SUFFICES ASSUME NEW j \in 1..Len(skipped') PROVE skipped'[j] = Len(results) + j
      OBVIOUS
    <2>1. CASE j <= Len(skipped)
      BY <1>4, <1>6, <2>1
    <2>2. CASE j > Len(skipped)
      <3>1. j - Len(skipped) \in 1..k
        BY <1>3, <1>4, <1>6, <2>2
      <3>2. skipped'[j] = InOrder[j - Len(skipped)]
        BY <1>4, <1>6, <2>2
      <3>3. InOrder[j - Len(skipped)] = first + (j - Len(skipped)) - 1
        BY <1>3, <3>1
      <3>4. j \in Int /\ Len(skipped) \in Int /\ Len(results) \in Int /\ first = Len(results) + Len(skipped) + 1
        BY <1>2, <1>6
      <3>5. QED
        BY <3>2, <3>3, <3>4
    <2>3. QED
      BY <1>6, <2>1, <2>2
  <1>8. Len(results) + Len(skipped') = IF first' > N THEN N ELSE first' - 1
    <2>1. /\ Len(results) \in Int /\ Len(skipped) \in Int /\ k \in Int /\ first \in Int /\ N \in Int /\ Size \in Int
          /\ Len(skipped') = Len(skipped) + k /\ Len(results) + Len(skipped) = first - 1
      BY <1>2, <1>3, <1>4, <1>6
    <2>2. first <= N /\ first' = first + Size /\ Size > 0
      BY <1>1, <1>2
    <2>3. CASE first + Size > N
      <3>1. k = N - first + 1
        BY <2>3 DEF k
      <3>2. Len(results) + Len(skipped') = N
        BY <2>1, <3>1
      <3>3. QED
        BY <2>1, <2>2, <2>3, <3>2
    <2>4. CASE ~(first + Size > N)
      <3>1. k = Size
        BY <2>4 DEF k
      <3>2. Len(results) + Len(skipped') = first' - 1
        BY <2>1, <2>2, <3>1
      <3>3. QED
        BY <2>1, <2>2, <2>4, <3>2
    <2>5. QED
      BY <2>3, <2>4
  <1>9. Told'
    BY <1>1, <1>7, <1>8 DEF FanOutInv, Told, SomeFailed
  <1>10. Ahead'
    <2>1. \A h \in Host : first' <= h => first <= h
      BY <1>1, <1>2 DEF Host
    <2>2. QED
      BY <1>1, <2>1 DEF FanOutInv, Ahead
  <1>11. QED
    BY <1>5, <1>9, <1>10 DEF FanOutInv

LEMMA GatherFanOut ==
  ASSUME FanOutInv, Gather
  PROVE  FanOutInv'
  <1> DEFINE k == IF first + Size > N THEN N - first + 1 ELSE Size
             more == [i \in DOMAIN InOrder |-> <<InOrder[i], res[InOrder[i]]>>]
  <1>1. /\ phase = "gather" /\ phase' = "next" /\ \A h \in Chunk : place[h] = "done"
        /\ results' = results \o more /\ first' = first + Size
        /\ UNCHANGED <<limit, skipped, place, attempt, res, work, overdue, tunnel>>
    BY DEF Gather
  <1>2. /\ first \in Nat \ {0} /\ N \in Nat /\ Size \in Nat \ {0} /\ skipped \in Seq(Host)
        /\ results \in Seq(Host \X Result) /\ res \in [Host -> Result] /\ Host = 1..N
    BY FanOutAssumption DEF FanOutInv, FanOutTyped, Host
  <1>3. first <= N /\ ~(FailFast /\ SomeFailed)
    BY <1>1 DEF FanOutInv, Ahead
  <1>4. skipped = << >> /\ Len(skipped) = 0
    BY <1>3 DEF FanOutInv, Told
  <1>5. /\ k \in Nat \ {0} /\ InOrder \in Seq(Host) /\ DOMAIN InOrder = 1..k /\ first + k - 1 <= N
        /\ \A i \in 1..k : InOrder[i] = first + i - 1 /\ InOrder[i] \in Chunk
    BY <1>2, <1>3, ChunkFacts
  <1> HIDE DEF k
  <1>6. /\ more \in Seq(Host \X Result) /\ Len(more) = k
        /\ \A i \in 1..k : more[i] = <<first + i - 1, res[first + i - 1]>>
    <2>1. \A i \in 1..k : InOrder[i] \in Host
      BY <1>2, <1>5
    <2>2. more = [i \in 1..k |-> <<InOrder[i], res[InOrder[i]]>>]
      BY <1>5
    <2>3. \A i \in 1..k : <<InOrder[i], res[InOrder[i]]>> \in Host \X Result
      BY <1>2, <2>1
    <2>4. QED
      BY <1>5, <2>2, <2>3
  <1> HIDE DEF more
  <1>7. /\ Len(results) = first - 1 /\ Len(results) \in Nat
        /\ \A i \in 1..Len(results) : i \in Host /\ results[i] = <<i, res[i]>> /\ place[i] = "done"
    BY <1>2, <1>3, <1>4 DEF FanOutInv, Told
  <1>8. /\ results' \in Seq(Host \X Result) /\ Len(results') = Len(results) + k
        /\ \A i \in 1..Len(results') : results'[i] = IF i <= Len(results) THEN results[i] ELSE more[i - Len(results)]
    <2>1. /\ results \o more \in Seq(Host \X Result) /\ Len(results \o more) = Len(results) + Len(more)
          /\ \A i \in 1..(Len(results) + Len(more)) :
               (results \o more)[i] = IF i <= Len(results) THEN results[i] ELSE more[i - Len(results)]
      BY <1>2, <1>6, ConcatProperties
    <2>2. QED
      BY <1>1, <1>6, <2>1
  <1>9. FanOutTyped'
    BY <1>1, <1>2, <1>8 DEF FanOutInv, FanOutTyped
  <1>10. ASSUME NEW i \in 1..Len(results') PROVE i \in Host /\ results'[i] = <<i, res[i]>> /\ place[i] = "done"
    <2>1. CASE i <= Len(results)
      BY <1>7, <1>8, <2>1
    <2>2. CASE i > Len(results)
      <3>1. i - Len(results) \in 1..k /\ first + (i - Len(results)) - 1 = i
        <4>1. i \in Int /\ i >= 1 /\ i <= Len(results) + k /\ Len(results) = first - 1 /\ first \in Int /\ k \in Int
          BY <1>2, <1>5, <1>7, <1>8
        <4>2. QED
          BY <2>2, <4>1
      <3>2. InOrder[i - Len(results)] = i /\ i \in Chunk
        BY <1>5, <3>1
      <3>3. QED
        BY <1>1, <1>6, <1>8, <2>2, <3>1, <3>2 DEF Chunk
    <2>3. QED
      BY <1>7, <2>1, <2>2
  <1>11. Len(results') + Len(skipped') = IF first' > N THEN N ELSE first' - 1
    BY <1>1, <1>2, <1>3, <1>4, <1>7, <1>8 DEF k
  <1>12. Told'
    <2>1. skipped' = << >> /\ Len(skipped') = 0
      BY <1>1, <1>4
    <2>2. \A i \in 1..Len(results') : i \in Host /\ results'[i] = <<i, res'[i]>> /\ place'[i] = "done"
      BY <1>1, <1>10
    <2>3. \A j \in 1..Len(skipped') : skipped'[j] = Len(results') + j
      BY <2>1
    <2>4. QED
      BY <1>11, <2>1, <2>2, <2>3 DEF Told
  <1>13. Ahead'
    BY <1>1, <1>2 DEF FanOutInv, Ahead
  <1>14. QED
    BY <1>9, <1>12, <1>13 DEF FanOutInv

LEMMA RaiseFanOut ==
  ASSUME FanOutInv, Raise
  PROVE  /\ FanOutInv'
         /\ \A g \in Host : place[g] = "done" => res'[g] = res[g] /\ place'[g] = "done"
  <1>1. /\ phase' = "raising"
        /\ place' = [h \in Host |-> IF place[h] = "queued" THEN "cancelled" ELSE place[h]]
        /\ UNCHANGED <<limit, first, results, skipped, attempt, res, work, overdue, tunnel>>
    BY DEF Raise
  <1>2. FanOutTyped'
    BY <1>1 DEF FanOutInv, FanOutTyped, Place
  <1>3. Told'
    BY <1>1 DEF FanOutInv, Told, SomeFailed
  <1>4. Ahead'
    BY <1>1 DEF Ahead
  <1>5. QED
    BY <1>1, <1>2, <1>3, <1>4 DEF FanOutInv

LEMMA CloseFanOut ==
  ASSUME FanOutInv, Close
  PROVE  FanOutInv'
  <1>1. /\ (phase' = "returned" /\ first > N) \/ phase' = "raised"
        /\ tunnel' = {} /\ UNCHANGED <<limit, first, results, skipped, place, attempt, res, work, overdue>>
    BY DEF Close
  <1>2. FanOutTyped'
    BY <1>1 DEF FanOutInv, FanOutTyped
  <1>3. Told'
    BY <1>1 DEF FanOutInv, Told, SomeFailed
  <1>4. Ahead'
    BY <1>1 DEF Ahead
  <1>5. QED
    BY <1>2, <1>3, <1>4 DEF FanOutInv

LEMMA NextFanOutInv ==
  ASSUME FanOutInv, [FanOutNext]_fanOutVars
  PROVE  /\ FanOutInv'
         /\ \A g \in Host : place[g] = "done" => res'[g] = res[g] /\ place'[g] = "done"
  <1>1. CASE UNCHANGED fanOutVars
    BY <1>1 DEF fanOutVars, FanOutInv, FanOutTyped, Told, Ahead, SomeFailed
  <1>2. CASE Batch \/ Raise
    BY <1>2, BatchFanOut, RaiseFanOut
  <1>3. CASE SkipBatch \/ Gather \/ Close
    BY <1>3, SkipFanOut, GatherFanOut, CloseFanOut DEF SkipBatch, Gather, Close
  <1>4. ASSUME NEW h \in Host, Worker(h) \/ Expire(h) \/ Attempt(h) \/ TunnelDies(h)
        PROVE  /\ FanOutInv'
               /\ \A g \in Host : place[g] = "done" => res'[g] = res[g] /\ place'[g] = "done"
    BY <1>4, WorkerFanOut
  <1>5. QED
    BY <1>1, <1>2, <1>3, <1>4 DEF FanOutNext, Caller

\* fan_out: "Returns (results in host order, hosts skipped)": each host once, in
\* order, with its last result, whatever order the workers end in.
THEOREM HostsAreReported == FanOutSpec => []EveryHostReported
  <1>1. FanOutInv => EveryHostReported
    <2> SUFFICES ASSUME FanOutInv, phase = "returned"
                 PROVE  /\ [i \in 1..Len(results) |-> results[i][1]] \o skipped = [h \in Host |-> h]
                        /\ \A i \in 1..Len(results) : results[i][2] = res[i]
                        /\ skipped # << >> => FailFast /\ SomeFailed
      BY DEF EveryHostReported
    <2> DEFINE n == Len(results)
               told == [i \in 1..n |-> results[i][1]]
    <2>1. /\ n \in Nat /\ skipped \in Seq(Host) /\ Len(skipped) \in Nat /\ N \in Nat
          /\ n + Len(skipped) = N
          /\ \A i \in 1..n : i \in Host /\ results[i] = <<i, res[i]>>
          /\ \A j \in 1..Len(skipped) : skipped[j] = n + j
      BY FanOutAssumption DEF FanOutInv, FanOutTyped, Told, Ahead
    <2> HIDE DEF n
    <2>2. told = [i \in 1..n |-> i] /\ told \in Seq(Host) /\ Len(told) = n
      BY <2>1
    <2> HIDE DEF told
    <2>3. /\ told \o skipped \in Seq(Host) /\ Len(told \o skipped) = N
          /\ \A i \in 1..N : (told \o skipped)[i] = i
      <3>1. /\ Len(told \o skipped) = N /\ told \o skipped \in Seq(Host)
            /\ \A i \in 1..N : (told \o skipped)[i] = IF i <= n THEN told[i] ELSE skipped[i - n]
        BY <2>1, <2>2, ConcatProperties
      <3>2. ASSUME NEW i \in 1..N PROVE (told \o skipped)[i] = i
        <4>1. CASE i <= n
          BY <2>1, <2>2, <3>1, <4>1
        <4>2. CASE i > n
          <5>1. i - n \in 1..Len(skipped) /\ n + (i - n) = i
            BY <2>1, <4>2
          <5>2. QED
            BY <2>1, <3>1, <4>2, <5>1
        <4>3. i <= n \/ i > n
          BY <2>1
        <4>4. QED
          BY <4>1, <4>2, <4>3
      <3>3. QED
        BY <3>1, <3>2
    <2>4. told \o skipped = [h \in Host |-> h]
      <3>1. DOMAIN (told \o skipped) = 1..N /\ told \o skipped \in [1..N -> Host]
        BY <2>3, LenProperties
      <3>2. QED
        BY <2>3, <3>1 DEF Host
    <2>5. QED
      BY <2>1, <2>4 DEF n, told, FanOutInv, Told
  <1>2. FanOutInv /\ [FanOutNext]_fanOutVars => FanOutInv'
    BY NextFanOutInv
  <1>3. QED
    BY <1>1, <1>2, InitFanOutInv, PTL DEF FanOutSpec

\* "a timed-out thread may finish later and must not fill the next attempt's":
\* once a host is done, its result is final.
THEOREM DoneIsFinal == FanOutSpec => ResultIsFinal
  <1>1. FanOutInv /\ [FanOutNext]_fanOutVars =>
          /\ FanOutInv'
          /\ [\A h \in Host : place[h] = "done" => res'[h] = res[h] /\ place'[h] = "done"]_fanOutVars
    BY NextFanOutInv
  <1>2. QED
    BY <1>1, InitFanOutInv, PTL DEF FanOutSpec, ResultIsFinal

=============================================================================
