------------------------------- MODULE Serving -------------------------------
(***************************************************************************)
(* What is shown of the fleet from memory: `aisb exporter`                 *)
(* (src/aisb/exporter.py), whose one thread refreshes the metrics that     *)
(* every scrape is given, and the Fleet tab of the portal                  *)
(* (src/aisb/portal.py), where each request that finds the cache stale     *)
(* asks the fleet on its own and stores what it was told.  A round of the  *)
(* fleet takes time, may fail, and is as old as the moment it began.       *)
(***************************************************************************)
EXTENDS Integers, FiniteSets

CONSTANTS
  Scraper, Tab, \* those who scrape the exporter, and the portal's browser tabs
  Ttl,       \* FLEET_CACHE_S
  Interval,  \* seconds between refreshes
  Longest,   \* bound: seconds one round of the fleet may take
  MaxTime    \* bound: the clock

ASSUME ServingAssumption == {Ttl, Interval, Longest, MaxTime} \subseteq Nat

Client == Scraper \cup Tab

VARIABLES
  serves,    \* the process: "exporter" or "portal"; they share nothing
  now,
  text,      \* Collector.text: when the round it shows began, or Never
  error,     \* Collector.error is set
  loop,      \* the collector: [at, since]; at is "ask", "clear" or "wait"
  fleet,     \* Portal._fleet: [at: when it was stored, began], or NoFleet
  client     \* [at, began, shows, quiet, whole]: see AtRest

servingVars == <<serves, now, text, error, loop, fleet, client>>

Never == -1
NoFleet == [at |-> Never, began |-> Never]

\* at: "idle", "scrape" between the reads of text and error, "round" while it
\* asks the fleet; began: when that round began; shows: the age of what it is
\* shown, -1 if there is nothing; quiet: without a note of a failure; whole: no
\* refresh ended between the two reads.
AtRest == [at |-> "idle", began |-> 0, shows |-> -1, quiet |-> FALSE, whole |-> TRUE]

ServingInit ==
  /\ serves \in {"exporter", "portal"} /\ now = 0 /\ text = Never /\ error = FALSE
  /\ loop = [at |-> "ask", since |-> 0]
  /\ fleet = NoFleet /\ client = [c \in Client |-> AtRest]

-----------------------------------------------------------------------------
(* The exporter.                                                           *)

Straddled == [c \in Client |-> IF client[c].at = "scrape" THEN [client[c] EXCEPT !.whole = FALSE] ELSE client[c]]

\* The text is stored first,
Refreshed ==
  /\ loop.at = "ask"
  /\ text' = loop.since /\ loop' = [loop EXCEPT !.at = "clear"]
  /\ UNCHANGED <<serves, now, error, fleet, client>>

\* then the error is cleared, and the thread waits.
Cleared ==
  /\ loop.at = "clear"
  /\ error' = FALSE /\ loop' = [at |-> "wait", since |-> now]
  /\ client' = Straddled
  /\ UNCHANGED <<serves, now, text, fleet>>

\* The last good data stay.
RefreshFails ==
  /\ loop.at = "ask"
  /\ error' = TRUE /\ loop' = [at |-> "wait", since |-> now] /\ client' = Straddled
  /\ UNCHANGED <<serves, now, text, fleet>>

RefreshAgain ==
  /\ loop.at = "wait" /\ now >= loop.since + Interval
  /\ loop' = [at |-> "ask", since |-> now]
  /\ UNCHANGED <<serves, now, text, error, fleet, client>>

\* GET /metrics: the text is read, then the error.
Scrape(c) ==
  /\ client[c].at = "idle"
  /\ client' = [client EXCEPT ![c] =
       [AtRest EXCEPT !.at = "scrape", !.shows = IF text = Never THEN -1 ELSE now - text]]
  /\ UNCHANGED <<serves, now, text, error, loop, fleet>>

Scraped(c) ==
  /\ client[c].at = "scrape"
  /\ client' = [client EXCEPT ![c].at = "scraped", ![c].quiet = ~error]
  /\ UNCHANGED <<serves, now, text, error, loop, fleet>>

-----------------------------------------------------------------------------
(* The Fleet tab.                                                          *)

FleetFresh == fleet # NoFleet /\ now - fleet.at < Ttl

\* Variant of FromCache: every reader keeps the answer alive.
FromCacheRenewed(c) ==
  /\ client[c].at = "idle" /\ FleetFresh
  /\ fleet' = [fleet EXCEPT !.at = now]
  /\ client' = [client EXCEPT ![c] = [AtRest EXCEPT !.at = "told", !.shows = now - fleet.began]]
  /\ UNCHANGED <<serves, now, text, error, loop>>

FromCache(c) ==
  /\ client[c].at = "idle" /\ FleetFresh
  /\ client' = [client EXCEPT ![c] = [AtRest EXCEPT !.at = "told", !.shows = now - fleet.began]]
  /\ UNCHANGED <<serves, now, text, error, loop, fleet>>

\* The lock is not held while the fleet is asked.
AskFleet(c) ==
  /\ client[c].at = "idle" /\ ~FleetFresh
  /\ client' = [client EXCEPT ![c] = [AtRest EXCEPT !.at = "round", !.began = now]]
  /\ UNCHANGED <<serves, now, text, error, loop, fleet>>

\* Whoever ends last is stored, whenever it began.
StoreFleet(c) ==
  /\ client[c].at = "round"
  /\ fleet' = [at |-> now, began |-> client[c].began]
  /\ client' = [client EXCEPT ![c].at = "told", ![c].shows = now - client[c].began]
  /\ UNCHANGED <<serves, now, text, error, loop>>

\* 502, or no answer at all: nothing is stored.
FleetFails(c) ==
  /\ client[c].at = "round"
  /\ client' = [client EXCEPT ![c] = AtRest]
  /\ UNCHANGED <<serves, now, text, error, loop, fleet>>

Done(c) ==
  /\ client[c].at \in {"told", "scraped"}
  /\ client' = [client EXCEPT ![c] = AtRest]
  /\ UNCHANGED <<serves, now, text, error, loop, fleet>>

-----------------------------------------------------------------------------
\* A round takes Longest at most, and the collector's thread is not held up.
OnTime ==
  /\ serves = "exporter" =>
       /\ loop.at # "clear"
       /\ now < loop.since + (IF loop.at = "ask" THEN Longest ELSE Interval)
  /\ \A c \in Client : client[c].at = "round" => now < client[c].began + Longest

Tick ==
  /\ now < MaxTime /\ OnTime
  /\ now' = now + 1
  /\ UNCHANGED <<serves, text, error, loop, fleet, client>>

ServingNext ==
  \/ Tick
  \/ /\ serves = "exporter"
     /\ \/ Refreshed \/ Cleared \/ RefreshFails \/ RefreshAgain
        \/ \E c \in Scraper : Scrape(c) \/ Scraped(c) \/ Done(c)
  \/ /\ serves = "portal"
     /\ \E c \in Tab : FromCache(c) \/ AskFleet(c) \/ StoreFleet(c) \/ FleetFails(c) \/ Done(c)

ServingSpec == ServingInit /\ [][ServingNext]_servingVars

-----------------------------------------------------------------------------
\* What is shown from memory is not too old.  The Fleet tab shows nothing older
\* than an answer is kept and its round took, although rounds that overlap are
\* stored in any order; a scrape without a note of a failed refresh, nothing
\* older than two rounds and an interval, if no refresh ended while it was being
\* put together.
ShownIsCurrent ==
  \A c \in Client :
    /\ client[c].at = "told" => client[c].shows <= Ttl + Longest
    /\ client[c].at = "scraped" /\ client[c].quiet /\ client[c].whole =>
         client[c].shows <= 2 * Longest + Interval
=============================================================================
