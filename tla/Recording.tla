----------------------------- MODULE Recording -----------------------------
(***************************************************************************)
(* The HTTP recorder and its replay (api/http.py, insights/traffic.py).    *)
(* A recording is made through a reverse proxy, or passively: a tcpdump    *)
(* sidecar captures the segments of a connection, `streams` puts each      *)
(* direction together again by sequence number, `parse_http` splits it     *)
(* into messages and the n-th request is paired with the n-th response.    *)
(* The segments may be captured in any order, twice, cut differently when  *)
(* they are sent again, or not at all.  A replay then sends the recorded   *)
(* requests to another container and compares what comes back.             *)
(*                                                                         *)
(* A byte stream is a sequence of tokens: the head of a message, a unit of *)
(* its body, a chunk, the last chunk.  Bodies are compared with the ids,   *)
(* times and numbers in them masked, and the JSON paths the user ignores   *)
(* left out: a unit stands for what is left, so that equal units are equal *)
(* for the program.  Sequence numbers are taken modulo Modulus (2^32).     *)
(***************************************************************************)
EXTENDS Integers, FiniteSets, SequencesExt

CONSTANTS Talks,      \* the lists of exchanges a connection may carry
          Modulus,    \* sequence numbers wrap here (2^32 in the code)
          Isns,       \* initial sequence numbers of both directions
          MaxSegment, \* tokens in one segment, at most
          MaxBody     \* --max-body: tokens of a body that are kept

Directions == {"requests", "responses"}

\* nul: the directions in which the body holds a NUL; text: those in which the
\* Content-Type speaks of text or JSON.
Exchange == [method : STRING, sent : Nat, answered : Nat, chunked : BOOLEAN,
             nul : SUBSET Directions, text : SUBSET Directions]

ASSUME RecordingAssumption ==
    /\ Modulus \in Nat \ {0} /\ Isns \subseteq 0 .. (Modulus - 1)
    /\ MaxSegment \in 1 .. Modulus \div 2 /\ MaxBody \in Nat
    /\ Talks \subseteq Seq(Exchange)

VARIABLES talk,    \* the exchanges of this connection, in order
          isn,     \* [direction -> its initial sequence number]
          said,    \* messages written so far: request, response, request...
          parts,   \* streams.parts: [direction -> [sequence number -> payload]]
          via,     \* --via
          serving, \* proxy mode: [exchange -> where its handler thread is]
          rows,    \* the exchanges of the recording
          phase,   \* "recording", "written", "failed", "replaying"
          left,    \* rows still to be replayed
          results  \* one entry for every row replayed

capture == <<talk, isn, said, parts, via, serving>>
httpVars == <<talk, isn, said, parts, via, serving, rows, phase, left, results>>

None == [msg |-> 0, clean |-> FALSE, body |-> <<>>]

-----------------------------------------------------------------------------
(* What travels: of an Exchange, the tokens of the request's and of the    *)
(* response's body, with the response's framing.                           *)

Units(k, part, n) == [i \in 1 .. n |-> [msg |-> k, part |-> part]]

Body(d, k) ==
    LET e == talk[k] IN
    IF d = "requests" THEN Units(k, "body", e.sent)
    ELSE IF e.method = "HEAD" THEN <<>>
    ELSE Units(k, IF e.chunked THEN "chunk" ELSE "body", e.answered)

Message(d, k) ==
    Units(k, "head", 1) \o Body(d, k)
        \o (IF d = "responses" /\ talk[k].chunked /\ talk[k].method # "HEAD" THEN Units(k, "last", 1) ELSE <<>>)

Written(d) == IF d = "requests" THEN (said + 1) \div 2 ELSE said \div 2

Stream(d) == FlattenSeq([k \in 1 .. Written(d) |-> Message(d, k)])

-----------------------------------------------------------------------------
(* Reading the capture: traffic.streams.                                   *)

Beyond(seq, end) == (seq - end) % Modulus < Modulus \div 2

Add(segs, acc, seq) ==
    LET payload == segs[seq]
        overlap == (acc.end - seq) % Modulus
        rest == acc.rest \ {seq}
    IN  IF acc.data = <<>> \/ Beyond(seq, acc.end)
        THEN [data |-> acc.data \o payload, end |-> seq + Len(payload), rest |-> rest]
        ELSE IF overlap < Len(payload)
        THEN [data |-> acc.data \o SubSeq(payload, overlap + 1, Len(payload)),
              end  |-> seq + Len(payload), rest |-> rest]
        ELSE [acc EXCEPT !.rest = rest]

\* The segments still to come in, the next of them the first after the lowest.
Reassemble(segs) ==
    LET low == CHOOSE s \in DOMAIN segs : \A t \in DOMAIN segs : s <= t
        Following(rest) == CHOOSE s \in rest : \A t \in rest : (s - low) % Modulus <= (t - low) % Modulus
        placed[n \in 0 .. Cardinality(DOMAIN segs)] ==
            IF n = 0 THEN [data |-> <<>>, end |-> 0, rest |-> DOMAIN segs]
            ELSE Add(segs, placed[n - 1], Following(placed[n - 1].rest))
    IN  placed[Cardinality(DOMAIN segs)].data

-----------------------------------------------------------------------------
(* traffic.parse_http.  A head that is not where a message should start    *)
(* takes what stands before it into its first line.                        *)

Chunks(data, at) ==       \* where the chunks end, and their tokens
    LET after == {i \in at .. Len(data) : data[i].part # "chunk"}
        stop == CHOOSE i \in after : \A j \in after : i <= j
    IN  IF after = {} THEN [at |-> Len(data) + 1, body |-> SubSeq(data, at, Len(data))]
        ELSE [at |-> IF data[stop].part = "last" THEN stop + 1 ELSE 0, body |-> SubSeq(data, at, stop - 1)]

Sized(data, at, n) ==
    [at |-> at + n, body |-> SubSeq(data, at, IF at + n - 1 < Len(data) THEN at + n - 1 ELSE Len(data))]

\* Variant of Payload: the response to a HEAD is taken to have the body its
\* Content-Length speaks of.
PayloadOfHead(d, data, at, k, isHead) ==
    CASE d = "responses" /\ talk[k].chunked -> Chunks(data, at)
      [] d = "responses" /\ ~talk[k].chunked -> Sized(data, at, talk[k].answered)
      [] d = "requests" -> Sized(data, at, talk[k].sent)

Payload(d, data, at, k, isHead) ==
    CASE d = "responses" /\ talk[k].chunked -> Chunks(data, at)
      [] d = "responses" /\ ~talk[k].chunked /\ ~isHead -> Sized(data, at, talk[k].answered)
      [] d = "responses" /\ ~talk[k].chunked /\ isHead -> Sized(data, at, 0)
      [] d = "requests" -> Sized(data, at, talk[k].sent)

\* The next message, if there is one; acc.ok if int() has not raised ValueError.
ParseOne(d, data, heads, acc) ==
    LET ends == {i \in acc.off .. Len(data) : data[i].part = "head"}
        h == CHOOSE i \in ends : \A j \in ends : i <= j
        idx == Len(acc.msgs) + 1
        read == Payload(d, data, h + 1, data[h].msg, idx <= Len(heads) /\ heads[idx])
    IN  IF ~acc.ok \/ ends = {} THEN acc
        ELSE IF read.at = 0 THEN [acc EXCEPT !.ok = FALSE]
        ELSE [ok |-> TRUE, off |-> read.at,
              msgs |-> Append(acc.msgs, [msg |-> data[h].msg, clean |-> h = acc.off, body |-> read.body])]

\* There are no more messages than tokens.
Parse(d, data, heads) ==
    LET read[n \in 0 .. Len(data)] ==
            IF n = 0 THEN [ok |-> TRUE, off |-> 1, msgs |-> <<>>] ELSE ParseOne(d, data, heads, read[n - 1])
    IN  read[Len(data)]

MethodOf(m) == IF m.clean THEN talk[m.msg].method ELSE "junk"

Cut(body) == SubSeq(body, 1, IF Len(body) < MaxBody THEN Len(body) ELSE MaxBody)

\* body_repr() keeps a body as text, or else in base 64, where it has no "text"
\* and replay() takes the empty one.
Binary(d, m) ==
    LET cut == Cut(m.body)
    IN  (\E i \in DOMAIN cut : d \in talk[cut[i].msg].nul) /\ d \notin talk[m.msg].text

Text(d, m) == IF Binary(d, m) THEN <<>> ELSE Cut(m.body)

Row(req, resp) ==
    [method |-> MethodOf(req), req |-> req, resp |-> resp,
     sends |-> Text("requests", req), expects |-> Text("responses", resp)]

Requests == Parse("requests", Reassemble(parts["requests"]), <<>>).msgs

Responses ==
    Parse("responses", Reassemble(parts["responses"]),
          [i \in DOMAIN Requests |-> MethodOf(Requests[i]) = "HEAD"])

ExchangesFromPcap ==
    LET resps == Responses.msgs
    IN  [i \in DOMAIN Requests |-> Row(Requests[i], IF i <= Len(resps) THEN resps[i] ELSE None)]

-----------------------------------------------------------------------------
HttpInit ==
    /\ talk \in Talks
    /\ isn \in [Directions -> Isns]
    /\ via \in {"proxy", "tcpdump"}
    /\ said = 0
    /\ parts = [d \in Directions |-> <<>>]
    /\ serving = [k \in DOMAIN talk |-> "waiting"]
    /\ rows = <<>> /\ phase = "recording" /\ left = <<>> /\ results = <<>>

-----------------------------------------------------------------------------
(* Passive capture.                                                        *)

(* The client writes a request when it has the response to the last one,   *)
(* the service answers it.                                                 *)
Speak ==
    /\ phase = "recording" /\ via = "tcpdump"
    /\ said < 2 * Len(talk)
    /\ said' = said + 1
    /\ UNCHANGED <<talk, isn, parts, via, serving, rows, phase, left, results>>

(* A segment of what has been written is captured: the first time it is    *)
(* sent, or again, cut as TCP then cuts it.  Of two payloads with one      *)
(* sequence number the first is kept (`setdefault`).                       *)
Keep(segs, seq, payload) ==
    IF seq \in DOMAIN segs THEN segs
    ELSE [s \in DOMAIN segs \union {seq} |-> IF s = seq THEN payload ELSE segs[s]]

Capture(d, from, n) ==
    /\ phase = "recording" /\ via = "tcpdump"
    /\ from + n <= Len(Stream(d))
    /\ parts' = [parts EXCEPT ![d] =
           Keep(@, (isn[d] + from) % Modulus, SubSeq(Stream(d), from + 1, from + n))]
    /\ UNCHANGED <<talk, isn, said, via, serving, rows, phase, left, results>>

(* tcpdump ends, the file is read, the container removed.                  *)
EndCapture ==
    /\ phase = "recording" /\ via = "tcpdump"
    /\ IF DOMAIN parts["requests"] # {} /\ ~Responses.ok
       THEN phase' = "failed" /\ rows' = rows
       ELSE phase' = "written" /\ rows' = ExchangesFromPcap
    /\ UNCHANGED <<talk, isn, said, parts, via, serving, left, results>>

-----------------------------------------------------------------------------
(* The recording proxy: a thread for every connection.                     *)

ProxyMove(k, from, to) ==
    /\ via = "proxy" /\ serving[k] = from
    /\ serving' = [serving EXCEPT ![k] = to]
    /\ UNCHANGED <<talk, isn, said, parts, via, phase, left, results>>

\* The server accepts while it runs; the thread asks the container, which
\* answers, or cannot be reached (502), or breaks off in the answer.
Accept(k) == phase = "recording" /\ ProxyMove(k, "waiting", "asking") /\ UNCHANGED rows

Forward(k) ==
    /\ UNCHANGED rows
    /\ \/ ProxyMove(k, "asking", "answered")
       \/ ProxyMove(k, "asking", "unreachable")
       \/ ProxyMove(k, "asking", "gone")

\* The response is written before the exchange is appended; a client that
\* has left takes its exchange with it.
Reply(k) ==
    /\ UNCHANGED rows
    /\ \/ ProxyMove(k, "answered", "replied")
       \/ ProxyMove(k, "unreachable", "replied502")
       \/ \E from \in {"answered", "unreachable"} : ProxyMove(k, from, "gone")

Whole(d, k) == [msg |-> k, clean |-> TRUE, body |-> Body(d, k)]
BadGateway == [msg |-> 0, clean |-> TRUE, body |-> <<>>]

AppendRow(k) ==
    /\ serving[k] \in {"replied", "replied502"}
    /\ ProxyMove(k, serving[k], "recorded")
    /\ rows' = IF phase # "recording" THEN rows   \* the list was returned: nothing reads it
               ELSE Append(rows, Row(Whole("requests", k),
                        IF serving[k] = "replied" THEN Whole("responses", k) ELSE BadGateway))

(* The time is up: the server stops, no thread is waited for.              *)
EndProxy ==
    /\ phase = "recording" /\ via = "proxy"
    /\ phase' = "written"
    /\ UNCHANGED <<talk, isn, said, parts, via, serving, rows, left, results>>

-----------------------------------------------------------------------------
(* http replay.                                                            *)

Replayed(allMethods) ==
    SelectSeq(rows, LAMBDA r : allMethods \/ r.method \in {"GET", "HEAD"})

Replay(allMethods) ==
    /\ phase = "written"
    /\ phase' = "replaying"
    /\ left' = Replayed(allMethods)
    /\ UNCHANGED <<talk, isn, said, parts, via, serving, rows, results>>

\* Variant of SameBody: only as much of the answer as was kept is compared,
\* and an empty recording agrees with anything.
SameStart(row, answer) ==
    row.method = "HEAD" \/ \A i \in DOMAIN row.expects : i <= Len(answer.body)

(* What is compared is the text that was kept, which is empty for a body   *)
(* kept in base 64, with the whole answer read as text.                    *)
SameBody(row, answer) == row.method = "HEAD" \/ row.expects = answer.body

SameStatus(row, answer) == answer.status = (IF row.resp = None THEN "none" ELSE "recorded")

\* The target answers what it is sent as the recorded service did, differently,
\* with nothing, or not at all.
Answers(row) ==
    [status : {"recorded", "other"}, body : {row.resp.body, Units(0, "body", 1), <<>>}]
        \union {[status |-> "none", body |-> Units(0, "error", 1)]}

SendNext ==
    /\ phase = "replaying" /\ left # <<>>
    /\ \E answer \in Answers(Head(left)) :
           results' = Append(results,
               [row |-> Head(left), answer |-> answer,
                match |-> SameStatus(Head(left), answer) /\ SameBody(Head(left), answer)])
    /\ left' = Tail(left)
    /\ UNCHANGED <<talk, isn, said, parts, via, serving, rows, phase>>

-----------------------------------------------------------------------------
HttpNext ==
    \/ Speak
    \/ \E d \in Directions, n \in 1 .. MaxSegment :
           \E from \in 0 .. Len(Stream(d)) : Capture(d, from, n)
    \/ EndCapture
    \/ \E k \in DOMAIN talk : Accept(k) \/ Forward(k) \/ Reply(k) \/ AppendRow(k)
    \/ EndProxy
    \/ \E allMethods \in BOOLEAN : Replay(allMethods)
    \/ SendNext

HttpSpec == HttpInit /\ [][HttpNext]_httpVars

-----------------------------------------------------------------------------
(* The tokens of the stream that the kept segments hold between them.      *)
Held(d) ==
    UNION {((s - isn[d]) % Modulus) + 1 .. ((s - isn[d]) % Modulus) + Len(parts[d][s]) :
           s \in DOMAIN parts[d]}

Contiguous(d) == Held(d) = 1 .. Cardinality(Held(d))

Wraps(d) == isn[d] + Len(Stream(d)) > Modulus

ChunkedHead(k) == talk[k].method = "HEAD" /\ talk[k].chunked

(* A passive recording joins every request with its own response: if each  *)
(* direction was captured without a hole from its start, as far as that    *)
(* may be, its sequence numbers do not wrap and no answer to HEAD says it  *)
(* is chunked, the recording succeeds, its n-th row is the n-th request,   *)
(* and what it says of the response is what the service answered to it.    *)
PairsAreReal ==
    /\ via = "tcpdump" /\ phase # "recording"
    /\ \A d \in Directions : Contiguous(d) /\ ~Wraps(d)
    /\ \A k \in DOMAIN talk : ~ChunkedHead(k)
    => /\ phase # "failed"
       /\ \A i \in DOMAIN rows :
              /\ rows[i].req.msg = i /\ rows[i].req.clean
              /\ IsPrefix(rows[i].req.body, Body("requests", i))
              /\ rows[i].resp # None =>
                     /\ rows[i].resp.msg = i /\ rows[i].resp.clean
                     /\ IsPrefix(rows[i].resp.body, Body("responses", i))

(* A replay says that a row matches exactly when the target answered as    *)
(* the recorded service did - for the rows that have an answer and whose   *)
(* answer was kept whole and as text.  One that --max-body cut is compared *)
(* with the whole of the new one, and of one kept in base 64 nothing is    *)
(* compared: it agrees with an empty answer, and not with its own like.    *)
ReplayIsFair ==
    \A i \in DOMAIN results :
        LET r == results[i]
            keptAsText == r.row.expects = r.row.resp.body
        IN
        r.row.resp # None /\ keptAsText =>
            (r.match <=> /\ r.answer.status = "recorded"
                         /\ r.row.method # "HEAD" => r.answer.body = r.row.resp.body)
=============================================================================
