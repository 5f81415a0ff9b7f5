---------------------------- MODULE InvokeProofs ----------------------------
(***************************************************************************)
(* Proofs about Invoke, for every set of clients, operations, hosts and    *)
(* requests, every policy and any number of failures: the pipeline does    *)
(* what Guardrail promises, and the portal's overview is never older than  *)
(* the last change it acknowledged.  What a policy forbids is left open.   *)
(***************************************************************************)
EXTENDS Invoke, SequenceTheorems, TLAPS

Place == {"banned", "enter", "hook", "call", "sub", "gather", "end", "out"}
Exception == {"none", "denied", "docker", "value", "os", "type"}
Word == {"none"} \cup UNION {{r.cmd : r \in Request[c]} : c \in Client}
Aim == {<< >>} \cup UNION {{r.to : r \in Request[c]} : c \in Client}

FrameSet == [op : Op, cmd : Word, to : Aim, dry : BOOLEAN, yes : BOOLEAN,
             at : Place, i : Nat, bad : BOOLEAN, exc : Exception]

\* An invocation that may change something.
Loud(f) == f.at # "banned" /\ Tier[f.op] # "read" /\ ~Preview(f)

Bars(k, c, r, o, e) == Denied(Inventory, k.rules, PolicyCall(c, r, o, e))

\* An invocation f of client c on endpoint e, when the request r is under way in
\* configuration k with p permitted and n noted.
FrameOK(k, r, p, n, c, e, f) ==
  /\ f.at \in {"enter", "hook", "call", "sub", "gather"} => f.exc = "none"
  /\ f.at \in {"enter", "hook"} \/ (f.at \in {"call", "gather"} /\ f.op \in Fan) => ~f.bad
  /\ f.at = "hook" => Loud(f)
  /\ f.at = "sub" => f.op \in DOMAIN Calls
  /\ f.at = "gather" => f.op \in Fan
  /\ e # Local => f.op \notin Fan /\ f.at # "banned"
  /\ Loud(f) =>
       /\ Bars(k, c, r, f.op, e) \/ <<f.op, e>> \in p
       /\ f.at \in {"hook", "call", "sub", "gather"} => ~Bars(k, c, r, f.op, e)
       /\ f.at \in {"call", "sub", "gather"} => <<f.op, e>> \in n

\* An invocation that waits for another has it on top.
StackOK(s) ==
  /\ Len(s) <= 2
  /\ Len(s) = 2 => /\ s[2].at = "sub"
                   /\ s[1].op \notin Fan \cup DOMAIN Calls /\ s[1].at # "banned"
  /\ Len(s) = 1 => s[1].at # "sub"

Bottom(s) == s[Len(s)]

\* f will record change x of endpoint e, or tell that something went wrong.
Carries(f, x, e) ==
  \/ Loud(f) /\ x = <<f.op, e>> /\ f.at \in {"call", "sub", "gather", "end"}
  \/ f.exc # "none"
  \/ f.bad /\ f.op \in Fan \cup DOMAIN Calls

Held(c, e) == stack[<<c, e>>]

Change == Op \X Endpoint

Typed ==
  /\ conf \in Conf
  /\ request \in [Client -> UNION {Request[c] : c \in Client}]
  /\ \A c \in Client : request[c] \in Request[c]
  /\ stack \in [Thread -> Seq(FrameSet)]
  /\ view \in [Client -> {"none", "wait", "read", "store"}]
  /\ open \subseteq Client
  /\ permit \in [Client -> SUBSET Change] /\ noted \in [Client -> SUBSET Change]
  /\ changed \in [Client -> SUBSET Change] /\ recorded \in [Client -> SUBSET Change]

ThreadOK(c, e) ==
  /\ StackOK(Held(c, e))
  /\ \A i \in 1..Len(Held(c, e)) :
       FrameOK(conf, request[c], permit[c], noted[c], c, e, Held(c, e)[i])

\* A client under way has a request or asks for an overview.
Busy(c) ==
  /\ view[c] # "none" => c \in open /\ changed[c] = {} /\ Held(c, Local) = << >>
  /\ Held(c, Local) # << >> => c \in open /\ permit[c] = Permit(c, request[c])

\* The invocation of the client's own thread is that of the request; when it may
\* change nothing, nothing was changed.
Lead(c) ==
  Held(c, Local) # << >> =>
    LET f == Bottom(Held(c, Local))
        r == request[c]
    IN /\ f.op = r.op /\ f.cmd = r.cmd /\ f.dry = r.dry
       /\ f.yes <=> (r.yes /\ Front[c] # "portal")
       /\ f.at # "banned" => Offered(c, r.op)
       /\ ~Loud(f) => /\ noted[c] = {} /\ changed[c] = {}
                      /\ \A e \in Endpoint : \A i \in 1..Len(Held(c, e)) : ~Loud(Held(c, e)[i])

\* Workers are there while the client's own thread waits for them, and run what
\* the request names.
Helpers(c) ==
  \A e \in Endpoint \ {Local} :
    Held(c, e) # << >> =>
      /\ Held(c, Local) # << >> /\ Held(c, Local)[1].at = "gather"
      /\ Bottom(Held(c, e)).op = request[c].cmd
      /\ Tier[request[c].cmd] = Tier[request[c].op]

\* Every change is recorded, or will be, or its loss will be told.
Debts(c) ==
  c \in open =>
    \A x \in changed[c] :
      \/ x \in recorded[c]
      \/ \E e \in Endpoint : \E i \in 1..Len(Held(c, e)) : Carries(Held(c, e)[i], x, e)

ClientOK(c) == Busy(c) /\ Lead(c) /\ Helpers(c) /\ Debts(c)

\* The inductive invariant.
IInv ==
  /\ Typed
  /\ \A c \in Client : ClientOK(c)
  /\ \A c \in Client, e \in Endpoint : ThreadOK(c, e)

----------------------------------------------------------------------------
(* Stacks.                                                                 *)

\* The innermost invocation is replaced, another is put on top of it, or it is
\* over and the one below goes on.
LEMMA ReplaceFacts ==
  ASSUME NEW F, NEW s \in Seq(F), s # << >>, NEW g \in F
  PROVE  LET u == <<g>> \o Tail(s)
         IN /\ u \in Seq(F) /\ Len(u) = Len(s) /\ u # << >> /\ Len(s) \in Nat \ {0}
            /\ u[1] = g /\ \A i \in 2..Len(s) : u[i] = s[i]
  OBVIOUS

LEMMA HeadFacts ==
  ASSUME NEW F, NEW s \in Seq(F), s # << >>
  PROVE  Head(s) = s[1] /\ s[1] \in F /\ Len(s) \in Nat \ {0}
  OBVIOUS

LEMMA TailOfOne ==
  ASSUME NEW F, NEW s \in Seq(F), Len(s) = 1
  PROVE  Tail(s) = << >>
  <1>1. s # << >>
    BY EmptySeq
  <1>2. Tail(s) \in Seq(F) /\ Len(Tail(s)) = 0
    BY <1>1, HeadTailProperties
  <1>3. QED
    BY <1>2, EmptySeq

LEMMA PushFacts ==
  ASSUME NEW F, NEW s \in Seq(F), Len(s) = 1, NEW f \in F, NEW g \in F
  PROVE  <<g, f>> \o Tail(s) = <<g, f>>
  <1>1. <<g, f>> \in Seq(F)
    OBVIOUS
  <1>2. QED
    BY <1>1, TailOfOne, ConcatEmptySeq

LEMMA PopFacts ==
  ASSUME NEW F, NEW s \in Seq(F), Len(s) = 2, NEW g \in F
  PROVE  <<g>> \o Tail(Tail(s)) = <<g>>
  <1>1. s # << >>
    BY EmptySeq
  <1>2. Tail(s) \in Seq(F) /\ Len(Tail(s)) = 1
    BY <1>1, HeadTailProperties
  <1>3. Tail(Tail(s)) = << >>
    BY <1>2, TailOfOne
  <1>4. <<g>> \in Seq(F)
    OBVIOUS
  <1>5. QED
    BY <1>3, <1>4, ConcatEmptySeq

----------------------------------------------------------------------------
(* What a step leaves alone.                                               *)

LEMMA LocalIsEndpoint == Local \in Endpoint /\ Thread = Client \X Endpoint
  BY DEF Endpoint, Thread

LEMMA FrameMore ==
  ASSUME NEW k, NEW r, NEW p, NEW n, NEW m, NEW c, NEW e, NEW f,
         FrameOK(k, r, p, n, c, e, f), n \subseteq m
  PROVE  FrameOK(k, r, p, m, c, e, f)
  BY DEF FrameOK

LEMMA ThreadStays ==
  ASSUME NEW c \in Client, NEW e \in Endpoint, ThreadOK(c, e),
         conf' = conf, request'[c] = request[c], permit'[c] = permit[c],
         noted[c] \subseteq noted'[c], Held(c, e)' = Held(c, e)
  PROVE  ThreadOK(c, e)'
  <1>1. StackOK(Held(c, e)')
    BY DEF ThreadOK
  <1>2. ASSUME NEW i \in 1..Len(Held(c, e)')
        PROVE  FrameOK(conf', request'[c], permit'[c], noted'[c], c, e, Held(c, e)'[i])
    BY <1>2, FrameMore DEF ThreadOK
  <1>3. QED
    BY <1>1, <1>2 DEF ThreadOK

LEMMA AloneOK ==
  ASSUME NEW c, NEW e, NEW g, Held(c, e)' = <<g>>, g.at # "sub",
         FrameOK(conf', request'[c], permit'[c], noted'[c], c, e, g)
  PROVE  ThreadOK(c, e)'
  <1>1. /\ Len(<<g>>) = 1 /\ <<g>>[1] = g
        /\ \A i \in 1..Len(<<g>>) : i = 1
    OBVIOUS
  <1>2. QED
    BY <1>1 DEF ThreadOK, StackOK

LEMMA PermitStays ==
  ASSUME NEW c \in Client, conf' = conf, request'[c] = request[c]
  PROVE  Permit(c, request[c])' = Permit(c, request[c])
  BY DEF Permit, Offered, Forbidden

LEMMA ClientStays ==
  ASSUME NEW c \in Client, ClientOK(c),
         conf' = conf, request'[c] = request[c], permit'[c] = permit[c], noted'[c] = noted[c],
         changed'[c] = changed[c], recorded'[c] = recorded[c],
         view'[c] = view[c], (c \in open)' <=> c \in open,
         \A e \in Endpoint : Held(c, e)' = Held(c, e)
  PROVE  ClientOK(c)'
  <1>1. Held(c, Local)' = Held(c, Local)
    BY LocalIsEndpoint
  <1>2. Busy(c)'
    BY <1>1, PermitStays DEF ClientOK, Busy
  <1>3. Lead(c)'
    BY <1>1 DEF ClientOK, Lead, Offered
  <1>4. Helpers(c)'
    BY <1>1 DEF ClientOK, Helpers
  <1>5. Debts(c)'
    BY DEF ClientOK, Debts
  <1>6. QED
    BY <1>2, <1>3, <1>4, <1>5 DEF ClientOK

\* An invocation goes on within a thread: what must be so for the invariant to
\* stay.
LEMMA NowStep ==
  ASSUME IInv, NEW c \in Client, NEW e \in Endpoint, Held(c, e) # << >>,
         NEW f, f = Held(c, e)[1], NEW g \in FrameSet,
         g.op = f.op, g.cmd = f.cmd, g.dry = f.dry, g.yes = f.yes,
         f.at \in {"enter", "hook", "call", "end"}, g.at \in {"hook", "call", "end", "out"},
         g.at \in {"hook", "call"} => g.exc = "none",
         g.at = "call" /\ f.op \in Fan => ~g.bad,
         g.at = "hook" => ~g.bad /\ Loud(g),
         Loud(g) /\ g.at \in {"hook", "call"} => ~Bars(conf, c, request[c], f.op, e),
         Loud(g) /\ g.at = "call" => <<f.op, e>> \in noted'[c],
         Now(<<c, e>>, g),
         conf' = conf, request' = request, view' = view, open' = open, permit' = permit,
         {noted', changed', recorded'} \subseteq [Client -> SUBSET Change],
         \A d \in Client \ {c} : noted'[d] = noted[d] /\ changed'[d] = changed[d] /\ recorded'[d] = recorded[d],
         noted[c] \subseteq noted'[c], recorded[c] \subseteq recorded'[c],
         Loud(f) \/ (noted'[c] = noted[c] /\ changed'[c] = changed[c]),
         \A x \in changed'[c] : x \notin changed[c] \/ Carries(f, x, e) =>
                                x \in recorded'[c] \/ Carries(g, x, e)
  PROVE  IInv'
  <1> DEFINE s == Held(c, e)
             u == <<g>> \o Tail(s)
  <1>1. s \in Seq(FrameSet) /\ f \in FrameSet /\ <<f.op, e>> \in Change /\ stack \in [Thread -> Seq(FrameSet)]
        /\ <<c, e>> \in Thread
    BY HeadFacts, LocalIsEndpoint DEF IInv, Typed, Held, FrameSet, Change
  <1>2. /\ u \in Seq(FrameSet) /\ Len(u) = Len(s) /\ u # << >> /\ Len(s) \in Nat \ {0}
        /\ u[1] = g /\ \A i \in 2..Len(s) : u[i] = s[i]
    BY <1>1, ReplaceFacts
  <1> HIDE DEF u
  <1>3. stack' = [stack EXCEPT ![<<c, e>>] = u]
    BY DEF Now, Held, u
  <1>4. Held(c, e)' = u
    BY <1>1, <1>3 DEF Held
  <1>5. \A d \in Client, h \in Endpoint : d # c \/ h # e => Held(d, h)' = Held(d, h)
    BY <1>1, <1>3, LocalIsEndpoint DEF Held
  <1>6. Loud(g) <=> Loud(f)
    BY DEF Loud, Preview
  <1>7. Typed'
    <2>1. stack' \in [Thread -> Seq(FrameSet)]
      BY <1>1, <1>2, <1>3
    <2>2. QED
      BY <2>1 DEF IInv, Typed
  <1>9. FrameOK(conf, request[c], permit[c], noted[c], c, e, f) /\ StackOK(s)
    BY <1>2 DEF IInv, ThreadOK
  <1>10. FrameOK(conf, request[c], permit[c], noted'[c], c, e, g)
    BY <1>6, <1>9 DEF FrameOK
  <1>11. ThreadOK(c, e)'
    <2>1. StackOK(u)
      <3>1. CASE Len(s) = 1
        BY <1>2, <1>9, <3>1 DEF StackOK
      <3>2. CASE Len(s) = 2
        BY <1>2, <1>9, <3>2 DEF StackOK
      <3>3. QED
        BY <1>2, <1>9, <3>1, <3>2 DEF StackOK
    <2>2. ASSUME NEW i \in 1..Len(u) PROVE FrameOK(conf, request[c], permit[c], noted'[c], c, e, u[i])
      <3>1. CASE i = 1
        BY <1>2, <1>10, <3>1
      <3>2. CASE i # 1
        <4>1. i \in 2..Len(s) /\ u[i] = s[i] /\ i \in 1..Len(s)
          BY <1>2, <3>2
        <4>2. FrameOK(conf, request[c], permit[c], noted[c], c, e, s[i])
          BY <4>1 DEF IInv, ThreadOK
        <4>3. QED
          BY <4>1, <4>2, FrameMore
      <3>3. QED
        BY <3>1, <3>2
    <2>3. QED
      BY <1>4, <2>1, <2>2 DEF ThreadOK
  <1>12. ASSUME NEW d \in Client, NEW h \in Endpoint, d # c \/ h # e PROVE ThreadOK(d, h)'
    BY <1>5, <1>12, ThreadStays DEF IInv
  <1>13. ASSUME NEW d \in Client, d # c PROVE ClientOK(d)'
    BY <1>5, <1>13, ClientStays DEF IInv
  <1>14. Bottom(u).op = Bottom(s).op /\ Bottom(u).cmd = Bottom(s).cmd /\ Bottom(u).dry = Bottom(s).dry
         /\ Bottom(u).yes = Bottom(s).yes /\ (Loud(Bottom(u)) <=> Loud(Bottom(s)))
         /\ (Bottom(u).at = "banned" <=> Bottom(s).at = "banned")
    <2>1. CASE Len(s) = 1
      BY <1>2, <1>6, <2>1 DEF Bottom
    <2>2. CASE Len(s) # 1
      BY <1>2, <2>2 DEF Bottom
    <2>3. QED
      BY <2>1, <2>2
  <1>15. Held(c, Local) # << >> <=> Held(c, Local)' # << >>
    BY <1>2, <1>4, <1>5, LocalIsEndpoint
  <1>16. Held(c, Local) # << >>
    BY LocalIsEndpoint DEF IInv, ClientOK, Helpers
  <1>17. Busy(c)'
    BY <1>15, <1>16, PermitStays DEF IInv, ClientOK, Busy
  <1>18. \A h \in Endpoint : /\ Len(Held(c, h)') = Len(Held(c, h))
                             /\ \A i \in 1..Len(Held(c, h)) : Loud(Held(c, h)'[i]) <=> Loud(Held(c, h)[i])
    BY <1>2, <1>4, <1>5, <1>6
  <1>19. Lead(c)'
    <2> DEFINE b == Bottom(Held(c, Local))
               b2 == Bottom(Held(c, Local)')
    <2>1. b2.op = b.op /\ b2.cmd = b.cmd /\ b2.dry = b.dry /\ b2.yes = b.yes /\ (Loud(b2) <=> Loud(b))
          /\ (b2.at = "banned" <=> b.at = "banned")
      BY <1>4, <1>5, <1>14, LocalIsEndpoint
    <2> HIDE DEF b, b2
    <2>2. b.op = request[c].op /\ b.cmd = request[c].cmd /\ b.dry = request[c].dry
          /\ (b.yes <=> (request[c].yes /\ Front[c] # "portal")) /\ (b.at # "banned" => Offered(c, request[c].op))
      BY <1>16 DEF IInv, ClientOK, Lead, b
    <2>3. ASSUME ~Loud(b)
          PROVE  /\ noted[c] = {} /\ changed[c] = {}
                 /\ \A h \in Endpoint : \A i \in 1..Len(Held(c, h)) : ~Loud(Held(c, h)[i])
      BY <1>16, <2>3 DEF IInv, ClientOK, Lead, b
    <2>4. ASSUME ~Loud(b) PROVE noted'[c] = noted[c] /\ changed'[c] = changed[c]
      BY <1>2, <2>3, <2>4
    <2>5. ASSUME ~Loud(b2)
          PROVE  /\ noted'[c] = {} /\ changed'[c] = {}
                 /\ \A h \in Endpoint : \A i \in 1..Len(Held(c, h)') : ~Loud(Held(c, h)'[i])
      BY <1>18, <2>1, <2>3, <2>4, <2>5
    <2>6. QED
      BY <2>1, <2>2, <2>5 DEF Lead, Offered, b2
  <1>20. Helpers(c)'
    <2> SUFFICES ASSUME NEW h \in Endpoint \ {Local}, Held(c, h)' # << >>
                 PROVE  /\ Held(c, Local)' # << >> /\ Held(c, Local)'[1].at = "gather"
                        /\ Bottom(Held(c, h)').op = request[c].cmd
                        /\ Tier[request[c].cmd] = Tier[request[c].op]
      BY DEF Helpers
    <2>1. Held(c, h) # << >>
      BY <1>4, <1>5
    <2>2. /\ Held(c, Local)[1].at = "gather"
          /\ Bottom(Held(c, h)).op = request[c].cmd
          /\ Tier[request[c].cmd] = Tier[request[c].op]
      BY <2>1 DEF IInv, ClientOK, Helpers
    <2>3. e # Local
      BY <2>2
    <2>4. QED
      BY <1>4, <1>5, <1>14, <1>15, <1>16, <2>2, <2>3, LocalIsEndpoint
  <1>21. Debts(c)'
    <2> SUFFICES ASSUME c \in open, NEW x \in changed'[c], x \notin recorded'[c]
                 PROVE  \E h \in Endpoint : \E i \in 1..Len(Held(c, h)') : Carries(Held(c, h)'[i], x, h)
      BY DEF Debts
    <2>1. CASE x \notin changed[c] \/ Carries(f, x, e)
      <3>1. Carries(u[1], x, e) /\ 1 \in 1..Len(u)
        BY <1>2, <2>1
      <3>2. QED
        BY <1>4, <3>1
    <2>2. CASE x \in changed[c] /\ ~Carries(f, x, e)
      <3>1. x \in changed[c] /\ x \notin recorded[c]
        BY <2>2
      <3>2. PICK h \in Endpoint : \E i \in 1..Len(Held(c, h)) : Carries(Held(c, h)[i], x, h)
        BY <3>1 DEF IInv, ClientOK, Debts
      <3>3. PICK i \in 1..Len(Held(c, h)) : Carries(Held(c, h)[i], x, h)
        BY <3>2
      <3>4. i \in 1..Len(Held(c, h)') /\ Held(c, h)'[i] = Held(c, h)[i]
        <4>1. CASE h # e
          BY <1>5, <4>1
        <4>2. CASE h = e
          BY <1>2, <1>4, <2>2, <3>3, <4>2
        <4>3. QED
          BY <4>1, <4>2
      <3>5. QED
        BY <3>3, <3>4
    <2>3. QED
      BY <2>1, <2>2
  <1>22. QED
    BY <1>7, <1>11, <1>12, <1>13, <1>17, <1>19, <1>20, <1>21 DEF IInv, ClientOK

\* The same, of a step that notes, changes and records nothing.
LEMMA QuietStep ==
  ASSUME IInv, NEW c \in Client, NEW e \in Endpoint, Held(c, e) # << >>,
         NEW f, f = Held(c, e)[1], NEW g \in FrameSet,
         g.op = f.op, g.cmd = f.cmd, g.dry = f.dry, g.yes = f.yes,
         f.at \in {"enter", "hook", "call", "end"}, g.at \in {"hook", "call", "end", "out"},
         g.at \in {"hook", "call"} => g.exc = "none",
         g.at = "call" /\ f.op \in Fan => ~g.bad,
         g.at = "hook" => ~g.bad /\ Loud(g),
         Loud(g) /\ g.at \in {"hook", "call"} => ~Bars(conf, c, request[c], f.op, e),
         Loud(g) /\ g.at = "call" => <<f.op, e>> \in noted[c],
         Now(<<c, e>>, g),
         UNCHANGED <<conf, request, view, open, permit, noted, changed, recorded>>,
         \A x \in changed[c] : Carries(f, x, e) => Carries(g, x, e)
  PROVE  IInv'
  BY NowStep DEF IInv, Typed

\* The invocation a thread is at.
LEMMA TopFacts ==
  ASSUME IInv, NEW c \in Client, NEW e \in Endpoint, NEW place, At(<<c, e>>, place)
  PROVE  LET f == Held(c, e)[1]
         IN /\ Held(c, e) # << >> /\ f = Head(stack[<<c, e>>]) /\ f.at = place /\ f \in FrameSet
            /\ Held(c, e) \in Seq(FrameSet) /\ Len(Held(c, e)) \in {1, 2}
            /\ FrameOK(conf, request[c], permit[c], noted[c], c, e, f)
  <1>1. Held(c, e) \in Seq(FrameSet) /\ Held(c, e) # << >> /\ Head(stack[<<c, e>>]).at = place
    BY LocalIsEndpoint DEF IInv, Typed, Held, At
  <1>2. Held(c, e)[1] = Head(Held(c, e)) /\ Held(c, e)[1] \in FrameSet /\ Len(Held(c, e)) \in Nat \ {0}
    BY <1>1, HeadFacts
  <1>3. ThreadOK(c, e) /\ 1 \in 1..Len(Held(c, e))
    BY <1>2 DEF IInv
  <1>4. FrameOK(conf, request[c], permit[c], noted[c], c, e, Held(c, e)[1])
    BY <1>3 DEF ThreadOK
  <1>5. Len(Held(c, e)) \in {1, 2}
    <2>1. Len(Held(c, e)) <= 2
      BY <1>3 DEF ThreadOK, StackOK
    <2>2. QED
      BY <1>2, <2>1
  <1>6. QED
    BY <1>1, <1>2, <1>4, <1>5 DEF Held

LEMMA EnterInv ==
  ASSUME IInv, NEW c \in Client, NEW e \in Endpoint, Enter(<<c, e>>)
  PROVE  IInv'
  <1> DEFINE f == Held(c, e)[1]
  <1>1. /\ Held(c, e) # << >> /\ f = Head(stack[<<c, e>>]) /\ f.at = "enter" /\ f \in FrameSet
        /\ FrameOK(conf, request[c], permit[c], noted[c], c, e, f)
    BY TopFacts DEF Enter
  <1>2. f.exc = "none" /\ ~f.bad /\ \A x : ~Carries(f, x, e)
    BY <1>1 DEF FrameOK, Carries
  <1>3. UNCHANGED <<conf, request, view, open, permit, noted, changed, recorded>>
    BY DEF Enter, portal, history
  <1> HIDE DEF f
  <1>4. CASE ~Preview(f) /\ Forbidden(c, request[c], f.op, e)
    <2> DEFINE g == [f EXCEPT !.at = "end", !.exc = "denied"]
    <2>1. Now(<<c, e>>, g)
      BY <1>1, <1>4 DEF Enter
    <2>2. g \in FrameSet /\ g.at = "end" /\ g.op = f.op /\ g.cmd = f.cmd /\ g.dry = f.dry /\ g.yes = f.yes
      BY <1>1 DEF FrameSet, Place, Exception
    <2> HIDE DEF g
    <2>3. QED
      BY <1>1, <1>2, <1>3, <2>1, <2>2, QuietStep DEF f
  <1>5. CASE ~(~Preview(f) /\ Forbidden(c, request[c], f.op, e))
    <2> DEFINE g == [f EXCEPT !.at = IF Preview(f) \/ Tier[f.op] = "read" THEN "call" ELSE "hook",
                              !.exc = "none"]
    <2>1. Now(<<c, e>>, g)
      BY <1>1, <1>5 DEF Enter
    <2>2. /\ g \in FrameSet /\ g.op = f.op /\ g.cmd = f.cmd /\ g.dry = f.dry /\ g.yes = f.yes
          /\ g.exc = "none" /\ g.bad = f.bad
          /\ g.at = IF Preview(f) \/ Tier[f.op] = "read" THEN "call" ELSE "hook"
      BY <1>1 DEF FrameSet, Place, Exception
    <2> HIDE DEF g
    <2>3. Preview(g) <=> Preview(f)
      BY <2>2 DEF Preview
    <2>4. /\ g.at = "call" => ~Loud(g)
          /\ g.at = "hook" => Loud(g) /\ ~Bars(conf, c, request[c], f.op, e)
      BY <1>5, <2>2, <2>3 DEF Loud, Bars, Forbidden
    <2>5. QED
      BY <1>1, <1>2, <1>3, <2>1, <2>2, <2>4, QuietStep DEF f
  <1>6. QED
    BY <1>4, <1>5

LEMMA HookInv ==
  ASSUME IInv, NEW c \in Client, NEW e \in Endpoint, Hook(<<c, e>>)
  PROVE  IInv'
  <1> DEFINE f == Held(c, e)[1]
  <1>1. /\ Held(c, e) # << >> /\ f = Head(stack[<<c, e>>]) /\ f.at = "hook" /\ f \in FrameSet
        /\ FrameOK(conf, request[c], permit[c], noted[c], c, e, f)
    BY TopFacts DEF Hook
  <1>2. f.exc = "none" /\ ~f.bad /\ Loud(f) /\ \A x : ~Carries(f, x, e)
    BY <1>1 DEF FrameOK, Carries
  <1>3. UNCHANGED <<conf, request, view, open, permit, changed, recorded>>
    BY DEF Hook, portal
  <1>8. changed' \in [Client -> SUBSET Change] /\ recorded' \in [Client -> SUBSET Change]
    BY <1>3 DEF IInv, Typed
  <1>4. ~Bars(conf, c, request[c], f.op, e) /\ <<f.op, e>> \in permit[c]
    BY <1>1, <1>2 DEF FrameOK
  <1> HIDE DEF f
  <1>5. CASE /\ Now(<<c, e>>, [f EXCEPT !.at = "call"])
             /\ noted' = [noted EXCEPT ![c] = @ \cup {<<f.op, e>>}]
    <2> DEFINE g == [f EXCEPT !.at = "call"]
    <2>1. /\ g \in FrameSet /\ g.at = "call" /\ g.op = f.op /\ g.cmd = f.cmd /\ g.dry = f.dry /\ g.yes = f.yes
          /\ g.exc = "none" /\ ~g.bad
      BY <1>1, <1>2 DEF FrameSet, Place
    <2> HIDE DEF g
    <2>2. Now(<<c, e>>, g)
      BY <1>5 DEF g
    <2>3. /\ noted' \in [Client -> SUBSET Change] /\ noted'[c] = noted[c] \cup {<<f.op, e>>}
          /\ \A d \in Client \ {c} : noted'[d] = noted[d]
      <3>1. noted \in [Client -> SUBSET Change] /\ <<f.op, e>> \in Change
        BY <1>1 DEF IInv, Typed, FrameSet, Change
      <3>2. QED
        BY <1>5, <3>1
    <2>4. QED
      BY <1>1, <1>2, <1>3, <1>4, <1>8, <2>1, <2>2, <2>3, NowStep DEF f
  <1>6. ASSUME NEW x \in {"docker", "os"}, Now(<<c, e>>, [f EXCEPT !.at = "end", !.exc = x]), noted' = noted
        PROVE  IInv'
    <2> DEFINE g == [f EXCEPT !.at = "end", !.exc = x]
    <2>1. g \in FrameSet /\ g.at = "end" /\ g.op = f.op /\ g.cmd = f.cmd /\ g.dry = f.dry /\ g.yes = f.yes
      BY <1>1 DEF FrameSet, Place, Exception
    <2> HIDE DEF g
    <2>2. Now(<<c, e>>, g)
      BY <1>6 DEF g
    <2>3. QED
      BY <1>1, <1>2, <1>3, <1>6, <2>1, <2>2, QuietStep DEF f
  <1>7. QED
    BY <1>1, <1>5, <1>6 DEF Hook, f

LEMMA LookInv ==
  ASSUME IInv, NEW c \in Client, NEW e \in Endpoint, Look(<<c, e>>)
  PROVE  IInv'
  <1> DEFINE f == Held(c, e)[1]
  <1>1. Held(c, e) # << >> /\ f = Head(stack[<<c, e>>]) /\ f.at = "call" /\ f \in FrameSet
    BY TopFacts DEF Look
  <1>2. UNCHANGED <<conf, request, view, open, permit, noted, changed, recorded>>
    BY DEF Look, portal, history
  <1>3. ~Loud(f)
    BY <1>1 DEF Look, Loud
  <1> HIDE DEF f
  <1>4. PICK g : /\ Now(<<c, e>>, g)
                 /\ \/ g = [f EXCEPT !.at = "end"]
                    \/ \E x \in {"docker", "value", "os", "type"} : g = [f EXCEPT !.at = "end", !.exc = x]
    BY <1>1 DEF Look, f
  <1>5. /\ g \in FrameSet /\ g.at = "end" /\ g.op = f.op /\ g.cmd = f.cmd /\ g.dry = f.dry /\ g.yes = f.yes
        /\ g.bad = f.bad /\ (g.exc = f.exc \/ g.exc # "none")
    BY <1>1, <1>4 DEF FrameSet, Place, Exception
  <1>6. \A x : Carries(f, x, e) => Carries(g, x, e)
    BY <1>3, <1>5 DEF Carries
  <1>7. QED
    BY <1>1, <1>2, <1>4, <1>5, <1>6, QuietStep DEF f

LEMMA SendInv ==
  ASSUME IInv, NEW c \in Client, NEW e \in Endpoint, Send(<<c, e>>)
  PROVE  IInv'
  <1> DEFINE f == Held(c, e)[1]
             x == <<f.op, e>>
  <1>1. /\ Held(c, e) # << >> /\ f = Head(stack[<<c, e>>]) /\ f.at = "call" /\ f \in FrameSet
        /\ FrameOK(conf, request[c], permit[c], noted[c], c, e, f)
    BY TopFacts DEF Send
  <1>2. UNCHANGED <<conf, request, view, open, permit, noted, recorded>>
    BY DEF Send, portal
  <1>3. Loud(f) /\ f.op \notin Fan \cup DOMAIN Calls
    BY <1>1 DEF Send, Loud
  <1>4. f.exc = "none" /\ ~Bars(conf, c, request[c], f.op, e) /\ x \in noted[c] /\ x \in Change
    BY <1>1, <1>3 DEF FrameOK, FrameSet, Change
  <1>5. \A y : Carries(f, y, e) => y = x
    BY <1>3, <1>4 DEF Carries
  <1>6. noted' \in [Client -> SUBSET Change] /\ recorded' \in [Client -> SUBSET Change]
    BY <1>2 DEF IInv, Typed
  <1> HIDE DEF f
  <1>7. PICK g :
          /\ Now(<<c, e>>, g)
          /\ \/ /\ changed' = [changed EXCEPT ![c] = @ \cup {x}]
                /\ \/ g = [f EXCEPT !.at = IF f.i + 1 >= Sends[f.op] THEN "end" ELSE "call", !.i = @ + 1]
                   \/ g = [f EXCEPT !.at = "end", !.exc = "os"]
                   \/ g = [f EXCEPT !.at = "end", !.bad = TRUE]
             \/ /\ changed' = changed
                /\ \E y \in {"docker", "value", "type"} : g = [f EXCEPT !.at = "end", !.exc = y]
    BY <1>1 DEF Send, f
  <1>8. /\ g \in FrameSet /\ g.at \in {"call", "end"} /\ (g.at = "call" => g.exc = "none")
        /\ g.op = f.op /\ g.cmd = f.cmd /\ g.dry = f.dry /\ g.yes = f.yes
    <2>1. CASE g = [f EXCEPT !.at = IF f.i + 1 >= Sends[f.op] THEN "end" ELSE "call", !.i = @ + 1]
      <3>1. PICK at \in {"end", "call"}, n \in Nat : g = [f EXCEPT !.at = at, !.i = n]
        <4>1. f.i + 1 \in Nat
          BY <1>1 DEF FrameSet
        <4>2. g = [f EXCEPT !.at = IF f.i + 1 >= Sends[f.op] THEN "end" ELSE "call", !.i = f.i + 1]
          BY <2>1
        <4>3. QED
          BY <4>1, <4>2
      <3>2. QED
        BY <1>1, <1>4, <3>1 DEF FrameSet, Place, Exception
    <2>2. CASE g = [f EXCEPT !.at = "end", !.exc = "os"] \/ g = [f EXCEPT !.at = "end", !.bad = TRUE]
               \/ \E y \in {"docker", "value", "type"} : g = [f EXCEPT !.at = "end", !.exc = y]
      BY <1>1, <1>4, <2>2 DEF FrameSet, Place, Exception
    <2>3. QED
      BY <1>7, <2>1, <2>2
  <1>9. Loud(g)
    BY <1>3, <1>8 DEF Loud, Preview
  <1>10. Carries(g, x, e)
    BY <1>8, <1>9 DEF Carries
  <1>11. /\ changed' \in [Client -> SUBSET Change] /\ changed'[c] \subseteq changed[c] \cup {x}
         /\ \A d \in Client \ {c} : changed'[d] = changed[d]
    <2>1. changed \in [Client -> SUBSET Change]
      BY DEF IInv, Typed
    <2>2. QED
      BY <1>4, <1>7, <2>1
  <1>12. \A y \in changed'[c] : y \notin changed[c] \/ Carries(f, y, e) => Carries(g, y, e)
    BY <1>5, <1>10, <1>11
  <1>13. QED
    BY <1>1, <1>2, <1>3, <1>4, <1>6, <1>7, <1>8, <1>11, <1>12, NowStep DEF f

LEMMA UnreachableInv ==
  ASSUME IInv, NEW c \in Client, NEW e \in Endpoint, Unreachable(<<c, e>>)
  PROVE  IInv'
  <1> DEFINE f == Held(c, e)[1]
             g == [f EXCEPT !.at = "out", !.exc = "docker"]
  <1>1. Held(c, e) # << >> /\ f = Head(stack[<<c, e>>]) /\ f.at = "enter" /\ f \in FrameSet
    BY TopFacts DEF Unreachable
  <1>2. UNCHANGED <<conf, request, view, open, permit, noted, changed, recorded>>
    BY DEF Unreachable, portal, history
  <1>3. Now(<<c, e>>, g)
    BY <1>1 DEF Unreachable
  <1> HIDE DEF f
  <1>4. /\ g \in FrameSet /\ g.at = "out" /\ g.op = f.op /\ g.cmd = f.cmd /\ g.dry = f.dry /\ g.yes = f.yes
        /\ g.exc = "docker"
    BY <1>1 DEF FrameSet, Place, Exception
  <1> HIDE DEF g
  <1>5. \A x : Carries(g, x, e)
    BY <1>4 DEF Carries
  <1>6. QED
    BY <1>1, <1>2, <1>3, <1>4, <1>5, QuietStep DEF f

LEMMA AuditInv ==
  ASSUME IInv, NEW c \in Client, NEW e \in Endpoint, Audit(<<c, e>>)
  PROVE  IInv'
  <1> DEFINE f == Held(c, e)[1]
             x == <<f.op, e>>
             quiet == Preview(f) \/ Tier[f.op] = "read"
  <1>1. Held(c, e) # << >> /\ f = Head(stack[<<c, e>>]) /\ f.at = "end" /\ f \in FrameSet
    BY TopFacts DEF Audit
  <1>2. UNCHANGED <<conf, request, view, open, permit, noted, changed>>
    BY DEF Audit, portal
  <1>3. noted' \in [Client -> SUBSET Change] /\ changed' \in [Client -> SUBSET Change]
        /\ recorded \in [Client -> SUBSET Change] /\ x \in Change
    BY <1>1, <1>2 DEF IInv, Typed, FrameSet, Change
  <1>4. quiet <=> ~Loud(f)
    BY <1>1 DEF Loud
  <1> HIDE DEF f
  <1>5. CASE /\ Now(<<c, e>>, [f EXCEPT !.at = "out"])
             /\ recorded' = IF quiet THEN recorded ELSE [recorded EXCEPT ![c] = @ \cup {x}]
    <2> DEFINE g == [f EXCEPT !.at = "out"]
    <2>1. /\ g \in FrameSet /\ g.at = "out" /\ g.op = f.op /\ g.cmd = f.cmd /\ g.dry = f.dry /\ g.yes = f.yes
          /\ g.exc = f.exc /\ g.bad = f.bad
      BY <1>1 DEF FrameSet, Place
    <2> HIDE DEF g
    <2>2. /\ recorded' \in [Client -> SUBSET Change] /\ recorded[c] \subseteq recorded'[c]
          /\ \A d \in Client \ {c} : recorded'[d] = recorded[d]
          /\ Loud(f) => x \in recorded'[c]
      BY <1>3, <1>4, <1>5
    <2>3. \A y \in changed[c] : Carries(f, y, e) => y \in recorded'[c] \/ Carries(g, y, e)
      BY <2>1, <2>2 DEF Carries
    <2>4. Now(<<c, e>>, g)
      BY <1>5 DEF g
    <2>5. QED
      BY <1>1, <1>2, <1>3, <2>1, <2>2, <2>3, <2>4, NowStep DEF f
  <1>6. CASE Now(<<c, e>>, [f EXCEPT !.at = "out", !.exc = "os"]) /\ recorded' = recorded
    <2> DEFINE g == [f EXCEPT !.at = "out", !.exc = "os"]
    <2>1. /\ g \in FrameSet /\ g.at = "out" /\ g.op = f.op /\ g.cmd = f.cmd /\ g.dry = f.dry /\ g.yes = f.yes
          /\ g.exc = "os"
      BY <1>1 DEF FrameSet, Place, Exception
    <2> HIDE DEF g
    <2>2. Now(<<c, e>>, g) /\ \A y : Carries(g, y, e)
      BY <1>6, <2>1 DEF g, Carries
    <2>3. QED
      BY <1>1, <1>2, <1>6, <2>1, <2>2, QuietStep DEF f
  <1>7. QED
    BY <1>1, <1>5, <1>6 DEF Audit, f

LEMMA PreviewBoolean == \A f : Preview(f) \in BOOLEAN
  BY DEF Preview

\* What a part of a loud request may change, unless policy forbids that part.
LEMMA Entitled ==
  ASSUME IInv, NEW c \in Client, Held(c, Local) # << >>, Loud(Bottom(Held(c, Local))),
         ~Bars(conf, c, request[c], request[c].op, Local),
         NEW o \in Op, NEW e, Tier[o] # "read", Rank[Tier[o]] <= Rank[Tier[request[c].op]],
         \/ o \in Within(request[c].op) /\ e = Local
         \/ o \in Within(request[c].cmd) /\ e \in Inventory.hosts /\ ~Bars(conf, c, request[c], request[c].cmd, e)
  PROVE  Bars(conf, c, request[c], o, e) \/ <<o, e>> \in permit[c]
  <1> DEFINE r == request[c]
             b == Bottom(Held(c, Local))
  <1>1. /\ b.op = r.op /\ b.dry = r.dry /\ (b.yes <=> (r.yes /\ Front[c] # "portal"))
        /\ Offered(c, r.op) /\ permit[c] = Permit(c, r)
    BY DEF IInv, ClientOK, Lead, Busy, Loud
  <1>2. ~r.dry /\ (Tier[r.op] = "destroy" => r.yes /\ Front[c] # "portal")
    BY <1>1 DEF Loud, Preview
  <1>3. Tier[o] \in {"read", "mutate", "destroy"} /\ Tier[r.op] \in {"read", "mutate", "destroy"}
        /\ conf.max[Front[c]] \in {"read", "mutate", "destroy"}
    BY InvokeAssumption DEF IInv, Typed, Rank
  <1>4. Offered(c, o)
    BY <1>1, <1>3 DEF Offered, Rank
  <1>5. Tier[o] = "destroy" => Tier[r.op] = "destroy"
    BY <1>3 DEF Rank
  <1>6. \A x, y : Forbidden(c, r, x, y) <=> Bars(conf, c, r, x, y)
    BY DEF Forbidden, Bars
  <1> HIDE DEF r, b
  <1>7. SUFFICES ASSUME ~Bars(conf, c, r, o, e) PROVE <<o, e>> \in Permit(c, r)
    BY <1>1 DEF r
  <1>8. ~Forbidden(c, r, r.op, Local) /\ ~Forbidden(c, r, o, e) /\ (e # Local => ~Forbidden(c, r, r.cmd, e))
    BY <1>6, <1>7 DEF r
  <1>9. <<o, e>> \in (Within(r.op) \X {Local}) \cup (Within(r.cmd) \X Inventory.hosts)
    BY DEF r
  <1>10. QED
    BY <1>2, <1>4, <1>5, <1>8, <1>9 DEF Permit

LEMMA SpreadInv ==
  ASSUME IInv, NEW c \in Client, NEW e \in Endpoint, Spread(<<c, e>>)
  PROVE  IInv'
  <1> DEFINE f == Held(c, e)[1]
             r == request[c]
  <1>1. /\ Held(c, e) # << >> /\ f = Head(stack[<<c, e>>]) /\ f.at = "call" /\ f \in FrameSet
        /\ Held(c, e) \in Seq(FrameSet) /\ Len(Held(c, e)) \in {1, 2}
        /\ FrameOK(conf, request[c], permit[c], noted[c], c, e, f)
    BY TopFacts DEF Spread
  <1>2. UNCHANGED <<conf, request, view, open, permit, noted, changed, recorded>>
    BY DEF Spread, portal, history
  <1>3. f.op \in Fan /\ e = Local
    BY <1>1 DEF Spread, FrameOK
  <1>4. Len(Held(c, e)) = 1
    BY <1>1, <1>3 DEF IInv, ThreadOK, StackOK
  <1>5. Bottom(Held(c, Local)) = f
    BY <1>3, <1>4 DEF Bottom
  <1>6. f.exc = "none" /\ f.op = r.op /\ f.cmd = r.cmd
    BY <1>1, <1>3, <1>5 DEF FrameOK, IInv, ClientOK, Lead
  <1>8a. Held(c, Local)[1].at = "call"
    BY <1>1, <1>3
  <1>7. CASE ~Fits(f)
    <2> DEFINE g == [f EXCEPT !.at = "end", !.exc = "value"]
    <2>1. Now(<<c, e>>, g)
      BY <1>1, <1>7 DEF Spread
    <2> HIDE DEF f
    <2>2. /\ g \in FrameSet /\ g.at = "end" /\ g.op = f.op /\ g.cmd = f.cmd /\ g.dry = f.dry /\ g.yes = f.yes
          /\ g.exc = "value"
      BY <1>1 DEF FrameSet, Place, Exception
    <2> HIDE DEF g
    <2>3. \A x : Carries(g, x, e)
      BY <2>2 DEF Carries
    <2>4. QED
      BY <1>1, <1>2, <2>1, <2>2, <2>3, QuietStep DEF f
  <1>8. CASE Fits(f)
    <2> DEFINE g == [f EXCEPT !.at = "gather"]
               w == Frame(f.cmd, "none", << >>, Preview(f), ~Preview(f))
               sel == Select(Inventory, f.to)
    <2>1. stack' = [s \in Thread |-> IF s = <<c, e>> THEN <<g>> \o Tail(Held(c, e))
                                     ELSE IF s[1] = c /\ s[2] \in sel THEN <<w>> ELSE stack[s]]
      BY <1>1, <1>8 DEF Spread, Held
    <2> HIDE DEF f
    <2>2. /\ g \in FrameSet /\ g.at = "gather" /\ g.op = f.op /\ g.cmd = f.cmd /\ g.dry = f.dry /\ g.yes = f.yes
          /\ g.exc = "none" /\ g.bad = f.bad
      BY <1>1, <1>6 DEF FrameSet, Place, Exception
    <2>3. f.cmd \in Op \ Fan /\ Tier[f.cmd] = Tier[f.op]
      BY <1>8 DEF Fits
    <2>4. /\ w \in FrameSet /\ w.at = "enter" /\ w.op = f.cmd /\ w.exc = "none" /\ ~w.bad /\ w.dry = Preview(f)
      BY <2>3, PreviewBoolean DEF FrameSet, Frame, Place, Exception, Word, Aim
    <2> HIDE DEF g, w, sel
    <2>5. <<g>> \o Tail(Held(c, e)) = <<g>>
      <3>1. Tail(Held(c, e)) = << >>
        BY <1>1, <1>4, TailOfOne
      <3>2. <<g>> \in Seq(FrameSet)
        BY <2>2
      <3>3. QED
        BY <3>1, <3>2, ConcatEmptySeq
    <2>6. \A d \in Client, h \in Endpoint :
            Held(d, h)' = IF d = c /\ h = Local THEN <<g>>
                          ELSE IF d = c /\ h \in sel THEN <<w>> ELSE Held(d, h)
      BY <1>3, <2>1, <2>5, LocalIsEndpoint DEF Held
    <2>7. \A h \in Endpoint \ {Local} : Held(c, h) = << >>
      BY <1>8a DEF IInv, ClientOK, Helpers
    <2>8. /\ \A h \in Endpoint \ {Local} : Held(c, h)' = << >> \/ Held(c, h)' = <<w>>
          /\ Held(c, Local)' = <<g>>
          /\ \A d \in Client \ {c}, h \in Endpoint : Held(d, h)' = Held(d, h)
      BY <2>6, <2>7, LocalIsEndpoint
    <2>9. /\ Loud(g) <=> Loud(f)
          /\ Loud(w) => Loud(f)
      <3>1. Preview(g) <=> Preview(f)
        BY <2>2 DEF Preview
      <3>2. Preview(f) => Tier[w.op] # "read" /\ Preview(w)
        BY <2>3, <2>4 DEF Preview
      <3>3. QED
        BY <1>1, <2>2, <2>3, <2>4, <3>1, <3>2 DEF Loud
    <2>10. Typed'
      <3>1. stack' \in [Thread -> Seq(FrameSet)]
        <4>1. <<g>> \in Seq(FrameSet) /\ <<w>> \in Seq(FrameSet)
          BY <2>2, <2>4
        <4>2. QED
          BY <2>1, <2>5, <4>1 DEF IInv, Typed
      <3>2. QED
        BY <1>2, <3>1 DEF IInv, Typed
    <2>11. ASSUME NEW d \in Client \ {c} PROVE ClientOK(d)' /\ \A h \in Endpoint : ThreadOK(d, h)'
      BY <1>2, <2>8, ClientStays, ThreadStays DEF IInv
    <2>12. FrameOK(conf, r, permit[c], noted[c], c, Local, g)
      BY <1>1, <1>3, <2>2, <2>9 DEF FrameOK
    <2>13. ASSUME NEW h \in Endpoint \ {Local} PROVE FrameOK(conf, r, permit[c], noted[c], c, h, w)
      <3>1. ASSUME Loud(w) PROVE Bars(conf, c, r, w.op, h) \/ <<w.op, h>> \in permit[c]
        <4>1. Loud(f) /\ ~Bars(conf, c, r, r.op, Local) /\ Tier[w.op] # "read" /\ w.op \in Op
          BY <1>1, <1>3, <1>6, <2>3, <2>4, <2>9, <3>1 DEF FrameOK, Loud
        <4>2. Rank[Tier[w.op]] <= Rank[Tier[r.op]] /\ w.op \in Within(r.cmd) /\ h \in Inventory.hosts
          <5>1. Tier[r.op] \in {"read", "mutate", "destroy"}
            BY <1>1, <1>6, InvokeAssumption DEF FrameSet, Rank
          <5>2. QED
            BY <1>6, <2>3, <2>4, <5>1 DEF Within, Endpoint, Rank
        <4>3. CASE ~Bars(conf, c, r, r.cmd, h)
          BY <1>1, <1>3, <1>5, <4>1, <4>2, <4>3, Entitled
        <4>4. CASE Bars(conf, c, r, r.cmd, h)
          BY <1>6, <2>4, <4>4
        <4>5. QED
          BY <4>3, <4>4
      <3>2. QED
        BY <2>3, <2>4, <3>1 DEF FrameOK
    <2>14. \A u : (u = <<g>> \/ u = <<w>>) => Len(u) = 1
      OBVIOUS
    <2>15. ASSUME NEW h \in Endpoint PROVE ThreadOK(c, h)'
      <3>1. CASE h = Local
        BY <1>2, <2>2, <2>8, <2>12, <3>1, AloneOK
      <3>2. CASE h # Local /\ Held(c, h)' = <<w>>
        BY <1>2, <2>4, <2>13, <3>2, AloneOK
      <3>3. CASE h # Local /\ Held(c, h)' = << >>
        BY <3>3 DEF ThreadOK, StackOK
      <3>4. QED
        BY <2>8, <3>1, <3>2, <3>3
    <2>16. Busy(c)'
      BY <1>1, <1>2, <1>3, <2>8, PermitStays DEF IInv, ClientOK, Busy
    <2>17. Bottom(<<g>>) = g /\ Bottom(<<w>>) = w /\ <<g>> # << >> /\ <<g>>[1] = g
      BY DEF Bottom
    <2>18. Lead(c)'
      <3>1. ASSUME ~Loud(g)
            PROVE  \A h \in Endpoint : \A i \in 1..Len(Held(c, h)') : ~Loud(Held(c, h)'[i])
        BY <2>8, <2>9, <3>1
      <3>2. /\ f.op = r.op /\ f.cmd = r.cmd /\ f.dry = r.dry
            /\ (f.yes <=> (r.yes /\ Front[c] # "portal"))
            /\ Offered(c, r.op)
            /\ ~Loud(f) => noted[c] = {} /\ changed[c] = {}
        BY <1>1, <1>3, <1>5 DEF IInv, ClientOK, Lead
      <3>3. QED
        BY <1>2, <2>2, <2>8, <2>9, <2>17, <3>1, <3>2 DEF Lead, Offered
    <2>19. Helpers(c)'
      BY <1>2, <1>6, <2>2, <2>3, <2>4, <2>8, <2>17 DEF Helpers
    <2>20. Debts(c)'
      <3> SUFFICES ASSUME c \in open, NEW x \in changed[c], x \notin recorded[c]
                   PROVE  \E h \in Endpoint : \E i \in 1..Len(Held(c, h)') : Carries(Held(c, h)'[i], x, h)
        BY <1>2 DEF Debts
      <3>1. PICK h \in Endpoint : \E i \in 1..Len(Held(c, h)) : Carries(Held(c, h)[i], x, h)
        BY DEF IInv, ClientOK, Debts
      <3>2. h = Local
        BY <2>7, <3>1
      <3>3. Carries(f, x, Local)
        <4>1. PICK i \in 1..Len(Held(c, Local)) : Carries(Held(c, Local)[i], x, Local)
          BY <3>1, <3>2
        <4>2. i = 1
          BY <1>3, <1>4
        <4>3. QED
          BY <1>3, <4>1, <4>2 DEF f
      <3>4. Carries(g, x, Local)
        <4>1. Loud(f) /\ x = <<f.op, Local>> => Loud(g) /\ x = <<g.op, Local>>
          BY <2>2, <2>9
        <4>2. f.bad /\ f.op \in Fan \cup DOMAIN Calls => g.bad /\ g.op \in Fan \cup DOMAIN Calls
          BY <2>2
        <4>3. f.exc = "none" /\ g.at = "gather"
          BY <1>6, <2>2
        <4>4. QED
          BY <3>3, <4>1, <4>2, <4>3 DEF Carries
      <3>5. QED
        BY <2>8, <3>4, LocalIsEndpoint
    <2>21. QED
      BY <2>10, <2>11, <2>15, <2>16, <2>18, <2>19, <2>20 DEF IInv, ClientOK
  <1>9. QED
    BY <1>7, <1>8

\* A step after which thread e of c holds u, and other workers of c may be gone.
LEMMA RewriteStep ==
  ASSUME IInv, NEW c \in Client, NEW e \in Endpoint, Held(c, e) # << >>,
         NEW u \in Seq(FrameSet), Len(u) \in Nat \ {0}, Held(c, e)' = u,
         UNCHANGED <<conf, request, view, open, permit, noted, changed, recorded>>,
         stack' \in [Thread -> Seq(FrameSet)],
         \A d \in Client \ {c}, h \in Endpoint : Held(d, h)' = Held(d, h),
         \A h \in Endpoint \ {e} : Held(c, h)' = IF e = Local THEN << >> ELSE Held(c, h),
         StackOK(u),
         \A i \in 1..Len(u) : FrameOK(conf, request[c], permit[c], noted[c], c, e, u[i]),
         Bottom(u).op = Bottom(Held(c, e)).op, Bottom(u).cmd = Bottom(Held(c, e)).cmd,
         Bottom(u).dry = Bottom(Held(c, e)).dry, Bottom(u).yes = Bottom(Held(c, e)).yes,
         Bottom(u).at # "banned", Bottom(Held(c, e)).at # "banned",
         \A i \in 1..Len(u) : Loud(u[i]) =>
           \E h \in Endpoint : \E j \in 1..Len(Held(c, h)) : Loud(Held(c, h)[j]),
         \A x \in changed[c], h \in Endpoint : \A j \in 1..Len(Held(c, h)) :
           Carries(Held(c, h)[j], x, h) =>
             \/ h # e /\ e # Local
             \/ \E i \in 1..Len(u) : Carries(u[i], x, e)
  PROVE  IInv'
  <1>1. Typed'
    BY DEF IInv, Typed
  <1>2. ASSUME NEW d \in Client \ {c} PROVE ClientOK(d)' /\ \A h \in Endpoint : ThreadOK(d, h)'
    BY ClientStays, ThreadStays DEF IInv
  <1>3. ThreadOK(c, e)'
    BY DEF ThreadOK
  <1>4. ASSUME NEW h \in Endpoint \ {e} PROVE ThreadOK(c, h)'
    <2>1. CASE e = Local
      BY <2>1 DEF ThreadOK, StackOK
    <2>2. CASE e # Local
      BY <2>2, ThreadStays DEF IInv
    <2>3. QED
      BY <2>1, <2>2
  <1>5. Held(c, Local) # << >> /\ Len(<< >>) = 0
    BY LocalIsEndpoint DEF IInv, ClientOK, Helpers
  <1>6. Held(c, Local)' # << >>
    BY <1>5, LocalIsEndpoint
  <1>7. Busy(c)'
    BY <1>5, <1>6, PermitStays DEF IInv, ClientOK, Busy
  <1>8. Lead(c)'
    <2> DEFINE b == Bottom(Held(c, Local))
               b2 == Bottom(Held(c, Local)')
    <2>1. b2.op = b.op /\ b2.cmd = b.cmd /\ b2.dry = b.dry /\ b2.yes = b.yes
          /\ (b2 # b => b2.at # "banned" /\ b.at # "banned")
      BY LocalIsEndpoint
    <2> HIDE DEF b, b2
    <2>2. Loud(b2) <=> Loud(b)
      BY <2>1 DEF Loud, Preview
    <2>3. b.op = request[c].op /\ b.cmd = request[c].cmd /\ b.dry = request[c].dry
          /\ (b.yes <=> (request[c].yes /\ Front[c] # "portal")) /\ (b.at # "banned" => Offered(c, request[c].op))
      BY <1>5 DEF IInv, ClientOK, Lead, b
    <2>4. ASSUME ~Loud(b)
          PROVE  /\ noted[c] = {} /\ changed[c] = {}
                 /\ \A h \in Endpoint : \A i \in 1..Len(Held(c, h)) : ~Loud(Held(c, h)[i])
      BY <1>5, <2>4 DEF IInv, ClientOK, Lead, b
    <2>5. ASSUME ~Loud(b), NEW h \in Endpoint, NEW i \in 1..Len(Held(c, h)') PROVE ~Loud(Held(c, h)'[i])
      <3>1. CASE h = e
        BY <2>4, <2>5, <3>1
      <3>2. CASE h # e /\ e = Local
        BY <1>5, <2>5, <3>2
      <3>3. CASE h # e /\ e # Local
        BY <2>4, <2>5, <3>3
      <3>4. QED
        BY <3>1, <3>2, <3>3
    <2>6. QED
      BY <2>1, <2>2, <2>3, <2>4, <2>5 DEF Lead, Offered, b2
  <1>9. Helpers(c)'
    <2>1. CASE e = Local
      BY <2>1 DEF Helpers
    <2>2. CASE e # Local
      BY <1>5, <2>2, LocalIsEndpoint DEF IInv, ClientOK, Helpers
    <2>3. QED
      BY <2>1, <2>2
  <1>10. Debts(c)'
    <2> SUFFICES ASSUME c \in open, NEW x \in changed[c], x \notin recorded[c]
                 PROVE  \E h \in Endpoint : \E i \in 1..Len(Held(c, h)') : Carries(Held(c, h)'[i], x, h)
      BY DEF Debts
    <2>1. PICK h \in Endpoint : \E i \in 1..Len(Held(c, h)) : Carries(Held(c, h)[i], x, h)
      BY DEF IInv, ClientOK, Debts
    <2>2. CASE h # e /\ e # Local
      BY <2>1, <2>2
    <2>3. CASE \E i \in 1..Len(u) : Carries(u[i], x, e)
      BY <2>3
    <2>4. QED
      BY <2>1, <2>2, <2>3
  <1>11. QED
    BY <1>1, <1>2, <1>3, <1>4, <1>7, <1>8, <1>9, <1>10 DEF IInv, ClientOK

\* A stack of one and of two.
LEMMA OneFacts ==
  ASSUME NEW F, NEW g \in F
  PROVE  /\ <<g>> \in Seq(F) /\ Len(<<g>>) = 1 /\ <<g>>[1] = g /\ Bottom(<<g>>) = g
         /\ \A i \in 1..Len(<<g>>) : <<g>>[i] = g
         /\ g.at # "sub" => StackOK(<<g>>)
  BY DEF Bottom, StackOK

LEMMA TwoFacts ==
  ASSUME NEW F, NEW w \in F, NEW g \in F
  PROVE  /\ <<w, g>> \in Seq(F) /\ Len(<<w, g>>) = 2 /\ Bottom(<<w, g>>) = g
         /\ <<w, g>>[1] = w /\ <<w, g>>[2] = g
         /\ \A i \in 1..Len(<<w, g>>) : i \in {1, 2}
         /\ g.at = "sub" /\ w.op \notin Fan \cup DOMAIN Calls /\ w.at # "banned" => StackOK(<<w, g>>)
  BY DEF Bottom, StackOK

LEMMA GatherInv ==
  ASSUME IInv, NEW c \in Client, NEW e \in Endpoint, Gather(<<c, e>>)
  PROVE  IInv'
  <1> DEFINE f == Held(c, e)[1]
             ends == {Head(stack[w]) : w \in Workers(c)}
             bad == \E x \in ends : x.bad \/ x.exc # "none"
             g == [f EXCEPT !.at = "end",
                            !.exc = IF \E x \in ends : x.exc \notin Caught THEN "type" ELSE "none",
                            !.bad = bad]
  <1>1. /\ Held(c, e) # << >> /\ f = Head(stack[<<c, e>>]) /\ f.at = "gather" /\ f \in FrameSet
        /\ Held(c, e) \in Seq(FrameSet) /\ Len(Held(c, e)) \in {1, 2}
        /\ FrameOK(conf, request[c], permit[c], noted[c], c, e, f)
    BY TopFacts DEF Gather
  <1>2. UNCHANGED <<conf, request, view, open, permit, noted, changed, recorded>>
    BY DEF Gather, portal, history
  <1>3. f.op \in Fan /\ e = Local /\ f.exc = "none" /\ ~f.bad
    BY <1>1 DEF FrameOK
  <1>4. Len(Held(c, e)) = 1
    BY <1>1, <1>3 DEF IInv, ThreadOK, StackOK
  <1>5. Bottom(Held(c, e)) = f
    BY <1>4 DEF Bottom
  <1>6. \A w \in Workers(c) : At(w, "out") /\ Len(stack[w]) = 1
    BY DEF Gather
  <1>7. <<c, Local>> \notin Workers(c)
    BY <1>1, <1>3, <1>6 DEF At
  <1>8. stack' = [s \in Thread |-> IF s = <<c, e>> THEN <<g>> \o Tail(Held(c, e))
                                   ELSE IF s \in Workers(c) THEN << >> ELSE stack[s]]
    BY <1>1 DEF Gather, Held
  <1> HIDE DEF f
  <1>9. bad \in BOOLEAN
    BY DEF bad
  <1> HIDE DEF bad, ends
  <1>10. /\ g \in FrameSet /\ g.at = "end" /\ g.op = f.op /\ g.cmd = f.cmd /\ g.dry = f.dry /\ g.yes = f.yes
         /\ g.bad = bad
    BY <1>1, <1>9 DEF FrameSet, Place, Exception
  <1> HIDE DEF g
  <1>11. <<g>> \in Seq(FrameSet) /\ <<g>> \o Tail(Held(c, e)) = <<g>> /\ Len(<<g>>) = 1 /\ Bottom(<<g>>) = g
         /\ <<g>>[1] = g /\ StackOK(<<g>>) /\ \A i \in 1..Len(<<g>>) : <<g>>[i] = g
    <2>1. Tail(Held(c, e)) = << >>
      BY <1>1, <1>4, TailOfOne
    <2>2. <<g>> \in Seq(FrameSet)
      BY <1>10
    <2>3. QED
      BY <1>10, <2>1, <2>2, ConcatEmptySeq, OneFacts
  <1>12. Held(c, e)' = <<g>>
    BY <1>8, <1>11, LocalIsEndpoint DEF Held
  <1>13. \A h \in Endpoint \ {e} : Held(c, h)' = << >>
    <2> SUFFICES ASSUME NEW h \in Endpoint \ {e} PROVE Held(c, h)' = << >>
      OBVIOUS
    <2>1. h \in Inventory.hosts /\ <<c, h>> \in Thread /\ <<c, h>> # <<c, e>>
      BY <1>3, LocalIsEndpoint DEF Endpoint
    <2>2. Held(c, h) = << >> \/ <<c, h>> \in Workers(c)
      BY <2>1 DEF Workers, Held
    <2>3. QED
      BY <1>8, <2>1, <2>2 DEF Held
  <1>14. \A d \in Client \ {c}, h \in Endpoint : Held(d, h)' = Held(d, h)
    <2> SUFFICES ASSUME NEW d \in Client \ {c}, NEW h \in Endpoint PROVE Held(d, h)' = Held(d, h)
      OBVIOUS
    <2>1. <<d, h>> \in Thread /\ <<d, h>> # <<c, e>> /\ <<d, h>> \notin Workers(c)
      BY LocalIsEndpoint DEF Workers
    <2>2. QED
      BY <1>8, <2>1 DEF Held
  <1>15. stack' \in [Thread -> Seq(FrameSet)]
    <2> DEFINE S == Seq(FrameSet)
    <2> DEFINE u == <<g>> \o Tail(Held(c, e))
    <2>1. << >> \in S /\ stack \in [Thread -> S] /\ u \in S
      <3>1. << >> \in S
        OBVIOUS
      <3>2. stack \in [Thread -> S]
        BY DEF IInv, Typed
      <3>3. u \in S
        BY <1>11
      <3>4. QED
        BY <3>1, <3>2, <3>3
    <2> HIDE DEF S, u
    <2>2. stack' = [s \in Thread |-> IF s = <<c, e>> THEN u ELSE IF s \in Workers(c) THEN << >> ELSE stack[s]]
      BY <1>8 DEF u
    <2>3. stack' \in [Thread -> S]
      BY <2>1, <2>2
    <2>4. QED
      BY <2>3 DEF S
  <1>16. Loud(g) <=> Loud(f)
    BY <1>1, <1>10 DEF Loud, Preview
  <1>17. FrameOK(conf, request[c], permit[c], noted[c], c, e, g)
    BY <1>1, <1>10, <1>16 DEF FrameOK
  <1>18. ASSUME NEW x \in changed[c], NEW h \in Endpoint, NEW j \in 1..Len(Held(c, h)),
                Carries(Held(c, h)[j], x, h)
         PROVE  Carries(g, x, e)
    <2>1. CASE h = e
      <3>1. Carries(f, x, e)
        <4>1. j = 1
          BY <1>4, <2>1
        <4>2. QED
          BY <1>18, <2>1, <4>1 DEF f
      <3>2. QED
        BY <1>3, <1>10, <1>16, <3>1 DEF Carries
    <2>2. CASE h # e
      <3>1. h \in Inventory.hosts /\ Held(c, h) # << >>
        BY <1>3, <1>18, <2>2 DEF Endpoint
      <3>2. <<c, h>> \in Workers(c)
        BY <3>1 DEF Workers, Held
      <3>3. Held(c, h) \in Seq(FrameSet) /\ Len(Held(c, h)) = 1 /\ Head(Held(c, h)).at = "out"
        BY <1>6, <3>2, LocalIsEndpoint DEF At, Held, IInv, Typed
      <3>4. j = 1 /\ Held(c, h)[1] = Head(Held(c, h))
        BY <3>1, <3>3, HeadFacts
      <3>5. Head(Held(c, h)) \in ends
        BY <3>2 DEF ends, Held
      <3>6. Head(Held(c, h)).exc # "none" \/ Head(Held(c, h)).bad
        BY <1>18, <3>3, <3>4 DEF Carries
      <3>7. g.bad
        BY <1>10, <3>5, <3>6 DEF bad
      <3>8. QED
        BY <1>3, <1>10, <3>7 DEF Carries
    <2>3. QED
      BY <2>1, <2>2
  <1>19. \A i \in 1..Len(<<g>>) : Loud(<<g>>[i]) =>
           \E h \in Endpoint : \E j \in 1..Len(Held(c, h)) : Loud(Held(c, h)[j])
    BY <1>4, <1>11, <1>16 DEF f
  <1>20. \A x \in changed[c], h \in Endpoint : \A j \in 1..Len(Held(c, h)) :
           Carries(Held(c, h)[j], x, h) => \E i \in 1..Len(<<g>>) : Carries(<<g>>[i], x, e)
    BY <1>11, <1>18
  <1>21. \A i \in 1..Len(<<g>>) : FrameOK(conf, request[c], permit[c], noted[c], c, e, <<g>>[i])
    BY <1>11, <1>17
  <1>22. \A h \in Endpoint \ {e} : Held(c, h)' = IF e = Local THEN << >> ELSE Held(c, h)
    BY <1>3, <1>13
  <1>23. Bottom(<<g>>).op = Bottom(Held(c, e)).op /\ Bottom(<<g>>).cmd = Bottom(Held(c, e)).cmd
         /\ Bottom(<<g>>).dry = Bottom(Held(c, e)).dry /\ Bottom(<<g>>).yes = Bottom(Held(c, e)).yes
         /\ Bottom(<<g>>).at # "banned" /\ Bottom(Held(c, e)).at # "banned"
    BY <1>1, <1>5, <1>10, <1>11
  <1> DEFINE u == <<g>>
  <1>24. u \in Seq(FrameSet) /\ Len(u) \in Nat \ {0} /\ StackOK(u)
    BY <1>11
  <1>25. QED
    BY <1>1, <1>2, <1>12, <1>14, <1>15, <1>19, <1>20, <1>21, <1>22, <1>23, <1>24, RewriteStep

LEMMA RemedyInv ==
  ASSUME IInv, NEW c \in Client, NEW e \in Endpoint, Remedy(<<c, e>>)
  PROVE  IInv'
  <1> DEFINE f == Held(c, e)[1]
             r == request[c]
  <1>1. /\ Held(c, e) # << >> /\ f = Head(stack[<<c, e>>]) /\ f.at = "call" /\ f \in FrameSet
        /\ Held(c, e) \in Seq(FrameSet) /\ Len(Held(c, e)) \in {1, 2}
        /\ FrameOK(conf, request[c], permit[c], noted[c], c, e, f)
    BY TopFacts DEF Remedy
  <1>2. UNCHANGED <<conf, request, view, open, permit, noted, changed, recorded>>
    BY DEF Remedy, portal, history
  <1>3. f.op \in DOMAIN Calls /\ ~Preview(f) /\ f.exc = "none" /\ f.op \notin Fan
    BY <1>1, InvokeAssumption DEF Remedy, FrameOK
  <1>4. CASE ~(f.i < Len(Calls[f.op]))
    <2> DEFINE g == [f EXCEPT !.at = "end"]
    <2>1. Now(<<c, e>>, g)
      BY <1>1, <1>4 DEF Remedy
    <2> HIDE DEF f
    <2>2. /\ g \in FrameSet /\ g.at = "end" /\ g.op = f.op /\ g.cmd = f.cmd /\ g.dry = f.dry /\ g.yes = f.yes
          /\ g.bad = f.bad
      BY <1>1 DEF FrameSet, Place
    <2> HIDE DEF g
    <2>3. Loud(f) => Loud(g)
      BY <1>1, <2>2 DEF Loud, Preview
    <2>4. \A x : Carries(f, x, e) => Carries(g, x, e)
      BY <1>3, <2>2, <2>3 DEF Carries
    <2>5. QED
      BY <1>1, <1>2, <2>1, <2>2, <2>4, QuietStep DEF f
  <1>5. CASE f.i < Len(Calls[f.op])
    <2> DEFINE o == Calls[f.op][f.i + 1]
               w == Frame(o, "none", << >>, FALSE, TRUE)
               g == [f EXCEPT !.at = "sub", !.i = f.i + 1]
    <2>1. stack' = [stack EXCEPT ![<<c, e>>] = <<w, g>> \o Tail(Held(c, e))]
      BY <1>1, <1>5 DEF Remedy, Held
    <2>2. Len(Held(c, e)) = 1
      BY <1>1, <1>3 DEF IInv, ThreadOK, StackOK
    <2>3. Bottom(Held(c, e)) = f
      BY <2>2 DEF Bottom
    <2>4. Held(c, e)[1] = f
      OBVIOUS
    <2> HIDE DEF f
    <2>5. /\ o \in Op \ (Fan \cup DOMAIN Calls) /\ Rank[Tier[o]] <= Rank[Tier[f.op]] /\ f.i + 1 \in Nat
          /\ o \in Within(f.op)
      <3>1. f.i \in Nat /\ Calls[f.op] \in Seq(Op \ (Fan \cup DOMAIN Calls))
        BY <1>1, <1>3, InvokeAssumption DEF FrameSet
      <3>2. f.i + 1 \in 1..Len(Calls[f.op])
        BY <1>5, <3>1
      <3>3. f.i + 1 \in DOMAIN Calls[f.op]
        BY <3>1, <3>2
      <3>4. QED
        BY <1>3, <3>1, <3>2, <3>3, InvokeAssumption DEF Within
    <2> HIDE DEF o
    <2>6. /\ w \in FrameSet /\ w.at = "enter" /\ w.op = o /\ w.exc = "none" /\ ~w.bad /\ ~w.dry /\ w.yes
      BY <2>5 DEF FrameSet, Frame, Place, Exception, Word, Aim
    <2>7. /\ g \in FrameSet /\ g.at = "sub" /\ g.op = f.op /\ g.cmd = f.cmd /\ g.dry = f.dry /\ g.yes = f.yes
          /\ g.exc = "none" /\ g.bad = f.bad
      BY <1>1, <1>3, <2>5 DEF FrameSet, Place, Exception
    <2> HIDE DEF w, g
    <2> DEFINE u == <<w, g>>
    <2>8. /\ u \in Seq(FrameSet) /\ Len(u) = 2 /\ Bottom(u) = g /\ StackOK(u)
          /\ u[1] = w /\ u[2] = g /\ \A i \in 1..Len(u) : i \in {1, 2}
      BY <2>5, <2>6, <2>7, TwoFacts
    <2>9. u \o Tail(Held(c, e)) = u
      BY <1>1, <2>2, <2>6, <2>7, PushFacts
    <2> HIDE DEF u
    <2>10. stack' = [stack EXCEPT ![<<c, e>>] = u] /\ <<c, e>> \in Thread
      BY <2>1, <2>9, LocalIsEndpoint DEF u
    <2>11. stack' \in [Thread -> Seq(FrameSet)]
      BY <2>8, <2>10 DEF IInv, Typed
    <2>12. Held(c, e)' = u /\ \A d \in Client, h \in Endpoint : d # c \/ h # e => Held(d, h)' = Held(d, h)
      BY <2>10, LocalIsEndpoint DEF Held, IInv, Typed
    <2>13. e = Local => \A h \in Endpoint \ {e} : Held(c, h) = << >>
      BY <1>1, <2>4 DEF IInv, ClientOK, Helpers
    <2>14. Loud(g) <=> Loud(f)
      BY <1>1, <2>7 DEF Loud, Preview
    <2>15. Loud(w) => Loud(f) /\ Tier[o] # "read"
      <3>1. Tier[o] \in {"read", "mutate", "destroy"} /\ Tier[f.op] \in {"read", "mutate", "destroy"}
        BY <1>1, <2>5, InvokeAssumption DEF FrameSet, Rank
      <3>2. Tier[f.op] = "read" => Tier[o] = "read"
        BY <2>5, <3>1 DEF Rank
      <3>3. QED
        BY <1>1, <1>3, <2>6, <3>2 DEF Loud
    <2>16. FrameOK(conf, request[c], permit[c], noted[c], c, e, g)
      BY <1>1, <1>3, <2>7, <2>14 DEF FrameOK
    <2>17. ASSUME Loud(w) PROVE Bars(conf, c, r, o, e) \/ <<o, e>> \in permit[c]
      <3>1. Loud(f) /\ ~Bars(conf, c, r, f.op, e) /\ Tier[o] # "read" /\ o \in Op
        BY <1>1, <2>5, <2>15, <2>17 DEF FrameOK
      <3>2. CASE e = Local
        <4>1. f.op = r.op /\ Loud(Bottom(Held(c, Local))) /\ Held(c, Local) # << >>
          BY <1>1, <2>3, <3>1, <3>2 DEF IInv, ClientOK, Lead
        <4>2. QED
          BY <2>5, <3>1, <3>2, <4>1, Entitled
      <3>3. CASE e # Local
        <4> DEFINE b == Held(c, Local)[1]
        <4>1. /\ Held(c, Local) # << >> /\ b.at = "gather"
              /\ f.op = r.cmd /\ Tier[r.cmd] = Tier[r.op]
          BY <1>1, <2>3, <3>3 DEF IInv, ClientOK, Helpers
        <4>2. At(<<c, Local>>, "gather")
          <5>1. Held(c, Local) \in Seq(FrameSet)
            BY LocalIsEndpoint DEF Held, IInv, Typed
          <5>2. Head(Held(c, Local)) = b
            BY <4>1, <5>1, HeadFacts
          <5>3. QED
            BY <4>1, <5>2 DEF At, Held
        <4>3. /\ FrameOK(conf, r, permit[c], noted[c], c, Local, b)
              /\ Len(Held(c, Local)) \in {1, 2}
          BY <4>2, TopFacts, LocalIsEndpoint
        <4>4. b.op \in Fan
          BY <4>1, <4>3 DEF FrameOK
        <4>5. Len(Held(c, Local)) = 1
          BY <4>3, <4>4, LocalIsEndpoint DEF IInv, ThreadOK, StackOK
        <4>6. Bottom(Held(c, Local)) = b
          BY <4>5 DEF Bottom
        <4>7. Loud(Bottom(Held(c, Local))) /\ b.op = r.op
          <5>1. b.op = r.op
            BY <4>1, <4>6 DEF IInv, ClientOK, Lead
          <5>2. 1 \in 1..Len(Held(c, e))
            BY <2>2
          <5>3. QED
            BY <2>4, <3>1, <4>1, <5>1, <5>2 DEF IInv, ClientOK, Lead
        <4>8. ~Bars(conf, c, r, r.op, Local)
          BY <4>1, <4>3, <4>6, <4>7 DEF FrameOK
        <4>9. e \in Inventory.hosts /\ ~Bars(conf, c, r, r.cmd, e) /\ o \in Within(r.cmd)
              /\ Rank[Tier[o]] <= Rank[Tier[r.op]]
          BY <2>5, <3>1, <3>3, <4>1 DEF Endpoint
        <4>10. QED
          BY <3>1, <4>1, <4>7, <4>8, <4>9, Entitled
      <3>4. QED
        BY <3>2, <3>3
    <2>18. FrameOK(conf, request[c], permit[c], noted[c], c, e, w)
      BY <2>5, <2>6, <2>17 DEF FrameOK
    <2>19. \A i \in 1..Len(u) : FrameOK(conf, request[c], permit[c], noted[c], c, e, u[i])
      BY <2>8, <2>16, <2>18
    <2>20. \A i \in 1..Len(u) : Loud(u[i]) =>
             \E h \in Endpoint : \E j \in 1..Len(Held(c, h)) : Loud(Held(c, h)[j])
      <3>1. \A i \in 1..Len(u) : Loud(u[i]) => Loud(f)
        BY <2>8, <2>14, <2>15
      <3>2. QED
        BY <2>2, <2>4, <3>1
    <2>21. \A x : Carries(f, x, e) => Carries(g, x, e)
      BY <1>3, <2>7, <2>14 DEF Carries
    <2>22. \A x \in changed[c], h \in Endpoint : \A j \in 1..Len(Held(c, h)) :
             Carries(Held(c, h)[j], x, h) =>
               \/ h # e /\ e # Local
               \/ \E i \in 1..Len(u) : Carries(u[i], x, e)
      <3> SUFFICES ASSUME NEW x \in changed[c], NEW h \in Endpoint, NEW j \in 1..Len(Held(c, h)),
                          Carries(Held(c, h)[j], x, h), ~(h # e /\ e # Local)
                   PROVE  Carries(u[2], x, e)
        BY <2>8
      <3>1. h = e
        BY <2>13
      <3>2. j = 1
        BY <2>2, <3>1
      <3>3. QED
        BY <2>4, <2>8, <2>21, <3>1, <3>2
    <2>23. Bottom(u).op = Bottom(Held(c, e)).op /\ Bottom(u).cmd = Bottom(Held(c, e)).cmd
           /\ Bottom(u).dry = Bottom(Held(c, e)).dry /\ Bottom(u).yes = Bottom(Held(c, e)).yes
           /\ Bottom(u).at # "banned" /\ Bottom(Held(c, e)).at # "banned"
      BY <1>1, <2>3, <2>7, <2>8
    <2>24. \A h \in Endpoint \ {e} : Held(c, h)' = IF e = Local THEN << >> ELSE Held(c, h)
      BY <2>12, <2>13
    <2>25. /\ u \in Seq(FrameSet) /\ Len(u) \in Nat \ {0} /\ StackOK(u) /\ Held(c, e)' = u
           /\ \A d \in Client \ {c}, h \in Endpoint : Held(d, h)' = Held(d, h)
      BY <2>8, <2>12
    <2>26. QED
      BY <1>1, <1>2, <2>11, <2>19, <2>20, <2>22, <2>23, <2>24, <2>25, RewriteStep
  <1>6. QED
    BY <1>4, <1>5

LEMMA BackInv ==
  ASSUME IInv, NEW c \in Client, NEW e \in Endpoint, Back(<<c, e>>)
  PROVE  IInv'
  <1> DEFINE f == Held(c, e)[1]
             b == Held(c, e)[2]
             on == f.exc \in {"none", "docker", "value"}
             g == [b EXCEPT !.at = IF on THEN "call" ELSE "end", !.bad = b.bad \/ f.exc # "none",
                            !.exc = IF on THEN "none" ELSE f.exc]
  <1>1. /\ Held(c, e) # << >> /\ f = Head(stack[<<c, e>>]) /\ f.at = "out" /\ f \in FrameSet
        /\ Held(c, e) \in Seq(FrameSet) /\ Len(Held(c, e)) \in {1, 2}
    BY TopFacts DEF Back
  <1>2. UNCHANGED <<conf, request, view, open, permit, noted, changed, recorded>>
    BY DEF Back, portal, history
  <1>3. Len(Held(c, e)) = 2
    BY <1>1 DEF Back, Held
  <1>4. Bottom(Held(c, e)) = b /\ b \in FrameSet
    BY <1>1, <1>3 DEF Bottom
  <1>5. /\ FrameOK(conf, request[c], permit[c], noted[c], c, e, b)
        /\ b.at = "sub" /\ f.op \notin Fan \cup DOMAIN Calls
    BY <1>3 DEF IInv, ThreadOK, StackOK
  <1>6. b.op \in DOMAIN Calls /\ b.exc = "none" /\ b.op \notin Fan
    BY <1>5, InvokeAssumption DEF FrameOK
  <1>7. stack' = [stack EXCEPT ![<<c, e>>] = <<g>> \o Tail(Tail(Held(c, e)))]
    BY <1>1 DEF Back, Held
  <1>8. Held(c, e)[1] = f /\ Held(c, e)[2] = b
    OBVIOUS
  <1> HIDE DEF f, b
  <1>9. /\ g \in FrameSet /\ g.at \in {"call", "end"} /\ g.op = b.op /\ g.cmd = b.cmd /\ g.dry = b.dry
        /\ g.yes = b.yes /\ (g.at = "call" => g.exc = "none") /\ (g.bad <=> b.bad \/ f.exc # "none")
    <2>1. (b.bad \/ f.exc # "none") \in BOOLEAN
      BY <1>4 DEF FrameSet
    <2>2. QED
      BY <1>1, <1>4, <2>1 DEF FrameSet, Place, Exception
  <1> HIDE DEF g
  <1> DEFINE u == <<g>>
  <1>10. /\ u \in Seq(FrameSet) /\ Len(u) = 1 /\ Bottom(u) = g /\ StackOK(u) /\ u[1] = g
         /\ \A i \in 1..Len(u) : u[i] = g
    BY <1>9, OneFacts
  <1>11. u \o Tail(Tail(Held(c, e))) = u
    BY <1>1, <1>3, <1>9, PopFacts
  <1> HIDE DEF u
  <1>12. stack' = [stack EXCEPT ![<<c, e>>] = u] /\ <<c, e>> \in Thread
    BY <1>7, <1>11, LocalIsEndpoint DEF u
  <1>13. stack' \in [Thread -> Seq(FrameSet)]
    BY <1>10, <1>12 DEF IInv, Typed
  <1>14. Held(c, e)' = u /\ \A d \in Client, h \in Endpoint : d # c \/ h # e => Held(d, h)' = Held(d, h)
    BY <1>12, LocalIsEndpoint DEF Held, IInv, Typed
  <1>15. e = Local => \A h \in Endpoint \ {e} : Held(c, h) = << >>
    BY <1>1, <1>8 DEF IInv, ClientOK, Helpers
  <1>16. Loud(g) <=> Loud(b)
    BY <1>5, <1>9 DEF Loud, Preview
  <1>17. FrameOK(conf, request[c], permit[c], noted[c], c, e, g)
    BY <1>5, <1>6, <1>9, <1>16 DEF FrameOK
  <1>18. ASSUME NEW x, Carries(f, x, e) \/ Carries(b, x, e) PROVE Carries(g, x, e)
    <2>1. CASE Carries(f, x, e)
      BY <1>1, <1>5, <1>6, <1>9, <2>1 DEF Carries
    <2>2. CASE Carries(b, x, e)
      BY <1>6, <1>9, <1>16, <2>2 DEF Carries
    <2>3. QED
      BY <1>18, <2>1, <2>2
  <1>19. \A i \in 1..Len(u) : FrameOK(conf, request[c], permit[c], noted[c], c, e, u[i])
    BY <1>10, <1>17
  <1>20. \A i \in 1..Len(u) : Loud(u[i]) =>
           \E h \in Endpoint : \E j \in 1..Len(Held(c, h)) : Loud(Held(c, h)[j])
    <2>1. 2 \in 1..Len(Held(c, e))
      BY <1>3
    <2>2. QED
      BY <1>8, <1>10, <1>16, <2>1
  <1>21. \A x \in changed[c], h \in Endpoint : \A j \in 1..Len(Held(c, h)) :
           Carries(Held(c, h)[j], x, h) =>
             \/ h # e /\ e # Local
             \/ \E i \in 1..Len(u) : Carries(u[i], x, e)
    <2> SUFFICES ASSUME NEW x \in changed[c], NEW h \in Endpoint, NEW j \in 1..Len(Held(c, h)),
                        Carries(Held(c, h)[j], x, h), ~(h # e /\ e # Local)
                 PROVE  Carries(u[1], x, e)
      BY <1>10
    <2>1. h = e
      BY <1>15
    <2>2. j \in {1, 2}
      <3>1. j \in 1..2
        BY <1>3, <2>1
      <3>2. QED
        BY <3>1
    <2>3. QED
      BY <1>8, <1>10, <1>18, <2>1, <2>2
  <1>22. Bottom(u).op = Bottom(Held(c, e)).op /\ Bottom(u).cmd = Bottom(Held(c, e)).cmd
         /\ Bottom(u).dry = Bottom(Held(c, e)).dry /\ Bottom(u).yes = Bottom(Held(c, e)).yes
         /\ Bottom(u).at # "banned" /\ Bottom(Held(c, e)).at # "banned"
    BY <1>4, <1>5, <1>9, <1>10
  <1>23. \A h \in Endpoint \ {e} : Held(c, h)' = IF e = Local THEN << >> ELSE Held(c, h)
    BY <1>14, <1>15
  <1>24. /\ u \in Seq(FrameSet) /\ Len(u) \in Nat \ {0} /\ StackOK(u) /\ Held(c, e)' = u
         /\ \A d \in Client \ {c}, h \in Endpoint : Held(d, h)' = Held(d, h)
    BY <1>10, <1>14
  <1>25. QED
    BY <1>1, <1>2, <1>13, <1>19, <1>20, <1>21, <1>22, <1>23, <1>24, RewriteStep

----------------------------------------------------------------------------
(* Fronts.                                                                 *)

\* A client of which no thread is under way.
Idle(c) == view[c] = "none" /\ \A e \in Endpoint : Held(c, e) = << >>

LEMMA IdleFacts ==
  ASSUME IInv, NEW c \in Client, c \notin open
  PROVE  Idle(c)
  <1>1. Held(c, Local) = << >> /\ view[c] = "none"
    BY DEF IInv, ClientOK, Busy
  <1>2. QED
    BY <1>1 DEF IInv, ClientOK, Helpers, Idle

LEMMA EmptyOK ==
  ASSUME NEW c, NEW e, Held(c, e) = << >>
  PROVE  ThreadOK(c, e)
  BY DEF ThreadOK, StackOK

LEMMA PermitTyped ==
  ASSUME NEW c \in Client, NEW r
  PROVE  Permit(c, r) \in SUBSET Change
  BY DEF Permit, Change, Endpoint

LEMMA PermitOf ==
  ASSUME NEW c, NEW r, conf' = conf
  PROVE  Permit(c, r)' = Permit(c, r)
  BY DEF Permit, Offered, Forbidden

LEMMA AskInv ==
  ASSUME IInv, NEW c \in Client, Ask(c)
  PROVE  IInv'
  <1>1. c \notin open /\ Idle(c)
    BY IdleFacts DEF Ask
  <1>2. PICK r \in Request[c] :
          /\ request' = [request EXCEPT ![c] = r]
          /\ permit' = [permit EXCEPT ![c] = Permit(c, r)]
          /\ IF r.op = "overview"
             THEN /\ view' = [view EXCEPT ![c] = "wait"]
                  /\ UNCHANGED stack
             ELSE /\ stack' = [stack EXCEPT ![Main(c)] =
                       <<[Frame(r.op, r.cmd, r.to, r.dry, r.yes /\ Front[c] # "portal")
                          EXCEPT !.at = IF Offered(c, r.op) THEN "enter" ELSE "banned"]>>]
                  /\ UNCHANGED view
    BY DEF Ask
  <1>3. /\ conf' = conf /\ open' = open \cup {c}
        /\ noted' = [noted EXCEPT ![c] = {}]
        /\ changed' = [changed EXCEPT ![c] = {}]
        /\ recorded' = [recorded EXCEPT ![c] = {}]
    BY DEF Ask
  <1>4. /\ r.op \in Op /\ r.dry \in BOOLEAN /\ r.yes \in BOOLEAN /\ r.cmd \in Word /\ r.to \in Aim
        /\ r \in UNION {Request[d] : d \in Client}
    BY InvokeAssumption DEF Word, Aim
  <1> DEFINE yes == r.yes /\ Front[c] # "portal"
             g == [Frame(r.op, r.cmd, r.to, r.dry, yes)
                   EXCEPT !.at = IF Offered(c, r.op) THEN "enter" ELSE "banned"]
  <1>5. yes \in BOOLEAN
    OBVIOUS
  <1> HIDE DEF yes
  <1>6. /\ g \in FrameSet /\ g.op = r.op /\ g.cmd = r.cmd /\ g.dry = r.dry /\ g.yes = yes
        /\ g.exc = "none" /\ ~g.bad /\ g.at \in {"enter", "banned"}
        /\ g.at = "enter" <=> Offered(c, r.op)
    BY <1>4, <1>5 DEF Frame, FrameSet, Place, Exception
  <1> HIDE DEF g
  <1>7. /\ request' \in [Client -> UNION {Request[d] : d \in Client}]
        /\ request'[c] = r /\ \A d \in Client \ {c} : request'[d] = request[d]
        /\ \A d \in Client : request'[d] \in Request[d]
    BY <1>2, <1>4 DEF IInv, Typed
  <1>8. /\ permit' \in [Client -> SUBSET Change] /\ permit'[c] = Permit(c, r)
        /\ \A d \in Client \ {c} : permit'[d] = permit[d]
    BY <1>2, PermitTyped DEF IInv, Typed
  <1>9. /\ {noted', changed', recorded'} \subseteq [Client -> SUBSET Change]
        /\ noted'[c] = {} /\ changed'[c] = {} /\ recorded'[c] = {}
        /\ \A d \in Client \ {c} : noted'[d] = noted[d] /\ changed'[d] = changed[d] /\ recorded'[d] = recorded[d]
    BY <1>3 DEF IInv, Typed
  <1>10. <<g>> \in Seq(FrameSet) /\ Bottom(<<g>>) = g /\ <<g>> # << >>
         /\ \A i \in 1..Len(<<g>>) : <<g>>[i] = g
    BY <1>6, OneFacts
  <1>11. /\ stack' \in [Thread -> Seq(FrameSet)]
         /\ \A d \in Client, e \in Endpoint :
              d # c \/ e # Local => Held(d, e)' = Held(d, e)
         /\ view' \in [Client -> {"none", "wait", "read", "store"}]
         /\ \A d \in Client \ {c} : view'[d] = view[d]
         /\ \/ Held(c, Local)' = << >> /\ view'[c] = "wait"
            \/ Held(c, Local)' = <<g>> /\ view'[c] = "none"
    <2>1. stack \in [Thread -> Seq(FrameSet)] /\ view \in [Client -> {"none", "wait", "read", "store"}]
      BY DEF IInv, Typed
    <2>2. CASE r.op = "overview"
      BY <1>1, <1>2, <2>1, <2>2, LocalIsEndpoint DEF Held, Idle
    <2>3. CASE r.op # "overview"
      <3>1. stack' = [stack EXCEPT ![<<c, Local>>] = <<g>>] /\ view' = view
        BY <1>2, <2>3 DEF g, yes, Main
      <3>2. QED
        BY <1>1, <1>10, <2>1, <3>1, LocalIsEndpoint DEF Held, Idle
    <2>4. QED
      BY <2>2, <2>3
  <1>12. Typed'
    BY <1>3, <1>7, <1>8, <1>9, <1>11 DEF IInv, Typed
  <1>13. ASSUME NEW d \in Client \ {c} PROVE ClientOK(d)' /\ \A e \in Endpoint : ThreadOK(d, e)'
    BY <1>3, <1>7, <1>8, <1>9, <1>11, ClientStays, ThreadStays DEF IInv
  <1>14. \A e \in Endpoint \ {Local} : Held(c, e)' = << >>
    BY <1>1, <1>11 DEF Idle
  <1>15. Permit(c, request[c])' = Permit(c, r)
    BY <1>3, <1>7 DEF Permit, Offered, Forbidden
  <1>16. CASE Held(c, Local)' = << >> /\ view'[c] = "wait"
    <2>1. \A e \in Endpoint : ThreadOK(c, e)'
      BY <1>14, <1>16 DEF ThreadOK, StackOK
    <2>2. ClientOK(c)'
      BY <1>3, <1>9, <1>14, <1>16 DEF ClientOK, Busy, Lead, Helpers, Debts
    <2>3. QED
      BY <1>12, <1>13, <2>1, <2>2 DEF IInv
  <1>17. CASE Held(c, Local)' = <<g>> /\ view'[c] = "none"
    <2>1. FrameOK(conf', request'[c], permit'[c], noted'[c], c, Local, g)
      <3>1. ASSUME Loud(g), ~Bars(conf, c, r, r.op, Local) PROVE <<r.op, Local>> \in Permit(c, r)
        <4>1. Tier[r.op] # "read" /\ Offered(c, r.op) /\ ~r.dry
              /\ (Tier[r.op] = "destroy" => r.yes /\ Front[c] # "portal")
          BY <1>6, <3>1 DEF Loud, Preview, yes
        <4>2. ~Forbidden(c, r, r.op, Local)
          BY <3>1 DEF Forbidden, Bars
        <4>3. QED
          BY <1>4, <4>1, <4>2 DEF Permit, Within
      <3>2. QED
        BY <1>3, <1>6, <1>7, <1>8, <3>1 DEF FrameOK
    <2>2. ThreadOK(c, Local)'
      BY <1>6, <1>17, <2>1, AloneOK
    <2>3. \A e \in Endpoint \ {Local} : ThreadOK(c, e)'
      BY <1>14 DEF ThreadOK, StackOK
    <2>4. Busy(c)'
      BY <1>3, <1>8, <1>15, <1>17 DEF Busy
    <2>5. Lead(c)'
      <3>1. ASSUME ~Loud(g), NEW e \in Endpoint, NEW i \in 1..Len(Held(c, e)') PROVE ~Loud(Held(c, e)'[i])
        <4>1. CASE e = Local
          BY <1>10, <1>17, <3>1, <4>1
        <4>2. CASE e # Local
          BY <1>14, <3>1, <4>2
        <4>3. QED
          BY <4>1, <4>2
      <3>2. Offered(c, r.op)' <=> Offered(c, r.op)
        BY <1>3 DEF Offered
      <3>3. QED
        BY <1>6, <1>7, <1>9, <1>10, <1>17, <3>1, <3>2 DEF Lead, yes
    <2>6. Helpers(c)' /\ Debts(c)'
      BY <1>9, <1>14 DEF Helpers, Debts
    <2>7. QED
      BY <1>12, <1>13, <2>2, <2>3, <2>4, <2>5, <2>6 DEF IInv, ClientOK
  <1>18. QED
    BY <1>11, <1>16, <1>17

\* A client is answered: nothing of it is left.
LEMMA CloseStep ==
  ASSUME IInv, NEW c \in Client, open' = open \ {c},
         UNCHANGED <<conf, request, permit, noted, changed, recorded>>,
         view' \in [Client -> {"none", "wait", "read", "store"}],
         stack' \in [Thread -> Seq(FrameSet)],
         \A d \in Client \ {c} : view'[d] = view[d] /\ \A e \in Endpoint : Held(d, e)' = Held(d, e),
         view'[c] = "none", \A e \in Endpoint : Held(c, e)' = << >>
  PROVE  IInv'
  <1>1. Typed'
    BY DEF IInv, Typed
  <1>2. ASSUME NEW d \in Client \ {c} PROVE ClientOK(d)' /\ \A e \in Endpoint : ThreadOK(d, e)'
    BY ClientStays, ThreadStays DEF IInv
  <1>3. \A e \in Endpoint : ThreadOK(c, e)'
    BY DEF ThreadOK, StackOK
  <1>4. ClientOK(c)'
    BY LocalIsEndpoint DEF ClientOK, Busy, Lead, Helpers, Debts
  <1>5. QED
    BY <1>1, <1>2, <1>3, <1>4 DEF IInv

LEMMA ReplyInv ==
  ASSUME IInv, NEW c \in Client, Reply(c)
  PROVE  IInv'
  <1>1. PICK place \in {"out", "banned"} : At(<<c, Local>>, place)
    BY DEF Reply, Main
  <1>2. Held(c, Local) # << >> /\ Held(c, Local)[1].at \in {"out", "banned"}
    BY <1>1, TopFacts, LocalIsEndpoint
  <1>3. \A e \in Endpoint \ {Local} : Held(c, e) = << >>
    BY <1>2 DEF IInv, ClientOK, Helpers
  <1>4. view[c] = "none"
    BY <1>2 DEF IInv, ClientOK, Busy
  <1>5. /\ UNCHANGED <<conf, request, permit, noted, changed, recorded, view>> /\ open' = open \ {c}
        /\ stack' = [stack EXCEPT ![<<c, Local>>] = << >>]
    BY DEF Reply, Close, Main
  <1>6. stack \in [Thread -> Seq(FrameSet)] /\ << >> \in Seq(FrameSet)
        /\ view \in [Client -> {"none", "wait", "read", "store"}]
    <2>1. << >> \in Seq(FrameSet)
      OBVIOUS
    <2>2. QED
      BY <2>1 DEF IInv, Typed
  <1>7. stack' \in [Thread -> Seq(FrameSet)]
    BY <1>5, <1>6
  <1>8. /\ \A d \in Client \ {c}, e \in Endpoint : Held(d, e)' = Held(d, e)
        /\ \A e \in Endpoint : Held(c, e)' = << >>
    BY <1>3, <1>5, <1>6, LocalIsEndpoint DEF Held
  <1>9. QED
    BY <1>4, <1>5, <1>6, <1>7, <1>8, CloseStep

\* The parts of the invariant after a step that only goes on with an overview.
LEMMA ViewStep ==
  ASSUME IInv, NEW c \in Client, view[c] # "none",
         NEW v \in {"none", "read", "store"}, view' = [view EXCEPT ![c] = v],
         open' = open \/ (open' = open \ {c} /\ v = "none"), v = "none" => open' = open \ {c},
         UNCHANGED <<conf, request, stack, permit, noted, changed, recorded>>
  PROVE  IInv'
  <1>1. c \in open /\ changed[c] = {} /\ Held(c, Local) = << >>
    BY DEF IInv, ClientOK, Busy
  <1>2. \A e \in Endpoint : Held(c, e) = << >>
    BY <1>1 DEF IInv, ClientOK, Helpers
  <1>3. /\ view' \in [Client -> {"none", "wait", "read", "store"}] /\ view'[c] = v
        /\ \A d \in Client \ {c} : view'[d] = view[d]
    BY DEF IInv, Typed
  <1>4. stack' \in [Thread -> Seq(FrameSet)] /\ \A d \in Client, e \in Endpoint : Held(d, e)' = Held(d, e)
    BY DEF IInv, Typed, Held
  <1>5. CASE v = "none"
    BY <1>2, <1>3, <1>4, <1>5, CloseStep
  <1>6. CASE v # "none"
    <2>1. Typed'
      BY <1>3, <1>4, <1>6 DEF IInv, Typed
    <2>2. ASSUME NEW d \in Client \ {c} PROVE ClientOK(d)' /\ \A e \in Endpoint : ThreadOK(d, e)'
      BY <1>3, <1>4, <1>6, ClientStays, ThreadStays DEF IInv
    <2>3. \A e \in Endpoint : ThreadOK(c, e)'
      BY <1>2, <1>4 DEF ThreadOK, StackOK
    <2>4. ClientOK(c)'
      BY <1>1, <1>2, <1>4, <1>6, LocalIsEndpoint DEF ClientOK, Busy, Lead, Helpers, Debts
    <2>5. QED
      BY <2>1, <2>2, <2>3, <2>4 DEF IInv
  <1>7. QED
    BY <1>5, <1>6

LEMMA StutterInv ==
  ASSUME IInv, UNCHANGED <<flow, view, history>>
  PROVE  IInv'
  <1>1. Typed'
    BY DEF IInv, Typed, flow, history
  <1>2. \A d \in Client, e \in Endpoint : Held(d, e)' = Held(d, e)
    BY DEF Held, flow
  <1>3. \A d \in Client : ClientOK(d)'
    BY <1>2, ClientStays DEF IInv, flow, history
  <1>4. \A d \in Client, e \in Endpoint : ThreadOK(d, e)'
    BY <1>2, ThreadStays DEF IInv, flow, history
  <1>5. QED
    BY <1>1, <1>3, <1>4 DEF IInv

LEMMA FrontInv ==
  ASSUME IInv, NEW c \in Client, Overview(c) \/ ReadOverview(c) \/ StoreOverview(c)
  PROVE  IInv'
  <1>1. view[c] # "none" /\ UNCHANGED <<conf, request, stack, permit, noted, changed, recorded>>
    BY DEF Overview, ReadOverview, StoreOverview, flow
  <1>2. \E v \in {"none", "read", "store"} :
          /\ view' = [view EXCEPT ![c] = v]
          /\ open' = open \/ (open' = open \ {c} /\ v = "none")
          /\ v = "none" => open' = open \ {c}
    BY DEF Overview, ReadOverview, StoreOverview, Close
  <1>3. QED
    BY <1>1, <1>2, ViewStep

----------------------------------------------------------------------------
(* The invariant.                                                          *)

LEMMA InitIInv == Init => IInv
  <1> SUFFICES ASSUME Init PROVE IInv
    OBVIOUS
  <1>1. /\ request \in [Client -> UNION {Request[c] : c \in Client}]
        /\ \A c \in Client : request[c] \in Request[c]
    <2> DEFINE first(c) == CHOOSE r \in Request[c] : TRUE
    <2>1. \A c \in Client : first(c) \in Request[c]
      BY InvokeAssumption
    <2>2. request = [c \in Client |-> first(c)]
      BY DEF Init
    <2> HIDE DEF first
    <2>3. QED
      BY <2>1, <2>2
  <1>2. << >> \in Seq(FrameSet)
    OBVIOUS
  <1>3. Typed
    BY <1>1, <1>2 DEF Init, Typed, Nothing
  <1>4. \A d \in Client, e \in Endpoint : Held(d, e) = << >>
    BY LocalIsEndpoint DEF Init, Held
  <1>5. \A d \in Client, e \in Endpoint : ThreadOK(d, e)
    BY <1>4, EmptyOK
  <1>6. \A d \in Client : ClientOK(d)
    BY <1>4, LocalIsEndpoint DEF Init, Nothing, ClientOK, Busy, Lead, Helpers, Debts
  <1>7. QED
    BY <1>3, <1>5, <1>6 DEF IInv

LEMMA NextIInv == IInv /\ [Next]_vars => IInv'
  <1> SUFFICES ASSUME IInv, [Next]_vars PROVE IInv'
    OBVIOUS
  <1>1. ASSUME NEW c \in Client, NEW e \in Endpoint, Step(<<c, e>>) PROVE IInv'
    BY <1>1, EnterInv, HookInv, LookInv, SendInv, SpreadInv, UnreachableInv, GatherInv, RemedyInv,
       BackInv, AuditInv DEF Step
  <1>2. ASSUME NEW c \in Client, Ask(c) \/ AtFront(c) PROVE IInv'
    BY <1>2, AskInv, ReplyInv, FrontInv DEF AtFront
  <1>3. CASE Expire
    BY <1>3, StutterInv DEF Expire
  <1>4. CASE UNCHANGED vars
    BY <1>4, StutterInv DEF vars, portal
  <1>5. QED
    BY <1>1, <1>2, <1>3, <1>4, LocalIsEndpoint DEF Next

\* What the pipeline holds of each client, its stack and its workers, always.
THEOREM Invariant == Spec => []IInv
  BY InitIInv, NextIInv, PTL DEF Spec

----------------------------------------------------------------------------
(* The pipeline implements Guardrail.                                      *)

LEMMA Live ==
  ASSUME IInv, NEW c \in Client, NEW e \in Endpoint, Held(c, e) # << >>
  PROVE  c \in open
  BY DEF IInv, ClientOK, Helpers, Busy

LEMMA HookNotes ==
  ASSUME IInv, NEW c \in Client, NEW e \in Endpoint, Hook(<<c, e>>)
  PROVE  Guard!Note(c) \/ UNCHANGED history
  <1> DEFINE f == Held(c, e)[1]
  <1>1. /\ Held(c, e) # << >> /\ f = Head(stack[<<c, e>>]) /\ f.at = "hook"
        /\ FrameOK(conf, request[c], permit[c], noted[c], c, e, f)
    BY TopFacts DEF Hook
  <1>2. <<f.op, e>> \in permit[c] /\ c \in open
    BY <1>1, Live DEF FrameOK
  <1> HIDE DEF f
  <1>3. UNCHANGED <<open, permit, changed, recorded, answer>>
        /\ (noted' = noted \/ noted' = [noted EXCEPT ![c] = @ \cup {<<f.op, e>>}])
    BY <1>1 DEF Hook
  <1>4. QED
    BY <1>2, <1>3 DEF Guard!Note, history

LEMMA SendAlters ==
  ASSUME IInv, NEW c \in Client, NEW e \in Endpoint, Send(<<c, e>>)
  PROVE  Guard!Alter(c) \/ UNCHANGED history
  <1> DEFINE f == Held(c, e)[1]
  <1>1. /\ Held(c, e) # << >> /\ f = Head(stack[<<c, e>>]) /\ f.at = "call"
        /\ FrameOK(conf, request[c], permit[c], noted[c], c, e, f)
    BY TopFacts DEF Send
  <1>2. Loud(f)
    BY <1>1 DEF Send, Loud
  <1>3. <<f.op, e>> \in permit[c] \cap noted[c] /\ c \in open
    BY <1>1, <1>2, Live DEF FrameOK
  <1> HIDE DEF f
  <1>4. UNCHANGED <<open, permit, noted, recorded, answer>>
        /\ (changed' = changed \/ changed' = [changed EXCEPT ![c] = @ \cup {<<f.op, e>>}])
    BY <1>1 DEF Send
  <1>5. QED
    BY <1>3, <1>4 DEF Guard!Alter, history

LEMMA AuditRecords ==
  ASSUME IInv, NEW c \in Client, NEW e \in Endpoint, Audit(<<c, e>>)
  PROVE  Guard!Record(c) \/ UNCHANGED history
  <1> DEFINE f == Held(c, e)[1]
  <1>1. Held(c, e) # << >> /\ f = Head(stack[<<c, e>>]) /\ f \in FrameSet
    BY TopFacts DEF Audit
  <1>2. <<f.op, e>> \in Op \X Endpoint /\ c \in open
    BY <1>1, Live DEF FrameSet
  <1> HIDE DEF f
  <1>3. UNCHANGED <<open, permit, noted, changed, answer>>
        /\ (recorded' = recorded \/ recorded' = [recorded EXCEPT ![c] = @ \cup {<<f.op, e>>}])
    BY <1>1 DEF Audit
  <1>4. QED
    BY <1>2, <1>3 DEF Guard!Record, history

LEMMA AskAsks ==
  ASSUME IInv, NEW c \in Client, Ask(c)
  PROVE  Guard!Ask(c)
  <1>1. /\ c \notin open /\ open' = open \cup {c}
        /\ noted' = [noted EXCEPT ![c] = {}]
        /\ changed' = [changed EXCEPT ![c] = {}]
        /\ recorded' = [recorded EXCEPT ![c] = {}]
        /\ answer' = [answer EXCEPT ![c] = "none"]
    BY DEF Ask
  <1>2. PICK r : permit' = [permit EXCEPT ![c] = Permit(c, r)]
    BY DEF Ask
  <1>3. permit' \in [Client -> SUBSET Change] /\ \A d \in Client \ {c} : permit'[d] = permit[d]
    BY <1>2, PermitTyped DEF IInv, Typed
  <1>4. QED
    BY <1>1, <1>3 DEF Guard!Ask, Change

Answers == {"ok", "unmet", "shown", "denied", "refused", "error", "crash"}

LEMMA SaysFacts ==
  ASSUME NEW c \in Client, NEW f \in FrameSet
  PROVE  LET a == Says(Front[c], f)
         IN /\ a \in Answers
            /\ a \in {"shown", "refused"} => ~Loud(f)
            /\ a = "ok" => f.exc = "none" /\ ~f.bad /\ f.at # "banned"
  <1>1. Front[c] \in {"cli", "mcp", "portal"}
    BY InvokeAssumption
  <1>2. f.exc \in Exception /\ f.bad \in BOOLEAN
    BY DEF FrameSet
  <1>3. CASE f.at = "banned"
    BY <1>3 DEF Says, Answers, Loud
  <1>4. CASE f.at # "banned" /\ f.exc = "none"
    BY <1>2, <1>4 DEF Says, Answers, Loud
  <1>5. CASE f.at # "banned" /\ f.exc = "denied"
    BY <1>5 DEF Says, Answers
  <1>6. CASE f.at # "banned" /\ f.exc = "docker"
    BY <1>6 DEF Says, Answers
  <1>7. CASE f.at # "banned" /\ f.exc = "value"
    BY <1>7 DEF Says, Answers
  <1>8. CASE f.at # "banned" /\ f.exc = "os"
    BY <1>1, <1>8 DEF Says, Answers
  <1>9. CASE f.at # "banned" /\ f.exc = "type"
    BY <1>1, <1>9 DEF Says, Answers
  <1>10. QED
    BY <1>2, <1>3, <1>4, <1>5, <1>6, <1>7, <1>8, <1>9 DEF Exception

LEMMA ReplyAnswers ==
  ASSUME IInv, NEW c \in Client, Reply(c)
  PROVE  Guard!Answer(c)
  <1> DEFINE f == Held(c, Local)[1]
             a == Says(Front[c], f)
  <1>1. PICK place \in {"out", "banned"} : At(<<c, Local>>, place)
    BY DEF Reply, Main
  <1>2. /\ Held(c, Local) # << >> /\ f = Head(stack[<<c, Local>>]) /\ f.at \in {"out", "banned"}
        /\ f \in FrameSet
    BY <1>1, TopFacts, LocalIsEndpoint
  <1>3. Len(Held(c, Local)) = 1
    BY DEF Reply, Held, Main
  <1>4. Bottom(Held(c, Local)) = f
    BY <1>3 DEF Bottom
  <1>5. \A e \in Endpoint \ {Local} : Held(c, e) = << >>
    BY <1>2 DEF IInv, ClientOK, Helpers
  <1>6. c \in open
    BY <1>2, LocalIsEndpoint, Live
  <1>7. ~Loud(f) => changed[c] = {} /\ noted[c] = {}
    BY <1>2, <1>4 DEF IInv, ClientOK, Lead
  <1>8. ASSUME f.exc = "none", ~f.bad, f.at # "banned" PROVE changed[c] \subseteq recorded[c]
    <2> SUFFICES ASSUME NEW x \in changed[c], x \notin recorded[c] PROVE FALSE
      OBVIOUS
    <2>1. PICK e \in Endpoint : \E i \in 1..Len(Held(c, e)) : Carries(Held(c, e)[i], x, e)
      BY <1>6 DEF IInv, ClientOK, Debts
    <2>2. e = Local
      BY <1>5, <2>1
    <2>3. PICK i \in 1..Len(Held(c, Local)) : Carries(Held(c, Local)[i], x, Local)
      BY <2>1, <2>2
    <2>4. i = 1
      BY <1>3, <2>3
    <2>5. QED
      BY <1>2, <1>8, <2>3, <2>4 DEF Carries
  <1> HIDE DEF f
  <1>9. /\ a \in Answers
        /\ a \in {"shown", "refused"} => changed[c] = {} /\ noted[c] = {}
        /\ a = "ok" => changed[c] \subseteq recorded[c]
    BY <1>2, <1>7, <1>8, SaysFacts
  <1>10. /\ open' = open \ {c} /\ answer' = [answer EXCEPT ![c] = a]
         /\ UNCHANGED <<permit, noted, changed, recorded>>
    BY <1>2 DEF Reply, Close, Main
  <1>11. QED
    BY <1>6, <1>9, <1>10 DEF Guard!Answer, Answers

LEMMA ViewAnswers ==
  ASSUME IInv, NEW c \in Client, Overview(c) \/ ReadOverview(c) \/ StoreOverview(c)
  PROVE  Guard!Answer(c) \/ UNCHANGED history
  <1>1. view[c] # "none" /\ UNCHANGED <<permit, noted, changed, recorded>>
    BY DEF Overview, ReadOverview, StoreOverview
  <1>2. c \in open /\ changed[c] = {}
    BY <1>1 DEF IInv, ClientOK, Busy
  <1>3. UNCHANGED <<open, answer>> \/ \E a \in {"ok", "error"} : Close(c, a)
    BY DEF Overview, ReadOverview, StoreOverview
  <1>4. QED
    BY <1>1, <1>2, <1>3 DEF Guard!Answer, Close, history

LEMMA StepRefines ==
  ASSUME IInv, [Next]_vars
  PROVE  [Guard!Next]_(Guard!vars)
  <1>1. ASSUME NEW c \in Client, NEW e \in Endpoint, Step(<<c, e>>)
        PROVE  Guard!Next \/ UNCHANGED history
    BY <1>1, HookNotes, SendAlters, AuditRecords
       DEF Step, Enter, Look, Spread, Unreachable, Gather, Remedy, Back, Guard!Next
  <1>2. ASSUME NEW c \in Client, Ask(c) \/ AtFront(c)
        PROVE  Guard!Next \/ UNCHANGED history
    BY <1>2, AskAsks, ReplyAnswers, ViewAnswers DEF AtFront, Guard!Next
  <1>3. Expire \/ UNCHANGED vars => UNCHANGED history
    BY DEF Expire, vars
  <1>4. Guard!Next \/ UNCHANGED history
    BY <1>1, <1>2, <1>3, LocalIsEndpoint DEF Next
  <1>5. QED
    BY <1>4 DEF Guard!vars, history

\* invoke(): whatever the front, the nesting and the failures, only what the
\* request, its confirmation and the policy of each endpoint allow is changed,
\* after its undo was noted; a preview and a refusal change nothing; and nothing
\* is answered as done that is not recorded.
THEOREM PipelineIsGuarded == Spec => Guarded
  <1>1. Init => Guard!Init
    BY DEF Init, Guard!Init, Nothing, Guard!Nothing
  <1>2. IInv /\ [Next]_vars => [Guard!Next]_(Guard!vars)
    BY StepRefines
  <1>3. QED
    BY <1>1, <1>2, Invariant, PTL DEF Spec, Guarded, Guard!Spec

----------------------------------------------------------------------------
(* The portal's overview.                                                  *)

\* The lock is held by whoever makes the overview, so that no change is
\* acknowledged between reading the machine and keeping what was read.
View(c) ==
  /\ lock = c <=> view[c] \in {"read", "store"}
  /\ view[c] \in {"wait", "read"} => seen[c] = Unseen
  /\ view[c] = "store" => seen[c] \in Nat /\ acked <= seen[c]
  /\ floor[c] <= acked
  /\ view[c] = "none" /\ seen[c] # Unseen => seen[c] >= floor[c]

PortalTyped ==
  /\ ver \in [Endpoint -> Nat] /\ acked \in Nat
  /\ cache \in [of : Nat, fresh : BOOLEAN]
  /\ seen \in [Client -> Nat \cup {Unseen}] /\ floor \in [Client -> Nat]
  /\ lock \in Client \cup {"free"}

PInv ==
  /\ PortalTyped
  /\ acked <= ver[Local]
  /\ cache.fresh => acked <= cache.of
  /\ \A c \in Client : View(c)

LEMMA PortalStays ==
  ASSUME PInv, UNCHANGED portal, ver' = ver
  PROVE  PInv'
  BY DEF PInv, PortalTyped, View, portal

LEMMA SendPortal ==
  ASSUME PInv, NEW c \in Client, NEW e \in Endpoint, Send(<<c, e>>)
  PROVE  PInv'
  <1>1. UNCHANGED portal /\ (ver' = ver \/ ver' = [ver EXCEPT ![e] = @ + 1])
    BY DEF Send
  <1>2. ver \in [Endpoint -> Nat] /\ acked \in Nat /\ acked <= ver[Local]
    BY DEF PInv, PortalTyped
  <1>3. ver' \in [Endpoint -> Nat] /\ acked <= ver'[Local]
    BY <1>1, <1>2, LocalIsEndpoint
  <1>4. QED
    BY <1>1, <1>3 DEF PInv, PortalTyped, View, portal

LEMMA AskPortal ==
  ASSUME IInv, PInv, NEW c \in Client, Ask(c)
  PROVE  PInv'
  <1>1. view[c] = "none"
    BY IdleFacts DEF Ask, Idle
  <1>2. UNCHANGED <<ver, cache, lock, acked>>
    BY DEF Ask
  <1>3. \/ /\ view' = [view EXCEPT ![c] = "wait"] /\ floor' = [floor EXCEPT ![c] = acked]
           /\ seen' = [seen EXCEPT ![c] = Unseen]
        \/ UNCHANGED <<view, floor, seen>>
    BY DEF Ask
  <1>4. view \in [Client -> {"none", "wait", "read", "store"}]
    BY DEF IInv, Typed
  <1>5. PortalTyped'
    BY <1>2, <1>3 DEF PInv, PortalTyped
  <1>6. ASSUME NEW d \in Client PROVE View(d)'
    <2>1. View(d) /\ acked \in Nat
      BY DEF PInv, PortalTyped
    <2>2. CASE UNCHANGED <<view, floor, seen>>
      BY <1>2, <2>1, <2>2 DEF View
    <2>3. CASE ~UNCHANGED <<view, floor, seen>> /\ d = c
      BY <1>1, <1>2, <1>3, <1>4, <2>1, <2>3 DEF View, PInv, PortalTyped
    <2>4. CASE ~UNCHANGED <<view, floor, seen>> /\ d # c
      BY <1>2, <1>3, <1>4, <2>1, <2>4 DEF View, PInv, PortalTyped
    <2>5. QED
      BY <2>2, <2>3, <2>4
  <1>7. QED
    BY <1>2, <1>5, <1>6 DEF PInv

LEMMA ReplyPortal ==
  ASSUME PInv, NEW c \in Client, Reply(c)
  PROVE  PInv'
  <1>1. UNCHANGED <<ver, lock, view, seen, floor>>
    BY DEF Reply
  <1>2. \/ UNCHANGED <<cache, acked>>
        \/ lock = "free" /\ cache' = [cache EXCEPT !.fresh = FALSE] /\ acked' = ver[Local]
    BY DEF Reply
  <1>3. CASE UNCHANGED <<cache, acked>>
    BY <1>1, <1>3 DEF PInv, PortalTyped, View
  <1>4. CASE lock = "free" /\ cache' = [cache EXCEPT !.fresh = FALSE] /\ acked' = ver[Local]
    <2>1. PortalTyped' /\ ~cache'.fresh /\ acked <= acked' /\ acked' <= ver[Local] /\ {acked, acked'} \subseteq Nat
      <3>1. {acked, ver[Local]} \subseteq Nat /\ acked <= ver[Local] /\ cache \in [of : Nat, fresh : BOOLEAN]
        BY LocalIsEndpoint DEF PInv, PortalTyped
      <3>2. cache' \in [of : Nat, fresh : BOOLEAN] /\ ~cache'.fresh
        BY <1>4, <3>1
      <3>3. acked <= acked' /\ acked' <= ver[Local] /\ {acked, acked'} \subseteq Nat
        BY <1>4, <3>1
      <3>4. PortalTyped'
        BY <1>1, <3>2, <3>3 DEF PInv, PortalTyped
      <3>5. QED
        BY <3>2, <3>3, <3>4
    <2>2. ASSUME NEW d \in Client PROVE View(d)'
      <3>1. View(d) /\ view[d] \notin {"read", "store"} /\ floor[d] \in Nat
        BY <1>4, InvokeAssumption DEF PInv, PortalTyped, View
      <3>2. floor[d] <= acked'
        BY <2>1, <3>1 DEF View
      <3>3. QED
        BY <1>1, <3>1, <3>2 DEF View
    <2>3. QED
      BY <1>1, <2>1, <2>2 DEF PInv
  <1>5. QED
    BY <1>2, <1>3, <1>4

LEMMA OverviewPortal ==
  ASSUME IInv, PInv, NEW c \in Client, Overview(c)
  PROVE  PInv'
  <1>1. /\ view[c] = "wait" /\ lock = "free" /\ UNCHANGED <<ver, cache, floor, acked>>
        /\ view \in [Client -> {"none", "wait", "read", "store"}]
    BY DEF Overview, IInv, Typed
  <1>2. \/ /\ cache.fresh /\ view' = [view EXCEPT ![c] = "none"] /\ seen' = [seen EXCEPT ![c] = cache.of]
           /\ lock' = lock
        \/ view' = [view EXCEPT ![c] = "read"] /\ lock' = c /\ seen' = seen
    BY DEF Overview
  <1>3. PortalTyped'
    BY <1>1, <1>2 DEF PInv, PortalTyped
  <1>4. ASSUME NEW d \in Client PROVE View(d)'
    <2>1. View(d) /\ floor[d] \in Nat /\ acked \in Nat /\ cache.of \in Nat /\ (cache.fresh => acked <= cache.of)
      BY DEF PInv, PortalTyped
    <2>2. CASE d = c
      BY <1>1, <1>2, <2>1, <2>2, InvokeAssumption DEF View, PInv, PortalTyped, Unseen
    <2>3. CASE d # c
      BY <1>1, <1>2, <2>1, <2>3, InvokeAssumption DEF View, PInv, PortalTyped
    <2>4. QED
      BY <2>2, <2>3
  <1>5. QED
    BY <1>1, <1>3, <1>4 DEF PInv

LEMMA ReadPortal ==
  ASSUME IInv, PInv, NEW c \in Client, ReadOverview(c)
  PROVE  PInv'
  <1>1. /\ view[c] = "read" /\ lock = c /\ UNCHANGED <<ver, cache, floor, acked>>
        /\ view \in [Client -> {"none", "wait", "read", "store"}]
    BY DEF ReadOverview, IInv, Typed, PInv, View
  <1>2. \/ view' = [view EXCEPT ![c] = "store"] /\ seen' = [seen EXCEPT ![c] = ver[Local]] /\ lock' = lock
        \/ view' = [view EXCEPT ![c] = "none"] /\ lock' = "free" /\ seen' = seen
    BY DEF ReadOverview
  <1>3. ver[Local] \in Nat /\ acked <= ver[Local]
    BY LocalIsEndpoint DEF PInv, PortalTyped
  <1>4. PortalTyped'
    BY <1>1, <1>2, <1>3 DEF PInv, PortalTyped
  <1>5. ASSUME NEW d \in Client PROVE View(d)'
    <2>1. View(d) /\ View(c)
      BY DEF PInv
    <2>2. CASE d = c
      BY <1>1, <1>2, <1>3, <2>1, <2>2, InvokeAssumption DEF View, PInv, PortalTyped
    <2>3. CASE d # c
      BY <1>1, <1>2, <2>1, <2>3, InvokeAssumption DEF View, PInv, PortalTyped
    <2>4. QED
      BY <2>2, <2>3
  <1>6. QED
    BY <1>1, <1>4, <1>5 DEF PInv

LEMMA StorePortal ==
  ASSUME IInv, PInv, NEW c \in Client, StoreOverview(c)
  PROVE  PInv'
  <1>1. /\ view[c] = "store" /\ lock = c /\ lock' = "free" /\ UNCHANGED <<ver, seen, floor, acked>>
        /\ view' = [view EXCEPT ![c] = "none"] /\ cache' = [of |-> seen[c], fresh |-> TRUE]
        /\ view \in [Client -> {"none", "wait", "read", "store"}]
    BY DEF StoreOverview, IInv, Typed, PInv, View
  <1>2. seen[c] \in Nat /\ acked <= seen[c]
    BY <1>1 DEF PInv, View
  <1>3. PortalTyped' /\ acked <= cache'.of
    BY <1>1, <1>2 DEF PInv, PortalTyped
  <1>4. ASSUME NEW d \in Client PROVE View(d)'
    <2>1. View(d) /\ floor[d] \in Nat /\ acked \in Nat
      BY DEF PInv, PortalTyped
    <2>2. CASE d = c
      BY <1>1, <1>2, <2>1, <2>2, InvokeAssumption DEF View
    <2>3. CASE d # c
      BY <1>1, <2>1, <2>3, InvokeAssumption DEF View
    <2>4. QED
      BY <2>2, <2>3
  <1>5. QED
    BY <1>1, <1>3, <1>4 DEF PInv

LEMMA NextPInv == IInv /\ PInv /\ [Next]_vars => PInv'
  <1> SUFFICES ASSUME IInv, PInv, [Next]_vars PROVE PInv'
    OBVIOUS
  <1>1. ASSUME NEW c \in Client, NEW e \in Endpoint, Step(<<c, e>>) PROVE PInv'
    BY <1>1, PortalStays, SendPortal
       DEF Step, Enter, Hook, Look, Spread, Unreachable, Gather, Remedy, Back, Audit
  <1>2. ASSUME NEW c \in Client, Ask(c) \/ AtFront(c) PROVE PInv'
    BY <1>2, AskPortal, ReplyPortal, OverviewPortal, ReadPortal, StorePortal DEF AtFront
  <1>3. CASE Expire
    BY <1>3 DEF Expire, PInv, PortalTyped, View
  <1>4. CASE UNCHANGED vars
    BY <1>4, PortalStays DEF vars
  <1>5. QED
    BY <1>1, <1>2, <1>3, <1>4, LocalIsEndpoint DEF Next

\* cached_overview and invalidate: whoever asks for the overview after the
\* portal has acknowledged a change sees it, whatever the other requests, the
\* changes made past the portal and the time CACHE_S keeps an overview.
THEOREM OverviewIsCurrent == Spec => []OverviewShowsChanges
  <1>1. Init => PInv
    BY LocalIsEndpoint, InvokeAssumption DEF Init, PInv, PortalTyped, View, Unseen
  <1>2. PInv => OverviewShowsChanges
    BY DEF PInv, View, OverviewShowsChanges
  <1>3. QED
    BY <1>1, <1>2, NextPInv, Invariant, PTL DEF Spec

=============================================================================
