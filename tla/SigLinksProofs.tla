----------------------------- MODULE SigLinksProofs -----------------------------
(***************************************************************************)
(* Theorems about the SCTP links of the signalling gateway, for any number *)
(* of links, peers, faults and commands.                                   *)
(***************************************************************************)
EXTENDS SigLinks, TLAPS, FiniteSetTheorems

-----------------------------------------------------------------------------
(* Types.                                                                   *)

Context == [status : {"unset", "inactive", "active"}, client : BOOLEAN, peer : Peers \cup {None},
            conn : {"none", "open", "broken"}, asked : BOOLEAN, accepted : BOOLEAN,
            alarm : BOOLEAN, clearing : {"no", "timer", "queued"}]
Waiting == [peer : Peers, freed : BOOLEAN]
Association == [there : BOOLEAN, setup : BOOLEAN, timers : Nat]
Answers == {"yes", "no", "oldYes", "oldNo"}
Gateway == [running : BOOLEAN, ctx : [Idx -> Context],
            clients_links : [Idx -> Waiting \cup {None}], servers : [Locals -> Nat],
            retry : [Idx -> Nat], failing : SUBSET Idx, stale : SUBSET Idx,
            amf : [Idx -> Association], events : [Idx -> SUBSET Answers]]

\* Two states of the process agree on an index; on every index but one.
Same(g, h, j) ==
  /\ h.ctx[j] = g.ctx[j] /\ h.clients_links[j] = g.clients_links[j] /\ h.retry[j] = g.retry[j]
  /\ (j \in h.failing <=> j \in g.failing) /\ (j \in h.stale <=> j \in g.stale)
  /\ h.amf[j] = g.amf[j] /\ h.events[j] = g.events[j]
Only(g, h, i) == \A j \in Idx : j # i => Same(g, h, j)

\* On index i they differ in the parts F at most, elsewhere not at all.
Differs(g, h, i, F) ==
  /\ Only(g, h, i) /\ h.running = g.running /\ h.servers = g.servers
  /\ "ctx" \notin F => h.ctx[i] = g.ctx[i]
  /\ "links" \notin F => h.clients_links[i] = g.clients_links[i]
  /\ "retry" \notin F => h.retry[i] = g.retry[i]
  /\ "failing" \notin F => (i \in h.failing <=> i \in g.failing)
  /\ "stale" \notin F => (i \in h.stale <=> i \in g.stale)
  /\ "amf" \notin F => h.amf[i] = g.amf[i]
  /\ "events" \notin F => h.events[i] = g.events[i]


\* Two steps one after the other on one index.
LEMMA DiffersTwice ==
  ASSUME NEW g, NEW h, NEW k, NEW i, NEW E, NEW F, Differs(g, h, i, E), Differs(h, k, i, F)
  PROVE  Differs(g, k, i, E \cup F)
<1>1. Only(g, k, i)
      BY DEF Differs, Only, Same
<1> QED
    BY <1>1 DEF Differs

\* One part of the process is written, at one index.
PutCtx(g, i, x) == [g EXCEPT !.ctx[i] = x]
PutLinks(g, i, x) == [g EXCEPT !.clients_links[i] = x]
PutRetry(g, i, x) == [g EXCEPT !.retry[i] = x]
PutAmf(g, i, x) == [g EXCEPT !.amf[i] = x]
PutEvents(g, i, x) == [g EXCEPT !.events[i] = x]
PutFailing(g, X) == [g EXCEPT !.failing = X]
PutStale(g, X) == [g EXCEPT !.stale = X]

\* The rest stays: ctx.
LEMMA PutCtxIs ==
  ASSUME NEW g \in Gateway, NEW i \in Idx, NEW x \in Context
  PROVE  PutCtx(g, i, x) \in Gateway /\ PutCtx(g, i, x).ctx[i] = x /\ Differs(g, PutCtx(g, i, x), i, {"ctx"})
<1>h. PICK h : h = [g EXCEPT !.ctx[i] = x]
      OBVIOUS
<1>1. h.ctx = [g.ctx EXCEPT ![i] = x]
      BY <1>h DEF Gateway
<1>2. h.ctx \in [Idx -> Context]
      BY <1>1 DEF Gateway
<1>3. /\ h.running = g.running /\ h.clients_links = g.clients_links /\ h.servers = g.servers /\ h.retry = g.retry
      /\ h.failing = g.failing /\ h.stale = g.stale /\ h.amf = g.amf /\ h.events = g.events
      BY <1>h DEF Gateway
<1>4. h \in Gateway
      BY <1>h, <1>2 DEF Gateway
<1>5. h.ctx[i] = x /\ \A j \in Idx : j # i => h.ctx[j] = g.ctx[j]
      BY <1>1 DEF Gateway
<1>6. Only(g, h, i)
      BY <1>3, <1>5 DEF Only, Same
<1> QED
    BY <1>h, <1>3, <1>4, <1>5, <1>6 DEF Differs, PutCtx

\* The rest stays: clients_links.
LEMMA PutLinksIs ==
  ASSUME NEW g \in Gateway, NEW i \in Idx, NEW x \in Waiting \cup {None}
  PROVE  PutLinks(g, i, x) \in Gateway /\ PutLinks(g, i, x).clients_links[i] = x /\ Differs(g, PutLinks(g, i, x), i, {"links"})
<1>h. PICK h : h = [g EXCEPT !.clients_links[i] = x]
      OBVIOUS
<1>1. h.clients_links = [g.clients_links EXCEPT ![i] = x]
      BY <1>h DEF Gateway
<1>2. h.clients_links \in [Idx -> Waiting \cup {None}]
      BY <1>1 DEF Gateway
<1>3. /\ h.running = g.running /\ h.ctx = g.ctx /\ h.servers = g.servers /\ h.retry = g.retry
      /\ h.failing = g.failing /\ h.stale = g.stale /\ h.amf = g.amf /\ h.events = g.events
      BY <1>h DEF Gateway
<1>4. h \in Gateway
      BY <1>h, <1>2 DEF Gateway
<1>5. h.clients_links[i] = x /\ \A j \in Idx : j # i => h.clients_links[j] = g.clients_links[j]
      BY <1>1 DEF Gateway
<1>6. Only(g, h, i)
      BY <1>3, <1>5 DEF Only, Same
<1> QED
    BY <1>h, <1>3, <1>4, <1>5, <1>6 DEF Differs, PutLinks

\* The rest stays: retry.
LEMMA PutRetryIs ==
  ASSUME NEW g \in Gateway, NEW i \in Idx, NEW x \in Nat
  PROVE  PutRetry(g, i, x) \in Gateway /\ PutRetry(g, i, x).retry[i] = x /\ Differs(g, PutRetry(g, i, x), i, {"retry"})
<1>h. PICK h : h = [g EXCEPT !.retry[i] = x]
      OBVIOUS
<1>1. h.retry = [g.retry EXCEPT ![i] = x]
      BY <1>h DEF Gateway
<1>2. h.retry \in [Idx -> Nat]
      BY <1>1 DEF Gateway
<1>3. /\ h.running = g.running /\ h.ctx = g.ctx /\ h.clients_links = g.clients_links /\ h.servers = g.servers
      /\ h.failing = g.failing /\ h.stale = g.stale /\ h.amf = g.amf /\ h.events = g.events
      BY <1>h DEF Gateway
<1>4. h \in Gateway
      BY <1>h, <1>2 DEF Gateway
<1>5. h.retry[i] = x /\ \A j \in Idx : j # i => h.retry[j] = g.retry[j]
      BY <1>1 DEF Gateway
<1>6. Only(g, h, i)
      BY <1>3, <1>5 DEF Only, Same
<1> QED
    BY <1>h, <1>3, <1>4, <1>5, <1>6 DEF Differs, PutRetry

\* The rest stays: amf.
LEMMA PutAmfIs ==
  ASSUME NEW g \in Gateway, NEW i \in Idx, NEW x \in Association
  PROVE  PutAmf(g, i, x) \in Gateway /\ PutAmf(g, i, x).amf[i] = x /\ Differs(g, PutAmf(g, i, x), i, {"amf"})
<1>h. PICK h : h = [g EXCEPT !.amf[i] = x]
      OBVIOUS
<1>1. h.amf = [g.amf EXCEPT ![i] = x]
      BY <1>h DEF Gateway
<1>2. h.amf \in [Idx -> Association]
      BY <1>1 DEF Gateway
<1>3. /\ h.running = g.running /\ h.ctx = g.ctx /\ h.clients_links = g.clients_links /\ h.servers = g.servers
      /\ h.retry = g.retry /\ h.failing = g.failing /\ h.stale = g.stale /\ h.events = g.events
      BY <1>h DEF Gateway
<1>4. h \in Gateway
      BY <1>h, <1>2 DEF Gateway
<1>5. h.amf[i] = x /\ \A j \in Idx : j # i => h.amf[j] = g.amf[j]
      BY <1>1 DEF Gateway
<1>6. Only(g, h, i)
      BY <1>3, <1>5 DEF Only, Same
<1> QED
    BY <1>h, <1>3, <1>4, <1>5, <1>6 DEF Differs, PutAmf

\* The rest stays: events.
LEMMA PutEventsIs ==
  ASSUME NEW g \in Gateway, NEW i \in Idx, NEW x \in SUBSET Answers
  PROVE  PutEvents(g, i, x) \in Gateway /\ PutEvents(g, i, x).events[i] = x /\ Differs(g, PutEvents(g, i, x), i, {"events"})
<1>h. PICK h : h = [g EXCEPT !.events[i] = x]
      OBVIOUS
<1>1. h.events = [g.events EXCEPT ![i] = x]
      BY <1>h DEF Gateway
<1>2. h.events \in [Idx -> SUBSET Answers]
      BY <1>1 DEF Gateway
<1>3. /\ h.running = g.running /\ h.ctx = g.ctx /\ h.clients_links = g.clients_links /\ h.servers = g.servers
      /\ h.retry = g.retry /\ h.failing = g.failing /\ h.stale = g.stale /\ h.amf = g.amf
      BY <1>h DEF Gateway
<1>4. h \in Gateway
      BY <1>h, <1>2 DEF Gateway
<1>5. h.events[i] = x /\ \A j \in Idx : j # i => h.events[j] = g.events[j]
      BY <1>1 DEF Gateway
<1>6. Only(g, h, i)
      BY <1>3, <1>5 DEF Only, Same
<1> QED
    BY <1>h, <1>3, <1>4, <1>5, <1>6 DEF Differs, PutEvents

\* The rest stays: failing.
LEMMA PutFailingIs ==
  ASSUME NEW g \in Gateway, NEW i \in Idx, NEW X \in SUBSET Idx,
         \A j \in Idx : j # i => (j \in X <=> j \in g.failing)
  PROVE  PutFailing(g, X) \in Gateway /\ PutFailing(g, X).failing = X /\ Differs(g, PutFailing(g, X), i, {"failing"})
<1>h. PICK h : h = [g EXCEPT !.failing = X]
      OBVIOUS
<1>1. h.failing = X
      BY <1>h DEF Gateway
<1>2. /\ h.running = g.running /\ h.ctx = g.ctx /\ h.clients_links = g.clients_links /\ h.servers = g.servers
      /\ h.retry = g.retry /\ h.stale = g.stale /\ h.amf = g.amf /\ h.events = g.events
      BY <1>h DEF Gateway
<1>3. h \in Gateway
      BY <1>h DEF Gateway
<1>4. Only(g, h, i)
      BY <1>1, <1>2 DEF Only, Same
<1> QED
    BY <1>h, <1>1, <1>2, <1>3, <1>4 DEF Differs, PutFailing

\* The rest stays: stale.
LEMMA PutStaleIs ==
  ASSUME NEW g \in Gateway, NEW i \in Idx, NEW X \in SUBSET Idx,
         \A j \in Idx : j # i => (j \in X <=> j \in g.stale)
  PROVE  PutStale(g, X) \in Gateway /\ PutStale(g, X).stale = X /\ Differs(g, PutStale(g, X), i, {"stale"})
<1>h. PICK h : h = [g EXCEPT !.stale = X]
      OBVIOUS
<1>1. h.stale = X
      BY <1>h DEF Gateway
<1>2. /\ h.running = g.running /\ h.ctx = g.ctx /\ h.clients_links = g.clients_links /\ h.servers = g.servers
      /\ h.retry = g.retry /\ h.failing = g.failing /\ h.amf = g.amf /\ h.events = g.events
      BY <1>h DEF Gateway
<1>3. h \in Gateway
      BY <1>h DEF Gateway
<1>4. Only(g, h, i)
      BY <1>1, <1>2 DEF Only, Same
<1> QED
    BY <1>h, <1>1, <1>2, <1>3, <1>4 DEF Differs, PutStale

\* What is true of every context: an answer that counts is the one the AMF gave on
\* the open connection, and a context that is not set holds nothing but a wish.
CtxInv(g, i) ==
  /\ "yes" \in g.events[i] => g.ctx[i].accepted
  /\ g.ctx[i].accepted \/ g.ctx[i].asked => g.ctx[i].conn = "open"
  /\ g.amf[i].setup => g.amf[i].there
  /\ g.ctx[i].status = "unset" => g.ctx[i].conn = "none"
  /\ g.ctx[i].status = "unset" /\ ~g.ctx[i].client => g.ctx[i].peer = None

\* A connection is closed: its answers are old from now on.
LEMMA ClosedIs ==
  ASSUME NEW g \in Gateway, NEW i \in Idx
  PROVE  /\ Closed(g, i) \in Gateway /\ Differs(g, Closed(g, i), i, {"ctx", "events"})
         /\ Closed(g, i).ctx[i] = [Ended(g.ctx[i]) EXCEPT !.conn = "none"]
         /\ "yes" \notin Closed(g, i).events[i] /\ Closed(g, i).ctx[i] \in Context
<1>c. PICK c : c = [Ended(g.ctx[i]) EXCEPT !.conn = "none"]
      OBVIOUS
<1>e. PICK e : e = Outdated(g.events[i])
      OBVIOUS
<1>k. PICK k : k = PutCtx(g, i, c)
      OBVIOUS
<1>1. g.ctx[i] \in Context /\ g.events[i] \in SUBSET Answers
      BY DEF Gateway
<1>2. c \in Context
      BY <1>c, <1>1 DEF Context, Ended
<1>3. e \in SUBSET Answers /\ "yes" \notin e
      BY <1>e, <1>1 DEF Outdated, Answers
<1>4. k \in Gateway /\ k.ctx[i] = c /\ Differs(g, k, i, {"ctx"})
      BY <1>2, <1>k, PutCtxIs
<1>5. Closed(g, i) = PutEvents(k, i, e)
      BY <1>c, <1>e, <1>k DEF Closed, Gateway, PutCtx, PutEvents
<1>h. PICK h : h = PutEvents(k, i, e)
      OBVIOUS
<1>6. h \in Gateway /\ h.events[i] = e /\ Differs(k, h, i, {"events"})
      BY <1>3, <1>4, <1>h, PutEventsIs
<1>7. Differs(g, h, i, {"ctx"} \cup {"events"})
      BY <1>4, <1>6, DiffersTwice
<1>8. {"ctx"} \cup {"events"} = {"ctx", "events"}
      OBVIOUS
<1>9. h.ctx[i] = c
      BY <1>4, <1>6 DEF Differs
<1> QED
    BY <1>c, <1>h, <1>2, <1>3, <1>5, <1>6, <1>7, <1>8, <1>9

-----------------------------------------------------------------------------
(* What the functions of SctpLayer and AsmManager do to one index.          *)

\* The association is forgotten.
LEMMA RestartIs ==
  ASSUME NEW g \in Gateway, NEW i \in Idx
  PROVE  /\ Restart(g, i) \in Gateway /\ Differs(g, Restart(g, i), i, {"amf"})
         /\ Restart(g, i).amf[i].there = g.amf[i].there /\ ~Restart(g, i).amf[i].setup
<1>a. PICK a : a = [g.amf[i] EXCEPT !.setup = FALSE, !.timers = More(g.amf[i].timers)]
      OBVIOUS
<1>1. g.amf[i] \in Association
      BY DEF Gateway
<1>2. More(g.amf[i].timers) \in Nat
      BY <1>1 DEF Association, More
<1>3. a \in Association /\ a.there = g.amf[i].there /\ ~a.setup
      BY <1>a, <1>1, <1>2 DEF Association
<1>4. Restart(g, i) = PutAmf(g, i, a)
      BY <1>a, <1>1 DEF Restart, PutAmf, Gateway, Association
<1> QED
    BY <1>3, <1>4, PutAmfIs

\* An NG setup request leaves, or nothing happens.
LEMMA RequestIs ==
  ASSUME NEW g \in Gateway, NEW i \in Idx
  PROVE  /\ Request(g, i) \in Gateway /\ Differs(g, Request(g, i), i, {"ctx"})
         /\ Request(g, i).ctx[i] \in {g.ctx[i], [g.ctx[i] EXCEPT !.asked = TRUE]}
<1>c. PICK c : c = [g.ctx[i] EXCEPT !.asked = TRUE]
      OBVIOUS
<1>0. g.ctx[i] \in Context
      BY DEF Gateway
<1>1. c \in Context
      BY <1>c, <1>0 DEF Context
<1>2. Request(g, i) = PutCtx(g, i, c) \/ Request(g, i) = g
      BY <1>c DEF Request, PutCtx
<1>3. Differs(g, g, i, {"ctx"})
      BY DEF Differs, Only, Same
<1> QED
    BY <1>c, <1>1, <1>2, <1>3, PutCtxIs

\* A client context gets its peer, and its connection when the peer answers.
LEMMA AddSctpClientIs ==
  ASSUME NEW g \in Gateway, NEW i \in Idx, NEW p \in Peers
  PROVE  LET h == AddSctpClient(g, i, p) IN
         /\ h \in Gateway /\ Differs(g, h, i, {"ctx", "events"}) /\ "yes" \notin h.events[i]
         /\ h.ctx[i].client /\ h.ctx[i].peer = p /\ ~h.ctx[i].accepted /\ ~h.ctx[i].asked
         /\ h.ctx[i].alarm = g.ctx[i].alarm /\ h.ctx[i].clearing = g.ctx[i].clearing
         /\ p \in up => h.ctx[i].status = "active" /\ h.ctx[i].conn = "open"
         /\ p \notin up => h.ctx[i].status = g.ctx[i].status /\ h.ctx[i].conn = "none"
<1>k. PICK k : k = Closed(g, i)
      OBVIOUS
<1>c. PICK c : c = [k.ctx[i] EXCEPT !.client = TRUE, !.peer = p]
      OBVIOUS
<1>d. PICK d : d = IF p \in up THEN Connected(c) ELSE c
      OBVIOUS
<1>1. /\ k \in Gateway /\ Differs(g, k, i, {"ctx", "events"}) /\ "yes" \notin k.events[i]
      /\ k.ctx[i] = [Ended(g.ctx[i]) EXCEPT !.conn = "none"] /\ k.ctx[i] \in Context
      BY <1>k, ClosedIs
<1>2. g.ctx[i] \in Context
      BY DEF Gateway
<1>3. /\ ~k.ctx[i].accepted /\ ~k.ctx[i].asked /\ k.ctx[i].conn = "none" /\ k.ctx[i].status = g.ctx[i].status
      /\ k.ctx[i].alarm = g.ctx[i].alarm /\ k.ctx[i].clearing = g.ctx[i].clearing
      BY <1>1, <1>2 DEF Context, Ended
<1>4. /\ c \in Context /\ c.client /\ c.peer = p /\ ~c.accepted /\ ~c.asked /\ c.conn = "none"
      /\ c.status = g.ctx[i].status /\ c.alarm = g.ctx[i].alarm /\ c.clearing = g.ctx[i].clearing
      BY <1>c, <1>1, <1>3 DEF Context
<1>5. /\ d \in Context /\ d.client /\ d.peer = p /\ ~d.accepted /\ ~d.asked
      /\ d.alarm = g.ctx[i].alarm /\ d.clearing = g.ctx[i].clearing
      /\ p \in up => d.status = "active" /\ d.conn = "open"
      /\ p \notin up => d.status = g.ctx[i].status /\ d.conn = "none"
      BY <1>d, <1>4 DEF Context, Connected
<1>6. AddSctpClient(g, i, p) = PutCtx(k, i, d)
  <2>1. CASE p \in up
    <3>1. PICK h : h = [k EXCEPT !.ctx[i] = c]
          OBVIOUS
    <3>2. h = [k EXCEPT !.ctx[i].client = TRUE, !.ctx[i].peer = p]
          BY <1>c, <1>1, <3>1 DEF Gateway
    <3>3. AddSctpClient(g, i, p) = [h EXCEPT !.ctx[i] = Connected(h.ctx[i])]
          BY <1>k, <2>1, <3>2 DEF AddSctpClient
    <3>4. h.ctx[i] = c /\ h.ctx = [k.ctx EXCEPT ![i] = c]
          BY <1>1, <3>1 DEF Gateway
    <3>5. AddSctpClient(g, i, p) = [h EXCEPT !.ctx[i] = d]
          BY <1>d, <2>1, <3>3, <3>4
    <3> QED
        BY <1>1, <3>1, <3>5 DEF PutCtx, Gateway
  <2>2. CASE p \notin up
    <3>1. PICK h : h = [k EXCEPT !.ctx[i] = c]
          OBVIOUS
    <3>2. h = [k EXCEPT !.ctx[i].client = TRUE, !.ctx[i].peer = p]
          BY <1>c, <1>1, <3>1 DEF Gateway
    <3>3. AddSctpClient(g, i, p) = h
          BY <1>k, <2>2, <3>2 DEF AddSctpClient
    <3> QED
        BY <1>d, <2>2, <3>1, <3>3 DEF PutCtx
  <2> QED
      BY <2>1, <2>2
<1>7. PICK h : h = PutCtx(k, i, d)
      OBVIOUS
<1>8. h \in Gateway /\ h.ctx[i] = d /\ Differs(k, h, i, {"ctx"})
      BY <1>1, <1>5, <1>7, PutCtxIs
<1>9. Differs(g, h, i, {"ctx", "events"} \cup {"ctx"})
      BY <1>1, <1>8, DiffersTwice
<1>10. {"ctx", "events"} \cup {"ctx"} = {"ctx", "events"}
      OBVIOUS
<1>11. h.events[i] = k.events[i]
      BY <1>8 DEF Differs
<1> QED
    BY <1>1, <1>5, <1>6, <1>7, <1>8, <1>9, <1>10, <1>11

\* A context is given up; its timers go on without it.
LEMMA ReleasedIs ==
  ASSUME NEW g \in Gateway, NEW i \in Idx
  PROVE  LET h == Released(g, i) IN
         /\ h \in Gateway /\ Differs(g, h, i, {"ctx", "events", "stale"})
         /\ h.ctx[i] = Zeroed /\ "yes" \notin h.events[i]
<1>k. PICK k : k = Closed(g, i)
      OBVIOUS
<1>z. PICK Z : Z = IF g.ctx[i].clearing = "no" THEN k.stale ELSE k.stale \cup {i}
      OBVIOUS
<1>1. k \in Gateway /\ Differs(g, k, i, {"ctx", "events"}) /\ "yes" \notin k.events[i]
      BY <1>k, ClosedIs
<1>2. Zeroed \in Context
      BY DEF Zeroed, Context
<1>m. PICK m : m = PutCtx(k, i, Zeroed)
      OBVIOUS
<1>3. m \in Gateway /\ m.ctx[i] = Zeroed /\ Differs(k, m, i, {"ctx"})
      BY <1>m, <1>1, <1>2, PutCtxIs
<1>4. m.stale = k.stale
      BY <1>m, <1>1 DEF PutCtx, Gateway
<1>5. Z \in SUBSET Idx /\ \A j \in Idx : j # i => (j \in Z <=> j \in m.stale)
      BY <1>z, <1>1, <1>4 DEF Gateway
<1>h. PICK h : h = PutStale(m, Z)
      OBVIOUS
<1>6. h \in Gateway /\ Differs(m, h, i, {"stale"})
      BY <1>h, <1>3, <1>5, PutStaleIs
<1>7. Released(g, i) = h
      BY <1>k, <1>z, <1>m, <1>h, <1>1, <1>4 DEF Released, PutCtx, PutStale, Gateway
<1>8. Differs(g, m, i, {"ctx", "events"} \cup {"ctx"})
      BY <1>1, <1>3, DiffersTwice
<1>9. Differs(g, h, i, ({"ctx", "events"} \cup {"ctx"}) \cup {"stale"})
      BY <1>6, <1>8, DiffersTwice
<1>10. ({"ctx", "events"} \cup {"ctx"}) \cup {"stale"} = {"ctx", "events", "stale"}
      OBVIOUS
<1>11. h.ctx[i] = Zeroed /\ h.events[i] = k.events[i]
      BY <1>3, <1>6 DEF Differs
<1> QED
    BY <1>1, <1>6, <1>7, <1>9, <1>10, <1>11

\* A link's listener loses a reference.
LEMMA UnlistenIs ==
  ASSUME NEW g \in Gateway, NEW l \in Locals
  PROVE  LET h == Unlisten(g, l) IN
         /\ h \in Gateway /\ h.running = g.running /\ \A j \in Idx : Same(g, h, j)
         /\ h.servers = [g.servers EXCEPT ![l] = Fewer(g.servers[l])]
<1>h. PICK h : h = Unlisten(g, l)
      OBVIOUS
<1>1. h = [g EXCEPT !.servers[l] = Fewer(g.servers[l])]
      BY <1>h DEF Unlisten, Gateway
<1>2. h.servers = [g.servers EXCEPT ![l] = Fewer(g.servers[l])]
      BY <1>1 DEF Gateway
<1>3. g.servers[l] \in Nat
      BY DEF Gateway
<1>4. Fewer(g.servers[l]) \in Nat
      BY <1>3 DEF Fewer
<1>5. h.servers \in [Locals -> Nat]
      BY <1>2, <1>4 DEF Gateway
<1>6. /\ h.running = g.running /\ h.ctx = g.ctx /\ h.clients_links = g.clients_links /\ h.retry = g.retry
      /\ h.failing = g.failing /\ h.stale = g.stale /\ h.amf = g.amf /\ h.events = g.events
      BY <1>1 DEF Gateway
<1>7. h \in Gateway
      BY <1>1, <1>5 DEF Gateway
<1>8. \A j \in Idx : Same(g, h, j)
      BY <1>6 DEF Same
<1> QED
    BY <1>h, <1>2, <1>6, <1>7, <1>8

\* A link's listener gains a reference.
Listen(g, l) == [g EXCEPT !.servers[l] = g.servers[l] + 1]
\* Nothing else of the gateway changes, and no other index.
LEMMA ListenIs ==
  ASSUME NEW g \in Gateway, NEW l \in Locals
  PROVE  LET h == Listen(g, l) IN
         /\ h \in Gateway /\ h.running = g.running /\ \A j \in Idx : Same(g, h, j)
         /\ h.servers = [g.servers EXCEPT ![l] = g.servers[l] + 1]
<1>h. PICK h : h = Listen(g, l)
      OBVIOUS
<1>1. h = [g EXCEPT !.servers[l] = g.servers[l] + 1]
      BY <1>h DEF Listen
<1>2. h.servers = [g.servers EXCEPT ![l] = g.servers[l] + 1]
      BY <1>1 DEF Gateway
<1>3. g.servers[l] + 1 \in Nat
      BY DEF Gateway
<1>5. h.servers \in [Locals -> Nat]
      BY <1>2, <1>3 DEF Gateway
<1>6. /\ h.running = g.running /\ h.ctx = g.ctx /\ h.clients_links = g.clients_links /\ h.retry = g.retry
      /\ h.failing = g.failing /\ h.stale = g.stale /\ h.amf = g.amf /\ h.events = g.events
      BY <1>1 DEF Gateway
<1>7. h \in Gateway
      BY <1>1, <1>5 DEF Gateway
<1>8. \A j \in Idx : Same(g, h, j)
      BY <1>6 DEF Same
<1> QED
    BY <1>h, <1>2, <1>6, <1>7, <1>8

\* The link's entry is freed, a pointer to it stays.
LEMMA ForgottenIs ==
  ASSUME NEW g \in Gateway, NEW i \in Idx
  PROVE  LET h == Forgotten(g, i) IN
         /\ h \in Gateway /\ Differs(g, h, i, {"links"})
         /\ g.clients_links[i] = None => h.clients_links[i] = None
<1>x. PICK x : x = IF g.clients_links[i] = None THEN g.clients_links[i]
                   ELSE [g.clients_links[i] EXCEPT !.freed = TRUE]
      OBVIOUS
<1>1. g.clients_links[i] \in Waiting \cup {None}
      BY DEF Gateway
<1>2. x \in Waiting \cup {None}
      BY <1>x, <1>1 DEF Waiting
<1>3. Forgotten(g, i) = PutLinks(g, i, x)
      BY <1>x DEF Forgotten, PutLinks, Gateway
<1>4. /\ PutLinks(g, i, x) \in Gateway /\ PutLinks(g, i, x).clients_links[i] = x
      /\ Differs(g, PutLinks(g, i, x), i, {"links"})
      BY <1>2, PutLinksIs
<1>5. g.clients_links[i] = None => x = None
      BY <1>x
<1> QED
    BY <1>3, <1>4, <1>5

\* What removing a link does: the context is given up when it is of the link's kind, the
\* listener of a server link loses a reference, nothing happens at other indexes.
Removed(g, h, c) ==
  /\ h \in Gateway /\ h.running = g.running /\ Only(g, h, c.idx) /\ h.amf[c.idx] = g.amf[c.idx]
  /\ h.servers = IF c.work = "client" THEN g.servers
                 ELSE [g.servers EXCEPT ![c.local] = Fewer(g.servers[c.local])]
  /\ \/ h.ctx[c.idx] = g.ctx[c.idx] /\ h.events[c.idx] = g.events[c.idx]
     \/ h.ctx[c.idx] = Zeroed /\ "yes" \notin h.events[c.idx]
  /\ g.ctx[c.idx].status # "unset" /\ (g.ctx[c.idx].client <=> c.work = "client") => h.ctx[c.idx] = Zeroed
  /\ g.clients_links[c.idx] = None => h.clients_links[c.idx] = None
  /\ g.ctx[c.idx].status # "unset" /\ g.ctx[c.idx].client /\ c.work = "client" => h.clients_links[c.idx] = None

\* CfgRmvSctp does it.
LEMMA CfgRmvSctpIs ==
  ASSUME NEW g \in Gateway, NEW c \in Links, Proper(c)
  PROVE  Removed(g, CfgRmvSctp(g, c), c)
<1>i. PICK i : i = c.idx
      OBVIOUS
<1>0. i \in Idx /\ c.work \in Work /\ g.ctx[i] \in Context
      BY <1>i DEF Links, Gateway
<1>1. CASE c.work = "client"
  <2>1. CASE g.ctx[i].status # "unset" /\ g.ctx[i].client
    <3>k. PICK k : k = Released(g, i)
          OBVIOUS
    <3>m. PICK m : m = PutLinks(k, i, None)
          OBVIOUS
    <3>h. PICK h : h = Forgotten(m, i)
          OBVIOUS
    <3>1. CfgRmvSctp(g, c) = h
          BY <1>i, <1>1, <2>1, <3>k, <3>m, <3>h DEF CfgRmvSctp, PutLinks
    <3>2. k \in Gateway /\ Differs(g, k, i, {"ctx", "events", "stale"}) /\ k.ctx[i] = Zeroed /\ "yes" \notin k.events[i]
          BY <1>0, <3>k, ReleasedIs
    <3>3. m \in Gateway /\ m.clients_links[i] = None /\ Differs(k, m, i, {"links"})
          BY <1>0, <3>m, <3>2, PutLinksIs
    <3>4. h \in Gateway /\ Differs(m, h, i, {"links"}) /\ h.clients_links[i] = None
          BY <1>0, <3>h, <3>3, ForgottenIs
    <3>5. h.ctx[i] = Zeroed /\ "yes" \notin h.events[i] /\ h.amf[i] = g.amf[i]
          BY <3>2, <3>3, <3>4 DEF Differs
    <3>6. Only(g, h, i)
          BY <3>2, <3>3, <3>4 DEF Differs, Only, Same
    <3>7. h.running = g.running /\ h.servers = g.servers
          BY <3>2, <3>3, <3>4 DEF Differs
    <3> QED
        BY <1>i, <1>1, <3>1, <3>4, <3>5, <3>6, <3>7 DEF Removed
  <2>2. CASE ~(g.ctx[i].status # "unset" /\ g.ctx[i].client)
    <3>h. PICK h : h = Forgotten(g, i)
          OBVIOUS
    <3>1. CfgRmvSctp(g, c) = h
          BY <1>i, <1>1, <2>2, <3>h DEF CfgRmvSctp
    <3>2. h \in Gateway /\ Differs(g, h, i, {"links"}) /\ (g.clients_links[i] = None => h.clients_links[i] = None)
          BY <1>0, <3>h, ForgottenIs
    <3> QED
        BY <1>i, <1>1, <2>2, <3>1, <3>2 DEF Removed, Differs
  <2> QED
      BY <2>1, <2>2
<1>2. CASE c.work = "server"
  <2>0. c.local \in Locals
        BY <1>2 DEF Proper
  <2>k. PICK k : k = Unlisten(g, c.local)
        OBVIOUS
  <2>1. /\ k \in Gateway /\ k.running = g.running /\ \A j \in Idx : Same(g, k, j)
        /\ k.servers = [g.servers EXCEPT ![c.local] = Fewer(g.servers[c.local])]
        BY <2>0, <2>k, UnlistenIs
  <2>2. CASE g.ctx[i].status # "unset" /\ ~g.ctx[i].client
    <3>m. PICK m : m = Released(k, i)
          OBVIOUS
    <3>h. PICK h : h = Forgotten(m, i)
          OBVIOUS
    <3>1. CfgRmvSctp(g, c) = h
          BY <1>i, <1>2, <2>2, <2>k, <3>m, <3>h DEF CfgRmvSctp
    <3>2. m \in Gateway /\ Differs(k, m, i, {"ctx", "events", "stale"}) /\ m.ctx[i] = Zeroed /\ "yes" \notin m.events[i]
          BY <1>0, <2>1, <3>m, ReleasedIs
    <3>3. h \in Gateway /\ Differs(m, h, i, {"links"}) /\ (m.clients_links[i] = None => h.clients_links[i] = None)
          BY <1>0, <3>h, <3>2, ForgottenIs
    <3>4. h.ctx[i] = Zeroed /\ "yes" \notin h.events[i] /\ h.amf[i] = k.amf[i] /\ h.running = k.running /\ h.servers = k.servers
          BY <3>2, <3>3 DEF Differs
    <3>5. g.clients_links[i] = None => h.clients_links[i] = None
          BY <1>0, <2>1, <3>2, <3>3 DEF Differs, Same
    <3>6. k.amf[i] = g.amf[i]
          BY <1>0, <2>1 DEF Same
    <3>7. Only(g, h, i)
          BY <2>1, <3>2, <3>3 DEF Differs, Only, Same
    <3> QED
        BY <1>i, <1>2, <2>1, <2>2, <3>1, <3>3, <3>4, <3>5, <3>6, <3>7 DEF Removed
  <2>3. CASE ~(g.ctx[i].status # "unset" /\ ~g.ctx[i].client)
    <3>h. PICK h : h = Forgotten(k, i)
          OBVIOUS
    <3>1. CfgRmvSctp(g, c) = h
          BY <1>i, <1>2, <2>3, <2>k, <3>h DEF CfgRmvSctp
    <3>2. h \in Gateway /\ Differs(k, h, i, {"links"}) /\ (k.clients_links[i] = None => h.clients_links[i] = None)
          BY <1>0, <2>1, <3>h, ForgottenIs
    <3>3. Same(g, k, i)
          BY <1>0, <2>1
    <3>4. h.ctx[i] = g.ctx[i] /\ h.events[i] = g.events[i] /\ h.amf[i] = g.amf[i]
          BY <3>2, <3>3 DEF Differs, Same
    <3>5. h.running = g.running /\ h.servers = k.servers
          BY <2>1, <3>2 DEF Differs
    <3>6. g.clients_links[i] = None => h.clients_links[i] = None
          BY <3>2, <3>3 DEF Same
    <3>7. Only(g, h, i)
          BY <2>1, <3>2 DEF Differs, Only, Same
    <3>8. ~(g.ctx[i].status # "unset" /\ (g.ctx[i].client <=> c.work = "client"))
          BY <1>0, <1>2, <2>3
    <3> QED
        BY <1>i, <1>2, <2>1, <3>1, <3>2, <3>4, <3>5, <3>6, <3>7, <3>8 DEF Removed
  <2> QED
      BY <2>2, <2>3
<1> QED
    BY <1>0, <1>1, <1>2 DEF Work

\* It leaves the context's own invariant true.
LEMMA RemovedCtx ==
  ASSUME NEW g, NEW h, NEW c, Removed(g, h, c), CtxInv(g, c.idx)
  PROVE  CtxInv(h, c.idx)
BY DEF Removed, CtxInv, Zeroed

\* A step at index i: elsewhere nothing moves, and the context's own invariant stays.
Moved(g, h, i) ==
  /\ h \in Gateway /\ h.running = g.running /\ Only(g, h, i)
  /\ CtxInv(g, i) => CtxInv(h, i)

\* Trying a client link is one.
LEMMA TriedMoves ==
  ASSUME NEW g \in Gateway, NEW i \in Idx, NEW p \in Peers
  PROVE  Moved(g, AddSctpClient(g, i, p), i)
<1>h. PICK h : h = AddSctpClient(g, i, p)
      OBVIOUS
<1>1. /\ h \in Gateway /\ Differs(g, h, i, {"ctx", "events"}) /\ "yes" \notin h.events[i]
      /\ h.ctx[i].client /\ ~h.ctx[i].accepted /\ ~h.ctx[i].asked
      /\ p \in up => h.ctx[i].status = "active" /\ h.ctx[i].conn = "open"
      /\ p \notin up => h.ctx[i].status = g.ctx[i].status /\ h.ctx[i].conn = "none"
      BY <1>h, AddSctpClientIs
<1>2. h.amf[i] = g.amf[i] /\ h.running = g.running /\ Only(g, h, i)
      BY <1>1 DEF Differs
<1>3. CtxInv(g, i) => CtxInv(h, i)
      BY <1>1, <1>2 DEF CtxInv
<1> QED
    BY <1>h, <1>1, <1>2, <1>3 DEF Moved

\* A change of clients_links is one.
LEMMA LinksMove ==
  ASSUME NEW g \in Gateway, NEW i \in Idx, NEW x \in Waiting \cup {None}
  PROVE  Moved(g, PutLinks(g, i, x), i)
<1>1. PutLinks(g, i, x) \in Gateway /\ Differs(g, PutLinks(g, i, x), i, {"links"})
      BY PutLinksIs
<1> QED
    BY <1>1 DEF Moved, Differs, CtxInv

\* Two such steps are one.
LEMMA MovedTwice ==
  ASSUME NEW g, NEW h, NEW k, NEW i, Moved(g, h, i), Moved(h, k, i)
  PROVE  Moved(g, k, i)
<1>1. Only(g, k, i)
      BY DEF Moved, Only, Same
<1> QED
    BY <1>1 DEF Moved

\* What adding a link does: where the index was not set, a server link changes nothing but
\* the listener's references, a client link's context gets its peer.
Added(g, h, c) ==
  /\ Moved(g, h, c.idx)
  /\ \A l \in Locals : c.local # l => h.servers[l] = g.servers[l]
  /\ g.ctx[c.idx].status = "unset" /\ c.work = "server" =>
       /\ h.ctx[c.idx] = g.ctx[c.idx] /\ h.clients_links[c.idx] = g.clients_links[c.idx]
       /\ h.servers[c.local] = g.servers[c.local] + 1
  /\ g.ctx[c.idx].status = "unset" /\ c.work = "client" =>
       /\ h.ctx[c.idx].client /\ h.ctx[c.idx].peer = c.peer
       /\ \/ h.clients_links[c.idx] = g.clients_links[c.idx]
          \/ h.clients_links[c.idx] # None /\ h.clients_links[c.idx].peer = c.peer

\* What the index held is removed first, if anything.
First(g, c) == IF g.ctx[c.idx].status = "unset" THEN g ELSE CfgRmvSctp(g, c)

\* It is a step at the index.
LEMMA FirstMoves ==
  ASSUME NEW g \in Gateway, NEW c \in Links, Proper(c)
  PROVE  /\ Moved(g, First(g, c), c.idx)
         /\ \A l \in Locals : c.local # l => First(g, c).servers[l] = g.servers[l]
<1>1. CASE g.ctx[c.idx].status = "unset"
      BY <1>1 DEF First, Moved, Only, Same
<1>2. CASE g.ctx[c.idx].status # "unset"
  <2>h. PICK h : h = CfgRmvSctp(g, c)
        OBVIOUS
  <2>1. Removed(g, h, c)
        BY <2>h, CfgRmvSctpIs
  <2>2. CtxInv(g, c.idx) => CtxInv(h, c.idx)
        BY <2>1, RemovedCtx
  <2>3. \A l \in Locals : c.local # l => h.servers[l] = g.servers[l]
        BY <2>1 DEF Removed, Gateway
  <2>4. First(g, c) = h
        BY <1>2, <2>h DEF First
  <2>5. Moved(g, h, c.idx)
        BY <2>1, <2>2 DEF Moved, Removed
  <2> QED
      BY <2>3, <2>4, <2>5
<1> QED
    BY <1>1, <1>2

\* CfgAddSctp does it.
LEMMA CfgAddSctpIs ==
  ASSUME NEW g \in Gateway, NEW c \in Links, Proper(c)
  PROVE  Added(g, CfgAddSctp(g, c), c)
<1>i. PICK i : i = c.idx
      OBVIOUS
<1>f. PICK f : f = First(g, c)
      OBVIOUS
<1>r. PICK r : r = CfgAddSctp(g, c)
      OBVIOUS
<1>0. i \in Idx /\ c.work \in Work /\ c.peer \in Peers /\ f \in Gateway
      BY <1>i, <1>f, FirstMoves DEF Links, Moved
<1>1. Moved(g, f, i) /\ (g.ctx[i].status = "unset" => f = g) /\ \A l \in Locals : c.local # l => f.servers[l] = g.servers[l]
      BY <1>i, <1>f, FirstMoves DEF First
<1>2. CASE c.work = "server"
  <2>1. r = Listen(f, c.local)
        BY <1>i, <1>f, <1>r, <1>0, <1>2 DEF CfgAddSctp, First, Gateway, Listen
  <2>2. c.local \in Locals
        BY <1>2 DEF Proper
  <2>3. /\ r \in Gateway /\ r.running = f.running /\ \A j \in Idx : Same(f, r, j)
        /\ r.servers = [f.servers EXCEPT ![c.local] = f.servers[c.local] + 1]
        BY <1>0, <2>1, <2>2, ListenIs
  <2>4. Moved(f, r, i)
        BY <1>0, <2>3 DEF Moved, Only, Same, CtxInv
  <2>5. Moved(g, r, i)
        BY <1>1, <2>4, MovedTwice
  <2>6. \A l \in Locals : c.local # l => r.servers[l] = g.servers[l]
        BY <1>0, <1>1, <2>3 DEF Gateway
  <2>7. r.servers[c.local] = f.servers[c.local] + 1
        BY <1>0, <2>2, <2>3 DEF Gateway
  <2>8. r.ctx[i] = f.ctx[i] /\ r.clients_links[i] = f.clients_links[i]
        BY <1>0, <2>3 DEF Same
  <2> QED
      BY <1>i, <1>r, <1>1, <1>2, <2>5, <2>6, <2>7, <2>8 DEF Added
<1>3. CASE c.work = "client"
  <2>k. PICK k : k = AddSctpClient(f, i, c.peer)
        OBVIOUS
  <2>w. PICK w : w = [peer |-> c.peer, freed |-> FALSE]
        OBVIOUS
  <2>m. PICK m : m = PutLinks(k, i, w)
        OBVIOUS
  <2>0. w \in Waiting \cup {None} /\ w # None /\ w.peer = c.peer
    <3>1. w \in [peer : Peers, freed : BOOLEAN] /\ w.peer = c.peer
          BY <1>0, <2>w
    <3>2. w # None
          BY <3>1, LinkAssumption
    <3> QED
        BY <3>1, <3>2 DEF Waiting
  <2>1. r = IF c.peer \in up THEN k ELSE m
        BY <1>i, <1>f, <1>r, <1>3, <2>k, <2>w, <2>m DEF CfgAddSctp, First, PutLinks
  <2>2. Moved(f, k, i)
        BY <1>0, <2>k, TriedMoves
  <2>3. k \in Gateway /\ Differs(f, k, i, {"ctx", "events"}) /\ k.ctx[i].client /\ k.ctx[i].peer = c.peer
        BY <1>0, <2>k, AddSctpClientIs
  <2>4. Moved(k, m, i)
        BY <1>0, <2>0, <2>3, <2>m, LinksMove
  <2>5. m \in Gateway /\ Differs(k, m, i, {"links"}) /\ m.clients_links[i] = w
        BY <1>0, <2>0, <2>3, <2>m, PutLinksIs
  <2>6. Moved(g, k, i)
        BY <1>1, <2>2, MovedTwice
  <2>7. Moved(g, m, i)
        BY <2>6, <2>4, MovedTwice
  <2>8. Moved(g, r, i)
        BY <2>1, <2>6, <2>7
  <2>9. k.servers = f.servers /\ m.servers = f.servers
        BY <2>3, <2>5 DEF Differs
  <2>10. \A l \in Locals : c.local # l => r.servers[l] = g.servers[l]
        BY <1>1, <2>1, <2>9
  <2>11. k.clients_links[i] = f.clients_links[i] /\ m.ctx[i] = k.ctx[i]
        BY <2>3, <2>5 DEF Differs
  <2>12. r.ctx[i].client /\ r.ctx[i].peer = c.peer
        BY <2>1, <2>3, <2>11
  <2>13. r.clients_links[i] = f.clients_links[i] \/ (r.clients_links[i] # None /\ r.clients_links[i].peer = c.peer)
        BY <2>0, <2>1, <2>5, <2>11
  <2> QED
      BY <1>i, <1>r, <1>1, <1>3, <2>8, <2>10, <2>12, <2>13 DEF Added
<1> QED
    BY <1>0, <1>2, <1>3 DEF Work

-----------------------------------------------------------------------------
(* The inductive invariant.                                                 *)

\* Every index has one row at most, and every row a link that makes sense.
Rows == {r \in Ids : table[r] # None}
TableInv ==
  /\ table \in [Ids -> Links \cup {None}]
  /\ \A r \in Rows : Proper(table[r])
  /\ \A q, r \in Rows : table[q].idx = table[r].idx => q = r

\* The command under way: what it adds or removes is at indexes that are touched.
Commands ==
  {Idle} \cup [op : {"insert"}, link : Offered] \cup [op : {"insert row"}, link : Links]
         \cup [op : {"update", "update row"}, id : Ids, link : Links]
         \cup [op : {"delete row"}, id : Ids, side : Work]
Adding   == cmd.op \in {"insert row", "update row"}
Removing == cmd.op \in {"update", "update row", "delete row"}
CmdInv ==
  /\ cmd \in Commands
  /\ cmd.op \in {"insert row", "update", "update row"} => Proper(cmd.link)
  /\ Removing => cmd.id \in Rows /\ table[cmd.id].idx \in touched
  /\ Adding => cmd.link.idx \in touched

\* Nothing of a process that is gone survives, but the alarms it raised.
DownInv == ~gw.running =>
  gw = Dead /\ cmd = Idle /\ astray = {} /\ touched = {} /\ hushed = {} /\ forgot = raised

\* An index no command has touched: at any time one thing at most drives its link, the
\* first attempt, the open connection, the handling of its loss or the timer that reconnects.
OwnInv(i) ==
  /\ IsClient(table, i) <=> gw.amf[i].there
  /\ RowsAt(table, i) = {} <=> gw.ctx[i].status = "unset"
  /\ gw.ctx[i].status = "unset" => i \notin gw.stale /\ i \notin gw.failing
  /\ ~IsClient(table, i) => ~gw.ctx[i].client /\ gw.clients_links[i] = None /\ gw.retry[i] = 0
  /\ IsClient(table, i) /\ gw.ctx[i].conn # "none" => gw.ctx[i].client /\ gw.retry[i] = 0
  /\ gw.clients_links[i] # None =>
       /\ gw.ctx[i].conn = "none" /\ gw.retry[i] = 0 /\ i \notin gw.failing /\ ~gw.amf[i].setup
       /\ ~gw.ctx[i].alarm /\ gw.ctx[i].clearing = "no" /\ i \notin gw.stale
  /\ i \in gw.failing => gw.retry[i] = 0 /\ (IsClient(table, i) => gw.ctx[i].conn = "none")
  /\ gw.retry[i] > 0 => /\ gw.ctx[i].status = "inactive" /\ gw.ctx[i].clearing = "no"
                        /\ gw.retry[i] = 1 /\ gw.ctx[i].client
  /\ gw.amf[i].setup => gw.ctx[i].accepted \/ gw.ctx[i].conn = "broken"

\* Its alarm is shown while its link is lost.
AlarmInv(i) ==
  /\ (i \in raised) <=> (gw.ctx[i].alarm \/ i \in forgot)
  /\ gw.ctx[i].status = "active" /\ gw.ctx[i].alarm /\ i \notin gw.failing => gw.ctx[i].clearing # "no"
  /\ gw.retry[i] > 0 => gw.ctx[i].alarm \/ i \in hushed

IndexInv(i) == CtxInv(gw, i) /\ (i \notin touched => OwnInv(i) /\ AlarmInv(i))
LinkInv == /\ TableInv /\ CmdInv /\ DownInv /\ gw \in Gateway
           /\ gw.running => \A i \in Idx : IndexInv(i)

\* A table's rows are finitely many links.
LEMMA RowsAreLinks ==
  ASSUME NEW t \in [Ids -> Links \cup {None}]
  PROVE  RowsOf(t) \subseteq Links /\ IsFiniteSet(RowsOf(t)) /\ None \notin RowsOf(t)
<1>q. PICK Q : Q = {q \in Ids : t[q] # None}
      OBVIOUS
<1>1. IsFiniteSet(Ids)
      BY LinkAssumption
<1>2. IsFiniteSet(Q)
      BY <1>1, <1>q, FS_Subset
<1>3. IsFiniteSet({t[r] : r \in Q})
  <2>f. PICK f : f = [r \in Q |-> t[r]]
        OBVIOUS
  <2>1. f \in Surjection(Q, {t[r] : r \in Q})
        BY <2>f DEF Surjection
  <2> QED
      BY <1>2, <2>1, FS_Surjection
<1>4. RowsOf(t) = {t[r] : r \in Q}
      BY <1>q DEF RowsOf
<1>5. {t[r] : r \in Q} \subseteq Links /\ None \notin {t[r] : r \in Q}
      BY <1>q
<1> QED
    BY <1>3, <1>4, <1>5

\* The process as it starts.
LEMMA BootedIs ==
  ASSUME NEW t \in [Ids -> Links \cup {None}]
  PROVE  /\ Booted(t) \in Gateway /\ Booted(t).running
         /\ \A i \in Idx :
              /\ RowsAt(t, i) = {} => Booted(t).ctx[i] = Zeroed
              /\ RowsAt(t, i) # {} => Booted(t).ctx[i] = [Zeroed EXCEPT !.status = "inactive"]
              /\ Booted(t).clients_links[i] # None <=> IsClient(t, i)
              /\ IsClient(t, i) => Booted(t).clients_links[i].peer =
                    (CHOOSE c \in RowsAt(t, i) : c.work = "client").peer
              /\ Booted(t).retry[i] = 0 /\ Booted(t).failing = {} /\ Booted(t).stale = {}
              /\ Booted(t).amf[i].there = IsClient(t, i) /\ ~Booted(t).amf[i].setup
              /\ Booted(t).events[i] = {}
         /\ \A l \in Locals : Booted(t).servers[l] = Cardinality({c \in RowsOf(t) : c.local = l})
<1>h. PICK h : h = Booted(t)
      OBVIOUS
<1>1. RowsOf(t) \subseteq Links /\ IsFiniteSet(RowsOf(t))
      BY RowsAreLinks
<1>2. Zeroed \in Context /\ [Zeroed EXCEPT !.status = "inactive"] \in Context
      BY DEF Zeroed, Context
<1>3. /\ h.ctx = [i \in Idx |-> IF RowsAt(t, i) = {} THEN Zeroed ELSE [Zeroed EXCEPT !.status = "inactive"]]
      /\ h.ctx \in [Idx -> Context]
      BY <1>h, <1>2 DEF Booted
<1>4. \A i \in Idx : IsClient(t, i) => (CHOOSE c \in RowsAt(t, i) : c.work = "client").peer \in Peers
      BY <1>1 DEF IsClient, RowsAt, Links
<1>5. ASSUME NEW i \in Idx
      PROVE  /\ h.clients_links[i] \in Waiting \cup {None}
             /\ h.clients_links[i] # None <=> IsClient(t, i)
             /\ IsClient(t, i) => h.clients_links[i].peer = (CHOOSE c \in RowsAt(t, i) : c.work = "client").peer
  <2>p. PICK p : p = (CHOOSE c \in RowsAt(t, i) : c.work = "client").peer
        OBVIOUS
  <2>w. PICK w : w = [peer |-> p, freed |-> FALSE]
        OBVIOUS
  <2>1. h.clients_links[i] = IF IsClient(t, i) THEN w ELSE None
        BY <1>h, <2>p, <2>w DEF Booted
  <2>2. IsClient(t, i) => w \in [peer : Peers, freed : BOOLEAN]
        BY <1>4, <2>p, <2>w
  <2>3. None \notin [peer : Peers, freed : BOOLEAN]
        BY LinkAssumption
  <2>4. w.peer = p
        BY <2>w
  <2> QED
      BY <2>p, <2>1, <2>2, <2>3, <2>4 DEF Waiting
<1>6. h.clients_links \in [Idx -> Waiting \cup {None}]
  <2>1. h.clients_links = [i \in Idx |-> h.clients_links[i]]
        BY <1>h DEF Booted
  <2> QED
      BY <1>5, <2>1
<1>7. \A l \in Locals : Cardinality({c \in RowsOf(t) : c.local = l}) \in Nat
  <2>1. ASSUME NEW l \in Locals
        PROVE  Cardinality({c \in RowsOf(t) : c.local = l}) \in Nat
    <3>1. {c \in RowsOf(t) : c.local = l} \subseteq RowsOf(t)
          OBVIOUS
    <3>2. IsFiniteSet({c \in RowsOf(t) : c.local = l})
          BY <1>1, <3>1, FS_Subset
    <3> QED
        BY <3>2, FS_CardinalityType
  <2> QED
      BY <2>1
<1>8. /\ h.servers = [l \in Locals |-> Cardinality({c \in RowsOf(t) : c.local = l})]
      /\ h.servers \in [Locals -> Nat]
      BY <1>h, <1>7 DEF Booted
<1>9. /\ h.amf = [i \in Idx |-> [there |-> IsClient(t, i), setup |-> FALSE, timers |-> IF IsClient(t, i) THEN 1 ELSE 0]]
      /\ h.amf \in [Idx -> Association]
      BY <1>h DEF Booted, Association, IsClient
<1>10. /\ h.retry = [i \in Idx |-> 0] /\ h.failing = {} /\ h.stale = {}
       /\ h.events = [i \in Idx |-> {}] /\ h.running = TRUE
      BY <1>h DEF Booted
<1>11. h.retry \in [Idx -> Nat] /\ h.events \in [Idx -> SUBSET Answers] /\ h.failing \in SUBSET Idx /\ h.stale \in SUBSET Idx
      BY <1>10
<1>12. h = [running |-> h.running, ctx |-> h.ctx, clients_links |-> h.clients_links, servers |-> h.servers,
            retry |-> h.retry, failing |-> h.failing, stale |-> h.stale, amf |-> h.amf, events |-> h.events]
      BY <1>h DEF Booted
<1>13. h \in Gateway
      BY <1>3, <1>6, <1>8, <1>9, <1>10, <1>11, <1>12 DEF Gateway
<1> QED
    BY <1>h, <1>3, <1>5, <1>8, <1>9, <1>10, <1>13

\* No process is a state of the process.
LEMMA DeadIs == Dead \in Gateway /\ ~Dead.running
<1>1. [r \in Ids |-> None] \in [Ids -> Links \cup {None}]
      OBVIOUS
<1>b. PICK b : b = Booted([r \in Ids |-> None])
      OBVIOUS
<1>2. b \in Gateway
      BY <1>1, <1>b, BootedIs
<1>3. Dead = [b EXCEPT !.running = FALSE]
      BY <1>b DEF Dead
<1> QED
    BY <1>2, <1>3 DEF Gateway

\* A process that has just started satisfies the invariant of every index.
LEMMA StartsWell ==
  table \in [Ids -> Links \cup {None}] /\ gw = Booted(table) /\ raised = forgot
     => \A i \in Idx : IndexInv(i)
<1> SUFFICES ASSUME NEW i \in Idx, table \in [Ids -> Links \cup {None}], gw = Booted(table), raised = forgot
             PROVE  IndexInv(i)
    OBVIOUS
<1>1. /\ RowsAt(table, i) = {} => gw.ctx[i] = Zeroed
      /\ RowsAt(table, i) # {} => gw.ctx[i] = [Zeroed EXCEPT !.status = "inactive"]
      /\ gw.clients_links[i] # None <=> IsClient(table, i)
      /\ gw.retry[i] = 0 /\ gw.failing = {} /\ gw.stale = {}
      /\ gw.amf[i].there = IsClient(table, i) /\ ~gw.amf[i].setup
      /\ gw.events[i] = {}
  <2>t. PICK t : t = table
        OBVIOUS
  <2> QED
      BY <2>t, BootedIs
<1>2. /\ gw.ctx[i].conn = "none" /\ ~gw.ctx[i].client /\ gw.ctx[i].peer = None /\ ~gw.ctx[i].accepted /\ ~gw.ctx[i].asked
      /\ ~gw.ctx[i].alarm /\ gw.ctx[i].clearing = "no"
      /\ gw.ctx[i].status = IF RowsAt(table, i) = {} THEN "unset" ELSE "inactive"
      BY <1>1 DEF Zeroed
<1>3. CtxInv(gw, i)
      BY <1>1, <1>2 DEF CtxInv
<1>4. IsClient(table, i) => RowsAt(table, i) # {}
      BY DEF IsClient
<1>5. OwnInv(i)
      BY <1>1, <1>2, <1>4 DEF OwnInv
<1>6. AlarmInv(i)
      BY <1>1, <1>2 DEF AlarmInv
<1> QED
    BY <1>3, <1>5, <1>6 DEF IndexInv

-----------------------------------------------------------------------------
(* What a step leaves alone keeps its invariant.                            *)

\* An index a step does not write.
LEMMA IndexStays ==
  ASSUME NEW j \in Idx, IndexInv(j), Same(gw, gw', j), touched \subseteq touched', hushed \subseteq hushed',
         j \notin touched' => /\ RowsAt(table', j) = RowsAt(table, j)
                              /\ (j \in raised' <=> j \in raised) /\ (j \in forgot' <=> j \in forgot)
  PROVE  IndexInv(j)'
<1>1. CtxInv(gw, j)'
      BY DEF IndexInv, CtxInv, Same
<1>2. ASSUME j \notin touched'
      PROVE  OwnInv(j)' /\ AlarmInv(j)'
  <2>1. OwnInv(j) /\ AlarmInv(j) /\ RowsAt(table', j) = RowsAt(table, j)
        BY <1>2 DEF IndexInv
  <2>2. IsClient(table', j) <=> IsClient(table, j)
        BY <2>1 DEF IsClient
  <2>3. OwnInv(j)'
        BY <2>1, <2>2 DEF OwnInv, Same
  <2>4. AlarmInv(j)'
        BY <1>2, <2>1 DEF AlarmInv, Same
  <2> QED
      BY <2>3, <2>4
<1> QED
    BY <1>1, <1>2 DEF IndexInv

\* A step that writes one index.
LEMMA OneMoves ==
  ASSUME LinkInv, gw.running, NEW i \in Idx, Moved(gw, gw', i), TableInv', CmdInv',
         touched \subseteq touched', hushed \subseteq hushed',
         \A j \in Idx : j # i /\ j \notin touched' =>
             /\ RowsAt(table', j) = RowsAt(table, j)
             /\ (j \in raised' <=> j \in raised) /\ (j \in forgot' <=> j \in forgot),
         i \notin touched' => OwnInv(i)' /\ AlarmInv(i)'
  PROVE  LinkInv'
<1>1. gw' \in Gateway /\ gw'.running /\ Only(gw, gw', i) /\ (CtxInv(gw, i) => CtxInv(gw', i))
      BY DEF Moved
<1>2. ASSUME NEW j \in Idx, j # i
      PROVE  IndexInv(j)'
  <2>1. Same(gw, gw', j) /\ IndexInv(j)
        BY <1>1, <1>2 DEF Only, LinkInv
  <2> QED
      BY <1>2, <2>1, IndexStays
<1>3. IndexInv(i)'
  <2>1. CtxInv(gw', i)
        BY <1>1 DEF LinkInv, IndexInv
  <2> QED
      BY <2>1 DEF IndexInv
<1>4. \A j \in Idx : IndexInv(j)'
      BY <1>2, <1>3
<1>5. (\A j \in Idx : IndexInv(j))'
      BY <1>4
<1> QED
    BY <1>1, <1>5 DEF LinkInv, DownInv

\* The table and the command stay.
LEMMA TableStays ==
  ASSUME TableInv, CmdInv, table' = table, cmd' = cmd, touched \subseteq touched'
  PROVE  TableInv' /\ CmdInv'
<1>1. TableInv'
      BY DEF TableInv, Rows
<1>2. CmdInv'
      BY DEF CmdInv, Rows, Removing, Adding, Commands, Idle
<1> QED
    BY <1>1, <1>2

-----------------------------------------------------------------------------
(* Every action keeps the invariant: the process and its peers.             *)

\* The process goes, with all it knew.
LEMMA DieKeeps == ASSUME LinkInv, Die PROVE LinkInv'
<1>1. TableInv'
      BY DEF LinkInv, TableInv, Rows, Die
<1>2. cmd' = Idle /\ cmd'.op = "none"
      BY DEF Die, Idle
<1>3. CmdInv'
      BY <1>2 DEF CmdInv, Commands, Removing, Adding
<1>4. gw' = Dead /\ gw' \in Gateway /\ ~gw'.running
      BY DeadIs DEF Die
<1>5. DownInv'
      BY <1>4 DEF DownInv, Die
<1> QED
    BY <1>1, <1>3, <1>4, <1>5 DEF LinkInv

\* It starts again from the table.
LEMMA BootKeeps == ASSUME LinkInv, Boot PROVE LinkInv'
<1>1. TableInv' /\ CmdInv'
      BY TableStays DEF LinkInv, Boot, ghosts
<1>t. PICK t : t = table
      OBVIOUS
<1>2. t \in [Ids -> Links \cup {None}] /\ gw' = Booted(t) /\ table' = t
      BY <1>t DEF LinkInv, TableInv, Boot
<1>3. gw' \in Gateway /\ gw'.running
      BY <1>2, BootedIs
<1>4. raised' = forgot' /\ touched' = {} /\ hushed' = {}
      BY DEF Boot, LinkInv, DownInv, ghosts
<1>5. (\A i \in Idx : IndexInv(i))'
  <2>1. (table \in [Ids -> Links \cup {None}] /\ gw = Booted(table) /\ raised = forgot)'
        BY <1>2, <1>4
  <2>2. (table \in [Ids -> Links \cup {None}] /\ gw = Booted(table) /\ raised = forgot
            => \A i \in Idx : IndexInv(i))'
        BY StartsWell, PTL
  <2> QED
      BY <2>1, <2>2
<1>6. DownInv'
      BY <1>3 DEF DownInv
<1> QED
    BY <1>1, <1>3, <1>5, <1>6 DEF LinkInv

\* It starts for the first time.
LEMMA InitKeeps == Init => LinkInv
<1> SUFFICES ASSUME Init PROVE LinkInv
    OBVIOUS
<1>1. TableInv
      BY LinkAssumption DEF Init, TableInv, Rows
<1>2. cmd = Idle /\ cmd.op = "none"
      BY DEF Init, Idle
<1>3. CmdInv
      BY <1>2 DEF CmdInv, Commands, Removing, Adding
<1>4. gw = Booted(table) /\ raised = forgot /\ table \in [Ids -> Links \cup {None}]
      BY <1>1 DEF Init, TableInv
<1>t. PICK t : t = table
      OBVIOUS
<1>5. gw \in Gateway /\ gw.running
      BY <1>t, <1>4, BootedIs
<1>6. \A i \in Idx : IndexInv(i)
      BY <1>4, StartsWell
<1> QED
    BY <1>1, <1>3, <1>5, <1>6 DEF LinkInv, DownInv

\* Nothing the invariant speaks of changes.
LEMMA NothingMoves ==
  ASSUME LinkInv, gw' = gw, table' = table, cmd' = cmd, UNCHANGED <<raised, ghosts>>
  PROVE  LinkInv'
<1>1. TableInv' /\ CmdInv'
      BY TableStays DEF LinkInv, ghosts
<1>2. DownInv'
      BY DEF LinkInv, DownInv, ghosts
<1>3. ASSUME NEW j \in Idx, gw.running
      PROVE  IndexInv(j)'
  <2>1. IndexInv(j)
        BY <1>3 DEF LinkInv
  <2>2. Same(gw, gw', j)
        BY DEF Same
  <2> QED
      BY <2>1, <2>2, IndexStays DEF ghosts
<1> QED
    BY <1>1, <1>2, <1>3 DEF LinkInv

\* PeerDown breaks open connections, and their answers are old.
LEMMA PeerDownKeeps == ASSUME LinkInv, NEW p \in Peers, PeerDown(p) PROVE LinkInv'
<1>1. TableInv' /\ CmdInv'
      BY TableStays DEF LinkInv, PeerDown, Env, ghosts
<1>l. PICK lost : lost = {i \in Idx : gw.ctx[i].peer = p /\ gw.ctx[i].conn = "open"}
      OBVIOUS
<1>c. PICK C : C = [i \in Idx |-> IF i \in lost THEN [Ended(gw.ctx[i]) EXCEPT !.conn = "broken"] ELSE gw.ctx[i]]
      OBVIOUS
<1>e. PICK E : E = [i \in Idx |-> IF i \in lost THEN Outdated(gw.events[i]) ELSE gw.events[i]]
      OBVIOUS
<1>0. gw \in Gateway
      BY DEF LinkInv
<1>2. gw' = [gw EXCEPT !.ctx = C, !.events = E]
      BY <1>l, <1>c, <1>e DEF PeerDown
<1>3. ASSUME NEW i \in Idx
      PROVE  /\ C[i] \in Context /\ E[i] \in SUBSET Answers
             /\ i \notin lost => C[i] = gw.ctx[i] /\ E[i] = gw.events[i]
             /\ i \in lost => /\ ~C[i].asked /\ ~C[i].accepted /\ C[i].conn = "broken" /\ gw.ctx[i].conn = "open"
                              /\ C[i].status = gw.ctx[i].status /\ C[i].client = gw.ctx[i].client
                              /\ C[i].peer = gw.ctx[i].peer /\ C[i].alarm = gw.ctx[i].alarm
                              /\ C[i].clearing = gw.ctx[i].clearing /\ "yes" \notin E[i]
  <2>1. gw.ctx[i] \in Context /\ gw.events[i] \in SUBSET Answers
        BY <1>0 DEF Gateway
  <2>2. CASE i \notin lost
        BY <1>c, <1>e, <2>1, <2>2
  <2>3. CASE i \in lost
    <3>1. C[i] = [Ended(gw.ctx[i]) EXCEPT !.conn = "broken"] /\ E[i] = Outdated(gw.events[i])
          BY <1>c, <1>e, <2>3
    <3>2. E[i] \in SUBSET Answers /\ "yes" \notin E[i]
          BY <2>1, <3>1 DEF Outdated, Answers
    <3>3. C[i] \in Context /\ ~C[i].asked /\ ~C[i].accepted /\ C[i].conn = "broken"
          BY <2>1, <3>1 DEF Context, Ended
    <3>4. /\ C[i].status = gw.ctx[i].status /\ C[i].client = gw.ctx[i].client
          /\ C[i].peer = gw.ctx[i].peer /\ C[i].alarm = gw.ctx[i].alarm /\ C[i].clearing = gw.ctx[i].clearing
          BY <2>1, <3>1 DEF Context, Ended
    <3>5. gw.ctx[i].conn = "open"
          BY <1>l, <2>3
    <3> QED
        BY <2>3, <3>2, <3>3, <3>4, <3>5
  <2> QED
      BY <2>2, <2>3
<1>4. C \in [Idx -> Context] /\ E \in [Idx -> SUBSET Answers]
      BY <1>3, <1>c, <1>e
<1>5. /\ gw'.ctx = C /\ gw'.events = E /\ gw'.running = gw.running /\ gw'.clients_links = gw.clients_links
      /\ gw'.servers = gw.servers /\ gw'.retry = gw.retry /\ gw'.failing = gw.failing
      /\ gw'.stale = gw.stale /\ gw'.amf = gw.amf
      BY <1>0, <1>2 DEF Gateway
<1>6. gw' \in Gateway
      BY <1>0, <1>2, <1>4 DEF Gateway
<1>7. DownInv'
  <2>1. CASE gw.running
        BY <1>5, <2>1 DEF DownInv
  <2>2. CASE ~gw.running
    <3>1. gw = Dead
          BY <2>2 DEF LinkInv, DownInv
    <3>2. \A i \in Idx : gw.ctx[i] = Zeroed
      <4>b. PICK b : b = Booted([r \in Ids |-> None])
            OBVIOUS
      <4>1. \A i \in Idx : RowsAt([r \in Ids |-> None], i) = {}
            BY DEF RowsAt, RowsOf
      <4>2. b \in Gateway /\ \A i \in Idx : b.ctx[i] = Zeroed
            BY <4>b, <4>1, BootedIs
      <4>3. Dead.ctx = b.ctx
            BY <4>b, <4>2 DEF Dead, Gateway
      <4> QED
          BY <3>1, <4>2, <4>3
    <3>3. lost = {}
          BY <1>l, <3>2 DEF Zeroed
    <3>4. C = gw.ctx /\ E = gw.events
          BY <1>0, <1>c, <1>e, <3>3 DEF Gateway
    <3>5. gw' = gw
          BY <1>0, <1>2, <3>4 DEF Gateway
    <3> QED
        BY <2>2, <3>5 DEF LinkInv, DownInv, PeerDown, Env, ghosts
  <2> QED
      BY <2>1, <2>2
<1>8. ASSUME NEW i \in Idx, gw.running
      PROVE  IndexInv(i)'
  <2>1. IndexInv(i)
        BY <1>8 DEF LinkInv
  <2>2. CASE i \notin lost
    <3>1. Same(gw, gw', i)
          BY <1>3, <1>5, <2>2 DEF Same
    <3> QED
        BY <2>1, <3>1, IndexStays DEF PeerDown, Env, ghosts
  <2>3. CASE i \in lost
    <3>0. UNCHANGED <<table, raised, touched, forgot, hushed>>
          BY DEF PeerDown, Env, ghosts
    <3>1. CtxInv(gw', i)
          BY <1>3, <1>5, <2>1, <2>3 DEF IndexInv, CtxInv
    <3>2. ASSUME i \notin touched
          PROVE  OwnInv(i)' /\ AlarmInv(i)'
      <4>1. OwnInv(i) /\ AlarmInv(i)
            BY <2>1, <3>2 DEF IndexInv
      <4>2. OwnInv(i)'
            BY <1>3, <1>5, <2>3, <3>0, <4>1 DEF OwnInv
      <4>3. AlarmInv(i)'
            BY <1>3, <1>5, <2>3, <3>0, <4>1 DEF AlarmInv
      <4> QED
          BY <4>2, <4>3
    <3> QED
        BY <3>0, <3>1, <3>2 DEF IndexInv
  <2> QED
      BY <2>2, <2>3
<1> QED
    BY <1>1, <1>5, <1>6, <1>7, <1>8 DEF LinkInv

-----------------------------------------------------------------------------
(* What the actions at one index write, and that they keep the invariant.   *)

\* A context as Connected and Reassured leave it.
LEMMA ConnectedIs ==
  ASSUME NEW c \in Context
  PROVE  /\ Connected(c) \in Context /\ Connected(c).status = "active" /\ Connected(c).conn = "open"
         /\ Connected(c).client = c.client /\ Connected(c).peer = c.peer /\ Connected(c).alarm = c.alarm
         /\ Connected(c).clearing = c.clearing /\ Connected(c).asked = c.asked /\ Connected(c).accepted = c.accepted
BY DEF Connected, Context
\* An alarm that is raised has a timer then.
LEMMA ReassuredIs ==
  ASSUME NEW c \in Context
  PROVE  LET d == Reassured(c) IN
         /\ d \in Context /\ d.status = c.status /\ d.conn = c.conn /\ d.client = c.client /\ d.peer = c.peer
         /\ d.alarm = c.alarm /\ d.asked = c.asked /\ d.accepted = c.accepted
         /\ c.alarm => d.clearing # "no"
         /\ ~c.alarm => d.clearing = c.clearing
BY DEF Reassured, Context

\* The state an action starts from, put together once.
LEMMA AtIndex ==
  ASSUME LinkInv, gw.running, NEW i \in Idx
  PROVE  /\ gw \in Gateway /\ gw.ctx[i] \in Context /\ gw.amf[i] \in Association /\ gw.retry[i] \in Nat
         /\ gw.events[i] \in SUBSET Answers /\ gw.clients_links[i] \in Waiting \cup {None}
         /\ TableInv /\ CmdInv /\ CtxInv(gw, i) /\ (i \notin touched => OwnInv(i) /\ AlarmInv(i))
BY DEF LinkInv, IndexInv, Gateway

\* An action at an index no command is about: what is left to show of it.
LEMMA LinkMoves ==
  ASSUME LinkInv, gw.running, NEW i \in Idx, Moved(gw, gw', i), table' = table, cmd' = cmd,
         touched \subseteq touched', hushed \subseteq hushed',
         \A j \in Idx : j # i /\ j \notin touched' =>
             (j \in raised' <=> j \in raised) /\ (j \in forgot' <=> j \in forgot),
         i \notin touched' => OwnInv(i)' /\ AlarmInv(i)'
  PROVE  LinkInv'
<1>1. TableInv' /\ CmdInv'
      BY TableStays DEF LinkInv
<1> QED
    BY <1>1, OneMoves

\* The step has not to do with which link the index has.
LinkKept(i) ==
  /\ Only(gw, gw', i) /\ gw'.running = gw.running /\ gw'.servers = gw.servers
  /\ table' = table /\ cmd' = cmd /\ astray' = astray
  /\ gw'.clients_links[i] = gw.clients_links[i]
  /\ gw'.ctx[i].client = gw.ctx[i].client /\ gw'.ctx[i].peer = gw.ctx[i].peer
  /\ gw'.ctx[i].status = "unset" <=> gw.ctx[i].status = "unset"

\* A row is a gNB's when its peer is one; an index with such a row has no other.
LEMMA ServerRow ==
  ASSUME TableInv, NEW c \in RowsOf(table)
  PROVE  /\ c \in Links /\ Proper(c) /\ RowsAt(table, c.idx) = {c}
         /\ c.peer \in Gnbs => c.work = "server"
         /\ c.work = "server" => ~IsClient(table, c.idx)
         /\ c.work = "client" => IsClient(table, c.idx)
<1>1. PICK r \in Rows : c = table[r]
      BY DEF RowsOf, Rows
<1>2. c \in Links /\ Proper(c) /\ c.work \in Work
      BY <1>1 DEF TableInv, Rows, Links
<1>3. ASSUME NEW d \in RowsAt(table, c.idx)
      PROVE  d = c
  <2>1. PICK q \in Rows : d = table[q]
        BY DEF RowsAt, RowsOf, Rows
  <2>2. d.idx = c.idx
        BY DEF RowsAt
  <2> QED
      BY <1>1, <2>1, <2>2 DEF TableInv
<1>4. RowsAt(table, c.idx) = {c}
      BY <1>3 DEF RowsAt
<1>5. c.peer \in Gnbs => c.work = "server"
      BY <1>2, LinkAssumption DEF Proper, Work
<1> QED
    BY <1>2, <1>4, <1>5 DEF IsClient

\* A gNB connects: its context is active, and has a timer when its alarm is raised.
LEMMA AcceptIs ==
  ASSUME gw \in Gateway, NEW p \in Gnbs, NEW i \in Idx, CtxInv(gw, i),
         gw' = [Closed(gw, i) EXCEPT !.ctx[i] = Reassured(Connected([@ EXCEPT !.client = FALSE, !.peer = p]))]
  PROVE  /\ Moved(gw, gw', i) /\ Differs(gw, gw', i, {"ctx", "events"})
         /\ gw'.ctx[i].status = "active" /\ ~gw'.ctx[i].client /\ gw'.ctx[i].peer = p /\ gw'.ctx[i].conn = "open"
         /\ gw'.ctx[i].alarm = gw.ctx[i].alarm /\ (gw'.ctx[i].alarm => gw'.ctx[i].clearing # "no")
         /\ (~gw'.ctx[i].alarm => gw'.ctx[i].clearing = gw.ctx[i].clearing)
<1>g. PICK g : g = Closed(gw, i)
      OBVIOUS
<1>c. PICK c : c = [g.ctx[i] EXCEPT !.client = FALSE, !.peer = p]
      OBVIOUS
<1>d. PICK d : d = Reassured(Connected(c))
      OBVIOUS
<1>1. /\ g \in Gateway /\ Differs(gw, g, i, {"ctx", "events"}) /\ "yes" \notin g.events[i]
      /\ g.ctx[i] = [Ended(gw.ctx[i]) EXCEPT !.conn = "none"] /\ g.ctx[i] \in Context
      BY <1>g, ClosedIs
<1>2. gw.ctx[i] \in Context
      BY DEF Gateway
<1>3. ~g.ctx[i].asked /\ ~g.ctx[i].accepted /\ g.ctx[i].alarm = gw.ctx[i].alarm /\ g.ctx[i].clearing = gw.ctx[i].clearing
      BY <1>1, <1>2 DEF Ended, Context
<1>4. /\ c \in Context /\ ~c.client /\ c.peer = p /\ ~c.asked /\ ~c.accepted
      /\ c.alarm = gw.ctx[i].alarm /\ c.clearing = gw.ctx[i].clearing
      BY <1>c, <1>1, <1>3 DEF Context, Peers
<1>e. PICK e : e = Connected(c)
      OBVIOUS
<1>5. /\ e \in Context /\ e.status = "active" /\ e.conn = "open" /\ ~e.client /\ e.peer = p /\ ~e.asked /\ ~e.accepted
      /\ e.alarm = gw.ctx[i].alarm /\ e.clearing = gw.ctx[i].clearing
      BY <1>e, <1>4, ConnectedIs
<1>6. /\ d \in Context /\ d.status = "active" /\ d.conn = "open" /\ ~d.client /\ d.peer = p /\ ~d.asked /\ ~d.accepted
      /\ d.alarm = gw.ctx[i].alarm /\ (d.alarm => d.clearing # "no") /\ (~d.alarm => d.clearing = gw.ctx[i].clearing)
      BY <1>d, <1>e, <1>5, ReassuredIs
<1>7. gw' = PutCtx(g, i, d)
      BY <1>g, <1>c, <1>d, <1>1 DEF PutCtx, Gateway
<1>8. gw' \in Gateway /\ gw'.ctx[i] = d /\ Differs(g, gw', i, {"ctx"})
  <2>1. PutCtx(g, i, d) \in Gateway /\ PutCtx(g, i, d).ctx[i] = d /\ Differs(g, PutCtx(g, i, d), i, {"ctx"})
        BY <1>1, <1>6, PutCtxIs
  <2> QED
      BY <1>7, <2>1
<1>9. Differs(gw, gw', i, {"ctx", "events"} \cup {"ctx"})
      BY <1>1, <1>8, DiffersTwice
<1>10. {"ctx", "events"} \cup {"ctx"} = {"ctx", "events"}
       OBVIOUS
<1>11. gw'.events[i] = g.events[i] /\ gw'.amf[i] = gw.amf[i] /\ Only(gw, gw', i) /\ gw'.running = gw.running
       BY <1>8, <1>9 DEF Differs
<1>12. CtxInv(gw', i)
       BY <1>1, <1>6, <1>8, <1>11 DEF CtxInv
<1> QED
    BY <1>6, <1>8, <1>9, <1>10, <1>11, <1>12 DEF Moved

\* Accept keeps the invariant.
LEMMA AcceptKeeps == ASSUME LinkInv, NEW p \in Gnbs, Accept(p) PROVE LinkInv'
<1>0. gw.running /\ TableInv
      BY DEF Accept, LinkInv
<1>1. PICK c \in RowsOf(table) : /\ c.peer = p
                                 /\ gw' = [Closed(gw, c.idx) EXCEPT !.ctx[c.idx] =
                                        Reassured(Connected([@ EXCEPT !.client = FALSE, !.peer = p]))]
      BY DEF Accept
<1>i. PICK i : i = c.idx
      OBVIOUS
<1>2. /\ c \in Links /\ c.work = "server" /\ ~IsClient(table, i) /\ RowsAt(table, i) # {} /\ i \in Idx
      BY <1>0, <1>1, <1>i, ServerRow DEF Links
<1>3. gw' = [Closed(gw, i) EXCEPT !.ctx[i] = Reassured(Connected([@ EXCEPT !.client = FALSE, !.peer = p]))]
      BY <1>1, <1>i
<1>4. /\ gw \in Gateway /\ CtxInv(gw, i) /\ (i \notin touched => OwnInv(i) /\ AlarmInv(i))
      BY <1>0, <1>2, AtIndex
<1>5. /\ Moved(gw, gw', i) /\ Differs(gw, gw', i, {"ctx", "events"})
      /\ gw'.ctx[i].status = "active" /\ ~gw'.ctx[i].client /\ gw'.ctx[i].peer = p /\ gw'.ctx[i].conn = "open"
      /\ gw'.ctx[i].alarm = gw.ctx[i].alarm /\ (gw'.ctx[i].alarm => gw'.ctx[i].clearing # "no")
  <2>1. gw \in Gateway /\ i \in Idx /\ CtxInv(gw, i)
        BY <1>2, <1>4
  <2>2. Moved(gw, gw', i) /\ Differs(gw, gw', i, {"ctx", "events"})
        BY <1>3, <2>1, AcceptIs
  <2>3. gw'.ctx[i].status = "active" /\ ~gw'.ctx[i].client /\ gw'.ctx[i].peer = p /\ gw'.ctx[i].conn = "open"
        BY <1>3, <2>1, AcceptIs
  <2>4. gw'.ctx[i].alarm = gw.ctx[i].alarm /\ (gw'.ctx[i].alarm => gw'.ctx[i].clearing # "no")
        BY <1>3, <2>1, AcceptIs
  <2> QED
      BY <2>2, <2>3, <2>4
<1>6. UNCHANGED <<table, cmd, raised, touched, forgot, hushed>>
      BY DEF Accept, Env
<1>7. ASSUME i \notin touched'
      PROVE  OwnInv(i)' /\ AlarmInv(i)'
  <2>1. OwnInv(i) /\ AlarmInv(i)
        BY <1>4, <1>6, <1>7
  <2>2. /\ gw'.clients_links[i] = gw.clients_links[i] /\ gw'.retry[i] = gw.retry[i] /\ gw'.amf[i] = gw.amf[i]
        /\ (i \in gw'.failing <=> i \in gw.failing) /\ (i \in gw'.stale <=> i \in gw.stale)
        BY <1>5 DEF Differs
  <2>3. OwnInv(i)'
        BY <1>2, <1>4, <1>5, <1>6, <2>1, <2>2 DEF OwnInv, CtxInv
  <2>4. AlarmInv(i)'
        BY <1>2, <1>5, <1>6, <2>1, <2>2 DEF OwnInv, AlarmInv
  <2> QED
      BY <2>3, <2>4
<1> QED
    BY <1>0, <1>2, <1>5, <1>6, <1>7, LinkMoves

\* The error handler forgets the association; the connection is closed.
LEMMA HandleErrorIs ==
  ASSUME gw \in Gateway, NEW i \in Idx, CtxInv(gw, i), NEW k, k = Closed(gw, i), NEW m,
         m = PutFailing(k, k.failing \cup {i}), gw' = IF gw.ctx[i].client THEN Restart(m, i) ELSE m
  PROVE  /\ Moved(gw, gw', i) /\ Differs(gw, gw', i, {"ctx", "events", "failing", "amf"})
         /\ i \in gw'.failing /\ gw'.ctx[i] = [Ended(gw.ctx[i]) EXCEPT !.conn = "none"]
         /\ gw'.amf[i].there = gw.amf[i].there
         /\ gw.ctx[i].client => ~gw'.amf[i].setup
         /\ ~gw.ctx[i].client => gw'.amf[i] = gw.amf[i]
<1>1. /\ k \in Gateway /\ Differs(gw, k, i, {"ctx", "events"}) /\ "yes" \notin k.events[i]
      /\ k.ctx[i] = [Ended(gw.ctx[i]) EXCEPT !.conn = "none"]
      BY ClosedIs
<1>x. PICK X : X = k.failing \cup {i}
      OBVIOUS
<1>2. X \in SUBSET Idx /\ i \in X /\ \A j \in Idx : j # i => (j \in X <=> j \in k.failing)
      BY <1>x, <1>1 DEF Gateway
<1>3. m = PutFailing(k, X)
      BY <1>x
<1>4. m \in Gateway /\ m.failing = X /\ Differs(k, m, i, {"failing"})
  <2>1. PutFailing(k, X) \in Gateway /\ PutFailing(k, X).failing = X /\ Differs(k, PutFailing(k, X), i, {"failing"})
        BY <1>1, <1>2, PutFailingIs
  <2> QED
      BY <1>3, <2>1
<1>n. PICK n : n = IF gw.ctx[i].client THEN Restart(m, i) ELSE m
      OBVIOUS
<1>5. /\ n \in Gateway /\ Differs(m, n, i, {"amf"}) /\ n.amf[i].there = m.amf[i].there
      /\ (gw.ctx[i].client => ~n.amf[i].setup) /\ (~gw.ctx[i].client => n.amf[i] = m.amf[i])
  <2>1. Restart(m, i) \in Gateway /\ Differs(m, Restart(m, i), i, {"amf"})
        BY <1>4, RestartIs
  <2>2. Restart(m, i).amf[i].there = m.amf[i].there /\ ~Restart(m, i).amf[i].setup
        BY <1>4, RestartIs
  <2>3. Differs(m, m, i, {"amf"})
        BY DEF Differs, Only, Same
  <2> QED
      BY <1>4, <1>n, <2>1, <2>2, <2>3
<1>6. gw' = n
      BY <1>n
<1>7. Only(gw, n, i)
  <2>1. Differs(gw, m, i, {"ctx", "events"} \cup {"failing"})
        BY <1>1, <1>4, DiffersTwice
  <2>2. Differs(gw, n, i, ({"ctx", "events"} \cup {"failing"}) \cup {"amf"})
        BY <1>5, <2>1, DiffersTwice
  <2> QED
      BY <2>2 DEF Differs
<1>8. /\ n.running = gw.running /\ n.servers = gw.servers /\ n.clients_links[i] = gw.clients_links[i]
      /\ n.retry[i] = gw.retry[i] /\ (i \in n.stale <=> i \in gw.stale) /\ (i \in n.failing <=> i \in m.failing)
      /\ m.amf[i] = gw.amf[i] /\ n.ctx[i] = k.ctx[i] /\ n.events[i] = k.events[i]
      BY <1>1, <1>4, <1>5 DEF Differs
<1>9. Differs(gw, n, i, {"ctx", "events", "failing", "amf"})
      BY <1>7, <1>8 DEF Differs
<1>10. gw.ctx[i] \in Context
       BY DEF Gateway
<1>11. /\ ~n.ctx[i].asked /\ ~n.ctx[i].accepted /\ n.ctx[i].conn = "none" /\ n.ctx[i].status = gw.ctx[i].status
       /\ n.ctx[i].client = gw.ctx[i].client /\ n.ctx[i].peer = gw.ctx[i].peer
       BY <1>1, <1>8, <1>10 DEF Context, Ended
<1>12. CtxInv(n, i)
       BY <1>1, <1>5, <1>8, <1>11 DEF CtxInv
<1>13. Moved(gw, n, i)
       BY <1>5, <1>7, <1>8, <1>12 DEF Moved
<1> QED
    BY <1>1, <1>2, <1>4, <1>5, <1>6, <1>8, <1>9, <1>13

\* HandleError keeps the invariant.
LEMMA HandleErrorKeeps == ASSUME LinkInv, NEW i \in Idx, HandleError(i) PROVE LinkInv' /\ (Die \/ LinkKept(i))
<1>0. gw.running /\ gw.ctx[i].conn = "broken" /\ i \notin gw.failing
      BY DEF HandleError
<1>1. CASE gw.ctx[i].client /\ ~gw.amf[i].there
      BY <1>1, DieKeeps DEF HandleError
<1>2. CASE ~(gw.ctx[i].client /\ ~gw.amf[i].there)
  <2>a. /\ gw \in Gateway /\ gw.ctx[i] \in Context /\ CtxInv(gw, i)
        /\ (i \notin touched => OwnInv(i) /\ AlarmInv(i))
        BY <1>0, AtIndex
  <2>k. PICK k : k = Closed(gw, i)
        OBVIOUS
  <2>m. PICK m : m = PutFailing(k, k.failing \cup {i})
        OBVIOUS
  <2>1. gw' = IF gw.ctx[i].client THEN Restart(m, i) ELSE m
        BY <1>2, <2>k, <2>m DEF HandleError, PutFailing
  <2>2. /\ Moved(gw, gw', i) /\ Differs(gw, gw', i, {"ctx", "events", "failing", "amf"})
        /\ i \in gw'.failing /\ gw'.ctx[i] = [Ended(gw.ctx[i]) EXCEPT !.conn = "none"]
        /\ gw'.amf[i].there = gw.amf[i].there
        /\ gw.ctx[i].client => ~gw'.amf[i].setup
        /\ ~gw.ctx[i].client => gw'.amf[i] = gw.amf[i]
        BY <2>a, <2>k, <2>m, <2>1, HandleErrorIs
  <2>3. /\ gw'.ctx[i].conn = "none" /\ gw'.ctx[i].status = gw.ctx[i].status /\ gw'.ctx[i].client = gw.ctx[i].client
        /\ gw'.ctx[i].alarm = gw.ctx[i].alarm /\ gw'.ctx[i].clearing = gw.ctx[i].clearing
        /\ gw'.ctx[i].peer = gw.ctx[i].peer
        BY <2>a, <2>2 DEF Context, Ended
  <2>4. UNCHANGED <<table, cmd, raised, astray, touched, forgot, hushed>>
        BY <1>2 DEF HandleError, Env, ghosts
  <2>5. ASSUME i \notin touched'
        PROVE  OwnInv(i)' /\ AlarmInv(i)'
    <3>1. OwnInv(i) /\ AlarmInv(i)
          BY <2>a, <2>4, <2>5
    <3>2. /\ gw'.clients_links[i] = gw.clients_links[i] /\ gw'.retry[i] = gw.retry[i]
          /\ (i \in gw'.stale <=> i \in gw.stale)
          BY <2>2 DEF Differs
    <3>3. gw.retry[i] = 0 /\ gw.clients_links[i] = None
          BY <1>0, <3>1 DEF OwnInv
    <3>4. ~gw'.amf[i].setup
          BY <1>0, <2>a, <2>2, <3>1 DEF OwnInv, CtxInv
    <3>5. OwnInv(i)'
          BY <1>0, <2>a, <2>2, <2>3, <2>4, <3>1, <3>2, <3>3, <3>4 DEF OwnInv, CtxInv
    <3>6. AlarmInv(i)'
          BY <2>2, <2>3, <2>4, <3>1, <3>2 DEF AlarmInv
    <3> QED
        BY <3>5, <3>6
  <2>6. LinkKept(i)
        BY <2>2, <2>3, <2>4 DEF LinkKept, Differs
  <2>7. LinkInv'
        BY <1>0, <2>2, <2>4, <2>5, LinkMoves
  <2> QED
      BY <2>6, <2>7
<1> QED
    BY <1>1, <1>2

\* The loss is handled: the context is closed and inactive, its alarm raised, a client's
\* reconnection timer started.
LEMMA FinishErrorIs ==
  ASSUME gw \in Gateway, NEW i \in Idx, CtxInv(gw, i), gw.ctx[i].status # "unset",
         gw' = [Closed(gw, i) EXCEPT
                        !.failing = @ \ {i}, !.ctx[i].status = "inactive",
                        !.ctx[i].alarm = TRUE, !.ctx[i].clearing = "no",
                        !.stale = IF gw.ctx[i].clearing = "queued" THEN @ \cup {i} ELSE @,
                        !.retry[i] = IF gw.ctx[i].client THEN More(@) ELSE @]
  PROVE  /\ Moved(gw, gw', i) /\ Differs(gw, gw', i, {"ctx", "events", "failing", "stale", "retry"})
         /\ i \notin gw'.failing /\ gw'.ctx[i].status = "inactive" /\ gw'.ctx[i].alarm
         /\ gw'.ctx[i].clearing = "no" /\ gw'.ctx[i].conn = "none"
         /\ gw'.ctx[i].client = gw.ctx[i].client /\ gw'.ctx[i].peer = gw.ctx[i].peer
         /\ gw'.retry[i] = IF gw.ctx[i].client THEN More(gw.retry[i]) ELSE gw.retry[i]
<1>k. PICK k : k = Closed(gw, i)
      OBVIOUS
<1>c. PICK c : c = [k.ctx[i] EXCEPT !.status = "inactive", !.alarm = TRUE, !.clearing = "no"]
      OBVIOUS
<1>f. PICK F : F = k.failing \ {i}
      OBVIOUS
<1>s. PICK S : S = IF gw.ctx[i].clearing = "queued" THEN k.stale \cup {i} ELSE k.stale
      OBVIOUS
<1>r. PICK r : r = IF gw.ctx[i].client THEN More(k.retry[i]) ELSE k.retry[i]
      OBVIOUS
<1>1. /\ k \in Gateway /\ Differs(gw, k, i, {"ctx", "events"}) /\ "yes" \notin k.events[i]
      /\ k.ctx[i] = [Ended(gw.ctx[i]) EXCEPT !.conn = "none"] /\ k.ctx[i] \in Context
      BY <1>k, ClosedIs
<1>2. gw.ctx[i] \in Context /\ k.retry[i] \in Nat
      BY <1>1 DEF Gateway
<1>3. /\ k.ctx[i].conn = "none" /\ ~k.ctx[i].asked /\ ~k.ctx[i].accepted
      /\ k.ctx[i].client = gw.ctx[i].client /\ k.ctx[i].peer = gw.ctx[i].peer
      BY <1>1, <1>2 DEF Context, Ended
<1>4. /\ c \in Context /\ c.status = "inactive" /\ c.alarm /\ c.clearing = "no" /\ c.conn = "none"
      /\ ~c.asked /\ ~c.accepted /\ c.client = gw.ctx[i].client /\ c.peer = gw.ctx[i].peer
      BY <1>c, <1>1, <1>3 DEF Context
<1>5. F \in SUBSET Idx /\ S \in SUBSET Idx /\ r \in Nat
      BY <1>f, <1>s, <1>r, <1>1, <1>2, LinkAssumption DEF Gateway, More
<1>h. PICK h : h = [k EXCEPT !.failing = F, !.ctx[i] = c, !.stale = S, !.retry[i] = r]
      OBVIOUS
<1>6. gw' = h
  <2>1. gw' = [k EXCEPT !.failing = F, !.ctx[i].status = "inactive",
                        !.ctx[i].alarm = TRUE, !.ctx[i].clearing = "no", !.stale = S, !.retry[i] = r]
        BY <1>k, <1>f, <1>s, <1>r
  <2>a. PICK a : a = [k EXCEPT !.failing = F]
        OBVIOUS
  <2>b. PICK b : b = [a EXCEPT !.ctx[i] = c]
        OBVIOUS
  <2>2. a \in Gateway /\ a.ctx = k.ctx
        BY <1>1, <1>5, <2>a DEF Gateway
  <2>3. b = [a EXCEPT !.ctx[i].status = "inactive", !.ctx[i].alarm = TRUE, !.ctx[i].clearing = "no"]
        BY <1>c, <2>b, <2>2 DEF Gateway
  <2>4. gw' = [b EXCEPT !.stale = S, !.retry[i] = r]
        BY <2>1, <2>a, <2>3
  <2> QED
      BY <1>h, <2>a, <2>b, <2>4
<1>7. /\ h.failing = F /\ h.ctx = [k.ctx EXCEPT ![i] = c] /\ h.stale = S /\ h.retry = [k.retry EXCEPT ![i] = r]
      /\ h.running = k.running /\ h.clients_links = k.clients_links /\ h.servers = k.servers
      /\ h.amf = k.amf /\ h.events = k.events
      BY <1>h, <1>1 DEF Gateway
<1>8. h.ctx \in [Idx -> Context] /\ h.retry \in [Idx -> Nat]
      BY <1>1, <1>4, <1>5, <1>7 DEF Gateway
<1>9. h \in Gateway
      BY <1>h, <1>1, <1>5, <1>8 DEF Gateway
<1>10. h.ctx[i] = c /\ h.retry[i] = r /\ \A j \in Idx : j # i => h.ctx[j] = k.ctx[j] /\ h.retry[j] = k.retry[j]
       BY <1>1, <1>7 DEF Gateway
<1>11. \A j \in Idx : j # i => (j \in F <=> j \in k.failing) /\ (j \in S <=> j \in k.stale)
       BY <1>f, <1>s
<1>12. Only(gw, h, i)
       BY <1>1, <1>7, <1>10, <1>11 DEF Differs, Only, Same
<1>13. /\ h.running = gw.running /\ h.servers = gw.servers /\ h.clients_links[i] = gw.clients_links[i]
       /\ h.amf[i] = gw.amf[i] /\ k.retry[i] = gw.retry[i]
       BY <1>1, <1>7 DEF Differs
<1>14. Differs(gw, h, i, {"ctx", "events", "failing", "stale", "retry"})
       BY <1>12, <1>13 DEF Differs
<1>15. CtxInv(h, i)
       BY <1>1, <1>4, <1>7, <1>10, <1>13 DEF CtxInv
<1>16. Moved(gw, h, i)
       BY <1>9, <1>12, <1>13, <1>15 DEF Moved
<1>17. i \notin h.failing
       BY <1>f, <1>7
<1>18. h.retry[i] = IF gw.ctx[i].client THEN More(gw.retry[i]) ELSE gw.retry[i]
       BY <1>r, <1>10, <1>13
<1>19. /\ h.ctx[i].status = "inactive" /\ h.ctx[i].alarm /\ h.ctx[i].clearing = "no" /\ h.ctx[i].conn = "none"
       /\ h.ctx[i].client = gw.ctx[i].client /\ h.ctx[i].peer = gw.ctx[i].peer
       BY <1>4, <1>10
<1> QED
    BY <1>6, <1>14, <1>16, <1>17, <1>18, <1>19

\* FinishError keeps the invariant.
LEMMA FinishErrorKeeps == ASSUME LinkInv, NEW i \in Idx, FinishError(i) PROVE LinkInv' /\ (Die \/ LinkKept(i))
<1>0. gw.running /\ i \in gw.failing
      BY DEF FinishError
<1>1. CASE gw.ctx[i].status = "unset"
      BY <1>1, DieKeeps DEF FinishError
<1>2. CASE gw.ctx[i].status # "unset"
  <2>a. /\ gw \in Gateway /\ gw.ctx[i] \in Context /\ gw.retry[i] \in Nat /\ CtxInv(gw, i)
        /\ (i \notin touched => OwnInv(i) /\ AlarmInv(i))
        BY <1>0, AtIndex
  <2>1. gw' = [Closed(gw, i) EXCEPT
                        !.failing = @ \ {i}, !.ctx[i].status = "inactive",
                        !.ctx[i].alarm = TRUE, !.ctx[i].clearing = "no",
                        !.stale = IF gw.ctx[i].clearing = "queued" THEN @ \cup {i} ELSE @,
                        !.retry[i] = IF gw.ctx[i].client THEN More(@) ELSE @]
        BY <1>2 DEF FinishError
  <2>2. /\ Moved(gw, gw', i) /\ Differs(gw, gw', i, {"ctx", "events", "failing", "stale", "retry"})
        /\ i \notin gw'.failing /\ gw'.ctx[i].status = "inactive" /\ gw'.ctx[i].alarm
        /\ gw'.ctx[i].clearing = "no" /\ gw'.ctx[i].conn = "none"
        /\ gw'.ctx[i].client = gw.ctx[i].client /\ gw'.ctx[i].peer = gw.ctx[i].peer
        /\ gw'.retry[i] = IF gw.ctx[i].client THEN More(gw.retry[i]) ELSE gw.retry[i]
        BY <1>2, <2>a, <2>1, FinishErrorIs
  <2>3. /\ UNCHANGED <<table, cmd, astray, touched, hushed>>
        /\ raised' = IF gw.ctx[i].alarm THEN raised ELSE raised \cup {i}
        /\ forgot' = IF gw.ctx[i].alarm THEN forgot ELSE forgot \ {i}
        BY <1>2 DEF FinishError, Env
  <2>4. ASSUME i \notin touched'
        PROVE  OwnInv(i)' /\ AlarmInv(i)'
    <3>1. OwnInv(i) /\ AlarmInv(i)
          BY <2>a, <2>3, <2>4
    <3>2. gw'.clients_links[i] = gw.clients_links[i] /\ gw'.amf[i] = gw.amf[i]
          BY <2>2 DEF Differs
    <3>3. gw.retry[i] = 0 /\ gw.clients_links[i] = None /\ ~gw.amf[i].setup
          BY <1>0, <2>a, <3>1 DEF OwnInv, CtxInv
    <3>4. gw'.retry[i] \in {0, 1} /\ (gw'.retry[i] # 0 => gw.ctx[i].client)
          BY <2>2, <3>3 DEF More
    <3>5. OwnInv(i)'
          BY <1>2, <2>2, <2>3, <3>1, <3>2, <3>3, <3>4 DEF OwnInv
    <3>6. AlarmInv(i)'
          BY <2>2, <2>3, <3>1 DEF AlarmInv
    <3> QED
        BY <3>5, <3>6
  <2>5. LinkKept(i)
        BY <1>2, <2>2, <2>3 DEF LinkKept, Differs
  <2>6. LinkInv'
        BY <1>0, <2>2, <2>3, <2>4, LinkMoves
  <2> QED
      BY <2>5, <2>6
<1> QED
    BY <1>1, <1>2

\* The first attempts at a client link: it is connected and out of clients_links, or in it.
LEMMA SctpTimerIs ==
  ASSUME gw \in Gateway, NEW i \in Idx, NEW p \in Peers,
         gw' = IF p \in up THEN [AddSctpClient(gw, i, p) EXCEPT !.clients_links[i] = None]
               ELSE AddSctpClient(gw, i, p)
  PROVE  /\ Moved(gw, gw', i) /\ Differs(gw, gw', i, {"ctx", "events", "links"})
         /\ gw'.ctx[i].client /\ gw'.ctx[i].peer = p
         /\ gw'.ctx[i].alarm = gw.ctx[i].alarm /\ gw'.ctx[i].clearing = gw.ctx[i].clearing
         /\ p \in up => gw'.ctx[i].status = "active" /\ gw'.ctx[i].conn = "open" /\ gw'.clients_links[i] = None
         /\ p \notin up => /\ gw'.ctx[i].status = gw.ctx[i].status /\ gw'.ctx[i].conn = "none"
                           /\ gw'.clients_links[i] = gw.clients_links[i]
<1>g. PICK g : g = AddSctpClient(gw, i, p)
      OBVIOUS
<1>m. PICK m : m = PutLinks(g, i, None)
      OBVIOUS
<1>1. Moved(gw, g, i)
      BY <1>g, TriedMoves
<1>2. /\ g \in Gateway /\ Differs(gw, g, i, {"ctx", "events"})
      /\ g.ctx[i].client /\ g.ctx[i].peer = p
      /\ g.ctx[i].alarm = gw.ctx[i].alarm /\ g.ctx[i].clearing = gw.ctx[i].clearing
      /\ p \in up => g.ctx[i].status = "active" /\ g.ctx[i].conn = "open"
      /\ p \notin up => g.ctx[i].status = gw.ctx[i].status /\ g.ctx[i].conn = "none"
      BY <1>g, AddSctpClientIs
<1>3. m \in Gateway /\ m.clients_links[i] = None /\ Differs(g, m, i, {"links"})
  <2>1. /\ PutLinks(g, i, None) \in Gateway /\ PutLinks(g, i, None).clients_links[i] = None
        /\ Differs(g, PutLinks(g, i, None), i, {"links"})
        BY <1>2, PutLinksIs
  <2> QED
      BY <1>m, <2>1
<1>4. Moved(g, m, i)
      BY <1>2, <1>m, LinksMove
<1>5. Moved(gw, m, i)
      BY <1>1, <1>4, MovedTwice
<1>6. gw' = IF p \in up THEN m ELSE g
      BY <1>g, <1>m DEF PutLinks
<1>7. Differs(gw, m, i, {"ctx", "events"} \cup {"links"})
      BY <1>2, <1>3, DiffersTwice
<1>8. Differs(gw, m, i, {"ctx", "events", "links"}) /\ Differs(gw, g, i, {"ctx", "events", "links"})
      BY <1>2, <1>7 DEF Differs
<1>9. m.ctx[i] = g.ctx[i] /\ g.clients_links[i] = gw.clients_links[i]
      BY <1>2, <1>3 DEF Differs
<1>10. CASE p \in up
       BY <1>2, <1>3, <1>5, <1>6, <1>8, <1>9, <1>10
<1>11. CASE p \notin up
       BY <1>1, <1>2, <1>6, <1>8, <1>9, <1>11
<1> QED
    BY <1>10, <1>11

\* SctpTimer keeps the invariant.
LEMMA SctpTimerKeeps == ASSUME LinkInv, NEW i \in Idx, SctpTimer(i) PROVE LinkInv'
<1>0. gw.running /\ gw.clients_links[i] # None
      BY DEF SctpTimer
<1>1. CASE Die
      BY <1>1, DieKeeps
<1>2. CASE ~Die
  <2>a. /\ gw \in Gateway /\ gw.ctx[i] \in Context /\ CtxInv(gw, i) /\ gw.clients_links[i] \in Waiting \cup {None}
        /\ (i \notin touched => OwnInv(i) /\ AlarmInv(i))
        BY <1>0, AtIndex
  <2>p. PICK p : p = gw.clients_links[i].peer
        OBVIOUS
  <2>1. /\ p \in Peers
        /\ gw' = IF p \in up THEN [AddSctpClient(gw, i, p) EXCEPT !.clients_links[i] = None]
               ELSE AddSctpClient(gw, i, p)
        /\ Env(<<up, raised, ghosts>>)
        BY <1>0, <1>2, <2>a, <2>p DEF SctpTimer, Waiting
  <2>2. /\ Moved(gw, gw', i) /\ Differs(gw, gw', i, {"ctx", "events", "links"})
        /\ gw'.ctx[i].client /\ gw'.ctx[i].peer = p
        /\ gw'.ctx[i].alarm = gw.ctx[i].alarm /\ gw'.ctx[i].clearing = gw.ctx[i].clearing
        /\ p \in up => gw'.ctx[i].status = "active" /\ gw'.ctx[i].conn = "open" /\ gw'.clients_links[i] = None
        /\ p \notin up => /\ gw'.ctx[i].status = gw.ctx[i].status /\ gw'.ctx[i].conn = "none"
                          /\ gw'.clients_links[i] = gw.clients_links[i]
        BY <2>a, <2>1, SctpTimerIs
  <2>3. UNCHANGED <<table, cmd, raised, touched, forgot, hushed>>
        BY <2>1 DEF Env, ghosts
  <2>4. ASSUME i \notin touched'
        PROVE  OwnInv(i)' /\ AlarmInv(i)'
    <3>1. OwnInv(i) /\ AlarmInv(i)
          BY <2>a, <2>3, <2>4
    <3>2. /\ gw'.retry[i] = gw.retry[i] /\ gw'.amf[i] = gw.amf[i]
          /\ (i \in gw'.failing <=> i \in gw.failing) /\ (i \in gw'.stale <=> i \in gw.stale)
          BY <2>2 DEF Differs
    <3>3. /\ IsClient(table, i) /\ RowsAt(table, i) # {} /\ gw.ctx[i].status # "unset"
          /\ gw.retry[i] = 0 /\ i \notin gw.failing /\ ~gw.amf[i].setup /\ ~gw.ctx[i].alarm
          BY <1>0, <3>1 DEF OwnInv, IsClient
    <3>4. CASE p \in up
      <4>1. OwnInv(i)'
            BY <2>2, <2>3, <3>1, <3>2, <3>3, <3>4 DEF OwnInv
      <4>2. AlarmInv(i)'
            BY <2>2, <2>3, <3>1, <3>2, <3>3 DEF AlarmInv
      <4> QED
          BY <4>1, <4>2
    <3>5. CASE p \notin up
      <4>1. OwnInv(i)'
            BY <2>2, <2>3, <3>1, <3>2, <3>3, <3>5 DEF OwnInv
      <4>2. AlarmInv(i)'
            BY <2>2, <2>3, <3>1, <3>2, <3>3 DEF AlarmInv
      <4> QED
          BY <4>1, <4>2
    <3> QED
        BY <3>4, <3>5
  <2> QED
      BY <1>0, <2>2, <2>3, <2>4, LinkMoves
<1> QED
    BY <1>1, <1>2

\* The context is connected again, and has a timer when its alarm is raised.
LEMMA ClientTimerIs ==
  ASSUME gw \in Gateway, NEW i \in Idx,
         gw' = [gw EXCEPT !.retry[i] = Fewer(@), !.ctx[i] = Reassured(Connected(@))]
  PROVE  /\ Moved(gw, gw', i) /\ Differs(gw, gw', i, {"ctx", "retry"})
         /\ gw'.retry[i] = Fewer(gw.retry[i])
         /\ gw'.ctx[i].status = "active" /\ gw'.ctx[i].conn = "open"
         /\ gw'.ctx[i].client = gw.ctx[i].client /\ gw'.ctx[i].peer = gw.ctx[i].peer
         /\ gw'.ctx[i].alarm = gw.ctx[i].alarm /\ (gw'.ctx[i].alarm => gw'.ctx[i].clearing # "no")
<1>n. PICK n : n = Fewer(gw.retry[i])
      OBVIOUS
<1>c. PICK c : c = Connected(gw.ctx[i])
      OBVIOUS
<1>d. PICK d : d = Reassured(c)
      OBVIOUS
<1>m. PICK m : m = PutRetry(gw, i, n)
      OBVIOUS
<1>0. gw.ctx[i] \in Context /\ gw.retry[i] \in Nat
      BY DEF Gateway
<1>1. n \in Nat
      BY <1>0, <1>n DEF Fewer
<1>2. /\ c \in Context /\ c.status = "active" /\ c.conn = "open" /\ c.client = gw.ctx[i].client /\ c.peer = gw.ctx[i].peer
      /\ c.alarm = gw.ctx[i].alarm /\ c.asked = gw.ctx[i].asked /\ c.accepted = gw.ctx[i].accepted
      BY <1>0, <1>c, ConnectedIs
<1>3. /\ d \in Context /\ d.status = "active" /\ d.conn = "open" /\ d.client = gw.ctx[i].client /\ d.peer = gw.ctx[i].peer
      /\ d.alarm = gw.ctx[i].alarm /\ d.asked = gw.ctx[i].asked /\ d.accepted = gw.ctx[i].accepted
      /\ (d.alarm => d.clearing # "no")
      BY <1>2, <1>d, ReassuredIs
<1>4. m \in Gateway /\ m.retry[i] = n /\ Differs(gw, m, i, {"retry"})
      BY <1>1, <1>m, PutRetryIs
<1>5. gw' = PutCtx(m, i, d)
      BY <1>n, <1>c, <1>d, <1>m DEF PutCtx, PutRetry, Gateway
<1>6. gw' \in Gateway /\ gw'.ctx[i] = d /\ Differs(m, gw', i, {"ctx"})
  <2>1. PutCtx(m, i, d) \in Gateway /\ PutCtx(m, i, d).ctx[i] = d /\ Differs(m, PutCtx(m, i, d), i, {"ctx"})
        BY <1>3, <1>4, PutCtxIs
  <2> QED
      BY <1>5, <2>1
<1>7. Differs(gw, gw', i, {"retry"} \cup {"ctx"})
      BY <1>4, <1>6, DiffersTwice
<1>8. {"retry"} \cup {"ctx"} = {"ctx", "retry"}
      OBVIOUS
<1>9. gw'.events[i] = gw.events[i] /\ gw'.amf[i] = gw.amf[i] /\ gw'.running = gw.running /\ Only(gw, gw', i)
      BY <1>7 DEF Differs
<1>10. gw'.retry[i] = n
       BY <1>4, <1>6 DEF Differs
<1>11. CtxInv(gw, i) => CtxInv(gw', i)
       BY <1>3, <1>6, <1>9 DEF CtxInv
<1> QED
    BY <1>n, <1>3, <1>6, <1>7, <1>8, <1>9, <1>10, <1>11 DEF Moved

\* ClientTimer keeps the invariant.
LEMMA ClientTimerKeeps == ASSUME LinkInv, NEW i \in Idx, ClientTimer(i) PROVE LinkInv'
<1>0. gw.running /\ gw.retry[i] > 0
      BY DEF ClientTimer
<1>a. /\ gw \in Gateway /\ gw.retry[i] \in Nat /\ CtxInv(gw, i) /\ (i \notin touched => OwnInv(i) /\ AlarmInv(i))
      BY <1>0, AtIndex
<1>1. gw' = [gw EXCEPT !.retry[i] = Fewer(@), !.ctx[i] = Reassured(Connected(@))]
      BY DEF ClientTimer
<1>2. /\ Moved(gw, gw', i) /\ Differs(gw, gw', i, {"ctx", "retry"})
      /\ gw'.retry[i] = Fewer(gw.retry[i])
      /\ gw'.ctx[i].status = "active" /\ gw'.ctx[i].conn = "open"
      /\ gw'.ctx[i].client = gw.ctx[i].client /\ gw'.ctx[i].peer = gw.ctx[i].peer
      /\ gw'.ctx[i].alarm = gw.ctx[i].alarm /\ (gw'.ctx[i].alarm => gw'.ctx[i].clearing # "no")
      BY <1>a, <1>1, ClientTimerIs
<1>3. UNCHANGED <<table, cmd, raised, touched, forgot, hushed>>
      BY DEF ClientTimer, Env, ghosts
<1>4. ASSUME i \notin touched'
      PROVE  OwnInv(i)' /\ AlarmInv(i)'
  <2>1. OwnInv(i) /\ AlarmInv(i)
        BY <1>a, <1>3, <1>4
  <2>2. /\ gw'.clients_links[i] = gw.clients_links[i] /\ gw'.amf[i] = gw.amf[i]
        /\ (i \in gw'.failing <=> i \in gw.failing) /\ (i \in gw'.stale <=> i \in gw.stale)
        BY <1>2 DEF Differs
  <2>3. gw.retry[i] # 0
        BY <1>0, <1>a
  <2>4. /\ IsClient(table, i) /\ RowsAt(table, i) # {} /\ gw.clients_links[i] = None /\ i \notin gw.failing
        /\ gw.ctx[i].status = "inactive" /\ gw.retry[i] = 1 /\ gw.ctx[i].client
        BY <1>0, <2>1, <2>3 DEF OwnInv, IsClient
  <2>5. gw'.retry[i] = 0
        BY <1>2, <2>4 DEF Fewer
  <2>6. ~gw.amf[i].setup
        BY <1>a, <2>1, <2>3, <2>4 DEF OwnInv, CtxInv
  <2>7. OwnInv(i)'
        BY <1>2, <1>3, <2>1, <2>2, <2>4, <2>5, <2>6 DEF OwnInv
  <2>8. AlarmInv(i)'
        BY <1>2, <1>3, <2>1, <2>5 DEF AlarmInv
  <2> QED
      BY <2>7, <2>8
<1> QED
    BY <1>0, <1>2, <1>3, <1>4, LinkMoves

\* A context is written, but not its link.
LEMMA CtxMoves ==
  ASSUME gw \in Gateway, NEW i \in Idx, NEW x \in Context, gw' = PutCtx(gw, i, x),
         x.accepted = gw.ctx[i].accepted, x.asked = gw.ctx[i].asked, x.conn = gw.ctx[i].conn,
         x.status = gw.ctx[i].status, x.client = gw.ctx[i].client, x.peer = gw.ctx[i].peer
  PROVE  Moved(gw, gw', i) /\ Differs(gw, gw', i, {"ctx"}) /\ gw'.ctx[i] = x
<1>1. PutCtx(gw, i, x) \in Gateway /\ PutCtx(gw, i, x).ctx[i] = x /\ Differs(gw, PutCtx(gw, i, x), i, {"ctx"})
      BY PutCtxIs
<1>2. gw' \in Gateway /\ gw'.ctx[i] = x /\ Differs(gw, gw', i, {"ctx"})
      BY <1>1
<1>3. gw'.events[i] = gw.events[i] /\ gw'.amf[i] = gw.amf[i] /\ gw'.running = gw.running /\ Only(gw, gw', i)
      BY <1>2 DEF Differs
<1>4. CtxInv(gw, i) => CtxInv(gw', i)
      BY <1>2, <1>3 DEF CtxInv
<1> QED
    BY <1>2, <1>3, <1>4 DEF Moved

\* AlarmTimer keeps the invariant.
LEMMA AlarmTimerKeeps == ASSUME LinkInv, NEW i \in Idx, AlarmTimer(i) PROVE LinkInv' /\ LinkKept(i)
<1>0. gw.running /\ gw.ctx[i].clearing = "timer"
      BY DEF AlarmTimer
<1>a. /\ gw \in Gateway /\ gw.ctx[i] \in Context /\ CtxInv(gw, i) /\ (i \notin touched => OwnInv(i) /\ AlarmInv(i))
      BY <1>0, AtIndex
<1>x. PICK x : x = [gw.ctx[i] EXCEPT !.clearing = "queued"]
      OBVIOUS
<1>1. gw' = PutCtx(gw, i, x)
      BY <1>a, <1>x DEF AlarmTimer, PutCtx, Gateway
<1>2. /\ x \in Context /\ x.accepted = gw.ctx[i].accepted /\ x.asked = gw.ctx[i].asked /\ x.conn = gw.ctx[i].conn
      /\ x.status = gw.ctx[i].status /\ x.client = gw.ctx[i].client /\ x.peer = gw.ctx[i].peer
      /\ x.alarm = gw.ctx[i].alarm /\ x.clearing = "queued"
      BY <1>a, <1>x DEF Context
<1>3. Moved(gw, gw', i) /\ Differs(gw, gw', i, {"ctx"}) /\ gw'.ctx[i] = x
      BY <1>a, <1>1, <1>2, CtxMoves
<1>4. UNCHANGED <<table, cmd, astray, raised, touched, forgot, hushed>>
      BY DEF AlarmTimer, Env, ghosts
<1>5. ASSUME i \notin touched'
      PROVE  OwnInv(i)' /\ AlarmInv(i)'
  <2>1. OwnInv(i) /\ AlarmInv(i)
        BY <1>a, <1>4, <1>5
  <2>2. /\ gw'.clients_links[i] = gw.clients_links[i] /\ gw'.amf[i] = gw.amf[i] /\ gw'.retry[i] = gw.retry[i]
        /\ (i \in gw'.failing <=> i \in gw.failing) /\ (i \in gw'.stale <=> i \in gw.stale)
        BY <1>3 DEF Differs
  <2>3. OwnInv(i)'
        BY <1>0, <1>2, <1>3, <1>4, <2>1, <2>2 DEF OwnInv
  <2>4. AlarmInv(i)'
        BY <1>2, <1>3, <1>4, <2>1, <2>2 DEF AlarmInv
  <2> QED
      BY <2>3, <2>4
<1>6. LinkKept(i)
      BY <1>2, <1>3, <1>4 DEF LinkKept, Differs
<1>7. LinkInv'
      BY <1>0, <1>3, <1>4, <1>5, LinkMoves
<1> QED
    BY <1>6, <1>7

\* OnSctpAlarmTimer keeps the invariant.
LEMMA OnSctpAlarmTimerKeeps == ASSUME LinkInv, NEW i \in Idx, OnSctpAlarmTimer(i) PROVE LinkInv' /\ LinkKept(i)
<1>0. gw.running /\ gw.ctx[i].clearing = "queued"
      BY DEF OnSctpAlarmTimer
<1>a. /\ gw \in Gateway /\ gw.ctx[i] \in Context /\ gw.retry[i] \in Nat /\ CtxInv(gw, i)
      /\ (i \notin touched => OwnInv(i) /\ AlarmInv(i))
      BY <1>0, AtIndex
<1>x. PICK x : x = [gw.ctx[i] EXCEPT !.clearing = "no", !.alarm = FALSE]
      OBVIOUS
<1>1. gw' = PutCtx(gw, i, x)
      BY <1>a, <1>x DEF OnSctpAlarmTimer, PutCtx, Gateway
<1>2. /\ x \in Context /\ x.accepted = gw.ctx[i].accepted /\ x.asked = gw.ctx[i].asked /\ x.conn = gw.ctx[i].conn
      /\ x.status = gw.ctx[i].status /\ x.client = gw.ctx[i].client /\ x.peer = gw.ctx[i].peer
      /\ ~x.alarm /\ x.clearing = "no"
      BY <1>a, <1>x DEF Context
<1>3. Moved(gw, gw', i) /\ Differs(gw, gw', i, {"ctx"}) /\ gw'.ctx[i] = x
      BY <1>a, <1>1, <1>2, CtxMoves
<1>4. UNCHANGED <<table, cmd, astray, touched, hushed>> /\ raised' = raised \ {i} /\ forgot' = forgot \ {i}
      BY DEF OnSctpAlarmTimer, Env
<1>5. ASSUME i \notin touched'
      PROVE  OwnInv(i)' /\ AlarmInv(i)'
  <2>1. OwnInv(i) /\ AlarmInv(i)
        BY <1>a, <1>4, <1>5
  <2>2. /\ gw'.clients_links[i] = gw.clients_links[i] /\ gw'.amf[i] = gw.amf[i] /\ gw'.retry[i] = gw.retry[i]
        /\ (i \in gw'.failing <=> i \in gw.failing) /\ (i \in gw'.stale <=> i \in gw.stale)
        BY <1>3 DEF Differs
  <2>3. ~(gw.retry[i] > 0)
        BY <1>0, <2>1 DEF OwnInv
  <2>4. OwnInv(i)'
        BY <1>0, <1>2, <1>3, <1>4, <2>1, <2>2 DEF OwnInv
  <2>5. AlarmInv(i)'
        BY <1>2, <1>3, <1>4, <2>2, <2>3 DEF AlarmInv
  <2> QED
      BY <2>4, <2>5
<1>6. LinkKept(i)
      BY <1>2, <1>3, <1>4 DEF LinkKept, Differs
<1>7. LinkInv'
      BY <1>0, <1>3, <1>4, <1>5, LinkMoves
<1> QED
    BY <1>6, <1>7

\* OnOldAlarmTimer keeps the invariant.
LEMMA OnOldAlarmTimerKeeps == ASSUME LinkInv, NEW i \in Idx, OnOldAlarmTimer(i) PROVE LinkInv' /\ LinkKept(i)
<1>0. gw.running /\ i \in gw.stale
      BY DEF OnOldAlarmTimer
<1>a. /\ gw \in Gateway /\ gw.ctx[i] \in Context /\ gw.retry[i] \in Nat /\ CtxInv(gw, i)
      /\ (i \notin touched => OwnInv(i) /\ AlarmInv(i))
      BY <1>0, AtIndex
<1>x. PICK x : x = [gw.ctx[i] EXCEPT !.clearing = "no", !.alarm = FALSE]
      OBVIOUS
<1>s. PICK S : S = IF gw.ctx[i].clearing # "no" THEN gw.stale ELSE gw.stale \ {i}
      OBVIOUS
<1>w. PICK shown : shown = IF gw.ctx[i].status = "unset" THEN 0 ELSE i
      OBVIOUS
<1>m. PICK m : m = PutCtx(gw, i, x)
      OBVIOUS
<1>1. gw' = PutStale(m, S)
  <2>1. gw' = [gw EXCEPT !.ctx[i].clearing = "no", !.ctx[i].alarm = FALSE, !.stale = S]
        BY <1>s DEF OnOldAlarmTimer
  <2>2. [gw EXCEPT !.ctx[i].clearing = "no", !.ctx[i].alarm = FALSE] = m
        BY <1>a, <1>x, <1>m DEF PutCtx, Gateway
  <2> QED
      BY <2>1, <2>2 DEF PutStale
<1>2. /\ x \in Context /\ x.accepted = gw.ctx[i].accepted /\ x.asked = gw.ctx[i].asked /\ x.conn = gw.ctx[i].conn
      /\ x.status = gw.ctx[i].status /\ x.client = gw.ctx[i].client /\ x.peer = gw.ctx[i].peer
      /\ ~x.alarm /\ x.clearing = "no"
      BY <1>a, <1>x DEF Context
<1>3. m \in Gateway /\ m.ctx[i] = x /\ Differs(gw, m, i, {"ctx"}) /\ m.stale = gw.stale
  <2>1. m \in Gateway /\ m.ctx[i] = x /\ Differs(gw, m, i, {"ctx"})
        BY <1>a, <1>m, <1>2, PutCtxIs
  <2>2. m.stale = gw.stale
        BY <1>a, <1>m DEF PutCtx, Gateway
  <2> QED
      BY <2>1, <2>2
<1>4. gw' \in Gateway /\ gw'.stale = S /\ Differs(m, gw', i, {"stale"})
  <2>1. S \in SUBSET Idx /\ \A j \in Idx : j # i => (j \in S <=> j \in m.stale)
        BY <1>a, <1>s, <1>3 DEF Gateway
  <2>2. PutStale(m, S) \in Gateway /\ PutStale(m, S).stale = S /\ Differs(m, PutStale(m, S), i, {"stale"})
        BY <1>3, <2>1, PutStaleIs
  <2> QED
      BY <1>1, <2>2
<1>5. Differs(gw, gw', i, {"ctx"} \cup {"stale"})
      BY <1>3, <1>4, DiffersTwice
<1>6. /\ gw'.ctx[i] = x /\ gw'.clients_links[i] = gw.clients_links[i] /\ gw'.amf[i] = gw.amf[i]
      /\ gw'.retry[i] = gw.retry[i] /\ gw'.events[i] = gw.events[i]
      /\ (i \in gw'.failing <=> i \in gw.failing) /\ (i \in gw'.stale => i \in gw.stale)
      BY <1>s, <1>3, <1>4, <1>5 DEF Differs
<1>7. Moved(gw, gw', i)
      BY <1>2, <1>4, <1>5, <1>6 DEF Moved, Differs, CtxInv
<1>8. /\ UNCHANGED <<table, cmd, astray>> /\ raised' = raised \ {shown} /\ forgot' = forgot \ {shown}
      /\ touched' = touched \cup ({shown} \ {i})
      /\ hushed' = IF gw.ctx[i].status = "active" THEN hushed ELSE hushed \cup {i}
      BY <1>w DEF OnOldAlarmTimer, Env
<1>9. ASSUME i \notin touched'
      PROVE  OwnInv(i)' /\ AlarmInv(i)'
  <2>1. OwnInv(i) /\ AlarmInv(i)
        BY <1>a, <1>8, <1>9
  <2>2. shown = i /\ gw.clients_links[i] = None
        BY <1>0, <1>w, <2>1 DEF OwnInv
  <2>3. OwnInv(i)'
        BY <1>0, <1>2, <1>6, <1>8, <2>1, <2>2 DEF OwnInv
  <2>4. gw.retry[i] > 0 => i \in hushed'
        BY <1>8, <2>1 DEF OwnInv
  <2>5. AlarmInv(i)'
        BY <1>2, <1>6, <1>8, <2>2, <2>4 DEF AlarmInv
  <2> QED
      BY <2>3, <2>5
<1>10. \A j \in Idx : j # i /\ j \notin touched' =>
             (j \in raised' <=> j \in raised) /\ (j \in forgot' <=> j \in forgot)
       BY <1>8
<1>11. touched \subseteq touched' /\ hushed \subseteq hushed' /\ table' = table /\ cmd' = cmd
       BY <1>8
<1>12. LinkKept(i)
       BY <1>2, <1>5, <1>6, <1>8 DEF LinkKept, Differs
<1>13. LinkInv'
       BY <1>0, <1>7, <1>9, <1>10, <1>11, LinkMoves
<1> QED
    BY <1>12, <1>13

\* AmfTimer keeps the invariant.
LEMMA AmfTimerKeeps == ASSUME LinkInv, NEW i \in Idx, AmfTimer(i) PROVE LinkInv' /\ LinkKept(i)
<1>0. gw.running
      BY DEF AmfTimer
<1>a. /\ gw \in Gateway /\ gw.ctx[i] \in Context /\ gw.amf[i] \in Association /\ CtxInv(gw, i)
      /\ (i \notin touched => OwnInv(i) /\ AlarmInv(i))
      BY <1>0, AtIndex
<1>1. UNCHANGED <<table, cmd, astray, raised, touched, forgot, hushed>>
      BY DEF AmfTimer, Env, ghosts
<1>2. CASE gw.amf[i].setup
  <2>x. PICK x : x = [gw.amf[i] EXCEPT !.timers = Fewer(gw.amf[i].timers)]
        OBVIOUS
  <2>1. x \in Association /\ x.there = gw.amf[i].there /\ x.setup = gw.amf[i].setup
        BY <1>a, <2>x DEF Association, Fewer
  <2>2. gw' = PutAmf(gw, i, x)
        BY <1>a, <1>2, <2>x DEF AmfTimer, PutAmf, Gateway
  <2>3. gw' \in Gateway /\ gw'.amf[i] = x /\ Differs(gw, gw', i, {"amf"})
    <3>1. PutAmf(gw, i, x) \in Gateway /\ PutAmf(gw, i, x).amf[i] = x /\ Differs(gw, PutAmf(gw, i, x), i, {"amf"})
          BY <1>a, <2>1, PutAmfIs
    <3> QED
        BY <2>2, <3>1
  <2>4. /\ gw'.ctx[i] = gw.ctx[i] /\ gw'.events[i] = gw.events[i]
        /\ gw'.clients_links[i] = gw.clients_links[i] /\ gw'.retry[i] = gw.retry[i]
        /\ (i \in gw'.failing <=> i \in gw.failing) /\ (i \in gw'.stale <=> i \in gw.stale)
        BY <2>3 DEF Differs
  <2>5. Moved(gw, gw', i)
        BY <2>1, <2>3, <2>4 DEF Moved, Differs, CtxInv
  <2>6. ASSUME i \notin touched'
        PROVE  OwnInv(i)' /\ AlarmInv(i)'
        BY <1>a, <1>1, <2>1, <2>3, <2>4, <2>6 DEF OwnInv, AlarmInv
  <2>7. LinkKept(i)
        BY <1>1, <2>3, <2>4 DEF LinkKept, Differs
  <2>8. LinkInv'
        BY <1>0, <1>1, <2>5, <2>6, LinkMoves
  <2> QED
      BY <2>7, <2>8
<1>3. CASE ~gw.amf[i].setup
  <2>1. gw' = Request(gw, i)
        BY <1>3 DEF AmfTimer
  <2>2. gw' \in Gateway /\ Differs(gw, gw', i, {"ctx"})
        BY <1>a, <2>1, RequestIs
  <2>3. gw'.ctx[i] \in {gw.ctx[i], [gw.ctx[i] EXCEPT !.asked = TRUE]}
        BY <1>a, <2>1, RequestIs
  <2>4. /\ gw'.ctx[i].status = gw.ctx[i].status /\ gw'.ctx[i].client = gw.ctx[i].client /\ gw'.ctx[i].conn = gw.ctx[i].conn
        /\ gw'.ctx[i].peer = gw.ctx[i].peer /\ gw'.ctx[i].accepted = gw.ctx[i].accepted
        /\ gw'.ctx[i].alarm = gw.ctx[i].alarm /\ gw'.ctx[i].clearing = gw.ctx[i].clearing
        BY <1>a, <2>3 DEF Context
  <2>5. gw'.ctx[i] # gw.ctx[i] => gw.ctx[i].conn = "open"
    <3>1. gw.ctx[i].conn # "open" => gw' = gw
          BY <2>1 DEF Request
    <3> QED
        BY <3>1
  <2>6. /\ gw'.events[i] = gw.events[i] /\ gw'.amf[i] = gw.amf[i]
        /\ gw'.clients_links[i] = gw.clients_links[i] /\ gw'.retry[i] = gw.retry[i]
        /\ (i \in gw'.failing <=> i \in gw.failing) /\ (i \in gw'.stale <=> i \in gw.stale)
        BY <2>2 DEF Differs
  <2>7. CtxInv(gw', i)
        BY <1>a, <2>4, <2>5, <2>6 DEF CtxInv
  <2>8. Moved(gw, gw', i)
        BY <2>2, <2>7 DEF Moved, Differs
  <2>9. ASSUME i \notin touched'
        PROVE  OwnInv(i)' /\ AlarmInv(i)'
        BY <1>a, <1>1, <2>4, <2>6, <2>9 DEF OwnInv, AlarmInv
  <2>10. LinkKept(i)
         BY <1>1, <2>2, <2>4, <2>6 DEF LinkKept, Differs
  <2>11. LinkInv'
         BY <1>0, <1>1, <2>8, <2>9, LinkMoves
  <2> QED
      BY <2>10, <2>11
<1> QED
    BY <1>2, <1>3

\* AmfAnswers keeps the invariant.
LEMMA AmfAnswersKeeps == ASSUME LinkInv, NEW i \in Idx, AmfAnswers(i) PROVE LinkInv' /\ LinkKept(i)
<1>0. gw.running /\ gw.ctx[i].asked
      BY DEF AmfAnswers
<1>a. /\ gw \in Gateway /\ gw.ctx[i] \in Context /\ gw.events[i] \in SUBSET Answers /\ CtxInv(gw, i)
      /\ (i \notin touched => OwnInv(i) /\ AlarmInv(i))
      BY <1>0, AtIndex
<1>1. UNCHANGED <<table, cmd, astray, raised, touched, forgot, hushed>>
      BY DEF AmfAnswers, Env, ghosts
<1>2. PICK x, e : /\ gw' = [gw EXCEPT !.ctx[i] = x, !.events[i] = gw.events[i] \cup {e}]
                  /\ \/ x = [gw.ctx[i] EXCEPT !.asked = FALSE, !.accepted = TRUE] /\ e = "yes"
                     \/ x = [gw.ctx[i] EXCEPT !.asked = FALSE] /\ e = "no" /\ ~gw.ctx[i].accepted
  <2>1. CASE gw' = [gw EXCEPT !.ctx[i].asked = FALSE, !.ctx[i].accepted = TRUE, !.events[i] = @ \cup {"yes"}]
    <3>x. PICK x : x = [gw.ctx[i] EXCEPT !.asked = FALSE, !.accepted = TRUE]
          OBVIOUS
    <3>1. gw' = [gw EXCEPT !.ctx[i] = x, !.events[i] = gw.events[i] \cup {"yes"}]
          BY <1>a, <2>1, <3>x DEF Gateway
    <3> QED
        BY <3>x, <3>1
  <2>2. CASE ~gw.ctx[i].accepted /\ gw' = [gw EXCEPT !.ctx[i].asked = FALSE, !.events[i] = @ \cup {"no"}]
    <3>x. PICK x : x = [gw.ctx[i] EXCEPT !.asked = FALSE]
          OBVIOUS
    <3>1. gw' = [gw EXCEPT !.ctx[i] = x, !.events[i] = gw.events[i] \cup {"no"}]
          BY <1>a, <2>2, <3>x DEF Gateway
    <3> QED
        BY <2>2, <3>x, <3>1
  <2> QED
      BY <2>1, <2>2 DEF AmfAnswers
<1>E. PICK E : E = gw.events[i] \cup {e}
      OBVIOUS
<1>m. PICK m : m = PutCtx(gw, i, x)
      OBVIOUS
<1>3. /\ x \in Context /\ x.status = gw.ctx[i].status /\ x.client = gw.ctx[i].client /\ x.conn = gw.ctx[i].conn
      /\ x.peer = gw.ctx[i].peer /\ x.alarm = gw.ctx[i].alarm /\ x.clearing = gw.ctx[i].clearing /\ ~x.asked
      /\ (gw.ctx[i].accepted => x.accepted) /\ (e = "yes" => x.accepted) /\ E \in SUBSET Answers
      BY <1>a, <1>2, <1>E DEF Context, Answers
<1>4. m \in Gateway /\ m.ctx[i] = x /\ Differs(gw, m, i, {"ctx"})
      BY <1>a, <1>3, <1>m, PutCtxIs
<1>5. gw' = PutEvents(m, i, E)
      BY <1>a, <1>2, <1>E, <1>m DEF PutEvents, PutCtx, Gateway
<1>6. gw' \in Gateway /\ gw'.events[i] = E /\ Differs(m, gw', i, {"events"})
  <2>1. PutEvents(m, i, E) \in Gateway /\ PutEvents(m, i, E).events[i] = E /\ Differs(m, PutEvents(m, i, E), i, {"events"})
        BY <1>3, <1>4, PutEventsIs
  <2> QED
      BY <1>5, <2>1
<1>7. Differs(gw, gw', i, {"ctx"} \cup {"events"})
      BY <1>4, <1>6, DiffersTwice
<1>8. /\ gw'.ctx[i] = x /\ gw'.amf[i] = gw.amf[i]
      /\ gw'.clients_links[i] = gw.clients_links[i] /\ gw'.retry[i] = gw.retry[i]
      /\ (i \in gw'.failing <=> i \in gw.failing) /\ (i \in gw'.stale <=> i \in gw.stale)
      BY <1>4, <1>6, <1>7 DEF Differs
<1>9. CtxInv(gw', i)
      BY <1>0, <1>a, <1>3, <1>6, <1>8, <1>E DEF CtxInv
<1>10. Moved(gw, gw', i)
       BY <1>6, <1>7, <1>9 DEF Moved, Differs
<1>11. ASSUME i \notin touched'
       PROVE  OwnInv(i)' /\ AlarmInv(i)'
  <2>1. OwnInv(i) /\ AlarmInv(i)
        BY <1>a, <1>1, <1>11
  <2>2. OwnInv(i)'
        BY <1>1, <1>3, <1>8, <2>1 DEF OwnInv
  <2>3. AlarmInv(i)'
        BY <1>1, <1>3, <1>8, <2>1 DEF AlarmInv
  <2> QED
      BY <2>2, <2>3
<1>12. LinkKept(i)
       BY <1>1, <1>3, <1>7, <1>8 DEF LinkKept, Differs
<1>13. LinkInv'
       BY <1>0, <1>1, <1>10, <1>11, LinkMoves
<1> QED
    BY <1>12, <1>13

\* An answer is taken: only the association is written, and perhaps a new request leaves.
LEMMA TakeAnswerIs ==
  ASSUME gw \in Gateway, NEW i \in Idx, NEW e, NEW g, g = PutEvents(gw, i, gw.events[i] \ {e}), CtxInv(gw, i),
         gw' = IF ~gw.amf[i].there THEN g
               ELSE IF e \in {"yes", "oldYes"} THEN [g EXCEPT !.amf[i].setup = TRUE]
               ELSE Request(Restart(g, i), i)
  PROVE  /\ Moved(gw, gw', i) /\ Differs(gw, gw', i, {"ctx", "events", "amf"})
         /\ gw'.ctx[i].status = gw.ctx[i].status /\ gw'.ctx[i].client = gw.ctx[i].client
         /\ gw'.ctx[i].conn = gw.ctx[i].conn /\ gw'.ctx[i].accepted = gw.ctx[i].accepted
         /\ gw'.ctx[i].peer = gw.ctx[i].peer
         /\ gw'.ctx[i].alarm = gw.ctx[i].alarm /\ gw'.ctx[i].clearing = gw.ctx[i].clearing
         /\ gw'.amf[i].there = gw.amf[i].there
         /\ gw'.amf[i].setup => gw.amf[i].setup \/ e \in {"yes", "oldYes"}
<1>0. gw.ctx[i] \in Context /\ gw.amf[i] \in Association /\ gw.events[i] \in SUBSET Answers
      BY DEF Gateway
<1>E. PICK E : E = gw.events[i] \ {e}
      OBVIOUS
<1>1. g \in Gateway /\ g.events[i] = E /\ Differs(gw, g, i, {"events"})
  <2>1. /\ PutEvents(gw, i, E) \in Gateway /\ PutEvents(gw, i, E).events[i] = E
        /\ Differs(gw, PutEvents(gw, i, E), i, {"events"})
        BY <1>0, <1>E, PutEventsIs
  <2> QED
      BY <1>E, <2>1
<1>2. /\ g.ctx[i] = gw.ctx[i] /\ g.amf[i] = gw.amf[i] /\ Only(gw, g, i) /\ g.running = gw.running
      /\ ("yes" \in E => "yes" \in gw.events[i])
      BY <1>1, <1>E DEF Differs
<1>3. CASE ~gw.amf[i].there
  <2>1. gw' = g
        BY <1>3
  <2>2. Differs(gw, g, i, {"ctx", "events", "amf"})
        BY <1>1 DEF Differs
  <2>3. CtxInv(g, i)
        BY <1>1, <1>2 DEF CtxInv
  <2> QED
      BY <1>1, <1>2, <2>1, <2>2, <2>3 DEF Moved
<1>4. CASE gw.amf[i].there /\ e \in {"yes", "oldYes"}
  <2>x. PICK x : x = [gw.amf[i] EXCEPT !.setup = TRUE]
        OBVIOUS
  <2>1. x \in Association /\ x.there /\ x.setup
        BY <1>0, <1>4, <2>x DEF Association
  <2>2. gw' = PutAmf(g, i, x)
        BY <1>1, <1>2, <1>4, <2>x DEF PutAmf, Gateway
  <2>3. gw' \in Gateway /\ gw'.amf[i] = x /\ Differs(g, gw', i, {"amf"})
    <3>1. PutAmf(g, i, x) \in Gateway /\ PutAmf(g, i, x).amf[i] = x /\ Differs(g, PutAmf(g, i, x), i, {"amf"})
          BY <1>1, <2>1, PutAmfIs
    <3> QED
        BY <2>2, <3>1
  <2>4. Differs(gw, gw', i, {"events"} \cup {"amf"})
        BY <1>1, <2>3, DiffersTwice
  <2>5. Differs(gw, gw', i, {"ctx", "events", "amf"})
        BY <2>4 DEF Differs
  <2>6. gw'.ctx[i] = gw.ctx[i] /\ gw'.events[i] = E
        BY <1>1, <2>3, <2>4 DEF Differs
  <2>7. CtxInv(gw', i)
        BY <1>2, <2>1, <2>3, <2>6 DEF CtxInv
  <2>8. Moved(gw, gw', i)
        BY <2>3, <2>4, <2>7 DEF Moved, Differs
  <2>9. gw'.amf[i].there = gw.amf[i].there
        BY <1>0, <1>4, <2>3, <2>x DEF Association
  <2> QED
      BY <1>4, <2>5, <2>6, <2>8, <2>9
<1>5. CASE gw.amf[i].there /\ e \notin {"yes", "oldYes"}
  <2>h. PICK h : h = Restart(g, i)
        OBVIOUS
  <2>1. h \in Gateway /\ Differs(g, h, i, {"amf"}) /\ h.amf[i].there = g.amf[i].there /\ ~h.amf[i].setup
        BY <1>1, <2>h, RestartIs
  <2>2. gw' = Request(h, i)
        BY <1>5, <2>h
  <2>r. PICK r : r = Request(h, i)
        OBVIOUS
  <2>s. r \in Gateway /\ Differs(h, r, i, {"ctx"}) /\ r.ctx[i] \in {h.ctx[i], [h.ctx[i] EXCEPT !.asked = TRUE]}
        BY <2>1, <2>r, RequestIs
  <2>3. gw' \in Gateway /\ Differs(h, gw', i, {"ctx"})
        BY <2>2, <2>r, <2>s
  <2>4. gw'.ctx[i] \in {h.ctx[i], [h.ctx[i] EXCEPT !.asked = TRUE]}
        BY <2>2, <2>r, <2>s
  <2>5. Differs(gw, h, i, {"events"} \cup {"amf"})
        BY <1>1, <2>1, DiffersTwice
  <2>6. Differs(gw, gw', i, ({"events"} \cup {"amf"}) \cup {"ctx"})
        BY <2>3, <2>5, DiffersTwice
  <2>7. ({"events"} \cup {"amf"}) \cup {"ctx"} = {"ctx", "events", "amf"}
        OBVIOUS
  <2>8. h.ctx[i] = gw.ctx[i] /\ gw'.amf[i] = h.amf[i] /\ gw'.events[i] = E
        BY <1>1, <1>2, <2>1, <2>3 DEF Differs
  <2>9. /\ gw'.ctx[i].status = gw.ctx[i].status /\ gw'.ctx[i].client = gw.ctx[i].client
        /\ gw'.ctx[i].conn = gw.ctx[i].conn /\ gw'.ctx[i].accepted = gw.ctx[i].accepted
        /\ gw'.ctx[i].peer = gw.ctx[i].peer
        /\ gw'.ctx[i].alarm = gw.ctx[i].alarm /\ gw'.ctx[i].clearing = gw.ctx[i].clearing
    <3>c. PICK c : c = gw.ctx[i]
          OBVIOUS
    <3>d. PICK d : d = gw'.ctx[i]
          OBVIOUS
    <3>1. d = c \/ d = [c EXCEPT !.asked = TRUE]
          BY <2>4, <2>8, <3>c, <3>d
    <3>2. c \in Context
          BY <1>0, <3>c
    <3>3. /\ d.status = c.status /\ d.client = c.client /\ d.conn = c.conn /\ d.accepted = c.accepted
          /\ d.peer = c.peer /\ d.alarm = c.alarm /\ d.clearing = c.clearing
          BY <3>1, <3>2 DEF Context
    <3> QED
        BY <3>c, <3>d, <3>3
  <2>10. gw'.ctx[i] # gw.ctx[i] => gw.ctx[i].conn = "open"
    <3>1. h.ctx[i].conn # "open" => gw' = h
          BY <2>2 DEF Request
    <3> QED
        BY <2>8, <3>1
  <2>11. CtxInv(gw', i)
         BY <1>2, <2>1, <2>8, <2>9, <2>10 DEF CtxInv
  <2>12. Moved(gw, gw', i)
         BY <2>3, <2>6, <2>11 DEF Moved, Differs
  <2> QED
      BY <1>2, <2>1, <2>6, <2>7, <2>8, <2>9, <2>12
<1> QED
    BY <1>3, <1>4, <1>5

\* TakeAnswer keeps the invariant: an untouched index took the answer of its connection.
LEMMA TakeAnswerKeeps == ASSUME LinkInv, NEW i \in Idx, NEW e, TakeAnswer(i, e) PROVE LinkInv' /\ LinkKept(i)
<1>0. gw.running /\ e \in gw.events[i]
      BY DEF TakeAnswer
<1>a. /\ gw \in Gateway /\ gw.events[i] \in SUBSET Answers /\ CtxInv(gw, i)
      /\ (i \notin touched => OwnInv(i) /\ AlarmInv(i))
      BY <1>0, AtIndex
<1>g. PICK g : g = PutEvents(gw, i, gw.events[i] \ {e})
      OBVIOUS
<1>1. gw' = IF ~gw.amf[i].there THEN g
            ELSE IF e \in {"yes", "oldYes"} THEN [g EXCEPT !.amf[i].setup = TRUE]
            ELSE Request(Restart(g, i), i)
      BY <1>a, <1>g DEF TakeAnswer, PutEvents, Gateway
<1>2. /\ Moved(gw, gw', i) /\ Differs(gw, gw', i, {"ctx", "events", "amf"})
      /\ gw'.ctx[i].status = gw.ctx[i].status /\ gw'.ctx[i].client = gw.ctx[i].client
      /\ gw'.ctx[i].peer = gw.ctx[i].peer
      /\ gw'.ctx[i].conn = gw.ctx[i].conn /\ gw'.ctx[i].accepted = gw.ctx[i].accepted
      /\ gw'.ctx[i].alarm = gw.ctx[i].alarm /\ gw'.ctx[i].clearing = gw.ctx[i].clearing
      /\ gw'.amf[i].there = gw.amf[i].there
      /\ gw'.amf[i].setup => gw.amf[i].setup \/ e \in {"yes", "oldYes"}
  <2>1. gw \in Gateway /\ CtxInv(gw, i)
        BY <1>a
  <2> QED
      BY <1>g, <1>1, <2>1, TakeAnswerIs
<1>3. /\ UNCHANGED <<table, cmd, astray, raised, forgot, hushed>>
      /\ touched' = IF e = "oldYes" /\ gw.ctx[i].conn # "broken" THEN touched \cup {i} ELSE touched
      BY DEF TakeAnswer, Env
<1>4. ASSUME i \notin touched'
      PROVE  OwnInv(i)' /\ AlarmInv(i)'
  <2>1. OwnInv(i) /\ AlarmInv(i)
        BY <1>a, <1>3, <1>4
  <2>2. /\ gw'.clients_links[i] = gw.clients_links[i] /\ gw'.retry[i] = gw.retry[i]
        /\ (i \in gw'.failing <=> i \in gw.failing) /\ (i \in gw'.stale <=> i \in gw.stale)
        BY <1>2 DEF Differs
  <2>3. gw'.amf[i].setup => gw.ctx[i].accepted \/ gw.ctx[i].conn = "broken"
    <3>1. e = "yes" => gw.ctx[i].accepted
          BY <1>0, <1>a DEF CtxInv
    <3>2. e = "oldYes" => gw.ctx[i].conn = "broken"
          BY <1>3, <1>4
    <3>3. gw.amf[i].setup => gw.ctx[i].accepted \/ gw.ctx[i].conn = "broken"
          BY <2>1 DEF OwnInv
    <3> QED
        BY <1>2, <3>1, <3>2, <3>3
  <2>4. gw.clients_links[i] # None => ~gw'.amf[i].setup
    <3>1. gw.clients_links[i] # None => gw.ctx[i].conn = "none"
          BY <2>1 DEF OwnInv
    <3> QED
        BY <1>a, <2>3, <3>1 DEF CtxInv
  <2>5. OwnInv(i)'
        BY <1>2, <1>3, <2>1, <2>2, <2>3, <2>4 DEF OwnInv
  <2>6. AlarmInv(i)'
        BY <1>2, <1>3, <2>1, <2>2 DEF AlarmInv
  <2> QED
      BY <2>5, <2>6
<1>5. LinkKept(i)
      BY <1>2, <1>3 DEF LinkKept, Differs
<1>6. LinkInv'
      BY <1>0, <1>2, <1>3, <1>4, LinkMoves
<1> QED
    BY <1>5, <1>6

-----------------------------------------------------------------------------
(* The operator's commands keep the invariant.                              *)

\* What a command on links writes.
LEMMA CommandMoves ==
  ASSUME LinkInv, gw.running, NEW i \in Idx, Moved(gw, gw', i), table' = table, CmdInv',
         touched \subseteq touched', i \in touched', UNCHANGED <<raised, forgot, hushed>>
  PROVE  LinkInv'
<1>1. TableInv'
      BY DEF LinkInv, TableInv, Rows
<1> QED
    BY <1>1, OneMoves

\* The process stays, whatever becomes of the row.
LEMMA RowMoves ==
  ASSUME LinkInv, gw.running, gw' = gw, TableInv', CmdInv', UNCHANGED <<touched, raised, forgot, hushed>>,
         \A j \in Idx \ touched : RowsAt(table', j) = RowsAt(table, j)
  PROVE  LinkInv'
<1>1. \A j \in Idx : Same(gw, gw', j)
      BY DEF Same
<1>2. \A j \in Idx : IndexInv(j)
      BY DEF LinkInv
<1>3. ASSUME NEW j \in Idx
      PROVE  IndexInv(j)'
      BY <1>1, <1>2, IndexStays
<1>4. (\A j \in Idx : IndexInv(j))'
      BY <1>3
<1> QED
    BY <1>4 DEF LinkInv, DownInv

\* The kinds of command.
LEMMA CommandIs ==
  ASSUME CmdInv
  PROVE  /\ cmd.op = "insert" => cmd.link \in Offered
         /\ cmd.op = "insert row" => cmd.link \in Links /\ Proper(cmd.link) /\ cmd.link.idx \in touched
         /\ cmd.op \in {"update", "update row"} =>
              /\ cmd \in [op : {"update", "update row"}, id : Ids, link : Links]
              /\ cmd.id \in Rows /\ cmd.link \in Links /\ Proper(cmd.link) /\ table[cmd.id].idx \in touched
         /\ cmd.op = "update row" => cmd.link.idx \in touched
         /\ cmd.op = "delete row" => cmd.id \in Rows /\ table[cmd.id].idx \in touched
<1>1. /\ cmd.op = "insert" => cmd.link \in Offered
      /\ cmd.op = "insert row" => cmd.link \in Links
      /\ cmd.op \in {"update", "update row"} => cmd \in [op : {"update", "update row"}, id : Ids, link : Links]
  <2>1. CASE cmd = Idle
        BY <2>1 DEF Idle
  <2>2. CASE cmd \in [op : {"insert"}, link : Offered]
        BY <2>2
  <2>3. CASE cmd \in [op : {"insert row"}, link : Links]
        BY <2>3
  <2>4. CASE cmd \in [op : {"update", "update row"}, id : Ids, link : Links]
        BY <2>4
  <2>5. CASE cmd \in [op : {"delete row"}, id : Ids, side : Work]
        BY <2>5
  <2> QED
      BY <2>1, <2>2, <2>3, <2>4, <2>5 DEF CmdInv, Commands
<1>2. cmd.op \in {"update", "update row"} => cmd.link \in Links
      BY <1>1
<1> QED
    BY <1>1, <1>2 DEF CmdInv, Adding, Removing

\* A new row, or a changed one, names an index no other row names.
LEMMA PutRow ==
  ASSUME TableInv, NEW r \in Ids, NEW c \in Links, Proper(c), table' = [table EXCEPT ![r] = c],
         \A q \in Rows \ {r} : table[q].idx # c.idx
  PROVE  /\ TableInv'
         /\ \A j \in Idx : j # c.idx /\ (r \in Rows => j # table[r].idx) => RowsAt(table', j) = RowsAt(table, j)
<1>0. table \in [Ids -> Links \cup {None}] /\ c # None
      BY LinkAssumption DEF TableInv
<1>1. table' \in [Ids -> Links \cup {None}]
      BY <1>0
<1>2. \A q \in Ids : table'[q] = IF q = r THEN c ELSE table[q]
      BY <1>0
<1>3. Rows' = Rows \cup {r}
      BY <1>0, <1>2 DEF Rows
<1>4. \A q \in Rows' : Proper(table'[q])
      BY <1>2, <1>3 DEF TableInv, Rows
<1>5. \A p, q \in Rows' : table'[p].idx = table'[q].idx => p = q
      BY <1>2, <1>3 DEF TableInv, Rows
<1>6. TableInv'
      BY <1>1, <1>4, <1>5 DEF TableInv
<1>7. ASSUME NEW j \in Idx, j # c.idx, r \in Rows => j # table[r].idx
      PROVE  RowsAt(table', j) = RowsAt(table, j)
  <2>1. ASSUME NEW d \in RowsAt(table', j)
        PROVE  d \in RowsAt(table, j)
    <3>1. PICK q \in Ids : table'[q] # None /\ d = table'[q] /\ d.idx = j
          BY <2>1 DEF RowsAt, RowsOf
    <3>2. q # r /\ table'[q] = table[q]
          BY <1>2, <1>7, <3>1
    <3> QED
        BY <3>1, <3>2 DEF RowsAt, RowsOf
  <2>2. ASSUME NEW d \in RowsAt(table, j)
        PROVE  d \in RowsAt(table', j)
    <3>1. PICK q \in Ids : table[q] # None /\ d = table[q] /\ d.idx = j
          BY <2>2 DEF RowsAt, RowsOf
    <3>2. q # r /\ table'[q] = table[q]
          BY <1>2, <1>7, <3>1 DEF Rows
    <3> QED
        BY <3>1, <3>2 DEF RowsAt, RowsOf
  <2> QED
      BY <2>1, <2>2
<1> QED
    BY <1>6, <1>7

\* A row is gone.
LEMMA DropRow ==
  ASSUME TableInv, NEW r \in Rows, table' = [table EXCEPT ![r] = None]
  PROVE  /\ TableInv' /\ Rows' = Rows \ {r}
         /\ \A j \in Idx : j # table[r].idx => RowsAt(table', j) = RowsAt(table, j)
<1>0. table \in [Ids -> Links \cup {None}] /\ r \in Ids /\ table[r] # None
      BY DEF TableInv, Rows
<1>1. table' \in [Ids -> Links \cup {None}]
      BY <1>0
<1>2. \A q \in Ids : table'[q] = IF q = r THEN None ELSE table[q]
      BY <1>0
<1>3. Rows' = Rows \ {r}
      BY <1>0, <1>2 DEF Rows
<1>4. TableInv'
      BY <1>1, <1>2, <1>3 DEF TableInv, Rows
<1>5. ASSUME NEW j \in Idx, j # table[r].idx
      PROVE  RowsAt(table', j) = RowsAt(table, j)
  <2>1. ASSUME NEW d \in RowsAt(table', j)
        PROVE  d \in RowsAt(table, j)
    <3>1. PICK q \in Ids : table'[q] # None /\ d = table'[q] /\ d.idx = j
          BY <2>1 DEF RowsAt, RowsOf
    <3>2. q # r /\ table'[q] = table[q]
          BY <1>2, <3>1
    <3> QED
        BY <3>1, <3>2 DEF RowsAt, RowsOf
  <2>2. ASSUME NEW d \in RowsAt(table, j)
        PROVE  d \in RowsAt(table', j)
    <3>1. PICK q \in Ids : table[q] # None /\ d = table[q] /\ d.idx = j
          BY <2>2 DEF RowsAt, RowsOf
    <3>2. q # r /\ table'[q] = table[q]
          BY <1>2, <1>5, <3>1
    <3> QED
        BY <3>1, <3>2 DEF RowsAt, RowsOf
  <2> QED
      BY <2>1, <2>2
<1> QED
    BY <1>3, <1>4, <1>5

\* The least of some numbers is one of them.
LEMMA MinIsOne ==
  ASSUME NEW S \in SUBSET Nat, S # {}
  PROVE  Min(S) \in S
<1>r. PICK R : R = OpToRel(<, Nat)
      OBVIOUS
<1>1. IsWellFoundedOn(R, Nat)
      BY <1>r, NatLessThanWellFounded, Zenon
<1>2. \E x \in S : \A y \in S : ~(<<y, x>> \in R)
      BY <1>1, WFMin
<1>3. PICK x \in S : \A y \in S : ~(<<y, x>> \in R)
      BY <1>2
<1>4. ASSUME NEW y \in S
      PROVE  x <= y
  <2>1. x \in Nat /\ y \in Nat
        OBVIOUS
  <2>2. ~(<<y, x>> \in R)
        BY <1>3
  <2>3. ~(y < x)
        BY <1>r, <2>1, <2>2, Zenon DEF OpToRel
  <2> QED
      BY <2>1, <2>3
<1> QED
    BY <1>4 DEF Min

\* A link is added, or the listener failed: only its index is written.
LEMMA AddLinkIs ==
  ASSUME gw \in Gateway, NEW c \in Links, Proper(c), NEW next, AddLink(gw, c, next)
  PROVE  /\ Moved(gw, gw', c.idx) /\ cmd' \in {next, Idle}
         /\ gw' = CfgAddSctp(gw, c) \/ gw' = First(gw, c)
<1>1. CASE gw' = CfgAddSctp(gw, c) /\ cmd' = next
  <2>1. Moved(gw, CfgAddSctp(gw, c), c.idx)
        BY CfgAddSctpIs DEF Added
  <2> QED
      BY <1>1, <2>1
<1>2. CASE gw' = (IF gw.ctx[c.idx].status = "unset" THEN gw ELSE CfgRmvSctp(gw, c)) /\ cmd' = Idle
  <2>1. gw' = First(gw, c)
        BY <1>2 DEF First
  <2>2. Moved(gw, First(gw, c), c.idx)
        BY FirstMoves
  <2> QED
      BY <1>2, <2>1, <2>2
<1> QED
    BY <1>1, <1>2 DEF AddLink

\* The link an insertion makes.
NewLink(free) == [idx |-> Min(free), work |-> cmd.link.work, local |-> cmd.link.local, peer |-> cmd.link.peer]
\* It is the command's link under a free index.
LEMMA NewLinkIs ==
  ASSUME CmdInv, cmd.op = "insert", NEW free \in SUBSET Idx, free # {}
  PROVE  NewLink(free) \in Links /\ Proper(NewLink(free)) /\ NewLink(free).idx \in free
<1>1. cmd.link \in Offered
      BY CommandIs
<1>2. cmd.link \in [work : Work, local : Locals \cup {None}, peer : Peers] /\ Proper(cmd.link)
      BY <1>1, LinkAssumption
<1>3. Min(free) \in free
      BY MinIsOne, LinkAssumption
<1>4. NewLink(free) \in Links
      BY <1>2, <1>3 DEF NewLink, Links
<1>5. Proper(NewLink(free))
      BY <1>2 DEF NewLink, Proper
<1> QED
    BY <1>3, <1>4, <1>5 DEF NewLink

\* No command under way.
LEMMA IdleIs ==
  ASSUME cmd' = Idle
  PROVE  CmdInv'
<1>1. cmd'.op = "none"
      BY DEF Idle
<1> QED
    BY <1>1 DEF CmdInv, Commands, Removing, Adding

\* OrderInsert keeps the invariant.
LEMMA OrderInsertKeeps == ASSUME LinkInv, NEW o \in Offered, OrderInsert(o) PROVE LinkInv'
<1>1. /\ cmd' = [op |-> "insert", link |-> o] /\ gw.running
      /\ UNCHANGED <<gw, table, raised, touched, forgot, hushed>>
      BY DEF OrderInsert, Ordered, Command
<1>2. cmd' \in [op : {"insert"}, link : Offered] /\ cmd'.op = "insert"
      BY <1>1
<1>3. CmdInv'
      BY <1>2 DEF CmdInv, Commands, Removing, Adding
<1>4. TableInv'
      BY <1>1 DEF LinkInv, TableInv, Rows
<1> QED
    BY <1>1, <1>3, <1>4, RowMoves

\* InsertLink keeps the invariant.
LEMMA InsertLinkKeeps == ASSUME LinkInv, InsertLink PROVE LinkInv'
<1>0. /\ gw.running /\ cmd.op = "insert" /\ gw \in Gateway /\ CmdInv /\ TableInv
      /\ UNCHANGED <<table, raised, forgot, hushed>>
      BY DEF InsertLink, Command, LinkInv
<1>f. PICK free : free = {i \in Idx : gw.ctx[i].status = "unset"}
      OBVIOUS
<1>1. CASE free = {}
  <2>1. cmd' = Idle /\ gw' = gw /\ touched' = touched
        BY <1>1, <1>f DEF InsertLink, Command
  <2>2. TableInv'
        BY <1>0 DEF TableInv, Rows
  <2> QED
      BY <1>0, <2>1, <2>2, IdleIs, RowMoves
<1>2. CASE free # {}
  <2>c. PICK c : c = NewLink(free)
        OBVIOUS
  <2>1. AddLink(gw, c, [op |-> "insert row", link |-> c]) /\ touched' = touched \cup {c.idx}
        BY <1>2, <1>f, <2>c DEF InsertLink, NewLink
  <2>2. c \in Links /\ Proper(c) /\ c.idx \in Idx
        BY <1>0, <1>2, <1>f, <2>c, NewLinkIs
  <2>3. Moved(gw, gw', c.idx) /\ cmd' \in {[op |-> "insert row", link |-> c], Idle}
        BY <1>0, <2>1, <2>2, AddLinkIs
  <2>4. CmdInv'
    <3>1. CASE cmd' = Idle
          BY <3>1, IdleIs
    <3>2. CASE cmd' = [op |-> "insert row", link |-> c]
      <4>1. cmd' \in [op : {"insert row"}, link : Links] /\ cmd'.op = "insert row" /\ cmd'.link = c
            BY <2>2, <3>2
      <4> QED
          BY <2>1, <2>2, <4>1 DEF CmdInv, Commands, Removing, Adding
    <3> QED
        BY <2>3, <3>1, <3>2
  <2> QED
      BY <1>0, <2>1, <2>2, <2>3, <2>4, CommandMoves
<1> QED
    BY <1>1, <1>2

\* A link is removed, by sctp_delete or sctp_update: its index is touched.
LEMMA RemovalKeeps ==
  ASSUME LinkInv, gw.running, NEW r \in Rows, gw' = CfgRmvSctp(gw, table[r]), table' = table,
         touched' = touched \cup {table[r].idx}, UNCHANGED <<raised, forgot, hushed>>, CmdInv'
  PROVE  LinkInv'
<1>c. PICK c : c = table[r]
      OBVIOUS
<1>0. gw \in Gateway /\ TableInv
      BY DEF LinkInv
<1>1. c \in Links /\ Proper(c) /\ c.idx \in Idx
      BY <1>0, <1>c DEF TableInv, Rows, Links
<1>2. Removed(gw, CfgRmvSctp(gw, c), c)
      BY <1>0, <1>1, CfgRmvSctpIs
<1>3. Moved(gw, gw', c.idx)
      BY <1>c, <1>2, RemovedCtx DEF Moved, Removed
<1> QED
    BY <1>c, <1>1, <1>3, CommandMoves

\* OrderDelete keeps the invariant.
LEMMA OrderDeleteKeeps ==
  ASSUME LinkInv, NEW r \in Ids, NEW side \in Work, OrderDelete(r, side) PROVE LinkInv'
<1>1. /\ r \in Rows /\ gw.running /\ cmd' = [op |-> "delete row", id |-> r, side |-> side]
      /\ gw' = CfgRmvSctp(gw, table[r]) /\ touched' = touched \cup {table[r].idx}
      /\ UNCHANGED <<table, raised, forgot, hushed>>
      BY DEF OrderDelete, Ordered, Command, Rows
<1>2. cmd' \in [op : {"delete row"}, id : Ids, side : Work] /\ cmd'.op = "delete row" /\ cmd'.id = r
      BY <1>1
<1>3. CmdInv'
      BY <1>1, <1>2 DEF CmdInv, Commands, Removing, Adding, Rows
<1> QED
    BY <1>1, <1>3, RemovalKeeps

\* OrderUpdate keeps the invariant.
LEMMA OrderUpdateKeeps ==
  ASSUME LinkInv, NEW r \in Ids, NEW c \in Links, Proper(c), OrderUpdate(r, c) PROVE LinkInv'
<1>1. /\ r \in Rows /\ gw.running /\ cmd' = [op |-> "update", id |-> r, link |-> c]
      /\ gw' = CfgRmvSctp(gw, table[r]) /\ touched' = touched \cup {table[r].idx}
      /\ UNCHANGED <<table, raised, forgot, hushed>>
      BY DEF OrderUpdate, Ordered, Command, Rows
<1>2. /\ cmd' \in [op : {"update", "update row"}, id : Ids, link : Links] /\ cmd'.op = "update"
      /\ cmd'.id = r /\ cmd'.link = c
      BY <1>1
<1>3. CmdInv'
      BY <1>1, <1>2 DEF CmdInv, Commands, Removing, Adding, Rows
<1> QED
    BY <1>1, <1>3, RemovalKeeps

\* UpdateLink keeps the invariant.
LEMMA UpdateLinkKeeps == ASSUME LinkInv, UpdateLink PROVE LinkInv'
<1>0. /\ gw.running /\ cmd.op = "update" /\ gw \in Gateway /\ CmdInv /\ TableInv
      /\ UNCHANGED <<table, raised, forgot, hushed>>
      BY DEF UpdateLink, Command, LinkInv
<1>c. PICK c : c = cmd.link
      OBVIOUS
<1>n. PICK next : next = [cmd EXCEPT !.op = "update row"]
      OBVIOUS
<1>1. AddLink(gw, c, next) /\ touched' = touched \cup {c.idx}
      BY <1>c, <1>n DEF UpdateLink
<1>2. /\ cmd \in [op : {"update", "update row"}, id : Ids, link : Links] /\ cmd.id \in Rows
      /\ c \in Links /\ Proper(c) /\ table[cmd.id].idx \in touched
      BY <1>0, <1>c, CommandIs
<1>3. Moved(gw, gw', c.idx) /\ cmd' \in {next, Idle} /\ c.idx \in Idx
      BY <1>0, <1>1, <1>2, AddLinkIs DEF Links
<1>4. /\ next \in [op : {"update", "update row"}, id : Ids, link : Links] /\ next.op = "update row"
      /\ next.id = cmd.id /\ next.link = c
      BY <1>2, <1>n, <1>c
<1>5. CmdInv'
  <2>1. CASE cmd' = Idle
        BY <2>1, IdleIs
  <2>2. CASE cmd' = next
        BY <1>0, <1>1, <1>2, <1>4, <2>2 DEF CmdInv, Commands, Removing, Adding, Rows
  <2> QED
      BY <1>3, <2>1, <2>2
<1> QED
    BY <1>0, <1>1, <1>3, <1>5, CommandMoves

\* InsertRow, DeleteRow and UpdateRow keep the invariant, whether or not the call succeeds.
LEMMA RowKeeps == ASSUME LinkInv, InsertRow \/ DeleteRow \/ UpdateRow PROVE LinkInv'
<1>0. /\ gw.running /\ gw' = gw /\ cmd' = Idle /\ UNCHANGED <<touched, raised, forgot, hushed>>
      /\ CmdInv /\ TableInv
      BY DEF InsertRow, DeleteRow, UpdateRow, Row, LinkInv
<1>1. CmdInv'
      BY <1>0, IdleIs
<1>2. CASE table' = table
  <2>1. TableInv'
        BY <1>0, <1>2 DEF TableInv, Rows
  <2> QED
      BY <1>0, <1>1, <1>2, <2>1, RowMoves
<1>3. CASE InsertRow /\ table' # table
  <2>f. PICK free : free = {r \in Ids : table[r] = None}
        OBVIOUS
  <2>c. PICK c : c = cmd.link
        OBVIOUS
  <2>m. PICK m : m = Min(free)
        OBVIOUS
  <2>1. cmd.op = "insert row" /\ RowsAt(table, c.idx) = {} /\ free # {} /\ table' = [table EXCEPT ![m] = c]
        BY <1>3, <2>f, <2>c, <2>m DEF InsertRow, Written
  <2>2. c \in Links /\ Proper(c) /\ c.idx \in touched
        BY <1>0, <2>1, <2>c, CommandIs
  <2>3. m \in free
        BY <2>1, <2>f, <2>m, MinIsOne, LinkAssumption
  <2>4. m \in Ids /\ m \notin Rows
        BY <2>3, <2>f DEF Rows
  <2>5. \A q \in Rows \ {m} : table[q].idx # c.idx
        BY <2>1 DEF Rows, RowsAt, RowsOf
  <2>6. TableInv' /\ \A j \in Idx \ touched : RowsAt(table', j) = RowsAt(table, j)
        BY <1>0, <2>1, <2>2, <2>4, <2>5, PutRow
  <2> QED
      BY <1>0, <1>1, <2>6, RowMoves
<1>4. CASE DeleteRow /\ table' # table
  <2>r. PICK r : r = cmd.id
        OBVIOUS
  <2>1. cmd.op = "delete row" /\ table' = [table EXCEPT ![r] = None]
        BY <1>4, <2>r DEF DeleteRow, Written
  <2>2. r \in Rows /\ table[r].idx \in touched
        BY <1>0, <2>1, <2>r, CommandIs
  <2>3. TableInv' /\ \A j \in Idx \ touched : RowsAt(table', j) = RowsAt(table, j)
        BY <1>0, <2>1, <2>2, DropRow
  <2> QED
      BY <1>0, <1>1, <2>3, RowMoves
<1>5. CASE UpdateRow /\ table' # table
  <2>r. PICK r : r = cmd.id
        OBVIOUS
  <2>c. PICK c : c = cmd.link
        OBVIOUS
  <2>1. cmd.op = "update row" /\ table' = [table EXCEPT ![r] = c] /\ RowsAt(table, c.idx) \ {table[r]} = {}
        BY <1>5, <2>r, <2>c DEF UpdateRow, Written
  <2>2. /\ r \in Rows /\ r \in Ids /\ c \in Links /\ Proper(c)
        /\ table[r].idx \in touched /\ c.idx \in touched
        BY <1>0, <2>1, <2>r, <2>c, CommandIs DEF Rows
  <2>3. \A q \in Rows \ {r} : table[q].idx # c.idx
    <3>1. ASSUME NEW q \in Rows, table[q].idx = c.idx
          PROVE  q = r
      <4>1. table[q] \in RowsAt(table, c.idx)
            BY <3>1 DEF Rows, RowsAt, RowsOf
      <4>2. table[q] = table[r]
            BY <2>1, <4>1
      <4> QED
          BY <1>0, <2>2, <4>2 DEF TableInv
    <3> QED
        BY <3>1
  <2>4. TableInv' /\ \A j \in Idx \ touched : RowsAt(table', j) = RowsAt(table, j)
        BY <1>0, <2>1, <2>2, <2>3, PutRow
  <2> QED
      BY <1>0, <1>1, <2>4, RowMoves
<1> QED
    BY <1>2, <1>3, <1>4, <1>5

-----------------------------------------------------------------------------
(* The kinds of step, and the theorems about untouched indexes.             *)

\* The steps the operator takes on links and rows.
LinkCommand ==
  \/ \E o \in Offered : OrderInsert(o)
  \/ \E r \in Ids, side \in Work : OrderDelete(r, side)
  \/ \E r \in Ids, c \in Links : Proper(c) /\ OrderUpdate(r, c)
  \/ InsertLink \/ UpdateLink \/ InsertRow \/ DeleteRow \/ UpdateRow
\* The steps that leave the process and its lists alone.
Aside == gw' = gw /\ table' = table /\ cmd' = cmd /\ UNCHANGED <<raised, ghosts>>

\* An updated link is one like those offered, at any index.
LEMMA UpdatesAreProper ==
  ASSUME NEW o \in Offered, NEW i \in Idx
  PROVE  LET c == [idx |-> i, work |-> o.work, local |-> o.local, peer |-> o.peer] IN c \in Links /\ Proper(c)
<1>1. o \in [work : Work, local : Locals \cup {None}, peer : Peers] /\ Proper(o)
      BY LinkAssumption
<1> QED
    BY <1>1 DEF Links, Proper

\* Every step is one of these.
LEMMA StepKinds ==
  ASSUME [Next]_vars
  PROVE  \/ Die \/ Boot \/ LinkCommand \/ Aside
         \/ \E p \in Peers : PeerDown(p)
         \/ \E p \in Gnbs : Accept(p)
         \/ \E i \in Idx : LinkStep(i)
<1>1. CASE UNCHANGED vars
      BY <1>1 DEF vars, Aside, ghosts
<1>2. CASE Crash
      BY <1>2 DEF Crash
<1>3. CASE Operator
  <2>1. CASE Configure
        BY <2>1 DEF Configure, Aside, ghosts
  <2>2. ASSUME NEW r \in Ids, NEW o \in Offered, NEW i \in Idx,
               OrderUpdate(r, [idx |-> i, work |-> o.work, local |-> o.local, peer |-> o.peer])
        PROVE  LinkCommand
    <3>c. PICK c : c = [idx |-> i, work |-> o.work, local |-> o.local, peer |-> o.peer]
          OBVIOUS
    <3>1. c \in Links /\ Proper(c) /\ OrderUpdate(r, c)
          BY <2>2, <3>c, UpdatesAreProper
    <3> QED
        BY <3>1 DEF LinkCommand
  <2>3. CASE (\E o \in Offered : OrderInsert(o)) \/ InsertLink \/ UpdateLink \/ InsertRow \/ DeleteRow \/ UpdateRow
        BY <2>3 DEF LinkCommand
  <2>4. ASSUME NEW r \in Ids, NEW side \in Work, OrderDelete(r, side)
        PROVE  LinkCommand
        BY <2>4 DEF LinkCommand
  <2> QED
      BY <1>3, <2>1, <2>2, <2>3, <2>4 DEF Operator
<1>4. ASSUME NEW p \in Peers, PeerUp(p)
      PROVE  Aside
      BY <1>4 DEF PeerUp, Env, Aside
<1> QED
    BY <1>1, <1>2, <1>3, <1>4 DEF Next

\* The commands keep the invariant.
LEMMA CommandKeeps == ASSUME LinkInv, LinkCommand PROVE LinkInv'
<1>1. CASE \E o \in Offered : OrderInsert(o)
      BY <1>1, OrderInsertKeeps
<1>2. CASE \E r \in Ids, side \in Work : OrderDelete(r, side)
      BY <1>2, OrderDeleteKeeps
<1>3. CASE \E r \in Ids, c \in Links : Proper(c) /\ OrderUpdate(r, c)
      BY <1>3, OrderUpdateKeeps
<1>4. CASE InsertLink
      BY <1>4, InsertLinkKeeps
<1>5. CASE UpdateLink
      BY <1>5, UpdateLinkKeeps
<1>6. CASE InsertRow \/ DeleteRow \/ UpdateRow
      BY <1>6, RowKeeps
<1> QED
    BY <1>1, <1>2, <1>3, <1>4, <1>5, <1>6 DEF LinkCommand

\* The timers, errors and answers of one index keep the invariant.
LEMMA LinkStepKeeps == ASSUME LinkInv, NEW i \in Idx, LinkStep(i) PROVE LinkInv'
<1>1. CASE HandleError(i)
      BY <1>1, HandleErrorKeeps
<1>2. CASE FinishError(i)
      BY <1>2, FinishErrorKeeps
<1>3. CASE SctpTimer(i)
      BY <1>3, SctpTimerKeeps
<1>4. CASE ClientTimer(i)
      BY <1>4, ClientTimerKeeps
<1>5. CASE AlarmTimer(i)
      BY <1>5, AlarmTimerKeeps
<1>6. CASE OnSctpAlarmTimer(i)
      BY <1>6, OnSctpAlarmTimerKeeps
<1>7. CASE OnOldAlarmTimer(i)
      BY <1>7, OnOldAlarmTimerKeeps
<1>8. CASE AmfTimer(i)
      BY <1>8, AmfTimerKeeps
<1>9. CASE AmfAnswers(i)
      BY <1>9, AmfAnswersKeeps
<1>10. CASE \E e \in gw.events[i] : TakeAnswer(i, e)
       BY <1>10, TakeAnswerKeeps
<1> QED
    BY <1>1, <1>2, <1>3, <1>4, <1>5, <1>6, <1>7, <1>8, <1>9, <1>10 DEF LinkStep

\* Every step does.
LEMMA LinkInvStep == LinkInv /\ [Next]_vars => LinkInv'
<1> SUFFICES ASSUME LinkInv, [Next]_vars PROVE LinkInv'
    OBVIOUS
<1>1. CASE Die
      BY <1>1, DieKeeps
<1>2. CASE Boot
      BY <1>2, BootKeeps
<1>3. CASE LinkCommand
      BY <1>3, CommandKeeps
<1>4. CASE Aside
      BY <1>4, NothingMoves DEF Aside
<1>5. CASE \E p \in Peers : PeerDown(p)
      BY <1>5, PeerDownKeeps
<1>6. CASE \E p \in Gnbs : Accept(p)
      BY <1>6, AcceptKeeps
<1>7. CASE \E i \in Idx : LinkStep(i)
      BY <1>7, LinkStepKeeps
<1> QED
    BY <1>1, <1>2, <1>3, <1>4, <1>5, <1>6, <1>7, StepKinds

\* The invariant of all indexes no command has touched.
LEMMA LinkInvariant == Spec => []LinkInv
BY InitKeeps, LinkInvStep, PTL DEF Spec

\* However losses, reconnections, late answers, timers, crashes and commands interleave,
\* AsmManager takes an AMF for set up only while the AMF holds the association on the
\* connection there is, or its loss is yet to be noticed (handleNgSetupResponse, Clear).
THEOREM SetupsAreReal == Spec => []SetupIsReal
<1>1. LinkInv => SetupIsReal
  <2> SUFFICES ASSUME LinkInv, NEW i \in Idx \ touched, gw.amf[i].setup
               PROVE  gw.ctx[i].accepted \/ gw.ctx[i].conn = "broken"
      BY DEF SetupIsReal
  <2>1. CASE gw.running
        BY <2>1 DEF LinkInv, IndexInv, OwnInv
  <2>2. CASE ~gw.running
    <3>b. PICK b : b = Booted([r \in Ids |-> None])
          OBVIOUS
    <3>1. b \in Gateway /\ ~b.amf[i].setup
          BY <3>b, BootedIs
    <3>2. gw.amf = b.amf
          BY <2>2, <3>b, <3>1 DEF LinkInv, DownInv, Dead, Gateway
    <3> QED
        BY <3>1, <3>2
  <2> QED
      BY <2>1, <2>2
<1> QED
    BY <1>1, LinkInvariant, PTL

\* The network manager shows the alarm of a link exactly while the context counts it as
\* raised, an active link whose alarm is raised has a timer to clear it, and a link under
\* reconnection keeps its alarm (handle_error, StartAlarmTimer, OnSctpAlarmTimer).
THEOREM AlarmsAlwaysFollowLinks == Spec => []AlarmsFollowLinks
<1>1. LinkInv => AlarmsFollowLinks
      BY DEF LinkInv, IndexInv, AlarmInv, AlarmsFollowLinks
<1> QED
    BY <1>1, LinkInvariant, PTL

-----------------------------------------------------------------------------
(* Links and table, between commands and under them.                        *)

\* The rows whose links are in place, at an index: all but one that is being removed.
StaysAt(i) == {r \in Rows : table[r].idx = i /\ ~(Removing /\ r = cmd.id)}
StaysOn(l) == {r \in Rows : table[r].local = l /\ ~(Removing /\ r = cmd.id)}

\* The index has this link.
Fits(i, c) ==
  IF c.work = "client"
  THEN IF gw.clients_links[i] # None THEN gw.clients_links[i].peer = c.peer
       ELSE gw.ctx[i].client /\ gw.ctx[i].peer = c.peer
  ELSE gw.clients_links[i] = None /\ ~gw.ctx[i].client
\* The index has no link.
Bare(i) == gw.ctx[i].status = "unset" /\ gw.clients_links[i] = None /\ ~gw.ctx[i].client

\* The link of a command is there before its row is.
Joins(i) == Adding /\ cmd.link.idx = i
IndexFollows(i) ==
  /\ Joins(i) => (StaysAt(i) = {} => Fits(i, cmd.link))
  /\ ~Joins(i) => (StaysAt(i) = {} => Bare(i)) /\ \A r \in StaysAt(i) : Fits(i, table[r])
LocalFollows(l) ==
  gw.servers[l] = Cardinality(StaysOn(l)) + (IF Adding /\ cmd.link.local = l THEN 1 ELSE 0)
FollowInv == gw.running => /\ \A i \in Idx \ astray : IndexFollows(i)
                           /\ \A l \in Locals \ astray : LocalFollows(l)

\* Rows and links of a table are one to one.
LEMMA RowsCount ==
  ASSUME TableInv, NEW l \in Locals
  PROVE  /\ Cardinality({c \in RowsOf(table) : c.local = l}) = Cardinality({r \in Rows : table[r].local = l})
         /\ ServerRows(l) = {c \in RowsOf(table) : c.local = l}
         /\ IsFiniteSet({r \in Rows : table[r].local = l})
<1>s. PICK S : S = {r \in Rows : table[r].local = l}
      OBVIOUS
<1>t. PICK T : T = {c \in RowsOf(table) : c.local = l}
      OBVIOUS
<1>f. PICK f : f = [r \in S |-> table[r]]
      OBVIOUS
<1>1. IsFiniteSet(S)
  <2>1. S \subseteq Ids /\ IsFiniteSet(Ids)
        BY <1>s, LinkAssumption DEF Rows
  <2> QED
      BY <2>1, FS_Subset
<1>2. f \in [S -> T]
      BY <1>s, <1>t, <1>f DEF Rows, RowsOf
<1>3. f \in Surjection(S, T)
  <2>1. ASSUME NEW c \in T
        PROVE  \E r \in S : f[r] = c
    <3>1. PICK r \in Ids : table[r] # None /\ c = table[r] /\ c.local = l
          BY <1>t DEF RowsOf
    <3>2. r \in S
          BY <1>s, <3>1 DEF Rows
    <3> QED
        BY <1>f, <3>1, <3>2
  <2> QED
      BY <1>2, <2>1 DEF Surjection
<1>4. f \in Injection(S, T)
  <2>1. ASSUME NEW q \in S, NEW r \in S, f[q] = f[r]
        PROVE  q = r
        BY <1>s, <1>f, <2>1 DEF TableInv
  <2> QED
      BY <1>2, <2>1 DEF Injection, IsInjective
<1>5. ExistsBijection(S, T)
      BY <1>3, <1>4 DEF ExistsBijection, Bijection
<1>6. Cardinality(T) = Cardinality(S)
      BY <1>1, <1>5, FS_Bijection
<1>7. ServerRows(l) = T
  <2>1. ASSUME NEW c \in RowsOf(table), c.local = l
        PROVE  c.work = "server"
    <3>1. c \in Links /\ Proper(c)
          BY ServerRow
    <3>2. l # None
          BY LinkAssumption
    <3> QED
        BY <2>1, <3>1, <3>2 DEF Proper, Links, Work
  <2> QED
      BY <1>t, <2>1 DEF ServerRows
<1> QED
    BY <1>s, <1>t, <1>1, <1>6, <1>7

\* A process that has just started has the table's links.
LEMMA StartsFollowing == TableInv /\ cmd = Idle /\ gw = Booted(table) => FollowInv
<1> SUFFICES ASSUME TableInv, cmd = Idle, gw = Booted(table) PROVE FollowInv
    OBVIOUS
<1>0. cmd.op = "none" /\ ~Adding /\ ~Removing
      BY DEF Idle, Adding, Removing
<1>t. PICK t : t = table
      OBVIOUS
<1>1. t \in [Ids -> Links \cup {None}] /\ gw = Booted(t)
      BY <1>t DEF TableInv
<1>2. ASSUME NEW i \in Idx
      PROVE  IndexFollows(i)
  <2>1. /\ RowsAt(t, i) = {} => gw.ctx[i] = Zeroed
        /\ RowsAt(t, i) # {} => gw.ctx[i] = [Zeroed EXCEPT !.status = "inactive"]
        /\ gw.clients_links[i] # None <=> IsClient(t, i)
        /\ IsClient(t, i) => gw.clients_links[i].peer = (CHOOSE c \in RowsAt(t, i) : c.work = "client").peer
        BY <1>1, BootedIs
  <2>2. ~gw.ctx[i].client /\ (RowsAt(t, i) = {} => gw.ctx[i].status = "unset")
        BY <2>1 DEF Zeroed
  <2>3. ASSUME StaysAt(i) = {}
        PROVE  Bare(i)
    <3>1. RowsAt(t, i) = {}
          BY <1>0, <1>t, <2>3 DEF StaysAt, Rows, RowsAt, RowsOf
    <3>2. ~IsClient(t, i)
          BY <3>1 DEF IsClient
    <3> QED
        BY <2>1, <2>2, <3>1, <3>2 DEF Bare
  <2>4. ASSUME NEW r \in StaysAt(i)
        PROVE  Fits(i, table[r])
    <3>c. PICK c : c = table[r]
          OBVIOUS
    <3>1. c \in RowsOf(table) /\ c.idx = i
          BY <3>c DEF StaysAt, Rows, RowsOf
    <3>2. /\ c \in Links /\ RowsAt(t, i) = {c}
          /\ c.work = "server" => ~IsClient(t, i)
          /\ c.work = "client" => IsClient(t, i)
          BY <1>t, <3>1, ServerRow
    <3>3. CASE c.work = "client"
      <4>1. (CHOOSE d \in RowsAt(t, i) : d.work = "client") = c
            BY <3>2, <3>3
      <4>2. gw.clients_links[i] # None /\ gw.clients_links[i].peer = c.peer
            BY <2>1, <3>2, <3>3, <4>1
      <4> QED
          BY <3>c, <3>3, <4>2 DEF Fits
    <3>4. CASE c.work = "server"
          BY <2>1, <2>2, <3>c, <3>2, <3>4 DEF Fits
    <3> QED
        BY <3>2, <3>3, <3>4 DEF Links, Work
  <2> QED
      BY <1>0, <2>3, <2>4 DEF IndexFollows, Joins
<1>3. ASSUME NEW l \in Locals
      PROVE  LocalFollows(l)
  <2>1. gw.servers[l] = Cardinality({c \in RowsOf(t) : c.local = l})
        BY <1>1, BootedIs
  <2>2. StaysOn(l) = {r \in Rows : table[r].local = l}
        BY <1>0 DEF StaysOn
  <2>3. gw.servers[l] = Cardinality(StaysOn(l)) /\ IsFiniteSet(StaysOn(l))
        BY <1>t, <2>1, <2>2, RowsCount
  <2>4. Cardinality(StaysOn(l)) \in Nat
        BY <2>3, FS_CardinalityType
  <2> QED
      BY <1>0, <2>3, <2>4 DEF LocalFollows
<1> QED
    BY <1>2, <1>3 DEF FollowInv

\* What does not concern an index or an address.
LEMMA IndexFollowsOn ==
  ASSUME NEW i \in Idx, IndexFollows(i), table' = table, cmd' = cmd,
         gw'.clients_links[i] = gw.clients_links[i],
         gw'.ctx[i].client = gw.ctx[i].client, gw'.ctx[i].peer = gw.ctx[i].peer,
         gw.ctx[i].status = "unset" => gw'.ctx[i].status = "unset"
  PROVE  IndexFollows(i)'
<1>1. StaysAt(i)' = StaysAt(i) /\ (Joins(i)' <=> Joins(i))
      BY DEF StaysAt, Rows, Removing, Joins, Adding
<1>2. Bare(i) => Bare(i)'
      BY DEF Bare
<1>3. ASSUME NEW r, Fits(i, table[r])
      PROVE  Fits(i, table[r])'
      BY <1>3 DEF Fits
<1>4. Fits(i, cmd.link) => Fits(i, cmd.link)'
      BY DEF Fits
<1> QED
    BY <1>1, <1>2, <1>3, <1>4 DEF IndexFollows
\* The same of an address.
LEMMA LocalFollowsOn ==
  ASSUME NEW l, LocalFollows(l), table' = table, cmd' = cmd, gw'.servers = gw.servers
  PROVE  LocalFollows(l)'
<1>1. StaysOn(l)' = StaysOn(l) /\ (Adding' <=> Adding)
      BY DEF StaysOn, Rows, Removing, Adding
<1> QED
    BY <1>1 DEF LocalFollows

\* A step that leaves table, command and listeners alone and writes one index.
LEMMA FollowOne ==
  ASSUME FollowInv, gw.running, NEW i \in Idx, Only(gw, gw', i), gw'.running = gw.running,
         gw'.servers = gw.servers, table' = table, cmd' = cmd, astray \subseteq astray',
         i \notin astray' => IndexFollows(i)'
  PROVE  FollowInv'
<1>1. ASSUME NEW j \in Idx, j \notin astray', j # i
      PROVE  IndexFollows(j)'
  <2>1. IndexFollows(j) /\ Same(gw, gw', j)
        BY <1>1 DEF FollowInv, Only
  <2> QED
      BY <2>1, IndexFollowsOn DEF Same
<1>2. ASSUME NEW l \in Locals, l \notin astray'
      PROVE  LocalFollows(l)'
  <2>1. LocalFollows(l)
        BY <1>2 DEF FollowInv
  <2> QED
      BY <2>1, LocalFollowsOn
<1>3. \A j \in Idx \ astray' : IndexFollows(j)'
      BY <1>1
<1>4. (\A j \in Idx \ astray : IndexFollows(j)) '
      BY <1>3
<1>5. (\A l \in Locals \ astray : LocalFollows(l))'
      BY <1>2
<1> QED
    BY <1>4, <1>5 DEF FollowInv

\* A step that has not to do with links.
LEMMA KeptFollows ==
  ASSUME FollowInv, gw.running, NEW i \in Idx, LinkKept(i)
  PROVE  FollowInv'
<1>1. ASSUME i \notin astray'
      PROVE  IndexFollows(i)'
  <2>1. IndexFollows(i)
        BY <1>1 DEF FollowInv, LinkKept
  <2> QED
      BY <2>1, IndexFollowsOn DEF LinkKept
<1> QED
    BY <1>1, FollowOne DEF LinkKept

\* The process is gone.
LEMMA DieFollows == ASSUME Die PROVE FollowInv'
BY DeadIs DEF Die, FollowInv
\* It starts again.
LEMMA BootFollows == ASSUME LinkInv, Boot PROVE FollowInv'
<1>1. TableInv'
      BY TableStays DEF LinkInv, Boot, ghosts
<1>2. (TableInv /\ cmd = Idle /\ gw = Booted(table))'
      BY <1>1 DEF Boot, LinkInv, DownInv
<1>3. (TableInv /\ cmd = Idle /\ gw = Booted(table) => FollowInv)'
      BY StartsFollowing, PTL
<1> QED
    BY <1>2, <1>3

\* Connections are lost, links stay.
LEMMA PeerDownFollows == ASSUME LinkInv, FollowInv, NEW p \in Peers, PeerDown(p) PROVE FollowInv'
<1>0. gw \in Gateway /\ UNCHANGED <<table, cmd, astray>>
      BY DEF LinkInv, PeerDown, Env, ghosts
<1>l. PICK lost : lost = {i \in Idx : gw.ctx[i].peer = p /\ gw.ctx[i].conn = "open"}
      OBVIOUS
<1>c. PICK C : C = [i \in Idx |-> IF i \in lost THEN [Ended(gw.ctx[i]) EXCEPT !.conn = "broken"] ELSE gw.ctx[i]]
      OBVIOUS
<1>1. gw' = [gw EXCEPT !.ctx = C, !.events = [i \in Idx |-> IF i \in lost THEN Outdated(@[i]) ELSE @[i]]]
      BY <1>l, <1>c DEF PeerDown
<1>2. /\ gw'.ctx = C /\ gw'.running = gw.running /\ gw'.clients_links = gw.clients_links /\ gw'.servers = gw.servers
      BY <1>0, <1>1 DEF Gateway
<1>3. ASSUME NEW i \in Idx
      PROVE  C[i].status = gw.ctx[i].status /\ C[i].client = gw.ctx[i].client /\ C[i].peer = gw.ctx[i].peer
  <2>1. gw.ctx[i] \in Context
        BY <1>0 DEF Gateway
  <2> QED
      BY <1>c, <2>1 DEF Context, Ended
<1>4. ASSUME NEW i \in Idx, i \notin astray, gw.running
      PROVE  IndexFollows(i)'
      BY <1>0, <1>2, <1>3, <1>4, IndexFollowsOn DEF FollowInv
<1>5. ASSUME NEW l \in Locals, l \notin astray, gw.running
      PROVE  LocalFollows(l)'
      BY <1>0, <1>2, <1>5, LocalFollowsOn DEF FollowInv
<1> QED
    BY <1>0, <1>2, <1>4, <1>5 DEF FollowInv

\* A gNB takes the context of its row, which has no client's link.
LEMMA AcceptFollows == ASSUME LinkInv, FollowInv, NEW p \in Gnbs, Accept(p) PROVE FollowInv'
<1>0. gw.running /\ TableInv /\ CmdInv
      BY DEF Accept, LinkInv
<1>1. PICK c \in RowsOf(table) : /\ c.peer = p
                                 /\ gw' = [Closed(gw, c.idx) EXCEPT !.ctx[c.idx] =
                                        Reassured(Connected([@ EXCEPT !.client = FALSE, !.peer = p]))]
                                 /\ astray' = IF Halfway(c) THEN astray \cup Named(c) ELSE astray
      BY DEF Accept
<1>i. PICK i : i = c.idx
      OBVIOUS
<1>2. c \in Links /\ c.work = "server" /\ i \in Idx
      BY <1>0, <1>1, <1>i, ServerRow DEF Links
<1>3. gw' = [Closed(gw, i) EXCEPT !.ctx[i] = Reassured(Connected([@ EXCEPT !.client = FALSE, !.peer = p]))]
      BY <1>1, <1>i
<1>4. gw \in Gateway /\ CtxInv(gw, i)
      BY <1>0, <1>2, AtIndex
<1>5. Differs(gw, gw', i, {"ctx", "events"}) /\ ~gw'.ctx[i].client
  <2>1. gw \in Gateway /\ i \in Idx /\ CtxInv(gw, i)
        BY <1>2, <1>4
  <2> QED
      BY <1>3, <2>1, AcceptIs
<1>6. UNCHANGED <<table, cmd>>
      BY DEF Accept, Env
<1>7. ASSUME i \notin astray'
      PROVE  IndexFollows(i)'
  <2>1. i \in Named(c)
    <3>1. i # None
          BY <1>2, LinkAssumption
    <3> QED
        BY <1>i, <3>1 DEF Named
  <2>2. ~Halfway(c) /\ i \notin astray
        BY <1>1, <1>7, <2>1
  <2>3. IndexFollows(i)
        BY <1>0, <1>2, <2>2 DEF FollowInv
  <2>4. PICK r \in Rows : c = table[r]
        BY DEF RowsOf, Rows
  <2>5. r \in StaysAt(i)
        BY <1>i, <2>2, <2>4 DEF StaysAt, Halfway, Removing
  <2>6. StaysAt(i)' = StaysAt(i) /\ (Joins(i)' <=> Joins(i))
        BY <1>6 DEF StaysAt, Rows, Removing, Joins, Adding
  <2>7. ~Joins(i) => gw.clients_links[i] = None
        BY <1>2, <2>3, <2>4, <2>5 DEF IndexFollows, Fits
  <2>8. ~Joins(i) => gw'.clients_links[i] = None
        BY <1>5, <2>7 DEF Differs
  <2>9. \A q \in StaysAt(i) : q = r
        BY <1>0, <1>i, <2>4 DEF StaysAt, TableInv
  <2>10. ~Joins(i) => \A q \in StaysAt(i) : Fits(i, table[q])'
         BY <1>2, <1>5, <1>6, <2>4, <2>8, <2>9 DEF Fits
  <2> QED
      BY <1>6, <2>5, <2>6, <2>10 DEF IndexFollows
<1>8. Only(gw, gw', i) /\ gw'.running = gw.running /\ gw'.servers = gw.servers
      BY <1>5 DEF Differs
<1>9. astray \subseteq astray'
      BY <1>1
<1> QED
    BY <1>0, <1>2, <1>6, <1>7, <1>8, <1>9, FollowOne

\* The first attempts at a link go to its own peer.
LEMMA SctpTimerFollows == ASSUME LinkInv, FollowInv, NEW i \in Idx, SctpTimer(i) PROVE FollowInv'
<1>0. gw.running /\ gw.clients_links[i] # None
      BY DEF SctpTimer
<1>1. CASE Die
      BY <1>1, DieFollows
<1>2. CASE ~Die
  <2>a. gw \in Gateway /\ gw.clients_links[i] \in Waiting \cup {None}
        BY <1>0, AtIndex
  <2>p. PICK p : p = gw.clients_links[i].peer
        OBVIOUS
  <2>1. /\ p \in Peers
        /\ gw' = IF p \in up THEN [AddSctpClient(gw, i, p) EXCEPT !.clients_links[i] = None]
               ELSE AddSctpClient(gw, i, p)
        /\ UNCHANGED <<table, cmd, astray>>
        BY <1>0, <1>2, <2>a, <2>p DEF SctpTimer, Waiting, Env, ghosts
  <2>2. /\ Differs(gw, gw', i, {"ctx", "events", "links"})
        /\ gw'.ctx[i].client /\ gw'.ctx[i].peer = p
        /\ p \in up => gw'.clients_links[i] = None
        /\ p \notin up => gw'.clients_links[i] = gw.clients_links[i]
        BY <2>a, <2>1, SctpTimerIs
  <2>3. ASSUME i \notin astray'
        PROVE  IndexFollows(i)'
    <3>1. IndexFollows(i)
          BY <1>0, <2>1, <2>3 DEF FollowInv
    <3>2. StaysAt(i)' = StaysAt(i) /\ (Joins(i)' <=> Joins(i))
          BY <2>1 DEF StaysAt, Rows, Removing, Joins, Adding
    <3>3. ~Bare(i)
          BY <1>0 DEF Bare
    <3>4. ASSUME NEW r, Fits(i, table[r])
          PROVE  Fits(i, table[r])'
          BY <1>0, <2>p, <2>1, <2>2, <3>4 DEF Fits
    <3>5. Fits(i, cmd.link) => Fits(i, cmd.link)'
          BY <1>0, <2>p, <2>1, <2>2 DEF Fits
    <3> QED
        BY <3>1, <3>2, <3>3, <3>4, <3>5 DEF IndexFollows
  <2> QED
      BY <1>0, <2>1, <2>2, <2>3, FollowOne DEF Differs
<1> QED
    BY <1>1, <1>2

\* The reconnection goes to the context's peer; an index without link has none.
LEMMA ClientTimerFollows == ASSUME LinkInv, FollowInv, NEW i \in Idx, ClientTimer(i) PROVE FollowInv'
<1>0. gw.running /\ gw.ctx[i].peer \in Amfs
      BY DEF ClientTimer
<1>a. gw \in Gateway /\ CtxInv(gw, i)
      BY <1>0, AtIndex
<1>1. gw' = [gw EXCEPT !.retry[i] = Fewer(@), !.ctx[i] = Reassured(Connected(@))]
      BY DEF ClientTimer
<1>2. /\ Differs(gw, gw', i, {"ctx", "retry"})
      /\ gw'.ctx[i].client = gw.ctx[i].client /\ gw'.ctx[i].peer = gw.ctx[i].peer
      BY <1>a, <1>1, ClientTimerIs
<1>3. UNCHANGED <<table, cmd, astray>>
      BY DEF ClientTimer, Env, ghosts
<1>4. gw'.clients_links[i] = gw.clients_links[i]
      BY <1>2 DEF Differs
<1>5. ASSUME i \notin astray'
      PROVE  IndexFollows(i)'
  <2>1. IndexFollows(i)
        BY <1>0, <1>3, <1>5 DEF FollowInv
  <2>2. StaysAt(i)' = StaysAt(i) /\ (Joins(i)' <=> Joins(i))
        BY <1>3 DEF StaysAt, Rows, Removing, Joins, Adding
  <2>3. ~Bare(i)
    <3>1. gw.ctx[i].peer # None
          BY <1>0, LinkAssumption DEF Peers
    <3> QED
        BY <1>a, <3>1 DEF Bare, CtxInv
  <2>4. ASSUME NEW r, Fits(i, table[r])
        PROVE  Fits(i, table[r])'
        BY <1>2, <1>3, <1>4, <2>4 DEF Fits
  <2>5. Fits(i, cmd.link) => Fits(i, cmd.link)'
        BY <1>2, <1>3, <1>4 DEF Fits
  <2> QED
      BY <2>1, <2>2, <2>3, <2>4, <2>5 DEF IndexFollows
<1> QED
    BY <1>0, <1>2, <1>3, <1>5, FollowOne DEF Differs

-----------------------------------------------------------------------------
(* The commands: removals first.                                            *)

\* What a removal does to the sets of rows that stay.
LEMMA RowLeaves ==
  ASSUME TableInv, NEW r \in Rows, ~Removing, table' = table, Removing', cmd'.id = r, ~Adding, ~Adding'
  PROVE  /\ \A i \in Idx : i # table[r].idx => StaysAt(i)' = StaysAt(i)
         /\ StaysAt(table[r].idx) = {r} /\ StaysAt(table[r].idx)' = {}
         /\ \A l \in Locals : l # table[r].local => StaysOn(l)' = StaysOn(l)
         /\ \A l \in Locals : l = table[r].local => r \in StaysOn(l) /\ StaysOn(l)' = StaysOn(l) \ {r}
         /\ \A i : ~Joins(i) /\ ~Joins(i)'
<1>1. Rows' = Rows
      BY DEF Rows
<1>2. \A i : StaysAt(i) = {q \in Rows : table[q].idx = i} /\ StaysAt(i)' = {q \in Rows : table[q].idx = i /\ q # r}
      BY <1>1 DEF StaysAt
<1>3. \A l : StaysOn(l) = {q \in Rows : table[q].local = l} /\ StaysOn(l)' = {q \in Rows : table[q].local = l /\ q # r}
      BY <1>1 DEF StaysOn
<1>4. \A q \in Rows : table[q].idx = table[r].idx => q = r
      BY DEF TableInv
<1>5. \A i : ~Joins(i) /\ ~Joins(i)'
      BY DEF Joins
<1>6. StaysAt(table[r].idx) = {r} /\ StaysAt(table[r].idx)' = {}
      BY <1>2, <1>4
<1>7. \A i \in Idx : i # table[r].idx => StaysAt(i)' = StaysAt(i)
      BY <1>2
<1>8. \A l \in Locals : l # table[r].local => StaysOn(l)' = StaysOn(l)
      BY <1>3
<1>9. \A l \in Locals : l = table[r].local => r \in StaysOn(l) /\ StaysOn(l)' = StaysOn(l) \ {r}
      BY <1>3
<1> QED
    BY <1>5, <1>6, <1>7, <1>8, <1>9

\* A finite number of rows stay.
LEMMA StaysFinite ==
  ASSUME NEW l
  PROVE  IsFiniteSet(StaysOn(l)) /\ Cardinality(StaysOn(l)) \in Nat
<1>1. StaysOn(l) \subseteq Ids /\ IsFiniteSet(Ids)
      BY LinkAssumption DEF StaysOn, Rows
<1>2. IsFiniteSet(StaysOn(l))
      BY <1>1, FS_Subset
<1> QED
    BY <1>2, FS_CardinalityType

\* A link is removed before its row is: the index is bare, or known to be astray, and its
\* listener has a reference less.
LEMMA RemovalFollows ==
  ASSUME LinkInv, FollowInv, gw.running, NEW r \in Rows, gw' = CfgRmvSctp(gw, table[r]), table' = table,
         astray' = astray \cup Missed(gw, table[r]), ~Removing, ~Adding, Removing', ~Adding', cmd'.id = r
  PROVE  FollowInv'
<1>c. PICK c : c = table[r]
      OBVIOUS
<1>i. PICK i : i = c.idx
      OBVIOUS
<1>0. gw \in Gateway /\ TableInv
      BY DEF LinkInv
<1>1. c \in Links /\ Proper(c) /\ i \in Idx /\ c.work \in Work
      BY <1>0, <1>c, <1>i DEF TableInv, Rows, Links
<1>2. Removed(gw, gw', c)
      BY <1>0, <1>1, <1>c, CfgRmvSctpIs
<1>3. /\ \A j \in Idx : j # i => StaysAt(j)' = StaysAt(j)
      /\ StaysAt(i) = {r} /\ StaysAt(i)' = {}
      /\ \A l \in Locals : l # c.local => StaysOn(l)' = StaysOn(l)
      /\ \A l \in Locals : l = c.local => r \in StaysOn(l) /\ StaysOn(l)' = StaysOn(l) \ {r}
      /\ \A j : ~Joins(j) /\ ~Joins(j)'
      BY <1>0, <1>c, <1>i, RowLeaves
<1>4. ASSUME NEW j \in Idx, j \notin astray', j # i
      PROVE  IndexFollows(j)'
  <2>1. IndexFollows(j) /\ Same(gw, gw', j)
        BY <1>2, <1>4, <1>i DEF FollowInv, Removed, Only
  <2>2. Bare(j) => Bare(j)'
        BY <2>1 DEF Bare, Same
  <2>3. \A q \in StaysAt(j) : Fits(j, table[q]) => Fits(j, table[q])'
        BY <2>1 DEF Fits, Same
  <2> QED
      BY <1>3, <1>4, <2>1, <2>2, <2>3 DEF IndexFollows
<1>5. ASSUME i \notin astray'
      PROVE  IndexFollows(i)'
  <2>1. IndexFollows(i) /\ i \notin Missed(gw, c)
        BY <1>1, <1>c, <1>5 DEF FollowInv
  <2>2. Fits(i, c)
        BY <1>3, <1>c, <2>1 DEF IndexFollows
  <2>3. Bare(i)'
    <3>1. CASE c.work = "client"
      <4>1. gw.ctx[i].status # "unset" /\ gw.ctx[i].client
            BY <1>i, <2>1, <3>1 DEF Missed
      <4>2. gw'.ctx[i] = Zeroed /\ gw'.clients_links[i] = None
            BY <1>2, <1>i, <3>1, <4>1 DEF Removed
      <4> QED
          BY <4>2 DEF Bare, Zeroed
    <3>2. CASE c.work = "server"
      <4>1. gw.clients_links[i] = None /\ ~gw.ctx[i].client
            BY <2>2, <3>2 DEF Fits
      <4>2. gw'.clients_links[i] = None
            BY <1>2, <1>i, <4>1 DEF Removed
      <4>3. gw.ctx[i].status # "unset" => gw'.ctx[i] = Zeroed
            BY <1>2, <1>i, <3>2, <4>1 DEF Removed
      <4>4. gw'.ctx[i] = gw.ctx[i] \/ gw'.ctx[i] = Zeroed
            BY <1>2, <1>i DEF Removed
      <4> QED
          BY <4>1, <4>2, <4>3, <4>4 DEF Bare, Zeroed
    <3> QED
        BY <1>1, <3>1, <3>2 DEF Work
  <2> QED
      BY <1>3, <2>3 DEF IndexFollows
<1>6. ASSUME NEW l \in Locals, l \notin astray'
      PROVE  LocalFollows(l)'
  <2>1. gw.servers[l] = Cardinality(StaysOn(l)) /\ gw.servers[l] \in Nat
    <3>1. LocalFollows(l)
          BY <1>6 DEF FollowInv
    <3> QED
        BY <1>0, <3>1, StaysFinite DEF LocalFollows, Gateway
  <2>2. CASE l # c.local
    <3>1. gw'.servers[l] = gw.servers[l] /\ StaysOn(l)' = StaysOn(l)
          BY <1>0, <1>2, <1>3, <2>2 DEF Removed, Gateway
    <3> QED
        BY <2>1, <3>1 DEF LocalFollows
  <2>3. CASE l = c.local
    <3>1. c.work = "server"
      <4>1. l # None
            BY LinkAssumption
      <4> QED
          BY <1>1, <2>3, <4>1 DEF Proper, Work
    <3>2. gw'.servers = [gw.servers EXCEPT ![l] = Fewer(gw.servers[l])]
          BY <1>2, <2>3, <3>1 DEF Removed
    <3>3. gw'.servers[l] = Fewer(gw.servers[l])
          BY <1>0, <3>2 DEF Gateway
    <3>4. r \in StaysOn(l) /\ StaysOn(l)' = StaysOn(l) \ {r}
          BY <1>3, <2>3
    <3>5. Cardinality(StaysOn(l) \ {r}) = Cardinality(StaysOn(l)) - 1
          BY <3>4, StaysFinite, FS_RemoveElement
    <3>6. Cardinality(StaysOn(l)) # 0
          BY <3>4, StaysFinite, FS_EmptySet
    <3>7. gw'.servers[l] = Cardinality(StaysOn(l)')
          BY <2>1, <3>3, <3>4, <3>5, <3>6 DEF Fewer
    <3>8. Cardinality(StaysOn(l)') \in Nat
          BY <3>4, <3>5, <3>6, <2>1
    <3> QED
        BY <3>7, <3>8 DEF LocalFollows
  <2> QED
      BY <2>2, <2>3
<1>7. (\A j \in Idx \ astray : IndexFollows(j))'
      BY <1>4, <1>5
<1>8. (\A l \in Locals \ astray : LocalFollows(l))'
      BY <1>6
<1> QED
    BY <1>7, <1>8 DEF FollowInv

\* sctp_delete and sctp_update, first half.
LEMMA OrdersFollow ==
  ASSUME LinkInv, FollowInv, NEW r \in Ids,
         (\E side \in Work : OrderDelete(r, side)) \/ (\E c \in Links : OrderUpdate(r, c))
  PROVE  FollowInv'
<1>1. /\ r \in Rows /\ gw.running /\ cmd = Idle /\ gw' = CfgRmvSctp(gw, table[r]) /\ table' = table
      /\ astray' = astray \cup Missed(gw, table[r]) /\ cmd'.id = r /\ cmd'.op \in {"delete row", "update"}
  <2>1. ASSUME NEW side \in Work, OrderDelete(r, side)
        PROVE  /\ r \in Rows /\ gw.running /\ cmd = Idle /\ gw' = CfgRmvSctp(gw, table[r]) /\ table' = table
               /\ astray' = astray \cup Missed(gw, table[r]) /\ cmd' = [op |-> "delete row", id |-> r, side |-> side]
        BY <2>1 DEF OrderDelete, Ordered, Command, Rows
  <2>2. ASSUME NEW c \in Links, OrderUpdate(r, c)
        PROVE  /\ r \in Rows /\ gw.running /\ cmd = Idle /\ gw' = CfgRmvSctp(gw, table[r]) /\ table' = table
               /\ astray' = astray \cup Missed(gw, table[r]) /\ cmd' = [op |-> "update", id |-> r, link |-> c]
        BY <2>2 DEF OrderUpdate, Ordered, Command, Rows
  <2>3. CASE \E side \in Work : OrderDelete(r, side)
    <3>1. PICK side \in Work : OrderDelete(r, side)
          BY <2>3
    <3>2. PICK m : m = [op |-> "delete row", id |-> r, side |-> side]
          OBVIOUS
    <3>3. /\ r \in Rows /\ gw.running /\ cmd = Idle /\ gw' = CfgRmvSctp(gw, table[r]) /\ table' = table
          /\ astray' = astray \cup Missed(gw, table[r]) /\ cmd' = m
          BY <2>1, <3>1, <3>2
    <3>4. m.id = r /\ m.op = "delete row"
          BY <3>2
    <3> QED
        BY <3>3, <3>4
  <2>4. CASE \E c \in Links : OrderUpdate(r, c)
    <3>1. PICK c \in Links : OrderUpdate(r, c)
          BY <2>4
    <3>2. PICK m : m = [op |-> "update", id |-> r, link |-> c]
          OBVIOUS
    <3>3. /\ r \in Rows /\ gw.running /\ cmd = Idle /\ gw' = CfgRmvSctp(gw, table[r]) /\ table' = table
          /\ astray' = astray \cup Missed(gw, table[r]) /\ cmd' = m
          BY <2>2, <3>1, <3>2
    <3>4. m.id = r /\ m.op = "update"
          BY <3>2
    <3> QED
        BY <3>3, <3>4
  <2> QED
      BY <2>3, <2>4
<1>2. ~Removing /\ ~Adding /\ Removing' /\ ~Adding'
      BY <1>1 DEF Removing, Adding, Idle
<1> QED
    BY <1>1, <1>2, RemovalFollows

\* The listeners' and the contexts' state stays, and so do the rows in place.
LEMMA SetsFollow ==
  ASSUME FollowInv, gw' = gw, astray \subseteq astray',
         \A i \in Idx : i \notin astray' => /\ StaysAt(i)' = StaysAt(i) /\ ~Joins(i) /\ ~Joins(i)'
                                            /\ \A r \in StaysAt(i) : table'[r] = table[r],
         \A l \in Locals : l \notin astray' => StaysOn(l)' = StaysOn(l) /\ ~Adding /\ ~Adding'
  PROVE  FollowInv'
<1>1. ASSUME NEW i \in Idx, i \notin astray', gw.running
      PROVE  IndexFollows(i)'
  <2>1. IndexFollows(i)
        BY <1>1 DEF FollowInv
  <2>2. Bare(i) => Bare(i)'
        BY DEF Bare
  <2>3. \A r \in StaysAt(i) : Fits(i, table[r]) => Fits(i, table[r])'
        BY <1>1 DEF Fits
  <2> QED
      BY <1>1, <2>1, <2>2, <2>3 DEF IndexFollows
<1>2. ASSUME NEW l \in Locals, l \notin astray', gw.running
      PROVE  LocalFollows(l)'
  <2>1. LocalFollows(l)
        BY <1>2 DEF FollowInv
  <2> QED
      BY <1>2, <2>1 DEF LocalFollows
<1> QED
    BY <1>1, <1>2 DEF FollowInv

\* sctp_insert is ordered.
LEMMA OrderInsertFollows == ASSUME LinkInv, FollowInv, NEW o \in Offered, OrderInsert(o) PROVE FollowInv'
<1>1. cmd = Idle /\ cmd'.op = "insert" /\ UNCHANGED <<gw, table, astray>>
      BY DEF OrderInsert, Ordered, Command
<1>2. ~Removing /\ ~Removing' /\ ~Adding /\ ~Adding'
      BY <1>1 DEF Removing, Adding, Idle
<1>3. \A i : StaysAt(i)' = StaysAt(i) /\ StaysOn(i)' = StaysOn(i)
      BY <1>1, <1>2 DEF StaysAt, StaysOn, Rows
<1>4. \A i : ~Joins(i) /\ ~Joins(i)'
      BY <1>2 DEF Joins
<1> QED
    BY <1>1, <1>2, <1>3, <1>4, SetsFollow

-----------------------------------------------------------------------------
(* The commands: additions and rows.                                        *)

\* A link is added: elsewhere nothing moves; where the index was not set and no row is in
\* place, it gets the link; an index that was set is known to be astray.
LEMMA AdditionFollows ==
  ASSUME LinkInv, FollowInv, gw.running, NEW c \in Links, Proper(c), gw' = CfgAddSctp(gw, c), table' = table,
         astray' = astray \cup Overwrites(gw, c), ~Adding, Adding', cmd'.link = c,
         Removing' <=> Removing, Removing => cmd'.id = cmd.id
  PROVE  FollowInv'
<1>i. PICK i : i = c.idx
      OBVIOUS
<1>0. gw \in Gateway /\ TableInv /\ i \in Idx /\ c.work \in Work
      BY <1>i DEF LinkInv, Links
<1>1. Added(gw, gw', c)
      BY <1>0, CfgAddSctpIs
<1>2. Moved(gw, gw', i)
      BY <1>1, <1>i DEF Added
<1>3. (\A j : StaysAt(j)' = StaysAt(j) /\ StaysOn(j)' = StaysOn(j))
      BY DEF StaysAt, StaysOn, Rows
<1>4. \A j : ~Joins(j) /\ (Joins(j)' <=> j = i)
      BY <1>i DEF Joins
<1>5. c.idx \in Named(c)
  <2>1. c.idx # None
        BY <1>0, <1>i, LinkAssumption
  <2> QED
      BY <2>1 DEF Named
<1>6. i \notin astray' => gw.ctx[i].status = "unset"
      BY <1>5, <1>i DEF Overwrites
<1>7. ASSUME NEW j \in Idx, j \notin astray', j # i
      PROVE  IndexFollows(j)'
  <2>1. IndexFollows(j) /\ Same(gw, gw', j)
        BY <1>2, <1>7 DEF FollowInv, Moved, Only
  <2>2. Bare(j) => Bare(j)'
        BY <2>1 DEF Bare, Same
  <2>3. \A q \in StaysAt(j) : Fits(j, table[q]) => Fits(j, table[q])'
        BY <2>1 DEF Fits, Same
  <2> QED
      BY <1>3, <1>4, <1>7, <2>1, <2>2, <2>3 DEF IndexFollows
<1>8. ASSUME i \notin astray'
      PROVE  IndexFollows(i)'
  <2>1. gw.ctx[i].status = "unset" /\ IndexFollows(i)
        BY <1>0, <1>6, <1>8 DEF FollowInv
  <2>2. ASSUME StaysAt(i) = {}
        PROVE  Fits(i, cmd.link)'
    <3>1. gw.clients_links[i] = None /\ ~gw.ctx[i].client
          BY <1>4, <2>1, <2>2 DEF IndexFollows, Bare
    <3>2. CASE c.work = "client"
      <4>1. /\ gw'.ctx[i].client /\ gw'.ctx[i].peer = c.peer
            /\ \/ gw'.clients_links[i] = None
               \/ gw'.clients_links[i] # None /\ gw'.clients_links[i].peer = c.peer
            BY <1>1, <1>i, <2>1, <3>1, <3>2 DEF Added
      <4> QED
          BY <3>2, <4>1 DEF Fits
    <3>3. CASE c.work = "server"
      <4>1. gw'.ctx[i] = gw.ctx[i] /\ gw'.clients_links[i] = gw.clients_links[i]
            BY <1>1, <1>i, <2>1, <3>3 DEF Added
      <4> QED
          BY <3>1, <3>3, <4>1 DEF Fits
    <3> QED
        BY <1>0, <3>2, <3>3 DEF Work
  <2> QED
      BY <1>3, <1>4, <2>2 DEF IndexFollows
<1>9. ASSUME NEW l \in Locals, l \notin astray'
      PROVE  LocalFollows(l)'
  <2>1. gw.servers[l] = Cardinality(StaysOn(l)) /\ Cardinality(StaysOn(l)) \in Nat
    <3>1. LocalFollows(l)
          BY <1>9 DEF FollowInv
    <3> QED
        BY <3>1, StaysFinite DEF LocalFollows
  <2>2. CASE l # c.local
    <3>1. gw'.servers[l] = gw.servers[l]
          BY <1>1, <2>2 DEF Added
    <3> QED
        BY <1>3, <2>1, <2>2, <3>1 DEF LocalFollows
  <2>3. CASE l = c.local
    <3>1. l # None
          BY LinkAssumption
    <3>2. c.work = "server"
          BY <1>0, <2>3, <3>1 DEF Proper, Work
    <3>3. gw.ctx[i].status = "unset"
          BY <1>9, <1>i, <2>3, <3>1 DEF Overwrites, Named
    <3>4. gw'.servers[l] = gw.servers[l] + 1
          BY <1>1, <1>i, <2>3, <3>2, <3>3 DEF Added
    <3> QED
        BY <1>3, <2>1, <2>3, <3>4 DEF LocalFollows
  <2> QED
      BY <2>2, <2>3
<1>10. (\A j \in Idx \ astray : IndexFollows(j))'
       BY <1>7, <1>8
<1>11. (\A l \in Locals \ astray : LocalFollows(l))'
       BY <1>9
<1> QED
    BY <1>10, <1>11 DEF FollowInv

\* The listener failed: the link is not added, and what the index held is removed.
LEMMA RefusalFollows ==
  ASSUME LinkInv, FollowInv, gw.running, NEW c \in Links, Proper(c), gw' = First(gw, c), table' = table,
         NEW more, astray' = astray \cup Overwrites(gw, c) \cup more, ~Adding, cmd' = Idle,
         Removing => Named(table[cmd.id]) \subseteq more
  PROVE  FollowInv'
<1>i. PICK i : i = c.idx
      OBVIOUS
<1>0. gw \in Gateway /\ TableInv /\ i \in Idx /\ (Removing => cmd.id \in Rows)
      BY <1>i DEF LinkInv, Links, CmdInv
<1>1. Moved(gw, gw', i) /\ \A l \in Locals : c.local # l => gw'.servers[l] = gw.servers[l]
      BY <1>0, <1>i, FirstMoves
<1>2. ~Adding' /\ ~Removing' /\ Rows' = Rows
      BY DEF Idle, Adding, Removing, Rows
<1>3. ASSUME NEW r \in Rows, Removing, r = cmd.id
      PROVE  table[r].idx \in astray' /\ (table[r].local \in Locals => table[r].local \in astray')
  <2>1. table[r] \in Links
        BY <1>0 DEF TableInv, Rows
  <2>2. table[r].idx # None /\ (table[r].local \in Locals => table[r].local # None)
        BY <2>1, LinkAssumption DEF Links
  <2> QED
      BY <1>3, <2>2 DEF Named
<1>4. \A j \in Idx : j \notin astray' => StaysAt(j)' = StaysAt(j)
      BY <1>2, <1>3 DEF StaysAt
<1>5. \A l \in Locals : l \notin astray' => StaysOn(l)' = StaysOn(l)
      BY <1>2, <1>3 DEF StaysOn
<1>6. \A j : ~Joins(j) /\ ~Joins(j)'
      BY <1>2 DEF Joins
<1>7. gw.ctx[i].status = "unset" => gw' = gw
      BY <1>i DEF First
<1>8. i \notin astray' => gw.ctx[i].status = "unset"
  <2>1. c.idx # None
        BY <1>0, <1>i, LinkAssumption
  <2> QED
      BY <1>i, <2>1 DEF Overwrites, Named
<1>9. ASSUME NEW j \in Idx, j \notin astray'
      PROVE  IndexFollows(j)'
  <2>1. IndexFollows(j)
        BY <1>9 DEF FollowInv
  <2>2. Same(gw, gw', j)
    <3>1. CASE j = i
          BY <1>7, <1>8, <1>9, <3>1 DEF Same
    <3>2. CASE j # i
          BY <1>1, <3>2 DEF Moved, Only
    <3> QED
        BY <3>1, <3>2
  <2>3. Bare(j) => Bare(j)'
        BY <2>2 DEF Bare, Same
  <2>4. \A q \in StaysAt(j) : Fits(j, table[q]) => Fits(j, table[q])'
        BY <2>2 DEF Fits, Same
  <2> QED
      BY <1>4, <1>6, <1>9, <2>1, <2>3, <2>4 DEF IndexFollows
<1>10. ASSUME NEW l \in Locals, l \notin astray'
       PROVE  LocalFollows(l)'
  <2>1. LocalFollows(l)
        BY <1>10 DEF FollowInv
  <2>2. gw'.servers[l] = gw.servers[l]
    <3>1. CASE l # c.local
          BY <1>1, <3>1
    <3>2. CASE l = c.local
      <4>1. l # None
            BY LinkAssumption
      <4>2. gw.ctx[i].status = "unset"
            BY <1>10, <1>i, <3>2, <4>1 DEF Overwrites, Named
      <4> QED
          BY <1>7, <4>2
    <3> QED
        BY <3>1, <3>2
  <2> QED
      BY <1>2, <1>5, <1>10, <2>1, <2>2 DEF LocalFollows
<1>11. (\A j \in Idx \ astray : IndexFollows(j))'
       BY <1>9
<1>12. (\A l \in Locals \ astray : LocalFollows(l))'
       BY <1>10
<1> QED
    BY <1>11, <1>12 DEF FollowInv

\* sctp_insert adds its link.
LEMMA InsertLinkFollows == ASSUME LinkInv, FollowInv, InsertLink PROVE FollowInv'
<1>0. gw.running /\ cmd.op = "insert" /\ CmdInv /\ table' = table /\ ~Adding /\ ~Removing
      BY DEF InsertLink, Command, LinkInv, Adding, Removing
<1>f. PICK free : free = {i \in Idx : gw.ctx[i].status = "unset"}
      OBVIOUS
<1>1. CASE free = {}
  <2>1. cmd' = Idle /\ gw' = gw /\ astray' = astray
        BY <1>1, <1>f DEF InsertLink, Command
  <2>2. ~Adding' /\ ~Removing' /\ Rows' = Rows
        BY <1>0, <2>1 DEF Idle, Adding, Removing, Rows
  <2>3. \A j : StaysAt(j)' = StaysAt(j) /\ StaysOn(j)' = StaysOn(j) /\ ~Joins(j) /\ ~Joins(j)'
        BY <1>0, <2>2 DEF StaysAt, StaysOn, Joins
  <2> QED
      BY <1>0, <2>1, <2>2, <2>3, SetsFollow
<1>2. CASE free # {}
  <2>c. PICK c : c = NewLink(free)
        OBVIOUS
  <2>1. AddLink(gw, c, [op |-> "insert row", link |-> c])
        BY <1>2, <1>f, <2>c DEF InsertLink, NewLink
  <2>2. c \in Links /\ Proper(c)
        BY <1>0, <1>2, <1>f, <2>c, NewLinkIs
  <2>3. CASE /\ gw' = CfgAddSctp(gw, c) /\ cmd' = [op |-> "insert row", link |-> c]
             /\ astray' = astray \cup Overwrites(gw, c)
    <3>1. cmd'.link = c /\ cmd'.op = "insert row"
          BY <2>3
    <3>2. Adding' /\ ~Removing'
          BY <3>1 DEF Adding, Removing
    <3> QED
        BY <1>0, <2>2, <2>3, <3>1, <3>2, AdditionFollows
  <2>4. CASE /\ gw' = (IF gw.ctx[c.idx].status = "unset" THEN gw ELSE CfgRmvSctp(gw, c)) /\ cmd' = Idle
             /\ astray' = astray \cup Overwrites(gw, c)
                   \cup (IF cmd.op = "update" THEN Named(table[cmd.id]) \cup Named(c) ELSE {})
    <3>1. gw' = First(gw, c) /\ astray' = astray \cup Overwrites(gw, c) \cup {}
          BY <1>0, <2>4 DEF First
    <3> QED
        BY <1>0, <2>2, <2>4, <3>1, RefusalFollows
  <2> QED
      BY <2>1, <2>3, <2>4 DEF AddLink
<1> QED
    BY <1>1, <1>2

\* sctp_update adds its link.
LEMMA UpdateLinkFollows == ASSUME LinkInv, FollowInv, UpdateLink PROVE FollowInv'
<1>0. gw.running /\ cmd.op = "update" /\ CmdInv /\ table' = table /\ ~Adding /\ Removing
      BY DEF UpdateLink, Command, LinkInv, Adding, Removing
<1>c. PICK c : c = cmd.link
      OBVIOUS
<1>n. PICK next : next = [cmd EXCEPT !.op = "update row"]
      OBVIOUS
<1>1. AddLink(gw, c, next)
      BY <1>c, <1>n DEF UpdateLink
<1>2. cmd \in [op : {"update", "update row"}, id : Ids, link : Links] /\ c \in Links /\ Proper(c)
      BY <1>0, <1>c, CommandIs
<1>3. next.op = "update row" /\ next.id = cmd.id /\ next.link = c
      BY <1>2, <1>n, <1>c
<1>4. CASE /\ gw' = CfgAddSctp(gw, c) /\ cmd' = next
           /\ astray' = astray \cup Overwrites(gw, c)
  <2>1. Adding' /\ Removing' /\ cmd'.link = c /\ cmd'.id = cmd.id
        BY <1>3, <1>4 DEF Adding, Removing
  <2> QED
      BY <1>0, <1>2, <1>4, <2>1, AdditionFollows
<1>5. CASE /\ gw' = (IF gw.ctx[c.idx].status = "unset" THEN gw ELSE CfgRmvSctp(gw, c)) /\ cmd' = Idle
           /\ astray' = astray \cup Overwrites(gw, c)
                 \cup (IF cmd.op = "update" THEN Named(table[cmd.id]) \cup Named(c) ELSE {})
  <2>m. PICK more : more = Named(table[cmd.id]) \cup Named(c)
        OBVIOUS
  <2>1. gw' = First(gw, c) /\ astray' = astray \cup Overwrites(gw, c) \cup more
        BY <1>0, <1>5, <2>m DEF First
  <2>2. Named(table[cmd.id]) \subseteq more
        BY <2>m
  <2> QED
      BY <1>0, <1>2, <1>5, <2>1, <2>2, RefusalFollows
<1> QED
    BY <1>1, <1>4, <1>5 DEF AddLink

-----------------------------------------------------------------------------
(* The row, and every step.                                                 *)

\* The command is over: an index keeps its rows, or the link that joined it has its row;
\* an address has one row more where the link joined it.
LEMMA RowsSettle ==
  ASSUME FollowInv, gw.running, gw' = gw, ~Adding', astray \subseteq astray',
         \A i \in Idx : i \notin astray' =>
            \/ ~Joins(i) /\ StaysAt(i)' = StaysAt(i) /\ \A r \in StaysAt(i) : table'[r] = table[r]
            \/ Joins(i) /\ StaysAt(i) = {} /\ \E r : StaysAt(i)' = {r} /\ table'[r] = cmd.link,
         \A l \in Locals : l \notin astray' =>
            Cardinality(StaysOn(l)') = Cardinality(StaysOn(l)) + (IF Adding /\ cmd.link.local = l THEN 1 ELSE 0)
  PROVE  FollowInv'
<1>1. \A i : ~Joins(i)'
      BY DEF Joins
<1>2. ASSUME NEW i \in Idx, i \notin astray'
      PROVE  IndexFollows(i)'
  <2>1. IndexFollows(i)
        BY <1>2 DEF FollowInv
  <2>2. CASE ~Joins(i) /\ StaysAt(i)' = StaysAt(i) /\ \A r \in StaysAt(i) : table'[r] = table[r]
    <3>1. Bare(i) => Bare(i)'
          BY DEF Bare
    <3>2. \A r \in StaysAt(i) : Fits(i, table[r]) => Fits(i, table[r])'
          BY <2>2 DEF Fits
    <3> QED
        BY <1>1, <2>1, <2>2, <3>1, <3>2 DEF IndexFollows
  <2>3. CASE Joins(i) /\ StaysAt(i) = {} /\ \E r : StaysAt(i)' = {r} /\ table'[r] = cmd.link
    <3>1. PICK r : StaysAt(i)' = {r} /\ table'[r] = cmd.link
          BY <2>3
    <3>2. Fits(i, cmd.link)
          BY <2>1, <2>3 DEF IndexFollows
    <3>3. Fits(i, table[r])'
          BY <3>1, <3>2 DEF Fits
    <3> QED
        BY <1>1, <3>1, <3>3 DEF IndexFollows
  <2> QED
      BY <1>2, <2>2, <2>3
<1>3. ASSUME NEW l \in Locals, l \notin astray'
      PROVE  LocalFollows(l)'
  <2>1. LocalFollows(l)
        BY <1>3 DEF FollowInv
  <2>2. gw'.servers[l] = Cardinality(StaysOn(l)')
        BY <1>3, <2>1 DEF LocalFollows
  <2>3. Cardinality(StaysOn(l)') \in Nat
    <3>1. Cardinality(StaysOn(l)) \in Nat
          BY StaysFinite
    <3> QED
        BY <1>3, <3>1
  <2> QED
      BY <2>2, <2>3 DEF LocalFollows
<1> QED
    BY <1>2, <1>3 DEF FollowInv

\* The row is not written: what the command names is known to be astray.
LEMMA NoRowFollows ==
  ASSUME LinkInv, FollowInv, gw.running, gw' = gw, cmd' = Idle, table' = table, NEW more,
         astray' = astray \cup more, Adding => Named(cmd.link) \subseteq more,
         Removing => Named(table[cmd.id]) \subseteq more
  PROVE  FollowInv'
<1>0. TableInv /\ CmdInv
      BY DEF LinkInv
<1>1. ~Adding' /\ ~Removing' /\ Rows' = Rows
      BY DEF Idle, Adding, Removing, Rows
<1>2. \A i \in Idx : i # None
      BY LinkAssumption
<1>3. \A l \in Locals : l # None
      BY LinkAssumption
<1>4. ASSUME NEW i \in Idx, i \notin astray'
      PROVE  ~Joins(i) /\ StaysAt(i)' = StaysAt(i)
  <2>1. ~Joins(i)
        BY <1>2, <1>4 DEF Joins, Named
  <2>2. Removing => table[cmd.id].idx # i
        BY <1>2, <1>4 DEF Named
  <2> QED
      BY <1>1, <2>1, <2>2 DEF StaysAt
<1>5. ASSUME NEW l \in Locals, l \notin astray'
      PROVE  StaysOn(l)' = StaysOn(l) /\ ~(Adding /\ cmd.link.local = l)
  <2>1. ~(Adding /\ cmd.link.local = l)
        BY <1>3, <1>5 DEF Named
  <2>2. Removing => table[cmd.id].local # l
        BY <1>3, <1>5 DEF Named
  <2> QED
      BY <1>1, <2>1, <2>2 DEF StaysOn
<1>6. ASSUME NEW l \in Locals, l \notin astray'
      PROVE  Cardinality(StaysOn(l)') = Cardinality(StaysOn(l)) + (IF Adding /\ cmd.link.local = l THEN 1 ELSE 0)
  <2>1. Cardinality(StaysOn(l)) \in Nat
        BY StaysFinite
  <2> QED
      BY <1>5, <1>6, <2>1
<1> QED
    BY <1>1, <1>4, <1>6, RowsSettle

\* The row is written: the link that joined has it, and the row removed or replaced is
\* one that stayed in no set.
LEMMA RowFollows ==
  ASSUME LinkInv, FollowInv, gw.running, gw' = gw, cmd' = Idle, astray' = astray, NEW r \in Ids, NEW c,
         Adding, cmd.link = c, c \in Links, table' = [table EXCEPT ![r] = c],
         \A q \in Rows \ {r} : table[q].idx # c.idx,
         r \in Rows => Removing /\ cmd.id = r, Removing => cmd.id = r
  PROVE  FollowInv'
<1>0. TableInv /\ table \in [Ids -> Links \cup {None}] /\ c # None
      BY LinkAssumption DEF LinkInv, TableInv
<1>1. \A q \in Ids : table'[q] = IF q = r THEN c ELSE table[q]
      BY <1>0
<1>2. Rows' = Rows \cup {r}
      BY <1>0, <1>1 DEF Rows
<1>3. ~Adding' /\ ~Removing'
      BY DEF Idle, Adding, Removing
<1>4. \A i : r \notin StaysAt(i) /\ r \notin StaysOn(i)
      BY DEF StaysAt, StaysOn
<1>5. \A i : StaysAt(i) = {q \in Rows \ {r} : table[q].idx = i}
      BY DEF StaysAt
<1>6. \A i : StaysOn(i) = {q \in Rows \ {r} : table[q].local = i}
      BY DEF StaysOn
<1>7. \A i : StaysAt(i)' = {q \in Rows \cup {r} : table'[q].idx = i}
      BY <1>2, <1>3 DEF StaysAt
<1>8. \A i : StaysOn(i)' = {q \in Rows \cup {r} : table'[q].local = i}
      BY <1>2, <1>3 DEF StaysOn
<1>9. table'[r] = c /\ \A q \in Rows \ {r} : table'[q] = table[q]
      BY <1>1 DEF Rows
<1>10. ASSUME NEW i \in Idx, i # c.idx
       PROVE  ~Joins(i) /\ StaysAt(i)' = StaysAt(i) /\ \A q \in StaysAt(i) : table'[q] = table[q]
  <2>1. StaysAt(i)' = StaysAt(i)
    <3>1. \A q \in Rows \cup {r} : table'[q].idx = i <=> q \in Rows \ {r} /\ table[q].idx = i
          BY <1>9, <1>10
    <3> QED
        BY <1>5, <1>7, <3>1
  <2>2. \A q \in StaysAt(i) : table'[q] = table[q]
        BY <1>5, <1>9
  <2> QED
      BY <1>10, <2>1, <2>2 DEF Joins
<1>11. ASSUME NEW i \in Idx, i = c.idx
       PROVE  Joins(i) /\ StaysAt(i) = {} /\ \E q : StaysAt(i)' = {q} /\ table'[q] = cmd.link
  <2>1. StaysAt(i) = {}
        BY <1>5, <1>11
  <2>2. StaysAt(i)' = {r}
        BY <1>7, <1>9, <1>11
  <2> QED
      BY <1>9, <1>11, <2>1, <2>2 DEF Joins
<1>12. ASSUME NEW l \in Locals
       PROVE  Cardinality(StaysOn(l)') = Cardinality(StaysOn(l)) + (IF Adding /\ cmd.link.local = l THEN 1 ELSE 0)
  <2>1. IsFiniteSet(StaysOn(l)) /\ Cardinality(StaysOn(l)) \in Nat
        BY StaysFinite
  <2>2. CASE c.local = l
    <3>1. StaysOn(l)' = StaysOn(l) \cup {r}
          BY <1>6, <1>8, <1>9, <2>2
    <3>2. Cardinality(StaysOn(l) \cup {r}) = Cardinality(StaysOn(l)) + 1
          BY <1>4, <2>1, FS_AddElement
    <3> QED
        BY <2>2, <3>1, <3>2
  <2>3. CASE c.local # l
    <3>1. \A q \in Rows \cup {r} : table'[q].local = l <=> q \in Rows \ {r} /\ table[q].local = l
          BY <1>9, <2>3
    <3>2. StaysOn(l)' = StaysOn(l)
          BY <1>6, <1>8, <3>1
    <3> QED
        BY <2>1, <2>3, <3>2
  <2> QED
      BY <2>2, <2>3
<1>13. \A i \in Idx : \/ ~Joins(i) /\ StaysAt(i)' = StaysAt(i) /\ \A q \in StaysAt(i) : table'[q] = table[q]
                      \/ Joins(i) /\ StaysAt(i) = {} /\ \E q : StaysAt(i)' = {q} /\ table'[q] = cmd.link
       BY <1>10, <1>11
<1> QED
    BY <1>3, <1>12, <1>13, RowsSettle

\* sctp_insert writes its row.
LEMMA InsertRowFollows == ASSUME LinkInv, FollowInv, InsertRow PROVE FollowInv'
<1>0. gw.running /\ gw' = gw /\ cmd' = Idle /\ cmd.op = "insert row" /\ CmdInv /\ TableInv
      BY DEF InsertRow, Row, LinkInv
<1>c. PICK c : c = cmd.link
      OBVIOUS
<1>f. PICK free : free = {r \in Ids : table[r] = None}
      OBVIOUS
<1>m. PICK m : m = Min(free)
      OBVIOUS
<1>1. Adding /\ ~Removing
      BY <1>0 DEF Adding, Removing
<1>2. \/ table' = table /\ astray' = astray \cup Named(c)
      \/ RowsAt(table, c.idx) = {} /\ free # {} /\ table' = [table EXCEPT ![m] = c] /\ astray' = astray
      BY <1>c, <1>f, <1>m DEF InsertRow, Written
<1>3. CASE table' = table /\ astray' = astray \cup Named(c)
  <2>1. Named(cmd.link) \subseteq Named(c)
        BY <1>c
  <2> QED
      BY <1>0, <1>1, <1>3, <2>1, NoRowFollows
<1>4. CASE RowsAt(table, c.idx) = {} /\ free # {} /\ table' = [table EXCEPT ![m] = c] /\ astray' = astray
  <2>1. m \in free
        BY <1>4, <1>f, <1>m, MinIsOne, LinkAssumption
  <2>2. m \in Ids /\ m \notin Rows
        BY <2>1, <1>f DEF Rows
  <2>3. \A q \in Rows \ {m} : table[q].idx # c.idx
        BY <1>4 DEF Rows, RowsAt, RowsOf
  <2>4. c \in Links
        BY <1>0, <1>c, CommandIs
  <2> QED
      BY <1>0, <1>1, <1>c, <1>4, <2>2, <2>3, <2>4, RowFollows
<1> QED
    BY <1>2, <1>3, <1>4

\* sctp_delete removes its row.
LEMMA DeleteRowFollows == ASSUME LinkInv, FollowInv, DeleteRow PROVE FollowInv'
<1>0. gw.running /\ gw' = gw /\ cmd' = Idle /\ cmd.op = "delete row" /\ CmdInv /\ TableInv
      BY DEF DeleteRow, Row, LinkInv
<1>r. PICK r : r = cmd.id
      OBVIOUS
<1>1. ~Adding /\ Removing /\ ~Adding' /\ ~Removing'
      BY <1>0 DEF Adding, Removing, Idle
<1>2. \/ table' = table /\ astray' = astray \cup Named(table[r])
      \/ table' = [table EXCEPT ![r] = None] /\ astray' = astray
      BY <1>r DEF DeleteRow, Written
<1>3. CASE table' = table /\ astray' = astray \cup Named(table[r])
  <2>n. PICK more : more = Named(table[r])
        OBVIOUS
  <2>1. Named(table[cmd.id]) \subseteq more /\ astray' = astray \cup more
        BY <1>r, <1>3, <2>n
  <2> QED
      BY <1>0, <1>1, <1>3, <2>1, NoRowFollows
<1>4. CASE table' = [table EXCEPT ![r] = None] /\ astray' = astray
  <2>1. r \in Rows
        BY <1>0, <1>r, CommandIs
  <2>2. Rows' = Rows \ {r}
        BY <1>0, <1>4, <2>1, DropRow
  <2>3. \A q \in Rows \ {r} : table'[q] = table[q]
        BY <1>0, <1>4 DEF TableInv, Rows
  <2>4. \A i : StaysAt(i)' = StaysAt(i) /\ StaysOn(i)' = StaysOn(i)
        BY <1>1, <1>r, <2>2, <2>3 DEF StaysAt, StaysOn
  <2>5. \A i : ~Joins(i) /\ \A q \in StaysAt(i) : table'[q] = table[q]
        BY <1>1, <1>r, <2>3 DEF Joins, StaysAt
  <2>6. \A l \in Locals :
          Cardinality(StaysOn(l)') = Cardinality(StaysOn(l)) + (IF Adding /\ cmd.link.local = l THEN 1 ELSE 0)
    <3>1. ASSUME NEW l \in Locals
          PROVE  Cardinality(StaysOn(l)') = Cardinality(StaysOn(l)) + (IF Adding /\ cmd.link.local = l THEN 1 ELSE 0)
      <4>1. Cardinality(StaysOn(l)) \in Nat
            BY StaysFinite
      <4> QED
          BY <1>1, <2>4, <4>1
    <3> QED
        BY <3>1
  <2> QED
      BY <1>0, <1>1, <1>4, <2>4, <2>5, <2>6, RowsSettle
<1> QED
    BY <1>2, <1>3, <1>4

\* sctp_update changes its row.
LEMMA UpdateRowFollows == ASSUME LinkInv, FollowInv, UpdateRow PROVE FollowInv'
<1>0. gw.running /\ gw' = gw /\ cmd' = Idle /\ cmd.op = "update row" /\ CmdInv /\ TableInv
      BY DEF UpdateRow, Row, LinkInv
<1>c. PICK c : c = cmd.link
      OBVIOUS
<1>r. PICK r : r = cmd.id
      OBVIOUS
<1>1. Adding /\ Removing
      BY <1>0 DEF Adding, Removing
<1>2. \/ table' = table /\ astray' = astray \cup (Named(c) \cup Named(table[r]))
      \/ /\ RowsAt(table, c.idx) \ {table[r]} = {}
         /\ table' = [table EXCEPT ![r] = c] /\ astray' = astray
      BY <1>c, <1>r DEF UpdateRow, Written
<1>3. CASE table' = table /\ astray' = astray \cup (Named(c) \cup Named(table[r]))
  <2>n. PICK more : more = Named(c) \cup Named(table[r])
        OBVIOUS
  <2>1. Named(table[cmd.id]) \subseteq more /\ Named(cmd.link) \subseteq more /\ astray' = astray \cup more
        BY <1>c, <1>r, <1>3, <2>n
  <2> QED
      BY <1>0, <1>1, <1>3, <2>1, NoRowFollows
<1>4. CASE /\ RowsAt(table, c.idx) \ {table[r]} = {}
           /\ table' = [table EXCEPT ![r] = c] /\ astray' = astray
  <2>1. r \in Rows /\ c \in Links
        BY <1>0, <1>r, <1>c, CommandIs
  <2>2. r \in Ids
        BY <2>1 DEF Rows
  <2>3. \A q \in Rows \ {r} : table[q].idx # c.idx
    <3>1. ASSUME NEW q \in Rows, table[q].idx = c.idx
          PROVE  q = r
      <4>1. table[q] \in RowsAt(table, c.idx)
            BY <3>1 DEF Rows, RowsAt, RowsOf
      <4>2. table[q] = table[r]
            BY <1>4, <4>1
      <4> QED
          BY <1>0, <2>1, <4>2 DEF TableInv
    <3> QED
        BY <3>1
  <2>4. r \in Rows => Removing /\ cmd.id = r
        BY <1>r, <1>1
  <2>5. Removing => cmd.id = r
        BY <1>r
  <2>6. /\ gw.running /\ gw' = gw /\ cmd' = Idle /\ astray' = astray /\ Adding /\ cmd.link = c
        /\ table' = [table EXCEPT ![r] = c]
        BY <1>0, <1>1, <1>c, <1>4
  <2> QED
      BY <2>1, <2>2, <2>3, <2>4, <2>5, <2>6, RowFollows, ZenonT(60)
<1> QED
    BY <1>2, <1>3, <1>4

\* The commands, and the steps of one index.
LEMMA CommandFollows == ASSUME LinkInv, FollowInv, LinkCommand PROVE FollowInv'
<1>1. CASE \E o \in Offered : OrderInsert(o)
      BY <1>1, OrderInsertFollows
<1>2. CASE \E r \in Ids, side \in Work : OrderDelete(r, side)
      BY <1>2, OrdersFollow
<1>3. CASE \E r \in Ids, c \in Links : Proper(c) /\ OrderUpdate(r, c)
      BY <1>3, OrdersFollow
<1>4. CASE InsertLink
      BY <1>4, InsertLinkFollows
<1>5. CASE UpdateLink
      BY <1>5, UpdateLinkFollows
<1>6. CASE InsertRow \/ DeleteRow \/ UpdateRow
      BY <1>6, InsertRowFollows, DeleteRowFollows, UpdateRowFollows
<1> QED
    BY <1>1, <1>2, <1>3, <1>4, <1>5, <1>6 DEF LinkCommand

\* A step that keeps its link keeps the links in step with the table.
LEMMA LinkStepFollows == ASSUME LinkInv, FollowInv, NEW i \in Idx, LinkStep(i) PROVE FollowInv'
<1>1. CASE HandleError(i)
  <2>1. gw.running
        BY <1>1 DEF HandleError
  <2> QED
      BY <1>1, <2>1, HandleErrorKeeps, KeptFollows, DieFollows
<1>2. CASE FinishError(i)
  <2>1. gw.running
        BY <1>2 DEF FinishError
  <2> QED
      BY <1>2, <2>1, FinishErrorKeeps, KeptFollows, DieFollows
<1>3. CASE SctpTimer(i)
      BY <1>3, SctpTimerFollows
<1>4. CASE ClientTimer(i)
      BY <1>4, ClientTimerFollows
<1>5. CASE AlarmTimer(i)
  <2>1. gw.running
        BY <1>5 DEF AlarmTimer
  <2> QED
      BY <1>5, <2>1, AlarmTimerKeeps, KeptFollows
<1>6. CASE OnSctpAlarmTimer(i)
  <2>1. gw.running
        BY <1>6 DEF OnSctpAlarmTimer
  <2> QED
      BY <1>6, <2>1, OnSctpAlarmTimerKeeps, KeptFollows
<1>7. CASE OnOldAlarmTimer(i)
  <2>1. gw.running
        BY <1>7 DEF OnOldAlarmTimer
  <2> QED
      BY <1>7, <2>1, OnOldAlarmTimerKeeps, KeptFollows
<1>8. CASE AmfTimer(i)
  <2>1. gw.running
        BY <1>8 DEF AmfTimer
  <2> QED
      BY <1>8, <2>1, AmfTimerKeeps, KeptFollows
<1>9. CASE AmfAnswers(i)
  <2>1. gw.running
        BY <1>9 DEF AmfAnswers
  <2> QED
      BY <1>9, <2>1, AmfAnswersKeeps, KeptFollows
<1>10. CASE \E e \in gw.events[i] : TakeAnswer(i, e)
  <2>1. PICK e : TakeAnswer(i, e)
        BY <1>10
  <2>2. gw.running
        BY <2>1 DEF TakeAnswer
  <2> QED
      BY <2>1, <2>2, TakeAnswerKeeps, KeptFollows
<1> QED
    BY <1>1, <1>2, <1>3, <1>4, <1>5, <1>6, <1>7, <1>8, <1>9, <1>10 DEF LinkStep

\* Nothing moves.
LEMMA AsideFollows == ASSUME FollowInv, Aside PROVE FollowInv'
<1>1. gw' = gw /\ table' = table /\ cmd' = cmd /\ astray' = astray
      BY DEF Aside, ghosts
<1>2. ASSUME NEW i \in Idx, i \notin astray, gw.running
      PROVE  IndexFollows(i)'
      BY <1>1, <1>2, IndexFollowsOn DEF FollowInv
<1>3. ASSUME NEW l \in Locals, l \notin astray, gw.running
      PROVE  LocalFollows(l)'
      BY <1>1, <1>3, LocalFollowsOn DEF FollowInv
<1> QED
    BY <1>1, <1>2, <1>3 DEF FollowInv

\* Every step keeps links and table in step.
LEMMA FollowInvStep == LinkInv /\ FollowInv /\ [Next]_vars => FollowInv'
<1> SUFFICES ASSUME LinkInv, FollowInv, [Next]_vars PROVE FollowInv'
    OBVIOUS
<1>1. CASE Die
      BY <1>1, DieFollows
<1>2. CASE Boot
      BY <1>2, BootFollows
<1>3. CASE LinkCommand
      BY <1>3, CommandFollows
<1>4. CASE Aside
      BY <1>4, AsideFollows
<1>5. CASE \E p \in Peers : PeerDown(p)
      BY <1>5, PeerDownFollows
<1>6. CASE \E p \in Gnbs : Accept(p)
      BY <1>6, AcceptFollows
<1>7. CASE \E i \in Idx : LinkStep(i)
      BY <1>7, LinkStepFollows
<1> QED
    BY <1>1, <1>2, <1>3, <1>4, <1>5, <1>6, <1>7, StepKinds

\* Links and table are in step throughout.
LEMMA FollowInvariant == Spec => []FollowInv
<1>1. Init => FollowInv
  <2>1. Init => LinkInv
        BY InitKeeps
  <2>2. Init => TableInv /\ cmd = Idle /\ gw = Booted(table)
        BY <2>1 DEF Init, LinkInv
  <2> QED
      BY <2>2, StartsFollowing
<1> QED
    BY <1>1, LinkInvariant, FollowInvStep, PTL DEF Spec

\* Between commands the links of the process are those of sig_sctp_table, whatever losses,
\* reconnections, restarts and earlier commands did (CfgAddSctp, CfgRmvSctp, SctpRemoveServer,
\* sctp_insert, sctp_delete, sctp_update): an index without a row has no link, an AMF's index is
\* connected, or tried, to that AMF, and an address is listened on once per row.
THEOREM LinksAlwaysFollowTable == Spec => []LinksFollowTable
<1>1. LinkInv /\ FollowInv => LinksFollowTable
  <2> SUFFICES ASSUME LinkInv, FollowInv, gw.running, cmd = Idle
               PROVE  LinksFollowTable
      BY DEF LinksFollowTable
  <2>0. TableInv /\ ~Adding /\ ~Removing
        BY DEF LinkInv, Adding, Removing, Idle
  <2>1. ASSUME NEW i \in Idx \ astray
        PROVE  /\ RowsAt(table, i) = {} => gw.ctx[i].status = "unset" /\ gw.clients_links[i] = None
               /\ \A c \in RowsAt(table, i) :
                    IF c.work = "client"
                    THEN \/ gw.clients_links[i] # None /\ gw.clients_links[i].peer = c.peer
                         \/ gw.ctx[i].client /\ gw.ctx[i].peer = c.peer
                    ELSE gw.clients_links[i] = None /\ ~gw.ctx[i].client
    <3>1. IndexFollows(i) /\ ~Joins(i)
          BY <2>0 DEF FollowInv, Joins
    <3>2. ASSUME RowsAt(table, i) = {}
          PROVE  Bare(i)
      <4>1. StaysAt(i) = {}
            BY <3>2 DEF StaysAt, Rows, RowsAt, RowsOf
      <4> QED
          BY <3>1, <4>1 DEF IndexFollows
    <3>3. ASSUME NEW c \in RowsAt(table, i)
          PROVE  Fits(i, c)
      <4>1. PICK r \in Rows : c = table[r] /\ table[r].idx = i
            BY DEF RowsAt, RowsOf, Rows
      <4>2. r \in StaysAt(i)
            BY <2>0, <4>1 DEF StaysAt
      <4> QED
          BY <3>1, <4>1, <4>2 DEF IndexFollows
    <3> QED
        BY <3>2, <3>3 DEF Bare, Fits
  <2>2. ASSUME NEW l \in Locals \ astray
        PROVE  gw.servers[l] = Cardinality(ServerRows(l))
    <3>1. StaysOn(l) = {r \in Rows : table[r].local = l}
          BY <2>0 DEF StaysOn
    <3>2. LocalFollows(l)
          BY DEF FollowInv
    <3>3. Cardinality(StaysOn(l)) \in Nat
          BY StaysFinite
    <3>4. gw.servers[l] = Cardinality(StaysOn(l))
          BY <2>0, <3>2, <3>3 DEF LocalFollows
    <3>5. Cardinality(ServerRows(l)) = Cardinality({r \in Rows : table[r].local = l})
          BY <2>0, RowsCount
    <3> QED
        BY <3>1, <3>4, <3>5
  <2> QED
      BY <2>1, <2>2 DEF LinksFollowTable
<1> QED
    BY <1>1, LinkInvariant, FollowInvariant, PTL

===============================================================================
