--------------------------- MODULE ManagementProofs ---------------------------
(***************************************************************************)
(* Theorems about the event socket and about the set-ups that read the     *)
(* tables its commands change, for any number of connections, any          *)
(* commands, results, tables and shutdowns.                                *)
(***************************************************************************)
EXTENDS Management, TLAPS, FiniteSetTheorems, SequenceTheorems, WellFoundedInduction

-----------------------------------------------------------------------------
(* The event socket: the inductive invariant.                               *)

\* Connections, sockets and histories, with commands and results out of V.
Stages == {"off", "launched", "counted", "listed", "unlisted", "released", "gone"}
ConnOf(V) == [stage : Stages, running : BOOLEAN, sub : BOOLEAN, has_event : BOOLEAN,
              queue : Seq(V), cmd : V]
Socket == [done : BOOLEAN, bound : BOOLEAN, accepting : BOOLEAN, threads : Nat,
           shutdown : {"no", "unbind", "kill", "wait", "ended"}, waits : Nat]
Left == [connects : Nat, exits : Nat, changes : Nat, queries : Nat,
         resubscriptions : Nat, setups : Nat, shutdown : Nat, secgw : Nat,
         lists : Nat, uploads : Nat, restarts : Nat, tunnels : Nat,
         on : SUBSET (Tables \cup SecTables)]
Typed(V) ==
  /\ conn \in [Conns -> ConnOf(V)]
  /\ fired \in SUBSET V
  /\ owed \in [Conns -> SUBSET V] /\ sent \in [Conns -> SUBSET V]
TypeInv ==
  /\ \E V : Typed(V)
  /\ socket \in Socket /\ left \in Left
  /\ DOMAIN call \subseteq Callers

\* The list links exactly the connections between add_conn and remove_conn; the count
\* of threads is that of the connections between their two changes of it.
Listed  == {c \in Conns : conn[c].stage = "listed"}
Counted == {c \in Conns : conn[c].stage \in {"counted", "listed", "unlisted", "released"}}
Links(l, S) ==
  /\ l \in Seq(Conns)
  /\ \A i, j \in 1 .. Len(l) : l[i] = l[j] => i = j
  /\ \A c \in Conns : c \in S <=> \E i \in 1 .. Len(l) : l[i] = c
ListInv ==
  /\ Links(connections, Listed)
  /\ IsFiniteSet(Counted) /\ socket.threads = Cardinality(Counted)

\* A thread runs commands while its connection is on the list, and a command of
\* mod_ipsec occupies its caller's thread.
CallInv == \A c \in Conns :
  /\ conn[c].cmd # None => conn[c].stage = "listed"
  /\ c \in DOMAIN call => conn[c].cmd = [op |-> "secgw"]

\* A connection asks for results only between its commands, and whoever is owed one is
\* on the list, asks for it, and handle_event is bound.
AskInv == \A c \in Conns :
  /\ conn[c].cmd # None /\ conn[c].cmd.op = "event" => ~conn[c].sub
  /\ conn[c].sub => conn[c].has_event
  /\ owed[c] # {} => conn[c].stage = "listed" /\ conn[c].sub /\ socket.bound

\* The results of a connection's commands are distinct: those there are were fired
\* before the command it runs.
Known == fired \cup UNION {ToSet(conn[c].queue) \cup sent[c] : c \in Conns}
Firing(c) == conn[c].cmd # None /\ conn[c].cmd.op \in {"page", "fire", "secgw"}
FreshInv == \A r \in Known :
  /\ r.id \in Nat /\ r.id >= CommandsLeft
  /\ \A c \in Conns : r.by = c /\ Firing(c) => r.id > CommandsLeft

\* Where a result is: fired, queued once, or sent; one that is owed is somewhere.
OnceInv == \A c \in Conns :
  /\ \A i, j \in 1 .. Len(conn[c].queue) : conn[c].queue[i] = conn[c].queue[j] => i = j
  /\ ToSet(conn[c].queue) \cap (sent[c] \cup fired) = {} /\ sent[c] \cap fired = {}
  /\ owed[c] \subseteq fired \cup sent[c] \cup ToSet(conn[c].queue)

SocketInv == TypeInv /\ ListInv /\ CallInv /\ AskInv /\ FreshInv /\ OnceInv
-----------------------------------------------------------------------------
(* Lists.                                                                   *)

\* A set of naturals that is not empty has a least element: the shortest of the
\* intervals 0 .. j is that of the least j.
LEMMA LeastElement ==
  ASSUME NEW S \in SUBSET Nat, S # {}
  PROVE  \E m \in S : \A j \in S : m <= j
<1> DEFINE T == {0 .. j : j \in S}
<1>1. T # {} /\ T \subseteq FiniteSubsetsOf(Nat)
  <2>1. \A j \in S : IsFiniteSet(0 .. j) /\ 0 .. j \in SUBSET Nat
        BY FS_Interval
  <2> QED
      BY <2>1 DEF FiniteSubsetsOf
<1>2. PICK x \in T : \A y \in T : ~(<<y, x>> \in StrictSubsetOrdering(Nat))
  <2>1. IsWellFoundedOn(StrictSubsetOrdering(Nat), FiniteSubsetsOf(Nat))
        BY FS_StrictSubsetOrderingWellFounded
  <2> HIDE DEF T
  <2> QED
      BY <2>1, <1>1, WFMin
<1>3. PICK m \in S : x = 0 .. m
      OBVIOUS
<1>4. ASSUME NEW j \in S, j < m PROVE FALSE
  <2>1. 0 .. j \subseteq 0 .. m /\ 0 .. j # 0 .. m
    <3>1. m \in 0 .. m /\ m \notin 0 .. j
          BY <1>4
    <3> QED
        BY <1>4, <3>1
  <2>2. <<0 .. j, 0 .. m>> \in StrictSubsetOrdering(Nat)
        BY <2>1 DEF StrictSubsetOrdering
  <2> QED
      BY <1>2, <1>3, <2>2
<1> QED
    BY <1>4

\* add_conn puts the new connection first.
LEMMA LinksPrepended ==
  ASSUME NEW l, NEW S, Links(l, S), NEW n \in Conns, n \notin S
  PROVE  Links(<<n>> \o l, S \cup {n})
<1> DEFINE u == <<n>> \o l
<1>1. /\ l \in Seq(Conns)
      /\ u \in Seq(Conns)
      /\ Len(u) = Len(l) + 1 /\ Len(l) \in Nat
      /\ \A i \in 1 .. Len(u) : u[i] = IF i = 1 THEN n ELSE l[i - 1]
      BY DEF Links
<1> HIDE DEF u
<1>2. \A i \in 1 .. Len(u) : i = 1 \/ i - 1 \in 1 .. Len(l)
      BY <1>1
<1>3. \A i \in 1 .. Len(l) : l[i] # n
      BY <1>1 DEF Links
<1>4. \A i, j \in 1 .. Len(u) : u[i] = u[j] => i = j
  <2> SUFFICES ASSUME NEW i \in 1 .. Len(u), NEW j \in 1 .. Len(u), u[i] = u[j]
               PROVE  i = j
      OBVIOUS
  <2>1. CASE i = 1 \/ j = 1
        BY <2>1, <1>1, <1>2, <1>3
  <2>2. CASE i # 1 /\ j # 1
    <3>1. i - 1 \in 1 .. Len(l) /\ j - 1 \in 1 .. Len(l) /\ l[i - 1] = l[j - 1]
          BY <2>2, <1>1, <1>2
    <3>2. i - 1 = j - 1
          BY <3>1 DEF Links
    <3> QED
        BY <3>2
  <2> QED
      BY <2>1, <2>2
<1>5. ASSUME NEW m \in Conns
      PROVE  m \in S \cup {n} <=> \E i \in 1 .. Len(u) : u[i] = m
  <2>1. CASE m = n
    <3>1. 1 \in 1 .. Len(u) /\ u[1] = n
          BY <1>1
    <3> QED
        BY <2>1, <3>1
  <2>2. ASSUME m # n, m \in S PROVE \E i \in 1 .. Len(u) : u[i] = m
    <3>1. PICK i \in 1 .. Len(l) : l[i] = m
          BY <2>2 DEF Links
    <3>2. i + 1 \in 1 .. Len(u) /\ i + 1 # 1 /\ (i + 1) - 1 = i
          BY <1>1
    <3> QED
        BY <3>1, <3>2, <1>1
  <2>3. ASSUME m # n, NEW i \in 1 .. Len(u), u[i] = m PROVE m \in S
    <3>1. i - 1 \in 1 .. Len(l) /\ l[i - 1] = m
          BY <2>3, <1>1, <1>2
    <3> QED
        BY <3>1 DEF Links
  <2> QED
      BY <2>1, <2>2, <2>3
<1> QED
    BY <1>1, <1>4, <1>5 DEF Links, u

\* Removing the k-th connection joins what is before it to what is after it.
LEMMA LinksUnlinked ==
  ASSUME NEW l, NEW S, Links(l, S), NEW k \in 1 .. Len(l)
  PROVE  Links(RemoveAt(l, k), S \ {l[k]}) /\ l[k] \in S /\ l[k] \in Conns
<1> DEFINE u == RemoveAt(l, k)
<1>0. l \in Seq(Conns) /\ Len(l) \in Nat /\ k \in Nat
      BY DEF Links
<1>1. /\ u \in Seq(Conns)
      /\ Len(u) = Len(l) - 1
      /\ \A i \in 1 .. Len(u) : u[i] = IF i < k THEN l[i] ELSE l[i + 1]
  <2> DEFINE a == SubSeq(l, 1, k - 1)
             b == SubSeq(l, k + 1, Len(l))
  <2>1. /\ a \in Seq(Conns) /\ Len(a) = k - 1
        /\ \A i \in 1 .. k - 1 : a[i] = l[i]
        BY <1>0, SubSeqProperties
  <2>2. /\ b \in Seq(Conns) /\ Len(b) = Len(l) - k
        /\ \A i \in 1 .. Len(l) - k : b[i] = l[k + i]
        BY <1>0, SubSeqProperties
  <2>3. u = a \o b
        BY DEF RemoveAt
  <2> HIDE DEF a, b, u
  <2>4. u \in Seq(Conns) /\ Len(u) = Len(l) - 1
    <3>1. u \in Seq(Conns) /\ Len(u) = Len(a) + Len(b)
          BY <2>1, <2>2, <2>3, ConcatProperties
    <3> QED
        BY <3>1, <2>1, <2>2, <1>0
  <2>5. ASSUME NEW i \in 1 .. Len(u) PROVE u[i] = IF i < k THEN l[i] ELSE l[i + 1]
    <3>1. CASE i < k
      <4>1. i \in 1 .. Len(a) /\ i \in 1 .. k - 1
            BY <3>1, <2>1, <1>0
      <4> QED
          BY <4>1, <3>1, <2>1, <2>2, <2>3
    <3>2. CASE ~(i < k)
      <4>1. i - (k - 1) \in 1 .. Len(l) - k /\ i > Len(a) /\ k + (i - (k - 1)) = i + 1
            BY <3>2, <2>1, <2>4, <1>0
      <4>2. u[i] = b[i - Len(a)]
            BY <4>1, <2>1, <2>2, <2>3, <2>4, <1>0
      <4> QED
          BY <4>1, <4>2, <3>2, <2>1, <2>2
    <3> QED
        BY <3>1, <3>2
  <2> QED
      BY <2>4, <2>5
<1> HIDE DEF u
<1>2. l[k] \in S /\ l[k] \in Conns
      BY <1>0 DEF Links
<1>3. \A i \in 1 .. Len(u) : i \in 1 .. Len(l) /\ i + 1 \in 1 .. Len(l)
      BY <1>0, <1>1
<1>4. \A i, j \in 1 .. Len(l) : l[i] = l[j] => i = j
      BY DEF Links
<1>5. \A i \in 1 .. Len(u) : u[i] # l[k]
  <2> TAKE i \in 1 .. Len(u)
  <2>1. i \in Nat
        OBVIOUS
  <2>2. CASE i < k
    <3>1. u[i] = l[i] /\ i # k
          BY <2>2, <2>1, <1>0, <1>1
    <3> QED
        BY <3>1, <1>3, <1>4
  <2>3. CASE ~(i < k)
    <3>1. u[i] = l[i + 1] /\ i + 1 # k
          BY <2>3, <2>1, <1>0, <1>1
    <3> QED
        BY <3>1, <1>3, <1>4
  <2> QED
      BY <2>2, <2>3
<1>6. \A i, j \in 1 .. Len(u) : u[i] = u[j] => i = j
  <2> TAKE i, j \in 1 .. Len(u)
  <2>1. i \in Nat /\ j \in Nat
        OBVIOUS
  <2>2. CASE i < k /\ j < k
        BY <2>2, <1>1, <1>3, <1>4
  <2>3. CASE i < k /\ ~(j < k)
        BY <2>1, <2>3, <1>0, <1>1, <1>3, <1>4
  <2>4. CASE ~(i < k) /\ j < k
        BY <2>1, <2>4, <1>0, <1>1, <1>3, <1>4
  <2>5. CASE ~(i < k) /\ ~(j < k)
    <3>1. u[i] = u[j] => i + 1 = j + 1
          BY <2>5, <1>1, <1>3, <1>4
    <3> QED
        BY <2>1, <3>1
  <2> QED
      BY <2>2, <2>3, <2>4, <2>5
<1>7. ASSUME NEW m \in Conns
      PROVE  m \in S \ {l[k]} <=> \E i \in 1 .. Len(u) : u[i] = m
  <2>1. ASSUME m \in S, m # l[k] PROVE \E i \in 1 .. Len(u) : u[i] = m
    <3>1. PICK i \in 1 .. Len(l) : l[i] = m
          BY <2>1 DEF Links
    <3>2. i # k /\ i \in Nat
          BY <3>1, <2>1
    <3>3. CASE i < k
      <4>1. i \in 1 .. Len(u)
            BY <3>3, <1>0, <1>1
      <4> QED
          BY <4>1, <3>1, <3>3, <1>1
    <3>4. CASE ~(i < k)
      <4>1. i - 1 \in 1 .. Len(u) /\ ~(i - 1 < k) /\ (i - 1) + 1 = i
            BY <3>2, <3>4, <1>0, <1>1
      <4> QED
          BY <4>1, <3>1, <1>1
    <3> QED
        BY <3>3, <3>4
  <2>2. ASSUME NEW i \in 1 .. Len(u), u[i] = m PROVE m \in S /\ m # l[k]
    <3>1. m # l[k]
          BY <2>2, <1>5
    <3>2. \E j \in 1 .. Len(l) : l[j] = m
          BY <2>2, <1>1, <1>3
    <3> QED
        BY <3>1, <3>2 DEF Links
  <2> QED
      BY <2>1, <2>2
<1> QED
    BY <1>1, <1>2, <1>6, <1>7 DEF Links, u

\* remove_conn finds the connection, and leaves the others.
LEMMA LinksRemoved ==
  ASSUME NEW l, NEW S, Links(l, S), NEW c \in Conns, c \in S
  PROVE  Links(RemoveFirst(l, c), S \ {c})
<1>1. PICK I : I = {i \in 1 .. Len(l) : l[i] = c}
      OBVIOUS
<1>2. l \in Seq(Conns) /\ Len(l) \in Nat /\ I # {} /\ I \in SUBSET Nat
  <2>1. l \in Seq(Conns) /\ Len(l) \in Nat
        BY DEF Links
  <2>2. \E i \in 1 .. Len(l) : l[i] = c
        BY DEF Links
  <2> QED
      BY <1>1, <2>1, <2>2
<1>3. RemoveFirst(l, c) = RemoveAt(l, Min(I))
  <2>1. RemoveFirst(l, c) = RemoveAt(l, SelectInSeq(l, LAMBDA v : v = c))
        BY <1>1, <1>2 DEF RemoveFirst
  <2>2. SelectInSeq(l, LAMBDA v : v = c) = Min(I)
        BY <1>1, <1>2 DEF SelectInSeq
  <2> QED
      BY <2>1, <2>2
<1>4. Min(I) \in I
  <2>1. \E m \in I : \A j \in I : m <= j
        BY <1>2, LeastElement
  <2> QED
      BY <2>1 DEF Min
<1>5. PICK k \in 1 .. Len(l) : k = Min(I) /\ l[k] = c
      BY <1>1, <1>4
<1> QED
    BY <1>3, <1>5, LinksUnlinked

-----------------------------------------------------------------------------
(* What a step does to the connections.                                     *)

\* Connection c becomes a connection with these values, the others stay.
Becomes(c, W, stage, running, sub, has_event, queue, cmd) ==
  /\ conn' \in [Conns -> ConnOf(W)]
  /\ conn'[c].stage = stage /\ conn'[c].running = running /\ conn'[c].sub = sub
  /\ conn'[c].has_event = has_event /\ conn'[c].queue = queue /\ conn'[c].cmd = cmd
  /\ \A d \in Conns \ {c} : conn'[d] = conn[d]

\* Values may come out of a larger set.
LEMMA ConnOfLarger ==
  ASSUME NEW V, NEW W, V \subseteq W
  PROVE  ConnOf(V) \subseteq ConnOf(W)
<1>1. Seq(V) \subseteq Seq(W)
  <2>1. ASSUME NEW s \in Seq(V) PROVE s \in Seq(W)
    <3>1. Len(s) \in Nat /\ s \in [1 .. Len(s) -> V]
          OBVIOUS
    <3>2. s \in [1 .. Len(s) -> W]
          BY <3>1
    <3> QED
        BY <3>1, <3>2, SeqDef
  <2> QED
      BY <2>1
<1> QED
    BY <1>1 DEF ConnOf

\* Every change of one connection's record.
LEMMA EditIs ==
  ASSUME NEW V, NEW W, V \subseteq W, conn \in [Conns -> ConnOf(V)],
         NEW c \in Conns, NEW x \in ConnOf(W), conn' = [conn EXCEPT ![c] = x]
  PROVE  Becomes(c, W, x.stage, x.running, x.sub, x.has_event, x.queue, x.cmd)
<1>1. conn \in [Conns -> ConnOf(W)]
      BY ConnOfLarger
<1>2. conn' \in [Conns -> ConnOf(W)] /\ conn'[c] = x
      BY <1>1
<1>3. \A d \in Conns \ {c} : conn'[d] = conn[d]
      BY <1>1
<1> QED
    BY <1>2, <1>3 DEF Becomes

\* The stage, and whether it runs: Count.
LEMMA StageIs ==
  ASSUME NEW V, conn \in [Conns -> ConnOf(V)], NEW c \in Conns, NEW s \in Stages,
         NEW run \in BOOLEAN,
         conn' = [conn EXCEPT ![c].stage = s, ![c].running = run]
  PROVE  Becomes(c, V, s, run, conn[c].sub, conn[c].has_event, conn[c].queue, conn[c].cmd)
<1>1. PICK x : x = [conn[c] EXCEPT !.stage = s, !.running = run]
      OBVIOUS
<1>2. conn[c] \in ConnOf(V)
      OBVIOUS
<1>3. /\ x \in ConnOf(V) /\ x.stage = s /\ x.running = run /\ x.sub = conn[c].sub
      /\ x.has_event = conn[c].has_event /\ x.queue = conn[c].queue /\ x.cmd = conn[c].cmd
      BY <1>1, <1>2 DEF ConnOf
<1>4. conn' = [conn EXCEPT ![c] = x]
      BY <1>1
<1>5. Becomes(c, V, x.stage, x.running, x.sub, x.has_event, x.queue, x.cmd)
      BY <1>3, <1>4, EditIs
<1> QED
    BY <1>3, <1>5 DEF Becomes

\* Only the stage: Accept, add_conn, remove_conn, Uncount.
LEMMA OnlyStageIs ==
  ASSUME NEW V, conn \in [Conns -> ConnOf(V)], NEW c \in Conns,
         NEW s \in Stages,
         conn' = [conn EXCEPT ![c].stage = s]
  PROVE  Becomes(c, V, s, conn[c].running, conn[c].sub, conn[c].has_event, conn[c].queue, conn[c].cmd)
<1>1. PICK x : x = [conn[c] EXCEPT !.stage = s]
      OBVIOUS
<1>2. conn[c] \in ConnOf(V)
      BY DEF ConnOf
<1>3. /\ x \in ConnOf(V) /\ x.stage = s /\ x.running = conn[c].running /\ x.sub = conn[c].sub
      /\ x.has_event = conn[c].has_event /\ x.queue = conn[c].queue /\ x.cmd = conn[c].cmd
      BY <1>1, <1>2 DEF ConnOf
<1>4. conn' = [conn EXCEPT ![c] = x]
      BY <1>1
<1>5. Becomes(c, V, x.stage, x.running, x.sub, x.has_event, x.queue, x.cmd)
      BY <1>3, <1>4, EditIs
<1> QED
    BY <1>3, <1>5 DEF Becomes

\* Only whether it runs: Exits.
LEMMA RunningIs ==
  ASSUME NEW V, conn \in [Conns -> ConnOf(V)], NEW c \in Conns,
         NEW run \in BOOLEAN,
         conn' = [conn EXCEPT ![c].running = run]
  PROVE  Becomes(c, V, conn[c].stage, run, conn[c].sub, conn[c].has_event, conn[c].queue, conn[c].cmd)
<1>1. PICK x : x = [conn[c] EXCEPT !.running = run]
      OBVIOUS
<1>2. conn[c] \in ConnOf(V)
      BY DEF ConnOf
<1>3. /\ x \in ConnOf(V) /\ x.stage = conn[c].stage /\ x.running = run /\ x.sub = conn[c].sub
      /\ x.has_event = conn[c].has_event /\ x.queue = conn[c].queue /\ x.cmd = conn[c].cmd
      BY <1>1, <1>2 DEF ConnOf
<1>4. conn' = [conn EXCEPT ![c] = x]
      BY <1>1
<1>5. Becomes(c, V, x.stage, x.running, x.sub, x.has_event, x.queue, x.cmd)
      BY <1>3, <1>4, EditIs
<1> QED
    BY <1>3, <1>5 DEF Becomes

\* Only the queue: SendQueued.
LEMMA QueueIs ==
  ASSUME NEW V, conn \in [Conns -> ConnOf(V)], NEW c \in Conns,
         NEW q \in Seq(V),
         conn' = [conn EXCEPT ![c].queue = q]
  PROVE  Becomes(c, V, conn[c].stage, conn[c].running, conn[c].sub, conn[c].has_event, q, conn[c].cmd)
<1>1. PICK x : x = [conn[c] EXCEPT !.queue = q]
      OBVIOUS
<1>2. conn[c] \in ConnOf(V)
      BY DEF ConnOf
<1>3. /\ x \in ConnOf(V) /\ x.stage = conn[c].stage /\ x.running = conn[c].running /\ x.sub = conn[c].sub
      /\ x.has_event = conn[c].has_event /\ x.queue = q /\ x.cmd = conn[c].cmd
      BY <1>1, <1>2 DEF ConnOf
<1>4. conn' = [conn EXCEPT ![c] = x]
      BY <1>1
<1>5. Becomes(c, V, x.stage, x.running, x.sub, x.has_event, x.queue, x.cmd)
      BY <1>3, <1>4, EditIs
<1> QED
    BY <1>3, <1>5 DEF Becomes

\* Only the command: Change, Query, QueryPage, siggw_fire_event, secgw_starts.
LEMMA CmdIs ==
  ASSUME NEW V, NEW W, V \subseteq W, conn \in [Conns -> ConnOf(V)], NEW c \in Conns,
         NEW m \in W,
         conn' = [conn EXCEPT ![c].cmd = m]
  PROVE  Becomes(c, W, conn[c].stage, conn[c].running, conn[c].sub, conn[c].has_event, conn[c].queue, m)
<1>1. PICK x : x = [conn[c] EXCEPT !.cmd = m]
      OBVIOUS
<1>2. conn[c] \in ConnOf(W)
      BY ConnOfLarger
<1>3. /\ x \in ConnOf(W) /\ x.stage = conn[c].stage /\ x.running = conn[c].running /\ x.sub = conn[c].sub
      /\ x.has_event = conn[c].has_event /\ x.queue = conn[c].queue /\ x.cmd = m
      BY <1>1, <1>2 DEF ConnOf
<1>4. conn' = [conn EXCEPT ![c] = x]
      BY <1>1
<1>5. Becomes(c, W, x.stage, x.running, x.sub, x.has_event, x.queue, x.cmd)
      BY <1>3, <1>4, EditIs
<1> QED
    BY <1>3, <1>5 DEF Becomes

\* What it asks for: EventSets.
LEMMA AsksIs ==
  ASSUME NEW V, NEW W, V \subseteq W, conn \in [Conns -> ConnOf(V)], NEW c \in Conns,
         NEW sb \in BOOLEAN, NEW ev \in BOOLEAN, NEW m \in W,
         conn' = [conn EXCEPT ![c].sub = sb, ![c].has_event = ev, ![c].cmd = m]
  PROVE  Becomes(c, W, conn[c].stage, conn[c].running, sb, ev, conn[c].queue, m)
<1>1. PICK x : x = [conn[c] EXCEPT !.sub = sb, !.has_event = ev, !.cmd = m]
      OBVIOUS
<1>2. conn[c] \in ConnOf(W)
      BY ConnOfLarger
<1>3. /\ x \in ConnOf(W) /\ x.stage = conn[c].stage /\ x.running = conn[c].running /\ x.sub = sb
      /\ x.has_event = ev /\ x.queue = conn[c].queue /\ x.cmd = m
      BY <1>1, <1>2 DEF ConnOf
<1>4. conn' = [conn EXCEPT ![c] = x]
      BY <1>1
<1>5. Becomes(c, W, x.stage, x.running, x.sub, x.has_event, x.queue, x.cmd)
      BY <1>3, <1>4, EditIs
<1> QED
    BY <1>3, <1>5 DEF Becomes

\* What it asks for is cleared: EventClears.
LEMMA ClearsIs ==
  ASSUME NEW V, NEW W, V \subseteq W, conn \in [Conns -> ConnOf(V)], NEW c \in Conns,
         NEW sb \in BOOLEAN, NEW m \in W,
         conn' = [conn EXCEPT ![c].sub = sb, ![c].cmd = m]
  PROVE  Becomes(c, W, conn[c].stage, conn[c].running, sb, conn[c].has_event, conn[c].queue, m)
<1>1. PICK x : x = [conn[c] EXCEPT !.sub = sb, !.cmd = m]
      OBVIOUS
<1>2. conn[c] \in ConnOf(W)
      BY ConnOfLarger
<1>3. /\ x \in ConnOf(W) /\ x.stage = conn[c].stage /\ x.running = conn[c].running /\ x.sub = sb
      /\ x.has_event = conn[c].has_event /\ x.queue = conn[c].queue /\ x.cmd = m
      BY <1>1, <1>2 DEF ConnOf
<1>4. conn' = [conn EXCEPT ![c] = x]
      BY <1>1
<1>5. Becomes(c, W, x.stage, x.running, x.sub, x.has_event, x.queue, x.cmd)
      BY <1>3, <1>4, EditIs
<1> QED
    BY <1>3, <1>5 DEF Becomes

-----------------------------------------------------------------------------
(* What stays as it was.                                                    *)

\* What may still come is counted down.
LEMMA SpendIs ==
  ASSUME left \in Left, NEW what \in {"connects", "exits", "changes", "queries",
           "resubscriptions", "setups", "shutdown", "secgw", "lists", "uploads",
           "restarts", "tunnels"}, Spend(what)
  PROVE  /\ left' \in Left /\ CommandsLeft \in Nat /\ CommandsLeft' \in Nat
         /\ CommandsLeft' <= CommandsLeft
         /\ what \in {"changes", "queries", "secgw", "lists"} => CommandsLeft' < CommandsLeft
<1>1. left' = [left EXCEPT ![what] = @ - 1] /\ left[what] > 0
      BY DEF Spend
<1>2. /\ left.changes \in Nat /\ left.queries \in Nat /\ left.secgw \in Nat
      /\ left.lists \in Nat
      BY DEF Left
<1>3. left[what] \in Nat
      BY DEF Left
<1>4. left[what] - 1 \in Nat
      BY <1>1, <1>3
<1>5. left' \in Left
      BY <1>1, <1>4 DEF Left
<1>6. /\ left'.changes = IF what = "changes" THEN left.changes - 1 ELSE left.changes
      /\ left'.queries = IF what = "queries" THEN left.queries - 1 ELSE left.queries
      /\ left'.secgw = IF what = "secgw" THEN left.secgw - 1 ELSE left.secgw
      /\ left'.lists = IF what = "lists" THEN left.lists - 1 ELSE left.lists
      BY <1>1 DEF Left
<1>7. /\ left'.changes \in Nat /\ left'.queries \in Nat /\ left'.secgw \in Nat
      /\ left'.lists \in Nat
      BY <1>5 DEF Left
<1>8. CommandsLeft' = left'.changes + left'.queries + left'.secgw + left'.lists
      BY DEF CommandsLeft
<1> QED
    BY <1>2, <1>5, <1>6, <1>7, <1>8 DEF CommandsLeft

\* The same for a step that leaves it alone.
LEMMA SpendsNothing ==
  ASSUME left \in Left, left' = left
  PROVE  left' \in Left /\ CommandsLeft \in Nat /\ CommandsLeft' = CommandsLeft
  BY DEF Left, CommandsLeft

\* Nobody comes onto the list or leaves it, nobody is counted.
LEMMA ListStays ==
  ASSUME ListInv, connections' = connections, socket'.threads = socket.threads,
         \A d \in Conns : \/ conn'[d].stage = conn[d].stage
                          \/ {conn[d].stage, conn'[d].stage} \subseteq {"off", "launched", "gone"}
                          \/ {conn[d].stage, conn'[d].stage} \subseteq {"counted", "unlisted", "released"}
  PROVE  ListInv'
<1>1. Listed' = Listed /\ Counted' = Counted
      BY DEF Listed, Counted
<1> QED
    BY <1>1 DEF ListInv, Links

\* A connection changes its place among its values, its queue and what was sent stay.
LEMMA QueuesStay ==
  ASSUME OnceInv, fired' = fired, \A d \in Conns : sent'[d] = sent[d],
         \A d \in Conns : conn'[d].queue = conn[d].queue \/ (conn'[d].queue = <<>> /\ owed'[d] = {}),
         \A d \in Conns : owed'[d] \subseteq owed[d]
  PROVE  OnceInv' /\ Known' \subseteq Known
<1>1. \A d \in Conns : ToSet(conn'[d].queue) \subseteq ToSet(conn[d].queue)
      BY DEF ToSet
<1>2. Known' \subseteq Known
      BY <1>1 DEF Known
<1>3. ASSUME NEW c \in Conns
      PROVE  /\ \A i, j \in 1 .. Len(conn'[c].queue) : conn'[c].queue[i] = conn'[c].queue[j] => i = j
             /\ ToSet(conn'[c].queue) \cap (sent'[c] \cup fired') = {} /\ sent'[c] \cap fired' = {}
             /\ owed'[c] \subseteq fired' \cup sent'[c] \cup ToSet(conn'[c].queue)
  <2>1. CASE conn'[c].queue = conn[c].queue
        BY <2>1 DEF OnceInv
  <2>2. CASE conn'[c].queue = <<>> /\ owed'[c] = {}
    <3>1. ToSet(conn'[c].queue) = {} /\ Len(conn'[c].queue) = 0
          BY <2>2 DEF ToSet
    <3> QED
        BY <2>2, <3>1 DEF OnceInv
  <2> QED
      BY <2>1, <2>2
<1> QED
    BY <1>2, <1>3 DEF OnceInv

\* No result is new, and whoever begins a command has spent one.
LEMMA FreshStays ==
  ASSUME FreshInv, Known' \subseteq Known, CommandsLeft \in Nat, CommandsLeft' \in Nat,
         \/ CommandsLeft' < CommandsLeft
         \/ CommandsLeft' <= CommandsLeft /\ \A d \in Conns : Firing(d)' => Firing(d)
  PROVE  FreshInv'
<1>1. ASSUME NEW r \in Known'
      PROVE  /\ r.id \in Nat /\ r.id >= CommandsLeft'
             /\ \A d \in Conns : r.by = d /\ Firing(d)' => r.id > CommandsLeft'
  <2>1. /\ r.id \in Nat /\ r.id >= CommandsLeft
        /\ \A d \in Conns : r.by = d /\ Firing(d) => r.id > CommandsLeft
        BY DEF FreshInv
  <2> QED
      BY <2>1
<1> QED
    BY <1>1 DEF FreshInv

\* A step of connection c that fires and sends nothing: what is to be shown of it.
LEMMA QuietStep ==
  ASSUME SocketInv, NEW V, Typed(V), NEW W, V \subseteq W, NEW c \in Conns,
         NEW st, NEW ru, NEW sb, NEW ev, NEW q, NEW m, Becomes(c, W, st, ru, sb, ev, q, m),
         DOMAIN call' \subseteq Callers, fired' = fired, sent' = sent,
         owed' \in [Conns -> SUBSET V], \A d \in Conns : owed'[d] \subseteq owed[d],
         q = conn[c].queue \/ (q = <<>> /\ owed'[c] = {}),
         ListInv', socket' \in Socket, socket'.bound = socket.bound,
         left' \in Left, CommandsLeft \in Nat, CommandsLeft' \in Nat,
         \/ CommandsLeft' < CommandsLeft
         \/ /\ CommandsLeft' <= CommandsLeft
            /\ m # None /\ m.op \in {"page", "fire", "secgw"} => Firing(c),
         \A d \in Conns \ {c} : d \in DOMAIN call' => d \in DOMAIN call,
         c \in DOMAIN call' => m = [op |-> "secgw"], m # None => st = "listed",
         m # None /\ m.op = "event" => ~sb, sb => ev,
         owed'[c] # {} => st = "listed" /\ sb
  PROVE  SocketInv'
<1>1. /\ conn' \in [Conns -> ConnOf(W)]
      /\ conn'[c].stage = st /\ conn'[c].sub = sb /\ conn'[c].has_event = ev
      /\ conn'[c].queue = q /\ conn'[c].cmd = m
      /\ \A d \in Conns \ {c} : conn'[d] = conn[d]
      BY DEF Becomes
<1>2. TypeInv'
  <2>1. fired' \in SUBSET W /\ owed' \in [Conns -> SUBSET W] /\ sent' \in [Conns -> SUBSET W]
        BY DEF Typed
  <2>2. Typed(W)'
        BY <1>1, <2>1 DEF Typed
  <2> QED
      BY <2>2 DEF TypeInv
<1>3. CallInv'
  <2>1. ASSUME NEW d \in Conns
        PROVE  /\ conn'[d].cmd # None => conn'[d].stage = "listed"
               /\ d \in DOMAIN call' => conn'[d].cmd = [op |-> "secgw"]
    <3>1. /\ conn[d].cmd # None => conn[d].stage = "listed"
          /\ d \in DOMAIN call => conn[d].cmd = [op |-> "secgw"]
          BY DEF SocketInv, CallInv
    <3>2. CASE d = c
          BY <3>1, <3>2, <1>1
    <3>3. CASE d # c
          BY <3>1, <3>3, <1>1
    <3> QED
        BY <3>2, <3>3
  <2> QED
      BY <2>1 DEF CallInv
<1>4. AskInv'
  <2>1. ASSUME NEW d \in Conns
        PROVE  /\ conn'[d].cmd # None /\ conn'[d].cmd.op = "event" => ~conn'[d].sub
               /\ conn'[d].sub => conn'[d].has_event
               /\ owed'[d] # {} => conn'[d].stage = "listed" /\ conn'[d].sub /\ socket'.bound
    <3>1. /\ conn[d].cmd # None /\ conn[d].cmd.op = "event" => ~conn[d].sub
          /\ conn[d].sub => conn[d].has_event
          /\ owed[d] # {} => conn[d].stage = "listed" /\ conn[d].sub /\ socket.bound
          BY DEF SocketInv, AskInv
    <3>2. owed'[d] # {} => owed[d] # {}
          OBVIOUS
    <3>3. CASE d = c
          BY <3>3, <3>1, <3>2, <1>1
    <3>4. CASE d # c
          BY <3>4, <3>1, <3>2, <1>1
    <3> QED
        BY <3>3, <3>4
  <2> QED
      BY <2>1 DEF AskInv
<1>5. OnceInv' /\ Known' \subseteq Known
  <2>1. ASSUME NEW d \in Conns
        PROVE  conn'[d].queue = conn[d].queue \/ (conn'[d].queue = <<>> /\ owed'[d] = {})
    <3>1. CASE d = c
          BY <3>1, <1>1
    <3>2. CASE d # c
      <4>1. conn'[d] = conn[d]
            BY <3>2, <1>1
      <4> QED
          BY <4>1
    <3> QED
        BY <3>1, <3>2
  <2> QED
      BY <2>1, QueuesStay DEF SocketInv
<1>6. FreshInv'
  <2>1. CASE CommandsLeft' < CommandsLeft
        BY <2>1, <1>5, FreshStays DEF SocketInv
  <2>2. CASE /\ CommandsLeft' <= CommandsLeft
             /\ m # None /\ m.op \in {"page", "fire", "secgw"} => Firing(c)
    <3>1. \A d \in Conns : Firing(d)' => Firing(d)
          BY <2>2, <1>1 DEF Firing
    <3> QED
        BY <2>2, <3>1, <1>5, FreshStays DEF SocketInv
  <2> QED
      BY <2>1, <2>2
<1> QED
    BY <1>2, <1>3, <1>4, <1>5, <1>6 DEF SocketInv

\* The same where no command of mod_ipsec begins or ends.
LEMMA PlainStep ==
  ASSUME SocketInv, NEW V, Typed(V), NEW W, V \subseteq W, NEW c \in Conns,
         NEW st, NEW ru, NEW sb, NEW ev, NEW q, NEW m, Becomes(c, W, st, ru, sb, ev, q, m),
         call' = call, fired' = fired, sent' = sent,
         owed' \in [Conns -> SUBSET V], \A d \in Conns : owed'[d] \subseteq owed[d],
         q = conn[c].queue \/ (q = <<>> /\ owed'[c] = {}),
         ListInv', socket' \in Socket, socket'.bound = socket.bound,
         left' \in Left, CommandsLeft \in Nat, CommandsLeft' \in Nat,
         \/ CommandsLeft' < CommandsLeft
         \/ /\ CommandsLeft' <= CommandsLeft
            /\ m # None /\ m.op \in {"page", "fire", "secgw"} => Firing(c),
         c \in DOMAIN call => m = conn[c].cmd, m # None => st = "listed",
         m # None /\ m.op = "event" => ~sb, sb => ev,
         owed'[c] # {} => st = "listed" /\ sb
  PROVE  SocketInv'
<1>1. /\ DOMAIN call' \subseteq Callers
      /\ \A d \in Conns \ {c} : d \in DOMAIN call' => d \in DOMAIN call
      BY DEF SocketInv, TypeInv
<1>2. c \in DOMAIN call' => m = [op |-> "secgw"]
      BY DEF SocketInv, CallInv
<1> QED
    BY <1>1, <1>2, QuietStep

-----------------------------------------------------------------------------
(* One connection's thread.                                                 *)

\* mod_eventsocket_runtime: nobody knows the connection yet.
LEMMA AcceptKeeps ==
  ASSUME SocketInv, NEW c \in Conns, Accept(c)
  PROVE  SocketInv'
<1>0. PICK V : Typed(V)
      BY DEF SocketInv, TypeInv
<1>1. /\ conn \in [Conns -> ConnOf(V)] /\ conn[c] \in ConnOf(V)
      /\ owed \in [Conns -> SUBSET V] /\ socket \in Socket /\ left \in Left
      BY <1>0 DEF Typed, SocketInv, TypeInv
<1>2. /\ conn[c].stage = "off" /\ Spend("connects")
      /\ conn' = [conn EXCEPT ![c].stage = "launched"]
      /\ socket' = [socket EXCEPT !.accepting = ~socket.done]
      /\ call' = call /\ connections' = connections /\ fired' = fired
      /\ owed' = owed /\ sent' = sent
      BY DEF Accept, tables, secgw
<1>3. Becomes(c, V, "launched", conn[c].running, conn[c].sub, conn[c].has_event,
              conn[c].queue, conn[c].cmd)
      BY <1>1, <1>2, OnlyStageIs DEF Stages
<1>4. /\ socket' \in Socket /\ socket'.bound = socket.bound
      /\ socket'.threads = socket.threads
      BY <1>1, <1>2 DEF Socket
<1>5. ListInv'
  <2>1. conn'[c].stage = "launched" /\ \A d \in Conns \ {c} : conn'[d] = conn[d]
        BY <1>3 DEF Becomes
  <2> QED
      BY <2>1, <1>2, <1>4, ListStays DEF SocketInv
<1>6. /\ left' \in Left /\ CommandsLeft \in Nat /\ CommandsLeft' \in Nat
      /\ CommandsLeft' <= CommandsLeft
      BY <1>1, <1>2, SpendIs
<1>7. /\ conn[c].cmd # None /\ conn[c].cmd.op \in {"page", "fire", "secgw"} => Firing(c)
      /\ conn[c].cmd # None /\ conn[c].cmd.op = "event" => ~conn[c].sub
      /\ conn[c].sub => conn[c].has_event
      /\ owed'[c] = {} /\ conn[c].cmd = None
      BY <1>2 DEF SocketInv, AskInv, CallInv, Firing
<1> QED
    BY <1>0, <1>1, <1>2, <1>3, <1>4, <1>5, <1>6, <1>7, PlainStep

\* A thread counts itself.
LEMMA CountKeeps ==
  ASSUME SocketInv, NEW c \in Conns, Count(c)
  PROVE  SocketInv'
<1>0. PICK V : Typed(V)
      BY DEF SocketInv, TypeInv
<1>1. /\ conn \in [Conns -> ConnOf(V)] /\ conn[c] \in ConnOf(V)
      /\ owed \in [Conns -> SUBSET V] /\ socket \in Socket /\ left \in Left
      BY <1>0 DEF Typed, SocketInv, TypeInv
<1>2. /\ conn[c].stage = "launched" /\ left' = left
      /\ conn' = [conn EXCEPT ![c].stage = "counted", ![c].running = TRUE]
      /\ socket' = [socket EXCEPT !.threads = @ + 1]
      /\ connections' = connections
      /\ call' = call /\ fired' = fired /\ sent' = sent /\ owed' = owed
      BY DEF Count, tables, secgw
<1>P. PICK yes \in BOOLEAN : yes = TRUE
      OBVIOUS
<1>3. Becomes(c, V, "counted", yes, conn[c].sub, conn[c].has_event, conn[c].queue, conn[c].cmd)
      BY <1>1, <1>2, <1>P, StageIs DEF Stages
<1>4. /\ socket' \in Socket /\ socket'.bound = socket.bound
      /\ socket'.threads = socket.threads + 1
  <2>1. socket.threads \in Nat
        BY <1>1 DEF Socket
  <2>2. socket.threads + 1 \in Nat
        BY <2>1
  <2> QED
      BY <1>1, <1>2, <2>2 DEF Socket
<1>5. ListInv'
  <2>1. conn'[c].stage = "counted" /\ \A d \in Conns \ {c} : conn'[d] = conn[d]
        BY <1>3 DEF Becomes
  <2>2. Listed' = Listed
        BY <2>1, <1>2 DEF Listed
  <2>3. Counted' = Counted \cup {c} /\ c \notin Counted
        BY <2>1, <1>2 DEF Counted
  <2>4. IsFiniteSet(Counted) /\ socket.threads = Cardinality(Counted)
        BY DEF SocketInv, ListInv
  <2>5. IsFiniteSet(Counted') /\ Cardinality(Counted') = Cardinality(Counted) + 1
        BY <2>3, <2>4, FS_AddElement
  <2> QED
      BY <2>2, <2>4, <2>5, <1>2, <1>4 DEF SocketInv, ListInv, Links
<1>6. /\ left' \in Left /\ CommandsLeft \in Nat /\ CommandsLeft' \in Nat
      /\ CommandsLeft' <= CommandsLeft
      BY <1>1, <1>2, SpendsNothing
<1>7. /\ conn[c].cmd # None /\ conn[c].cmd.op \in {"page", "fire", "secgw"} => Firing(c)
      /\ conn[c].cmd # None /\ conn[c].cmd.op = "event" => ~conn[c].sub
      /\ conn[c].sub => conn[c].has_event
      /\ owed'[c] = {} /\ conn[c].cmd = None
      BY <1>1, <1>2 DEF SocketInv, AskInv, CallInv, Firing
<1>8. /\ call' = call /\ fired' = fired /\ sent' = sent /\ owed' \in [Conns -> SUBSET V]
      /\ \A d \in Conns : owed'[d] \subseteq owed[d]
      BY <1>1, <1>2
<1> QED
    BY <1>0, <1>3, <1>4, <1>5, <1>6, <1>7, <1>8, PlainStep

\* A counted connection goes on the list.
LEMMA AddKeeps ==
  ASSUME SocketInv, NEW c \in Conns, add_conn(c)
  PROVE  SocketInv'
<1>0. PICK V : Typed(V)
      BY DEF SocketInv, TypeInv
<1>1. /\ conn \in [Conns -> ConnOf(V)] /\ conn[c] \in ConnOf(V)
      /\ owed \in [Conns -> SUBSET V] /\ socket \in Socket /\ left \in Left
      BY <1>0 DEF Typed, SocketInv, TypeInv
<1>2. /\ conn[c].stage = "counted" /\ left' = left
      /\ conn' = [conn EXCEPT ![c].stage = "listed"]
      /\ connections' = <<c>> \o connections /\ socket' = socket
      /\ call' = call /\ fired' = fired /\ sent' = sent /\ owed' = owed
      BY DEF add_conn, tables, secgw
<1>3. Becomes(c, V, "listed", conn[c].running, conn[c].sub, conn[c].has_event, conn[c].queue, conn[c].cmd)
      BY <1>1, <1>2, OnlyStageIs DEF Stages
<1>4. socket' \in Socket /\ socket'.bound = socket.bound /\ socket'.threads = socket.threads
      BY <1>1, <1>2
<1>5. ListInv'
  <2>1. conn'[c].stage = "listed" /\ \A d \in Conns \ {c} : conn'[d] = conn[d]
        BY <1>3 DEF Becomes
  <2>2. Listed' = Listed \cup {c} /\ c \notin Listed
        BY <2>1, <1>2 DEF Listed
  <2>3. Counted' = Counted
        BY <2>1, <1>2 DEF Counted
  <2>4. Links(connections', Listed')
        BY <2>2, <1>2, LinksPrepended DEF SocketInv, ListInv
  <2> QED
      BY <2>3, <2>4, <1>2 DEF SocketInv, ListInv, Links
<1>6. /\ left' \in Left /\ CommandsLeft \in Nat /\ CommandsLeft' \in Nat
      /\ CommandsLeft' <= CommandsLeft
      BY <1>1, <1>2, SpendsNothing
<1>7. /\ conn[c].cmd # None /\ conn[c].cmd.op \in {"page", "fire", "secgw"} => Firing(c)
      /\ conn[c].cmd # None /\ conn[c].cmd.op = "event" => ~conn[c].sub
      /\ conn[c].sub => conn[c].has_event
      /\ owed'[c] = {} /\ conn[c].cmd = None
      BY <1>1, <1>2 DEF SocketInv, AskInv, CallInv, Firing
<1>8. /\ call' = call /\ fired' = fired /\ sent' = sent /\ owed' \in [Conns -> SUBSET V]
      /\ \A d \in Conns : owed'[d] \subseteq owed[d]
      BY <1>1, <1>2
<1> QED
    BY <1>0, <1>3, <1>4, <1>5, <1>6, <1>7, <1>8, PlainStep

\* A connection is told to stop.
LEMMA ExitsKeeps ==
  ASSUME SocketInv, NEW c \in Conns, Exits(c)
  PROVE  SocketInv'
<1>0. PICK V : Typed(V)
      BY DEF SocketInv, TypeInv
<1>1. /\ conn \in [Conns -> ConnOf(V)] /\ conn[c] \in ConnOf(V)
      /\ owed \in [Conns -> SUBSET V] /\ socket \in Socket /\ left \in Left
      BY <1>0 DEF Typed, SocketInv, TypeInv
<1>2. /\ conn[c].stage = "listed" /\ Spend("exits")
      /\ conn' = [conn EXCEPT ![c].running = FALSE]
      /\ connections' = connections /\ socket' = socket
      /\ call' = call /\ fired' = fired /\ sent' = sent /\ owed' = owed
      BY DEF Exits, Ready, tables, secgw
<1>P. PICK no \in BOOLEAN : no = FALSE
      OBVIOUS
<1>3. Becomes(c, V, conn[c].stage, no, conn[c].sub, conn[c].has_event, conn[c].queue, conn[c].cmd)
      BY <1>1, <1>2, <1>P, RunningIs
<1>4. socket' \in Socket /\ socket'.bound = socket.bound /\ socket'.threads = socket.threads
      BY <1>1, <1>2
<1>5. ListInv'
  <2>1. \A d \in Conns \ {c} : conn'[d] = conn[d]
        BY <1>3 DEF Becomes
  <2>2. conn'[c].stage = conn[c].stage
        BY <1>3 DEF Becomes
  <2> QED
      BY <2>1, <2>2, <1>2, <1>4, ListStays DEF SocketInv
<1>6. /\ left' \in Left /\ CommandsLeft \in Nat /\ CommandsLeft' \in Nat
      /\ CommandsLeft' <= CommandsLeft
      BY <1>1, <1>2, SpendIs
<1>7. /\ conn[c].cmd # None /\ conn[c].cmd.op \in {"page", "fire", "secgw"} => Firing(c)
      /\ conn[c].cmd # None /\ conn[c].cmd.op = "event" => ~conn[c].sub
      /\ conn[c].sub => conn[c].has_event
      /\ owed'[c] # {} => conn[c].stage = "listed" /\ conn[c].sub
      BY <1>1, <1>2 DEF SocketInv, AskInv, CallInv, Firing
<1>8. /\ call' = call /\ fired' = fired /\ sent' = sent /\ owed' \in [Conns -> SUBSET V]
      /\ \A d \in Conns : owed'[d] \subseteq owed[d]
      BY <1>1, <1>2
<1> QED
    BY <1>0, <1>2, <1>3, <1>4, <1>5, <1>6, <1>7, <1>8, PlainStep

\* The "event" command forgets what the connection asked for.
LEMMA EventClearsKeeps ==
  ASSUME SocketInv, NEW c \in Conns, NEW want, EventClears(c, want)
  PROVE  SocketInv'
<1>0. PICK V : Typed(V)
      BY DEF SocketInv, TypeInv
<1>1. /\ conn \in [Conns -> ConnOf(V)] /\ conn[c] \in ConnOf(V)
      /\ owed \in [Conns -> SUBSET V] /\ socket \in Socket /\ left \in Left
      BY <1>0 DEF Typed, SocketInv, TypeInv
<1>2. /\ conn[c].cmd = None /\ conn[c].stage = "listed" /\ Spend("resubscriptions")
      /\ conn' = [conn EXCEPT ![c].sub = FALSE, ![c].cmd = [op |-> "event", want |-> want]]
      /\ owed' = [owed EXCEPT ![c] = {}]
      /\ connections' = connections /\ socket' = socket
      /\ call' = call /\ fired' = fired /\ sent' = sent
      BY DEF EventClears, Ready, tables, secgw
<1>W. PICK W : W = V \cup {[op |-> "event", want |-> want]}
      OBVIOUS
<1>P. PICK no \in BOOLEAN : no = FALSE
      OBVIOUS
<1>M. PICK m : m = [op |-> "event", want |-> want]
      OBVIOUS
<1>3. Becomes(c, W, conn[c].stage, conn[c].running, no, conn[c].has_event, conn[c].queue, m)
      BY <1>1, <1>2, <1>M, <1>W, <1>P, ClearsIs
<1>4. socket' \in Socket /\ socket'.bound = socket.bound /\ socket'.threads = socket.threads
      BY <1>1, <1>2
<1>5. ListInv'
  <2>1. \A d \in Conns \ {c} : conn'[d] = conn[d]
        BY <1>3 DEF Becomes
  <2>2. conn'[c].stage = conn[c].stage
        BY <1>3 DEF Becomes
  <2> QED
      BY <2>1, <2>2, <1>2, <1>4, ListStays DEF SocketInv
<1>6. /\ left' \in Left /\ CommandsLeft \in Nat /\ CommandsLeft' \in Nat
      /\ CommandsLeft' <= CommandsLeft
      BY <1>1, <1>2, SpendIs
<1>7. /\ owed'[c] = {}
      /\ c \notin DOMAIN call /\ V \subseteq W /\ m.op = "event" /\ ~no /\ conn[c].stage = "listed"
  <2>1. /\ owed'[c] = {} /\ V \subseteq W /\ m.op = "event" /\ ~no
        /\ conn[c].stage = "listed"
        BY <1>1, <1>2, <1>W, <1>M, <1>P
  <2> QED
      BY <2>1, <1>2, SocketAssumption DEF SocketInv, CallInv
<1>8. /\ call' = call /\ fired' = fired /\ sent' = sent /\ owed' \in [Conns -> SUBSET V]
      /\ \A d \in Conns : owed'[d] \subseteq owed[d]
      BY <1>1, <1>2
<1> QED
    BY <1>0, <1>3, <1>4, <1>5, <1>6, <1>7, <1>8, PlainStep

\* The "event" command takes what the connection asks for now.
LEMMA EventSetsKeeps ==
  ASSUME SocketInv, NEW c \in Conns, EventSets(c)
  PROVE  SocketInv'
<1>0. PICK V : Typed(V)
      BY DEF SocketInv, TypeInv
<1>1. /\ conn \in [Conns -> ConnOf(V)] /\ conn[c] \in ConnOf(V)
      /\ owed \in [Conns -> SUBSET V] /\ socket \in Socket /\ left \in Left
      BY <1>0 DEF Typed, SocketInv, TypeInv
<1>2. /\ conn[c].cmd # None /\ conn[c].cmd.op = "event" /\ left' = left
      /\ conn' = [conn EXCEPT ![c].sub = (conn[c].cmd.want = "results"),
                              ![c].has_event = (conn[c].cmd.want # "unknown"), ![c].cmd = None]
      /\ connections' = connections /\ socket' = socket
      /\ call' = call /\ fired' = fired /\ sent' = sent /\ owed' = owed
      BY DEF EventSets, tables, secgw
<1>W. PICK W : W = V \cup {None}
      OBVIOUS
<1>3. Becomes(c, W, conn[c].stage, conn[c].running, conn[c].cmd.want = "results",
              conn[c].cmd.want # "unknown", conn[c].queue, None)
      BY <1>1, <1>2, <1>W, AsksIs
<1>4. socket' \in Socket /\ socket'.bound = socket.bound /\ socket'.threads = socket.threads
      BY <1>1, <1>2
<1>5. ListInv'
  <2>1. \A d \in Conns \ {c} : conn'[d] = conn[d]
        BY <1>3 DEF Becomes
  <2>2. conn'[c].stage = conn[c].stage
        BY <1>3 DEF Becomes
  <2> QED
      BY <2>1, <2>2, <1>2, <1>4, ListStays DEF SocketInv
<1>6. /\ left' \in Left /\ CommandsLeft \in Nat /\ CommandsLeft' \in Nat
      /\ CommandsLeft' <= CommandsLeft
      BY <1>1, <1>2, SpendsNothing
<1>7. owed'[c] = {} /\ c \notin DOMAIN call
  <2>1. ~conn[c].sub
        BY <1>2 DEF SocketInv, AskInv
  <2>2. owed[c] = {}
        BY <2>1 DEF SocketInv, AskInv
  <2>3. conn[c].cmd # [op |-> "secgw"]
        BY <1>2
  <2> QED
      BY <2>2, <2>3, <1>2 DEF SocketInv, CallInv
<1>8. /\ call' = call /\ fired' = fired /\ sent' = sent /\ owed' \in [Conns -> SUBSET V]
      /\ \A d \in Conns : owed'[d] \subseteq owed[d]
      BY <1>1, <1>2
<1> QED
    BY <1>0, <1>W, <1>3, <1>4, <1>5, <1>6, <1>7, <1>8, PlainStep

\* A connection leaves the list.
LEMMA RemoveKeeps ==
  ASSUME SocketInv, NEW c \in Conns, remove_conn(c)
  PROVE  SocketInv'
<1>0. PICK V : Typed(V)
      BY DEF SocketInv, TypeInv
<1>1. /\ conn \in [Conns -> ConnOf(V)] /\ conn[c] \in ConnOf(V)
      /\ owed \in [Conns -> SUBSET V] /\ socket \in Socket /\ left \in Left
      BY <1>0 DEF Typed, SocketInv, TypeInv
<1>2. /\ conn[c].stage = "listed" /\ conn[c].cmd = None /\ left' = left
      /\ conn' = [conn EXCEPT ![c].stage = "unlisted"]
      /\ connections' = RemoveFirst(connections, c) /\ socket' = socket
      /\ owed' = [owed EXCEPT ![c] = {}]
      /\ call' = call /\ fired' = fired /\ sent' = sent
      BY DEF remove_conn, tables, secgw
<1>3. Becomes(c, V, "unlisted", conn[c].running, conn[c].sub, conn[c].has_event, conn[c].queue, conn[c].cmd)
      BY <1>1, <1>2, OnlyStageIs DEF Stages
<1>4. socket' \in Socket /\ socket'.bound = socket.bound /\ socket'.threads = socket.threads
      BY <1>1, <1>2
<1>5. ListInv'
  <2>1. conn'[c].stage = "unlisted" /\ \A d \in Conns \ {c} : conn'[d] = conn[d]
        BY <1>3 DEF Becomes
  <2>2. Listed' = Listed \ {c} /\ c \in Listed
        BY <2>1, <1>2 DEF Listed
  <2>3. Counted' = Counted
        BY <2>1, <1>2 DEF Counted
  <2>4. Links(connections', Listed')
        BY <2>2, <1>2, LinksRemoved DEF SocketInv, ListInv
  <2> QED
      BY <2>3, <2>4, <1>2 DEF SocketInv, ListInv, Links
<1>6. /\ left' \in Left /\ CommandsLeft \in Nat /\ CommandsLeft' \in Nat
      /\ CommandsLeft' <= CommandsLeft
      BY <1>1, <1>2, SpendsNothing
<1>7. /\ owed'[c] = {}
      /\ conn[c].cmd # None /\ conn[c].cmd.op \in {"page", "fire", "secgw"} => Firing(c)
      /\ conn[c].cmd # None /\ conn[c].cmd.op = "event" => ~conn[c].sub
      /\ conn[c].sub => conn[c].has_event
  <2>1. owed'[c] = {}
        BY <1>1, <1>2
  <2> QED
      BY <2>1 DEF SocketInv, AskInv, Firing
<1>8. /\ call' = call /\ fired' = fired /\ sent' = sent /\ owed' \in [Conns -> SUBSET V]
      /\ \A d \in Conns : owed'[d] \subseteq owed[d]
      BY <1>1, <1>2
<1> QED
    BY <1>0, <1>2, <1>3, <1>4, <1>5, <1>6, <1>7, <1>8, PlainStep

\* A thread ends.
LEMMA UncountKeeps ==
  ASSUME SocketInv, NEW c \in Conns, Uncount(c)
  PROVE  SocketInv'
<1>0. PICK V : Typed(V)
      BY DEF SocketInv, TypeInv
<1>1. /\ conn \in [Conns -> ConnOf(V)] /\ conn[c] \in ConnOf(V)
      /\ owed \in [Conns -> SUBSET V] /\ socket \in Socket /\ left \in Left
      BY <1>0 DEF Typed, SocketInv, TypeInv
<1>2. /\ conn[c].stage = "released" /\ left' = left
      /\ conn' = [conn EXCEPT ![c].stage = "gone"]
      /\ socket' = [socket EXCEPT !.threads = @ - 1]
      /\ connections' = connections
      /\ call' = call /\ fired' = fired /\ sent' = sent /\ owed' = owed
      BY DEF Uncount, tables, secgw
<1>3. Becomes(c, V, "gone", conn[c].running, conn[c].sub, conn[c].has_event, conn[c].queue, conn[c].cmd)
      BY <1>1, <1>2, OnlyStageIs DEF Stages
<1>4. /\ c \in Counted /\ IsFiniteSet(Counted) /\ socket.threads = Cardinality(Counted)
      /\ IsFiniteSet(Counted \ {c}) /\ Cardinality(Counted \ {c}) = Cardinality(Counted) - 1
      /\ Cardinality(Counted \ {c}) \in Nat
      /\ socket' \in Socket /\ socket'.bound = socket.bound
      /\ socket'.threads = Cardinality(Counted \ {c})
  <2>1. c \in Counted /\ IsFiniteSet(Counted) /\ socket.threads = Cardinality(Counted)
        BY <1>2 DEF Counted, SocketInv, ListInv
  <2>2. /\ IsFiniteSet(Counted \ {c}) /\ Cardinality(Counted \ {c}) = Cardinality(Counted) - 1
        BY <2>1, FS_RemoveElement
  <2>3. Cardinality(Counted \ {c}) \in Nat
        BY <2>2, FS_CardinalityType
  <2>4. PICK n \in Nat : n = Cardinality(Counted \ {c})
        BY <2>3
  <2>5. socket' = [socket EXCEPT !.threads = n]
        BY <2>1, <2>2, <2>4, <1>2
  <2>6. socket' \in Socket /\ socket'.bound = socket.bound /\ socket'.threads = n
        BY <2>5, <1>1 DEF Socket
  <2> QED
      BY <2>1, <2>2, <2>4, <2>6
<1>5. ListInv'
  <2>1. conn'[c].stage = "gone" /\ \A d \in Conns \ {c} : conn'[d] = conn[d]
        BY <1>3 DEF Becomes
  <2>2. Listed' = Listed
        BY <2>1, <1>2 DEF Listed
  <2>3. Counted' = Counted \ {c}
        BY <2>1, <1>2 DEF Counted
  <2>4. IsFiniteSet(Counted') /\ socket'.threads = Cardinality(Counted')
        BY <2>3, <1>4
  <2> QED
      BY <2>2, <2>4, <1>2 DEF SocketInv, ListInv, Links
<1>6. /\ left' \in Left /\ CommandsLeft \in Nat /\ CommandsLeft' \in Nat
      /\ CommandsLeft' <= CommandsLeft
      BY <1>1, <1>2, SpendsNothing
<1>7. /\ conn[c].cmd # None /\ conn[c].cmd.op \in {"page", "fire", "secgw"} => Firing(c)
      /\ conn[c].cmd # None /\ conn[c].cmd.op = "event" => ~conn[c].sub
      /\ conn[c].sub => conn[c].has_event
      /\ owed'[c] = {} /\ conn[c].cmd = None
      BY <1>1, <1>2 DEF SocketInv, AskInv, CallInv, Firing
<1>8. /\ call' = call /\ fired' = fired /\ sent' = sent /\ owed' \in [Conns -> SUBSET V]
      /\ \A d \in Conns : owed'[d] \subseteq owed[d]
      BY <1>1, <1>2
<1> QED
    BY <1>0, <1>3, <1>4, <1>5, <1>6, <1>7, <1>8, PlainStep

\* release_connection: the queue and what the connection asked for are gone.
LEMMA ReleaseKeeps ==
  ASSUME SocketInv, NEW c \in Conns, release_connection(c)
  PROVE  SocketInv'
<1>0. PICK V : Typed(V)
      BY DEF SocketInv, TypeInv
<1>1. /\ conn \in [Conns -> ConnOf(V)]
      /\ owed \in [Conns -> SUBSET V] /\ socket \in Socket /\ left \in Left
      BY <1>0 DEF Typed, SocketInv, TypeInv
<1>2. /\ conn[c].stage = "unlisted" /\ left' = left
      /\ conn' = [conn EXCEPT ![c] = [Off EXCEPT !.stage = "released"]]
      /\ connections' = connections /\ socket' = socket
      /\ call' = call /\ fired' = fired /\ sent' = sent /\ owed' = owed
      BY DEF release_connection, tables, secgw
<1>3. PICK W : W = V \cup {None}
      OBVIOUS
<1>5. PICK x : x = [Off EXCEPT !.stage = "released"]
      OBVIOUS
<1>6. conn' = [conn EXCEPT ![c] = x]
      BY <1>2, <1>5
<1>7. /\ x \in ConnOf(W) /\ x.stage = "released" /\ ~x.sub /\ x.queue = <<>> /\ x.cmd = None
      /\ V \subseteq W
  <2>1. <<>> \in Seq(W) /\ None \in W /\ V \subseteq W
        BY <1>3
  <2> QED
      BY <2>1, <1>5 DEF ConnOf, Stages, Off
<1>8. Becomes(c, W, x.stage, x.running, x.sub, x.has_event, x.queue, x.cmd)
      BY <1>1, <1>6, <1>7, EditIs
<1>9. ListInv'
  <2>1. conn'[c].stage = "released" /\ \A d \in Conns \ {c} : conn'[d] = conn[d]
        BY <1>7, <1>8 DEF Becomes
  <2> QED
      BY <2>1, <1>2, ListStays DEF SocketInv
<1>10. /\ left' \in Left /\ CommandsLeft \in Nat /\ CommandsLeft' \in Nat
       /\ CommandsLeft' <= CommandsLeft
       BY <1>1, <1>2, SpendsNothing
<1>11. owed'[c] = {} /\ c \notin DOMAIN call
  <2>1. conn[c].cmd = None
        BY <1>2 DEF SocketInv, CallInv
  <2>2. conn[c].cmd # [op |-> "secgw"]
        BY <2>1, SocketAssumption
  <2> QED
      BY <2>2, <1>2 DEF SocketInv, CallInv, AskInv
<1>12. /\ call' = call /\ fired' = fired /\ sent' = sent /\ owed' \in [Conns -> SUBSET V]
       /\ socket' \in Socket /\ socket'.bound = socket.bound
       /\ \A d \in Conns : owed'[d] \subseteq owed[d]
       BY <1>1, <1>2
<1> QED
    BY <1>0, <1>7, <1>8, <1>9, <1>10, <1>11, <1>12, PlainStep

\* read_packet sends what is queued.
LEMMA SendKeeps ==
  ASSUME SocketInv, NEW c \in Conns, SendQueued(c)
  PROVE  SocketInv'
<1>0. PICK V : Typed(V)
      BY DEF SocketInv, TypeInv
<1>1. /\ conn \in [Conns -> ConnOf(V)] /\ conn[c] \in ConnOf(V)
      /\ sent \in [Conns -> SUBSET V] /\ socket \in Socket /\ left \in Left
      BY <1>0 DEF Typed, SocketInv, TypeInv
<1>2. /\ left' = left /\ conn' = [conn EXCEPT ![c].queue = <<>>]
      /\ sent' = [sent EXCEPT ![c] = @ \cup ToSet(conn[c].queue)]
      /\ connections' = connections /\ socket' = socket
      /\ call' = call /\ fired' = fired /\ owed' = owed
      BY DEF SendQueued, tables, secgw
<1>3. Becomes(c, V, conn[c].stage, conn[c].running, conn[c].sub, conn[c].has_event,
              <<>>, conn[c].cmd)
  <2>1. <<>> \in Seq(V)
        OBVIOUS
  <2> QED
      BY <2>1, <1>1, <1>2, QueueIs
<1>4. /\ conn' \in [Conns -> ConnOf(V)] /\ \A d \in Conns \ {c} : conn'[d] = conn[d]
      /\ conn'[c].queue = <<>> /\ conn'[c].stage = conn[c].stage /\ conn'[c].sub = conn[c].sub
      /\ conn'[c].has_event = conn[c].has_event /\ conn'[c].cmd = conn[c].cmd
      BY <1>3 DEF Becomes
<1>5. TypeInv'
  <2>1. conn[c].queue \in Seq(V)
        BY <1>1 DEF ConnOf
  <2>2. ToSet(conn[c].queue) \subseteq V
        BY <2>1 DEF ToSet
  <2>3. sent' \in [Conns -> SUBSET V]
        BY <2>2, <1>1, <1>2
  <2>4. Typed(V)'
        BY <2>3, <1>0, <1>2, <1>4 DEF Typed
  <2> QED
      BY <2>4, <1>2 DEF SocketInv, TypeInv, Left
<1>6. ListInv'
      BY <1>2, <1>4, ListStays DEF SocketInv
<1>7. CallInv' /\ AskInv'
  <2>1. \A d \in Conns : /\ conn'[d].stage = conn[d].stage /\ conn'[d].sub = conn[d].sub
                         /\ conn'[d].has_event = conn[d].has_event /\ conn'[d].cmd = conn[d].cmd
        BY <1>4
  <2> QED
      BY <2>1, <1>2 DEF SocketInv, CallInv, AskInv
<1>8. /\ sent'[c] = sent[c] \cup ToSet(conn[c].queue) /\ ToSet(conn'[c].queue) = {}
      /\ Len(conn'[c].queue) = 0
      /\ \A d \in Conns \ {c} : sent'[d] = sent[d]
      BY <1>1, <1>2, <1>4 DEF ToSet
<1>9. OnceInv'
  <2>1. ASSUME NEW d \in Conns
        PROVE  /\ \A i, j \in 1 .. Len(conn'[d].queue) :
                     conn'[d].queue[i] = conn'[d].queue[j] => i = j
               /\ ToSet(conn'[d].queue) \cap (sent'[d] \cup fired') = {} /\ sent'[d] \cap fired' = {}
               /\ owed'[d] \subseteq fired' \cup sent'[d] \cup ToSet(conn'[d].queue)
    <3>1. CASE d = c
          BY <3>1, <1>2, <1>8 DEF SocketInv, OnceInv
    <3>2. CASE d # c
      <4>1. conn'[d] = conn[d] /\ sent'[d] = sent[d]
            BY <3>2, <1>4, <1>8
      <4> QED
          BY <4>1, <1>2 DEF SocketInv, OnceInv
    <3> QED
        BY <3>1, <3>2
  <2> QED
      BY <2>1 DEF OnceInv
<1>10. FreshInv'
  <2>1. \A d \in Conns : ToSet(conn'[d].queue) \cup sent'[d] \subseteq ToSet(conn[d].queue) \cup sent[d]
    <3>1. ASSUME NEW d \in Conns, d # c PROVE conn'[d] = conn[d] /\ sent'[d] = sent[d]
          BY <3>1, <1>4, <1>8
    <3> QED
        BY <3>1, <1>8
  <2>2. Known' \subseteq Known
        BY <2>1, <1>2 DEF Known
  <2>3. \A d \in Conns : Firing(d)' => Firing(d)
        BY <1>4 DEF Firing
  <2>4. CommandsLeft \in Nat /\ CommandsLeft' \in Nat /\ CommandsLeft' <= CommandsLeft
        BY <1>1, <1>2, SpendsNothing
  <2> QED
      BY <2>2, <2>3, <2>4, FreshStays DEF SocketInv
<1> QED
    BY <1>5, <1>6, <1>7, <1>9, <1>10 DEF SocketInv

-----------------------------------------------------------------------------
(* Commands.                                                                *)

\* A command begins: one of those that may come is spent.
Begins(c, m, what) ==
  /\ m.op \in {"page", "fire", "secgw"} /\ what \in {"changes", "queries", "secgw", "lists"}
  /\ Spend(what) /\ Ready(c) /\ conn' = [conn EXCEPT ![c].cmd = m]
  /\ DOMAIN call' \subseteq Callers
  /\ \A d \in Conns \ {c} : d \in DOMAIN call' => d \in DOMAIN call
  /\ c \in DOMAIN call' => m = [op |-> "secgw"]
  /\ connections' = connections /\ socket' = socket
  /\ fired' = fired /\ owed' = owed /\ sent' = sent

\* The results fired so far stay older than its own.
LEMMA CommandBegins ==
  ASSUME SocketInv, NEW c \in Conns, NEW m, NEW what, Begins(c, m, what)
  PROVE  SocketInv'
<1>0. PICK V : Typed(V)
      BY DEF SocketInv, TypeInv
<1>b. /\ m.op \in {"page", "fire", "secgw"} /\ what \in {"changes", "queries", "secgw", "lists"}
      /\ Spend(what) /\ Ready(c) /\ conn' = [conn EXCEPT ![c].cmd = m]
      /\ connections' = connections /\ socket' = socket
      /\ fired' = fired /\ owed' = owed /\ sent' = sent
      BY DEF Begins
<1>c. /\ DOMAIN call' \subseteq Callers
      /\ \A d \in Conns \ {c} : d \in DOMAIN call' => d \in DOMAIN call
      /\ c \in DOMAIN call' => m = [op |-> "secgw"]
      BY DEF Begins
<1>1. /\ conn \in [Conns -> ConnOf(V)] /\ conn[c] \in ConnOf(V)
      /\ owed \in [Conns -> SUBSET V] /\ socket \in Socket /\ left \in Left
      BY <1>0 DEF Typed, SocketInv, TypeInv
<1>2. PICK W : W = V \cup {m}
      OBVIOUS
<1>3. V \subseteq W /\ m \in W
      BY <1>2
<1>4. Becomes(c, W, conn[c].stage, conn[c].running, conn[c].sub, conn[c].has_event,
              conn[c].queue, m)
      BY <1>1, <1>3, <1>b, CmdIs
<1>5. ListInv'
  <2>1. conn'[c].stage = conn[c].stage /\ \A d \in Conns \ {c} : conn'[d] = conn[d]
        BY <1>4 DEF Becomes
  <2> QED
      BY <2>1, <1>b, ListStays DEF SocketInv
<1>6. /\ left' \in Left /\ CommandsLeft \in Nat /\ CommandsLeft' \in Nat
      /\ CommandsLeft' < CommandsLeft
      BY <1>1, <1>b, SpendIs
<1>7. /\ m.op # "event" /\ conn[c].stage = "listed"
      /\ conn[c].sub => conn[c].has_event
      /\ owed'[c] # {} => conn[c].stage = "listed" /\ conn[c].sub
      BY <1>b DEF SocketInv, AskInv, Ready
<1>8. /\ fired' = fired /\ sent' = sent /\ owed' \in [Conns -> SUBSET V]
      /\ \A d \in Conns : owed'[d] \subseteq owed[d]
      /\ socket' \in Socket /\ socket'.bound = socket.bound
      BY <1>1, <1>b
<1> QED
    BY <1>0, <1>3, <1>4, <1>5, <1>6, <1>7, <1>8, <1>c, QuietStep

\* Who has no command is in none of mod_ipsec.
LEMMA ReadyIsFree ==
  ASSUME SocketInv, NEW c \in Conns, conn[c].cmd = None
  PROVE  c \notin DOMAIN call
<1>1. conn[c].cmd # [op |-> "secgw"]
      BY SocketAssumption
<1> QED
    BY <1>1 DEF SocketInv, CallInv

\* A command of mod_sig that changes a table.
LEMMA ChangeKeeps ==
  ASSUME SocketInv, NEW c \in Conns, NEW m, Change(c, m)
  PROVE  SocketInv'
<1>1. PICK o \in siggw_main(m) :
         conn' = [conn EXCEPT ![c].cmd = [op |-> "fire", n |-> <<>>, ret |-> o.ret]]
      BY DEF Change
<1>2. PICK q : q = [op |-> "fire", n |-> <<>>, ret |-> o.ret]
      OBVIOUS
<1>3. /\ Spend("changes") /\ Ready(c) /\ call' = call
      /\ connections' = connections /\ socket' = socket
      /\ fired' = fired /\ owed' = owed /\ sent' = sent
      BY DEF Change, secgw
<1>4. /\ DOMAIN call' \subseteq Callers /\ c \notin DOMAIN call'
      /\ \A d \in Conns \ {c} : d \in DOMAIN call' => d \in DOMAIN call
  <2>1. c \notin DOMAIN call
        BY <1>3, ReadyIsFree DEF Ready
  <2> QED
      BY <2>1, <1>3 DEF SocketInv, TypeInv
<1>5. q.op \in {"page", "fire", "secgw"} /\ conn' = [conn EXCEPT ![c].cmd = q]
      BY <1>1, <1>2
<1>6. Begins(c, q, "changes")
      BY <1>3, <1>4, <1>5 DEF Begins
<1> QED
    BY <1>6, CommandBegins

\* The first SELECT of a query.
LEMMA QueryKeeps ==
  ASSUME SocketInv, NEW c \in Conns, NEW m, Query(c, m)
  PROVE  SocketInv'
<1>1. PICK n \in {0, Cardinality(DOMAIN db[m.table])} :
         conn' = [conn EXCEPT ![c].cmd =
                    [op |-> "page", table |-> m.table, page |-> m.page, total |-> n]]
      BY DEF Query
<1>2. PICK q : q = [op |-> "page", table |-> m.table, page |-> m.page, total |-> n]
      OBVIOUS
<1>3. /\ Spend("queries") /\ Ready(c) /\ call' = call
      /\ connections' = connections /\ socket' = socket
      /\ fired' = fired /\ owed' = owed /\ sent' = sent
      BY DEF Query, tables, secgw
<1>4. /\ DOMAIN call' \subseteq Callers /\ c \notin DOMAIN call'
      /\ \A d \in Conns \ {c} : d \in DOMAIN call' => d \in DOMAIN call
  <2>1. c \notin DOMAIN call
        BY <1>3, ReadyIsFree DEF Ready
  <2> QED
      BY <2>1, <1>3 DEF SocketInv, TypeInv
<1>5. q.op \in {"page", "fire", "secgw"} /\ conn' = [conn EXCEPT ![c].cmd = q]
      BY <1>1, <1>2
<1>6. Begins(c, q, "queries")
      BY <1>3, <1>4, <1>5 DEF Begins
<1> QED
    BY <1>6, CommandBegins

\* Its second SELECT.
LEMMA QueryPageKeeps ==
  ASSUME SocketInv, NEW c \in Conns, QueryPage(c)
  PROVE  SocketInv'
<1>0. PICK V : Typed(V)
      BY DEF SocketInv, TypeInv
<1>1. /\ conn \in [Conns -> ConnOf(V)] /\ conn[c] \in ConnOf(V)
      /\ owed \in [Conns -> SUBSET V] /\ socket \in Socket /\ left \in Left
      BY <1>0 DEF Typed, SocketInv, TypeInv
<1>2. PICK r \in {"no_body", "ok"} : conn' = [conn EXCEPT ![c].cmd =
         [op |-> "fire", n |-> <<conn[c].cmd.total, siggw_query(conn[c].cmd)>>, ret |-> r]]
      BY DEF QueryPage
<1>3. PICK m : m = [op |-> "fire", n |-> <<conn[c].cmd.total, siggw_query(conn[c].cmd)>>,
                    ret |-> r]
      OBVIOUS
<1>4. /\ conn[c].cmd # None /\ conn[c].cmd.op = "page" /\ left' = left
      /\ connections' = connections /\ socket' = socket
      /\ call' = call /\ fired' = fired /\ owed' = owed /\ sent' = sent
      BY DEF QueryPage, tables, secgw
<1>5. PICK W : W = V \cup {m}
      OBVIOUS
<1>6. V \subseteq W /\ m \in W /\ m.op = "fire"
      BY <1>3, <1>5
<1>7. Becomes(c, W, conn[c].stage, conn[c].running, conn[c].sub, conn[c].has_event,
              conn[c].queue, m)
  <2>1. conn' = [conn EXCEPT ![c].cmd = m]
        BY <1>2, <1>3
  <2> QED
      BY <2>1, <1>1, <1>6, CmdIs
<1>8. ListInv'
  <2>1. conn'[c].stage = conn[c].stage /\ \A d \in Conns \ {c} : conn'[d] = conn[d]
        BY <1>7 DEF Becomes
  <2> QED
      BY <2>1, <1>4, ListStays DEF SocketInv
<1>9. /\ left' \in Left /\ CommandsLeft \in Nat /\ CommandsLeft' \in Nat
      /\ CommandsLeft' <= CommandsLeft
      BY <1>1, <1>4, SpendsNothing
<1>10. /\ Firing(c) /\ conn[c].stage = "listed" /\ c \notin DOMAIN call
       /\ conn[c].sub => conn[c].has_event
       /\ owed'[c] # {} => conn[c].stage = "listed" /\ conn[c].sub
  <2>1. conn[c].cmd # [op |-> "secgw"]
        BY <1>4
  <2> QED
      BY <2>1, <1>4 DEF SocketInv, CallInv, AskInv, Firing
<1>11. /\ call' = call /\ fired' = fired /\ sent' = sent /\ owed' \in [Conns -> SUBSET V]
       /\ socket' \in Socket /\ socket'.bound = socket.bound
       /\ \A d \in Conns : owed'[d] \subseteq owed[d]
       BY <1>1, <1>4
<1> QED
    BY <1>0, <1>6, <1>7, <1>8, <1>9, <1>10, <1>11, PlainStep

\* A command of mod_ipsec begins.
LEMMA SecgwStartsKeeps ==
  ASSUME SocketInv, NEW c \in Conns, NEW m, NEW what \in {"secgw", "lists"},
         secgw_starts(c, m, what)
  PROVE  SocketInv'
<1>1. /\ Ready(c) /\ Spend(what) /\ secgw_main(c, m)
      /\ conn' = [conn EXCEPT ![c].cmd = [op |-> "secgw"]]
      /\ connections' = connections /\ socket' = socket
      /\ fired' = fired /\ owed' = owed /\ sent' = sent
      BY DEF secgw_starts
<1>2. PICK q : q = [op |-> "secgw"]
      OBVIOUS
<1>3. DOMAIN call' = DOMAIN call \cup {c}
      BY <1>1 DEF secgw_main
<1>4. /\ DOMAIN call' \subseteq Callers
      /\ \A d \in Conns \ {c} : d \in DOMAIN call' => d \in DOMAIN call
      BY <1>3, SocketAssumption DEF SocketInv, TypeInv
<1>5. q.op \in {"page", "fire", "secgw"} /\ conn' = [conn EXCEPT ![c].cmd = q]
      BY <1>1, <1>2
<1>6. Begins(c, q, what)
      BY <1>1, <1>2, <1>4, <1>5 DEF Begins
<1> QED
    BY <1>6, CommandBegins

\* A command of mod_ipsec goes on: nobody's begins.
LEMMA SecStepIs ==
  ASSUME DOMAIN call \subseteq Callers, NEW c \in Conns, SecStep(c)
  PROVE  /\ DOMAIN call' \subseteq Callers
         /\ \A d \in Conns : d \in DOMAIN call' => d \in DOMAIN call
<1>1. PICK x : call' = [call EXCEPT ![c] = x] /\ c \in DOMAIN call
  <2>1. ASSUME Add_Check(c) PROVE \E x : call' = [call EXCEPT ![c] = x] /\ c \in DOMAIN call
        BY <2>1 DEF Add_Check, Running, Go, Ends
  <2>2. ASSUME Mod_Check(c) PROVE \E x : call' = [call EXCEPT ![c] = x] /\ c \in DOMAIN call
        BY <2>2 DEF Mod_Check, Running, Go, Ends
  <2>3. ASSUME Del_Check(c) PROVE \E x : call' = [call EXCEPT ![c] = x] /\ c \in DOMAIN call
        BY <2>3 DEF Del_Check, Running, Go, Ends
  <2>4. ASSUME TakeEffect(c) PROVE \E x : call' = [call EXCEPT ![c] = x] /\ c \in DOMAIN call
    <3>1. c \in DOMAIN call
          BY <2>4 DEF TakeEffect, Running
    <3>2. \E at, ret : Go(c, at) \/ Ends(c, ret)
          BY <2>4 DEF TakeEffect
    <3> QED
        BY <3>1, <3>2 DEF Go, Ends
  <2>5. ASSUME Unload(c) PROVE \E x : call' = [call EXCEPT ![c] = x] /\ c \in DOMAIN call
        BY <2>5 DEF Unload, Running, Go, Ends
  <2>6. ASSUME WriteFile(c) PROVE \E x : call' = [call EXCEPT ![c] = x] /\ c \in DOMAIN call
        BY <2>6 DEF WriteFile, Running, Go, Ends
  <2>7. ASSUME RemoveFile(c) PROVE \E x : call' = [call EXCEPT ![c] = x] /\ c \in DOMAIN call
        BY <2>7 DEF RemoveFile, Running, Go, Ends
  <2>8. ASSUME Save(c) PROVE \E x : call' = [call EXCEPT ![c] = x] /\ c \in DOMAIN call
        BY <2>8 DEF Save, Running, Go, Ends
  <2>9. ASSUME List_Zero(c) PROVE \E x : call' = [call EXCEPT ![c] = x] /\ c \in DOMAIN call
        BY <2>9 DEF List_Zero, Running, Go, Ends
  <2>10. ASSUME List_Count(c) PROVE \E x : call' = [call EXCEPT ![c] = x] /\ c \in DOMAIN call
        BY <2>10 DEF List_Count, Running, Go, Ends
  <2>11. ASSUME List_Page(c) PROVE \E x : call' = [call EXCEPT ![c] = x] /\ c \in DOMAIN call
        BY <2>11 DEF List_Page, Running, Go, Ends
  <2>12. ASSUME List_Body(c) PROVE \E x : call' = [call EXCEPT ![c] = x] /\ c \in DOMAIN call
        BY <2>12 DEF List_Body, Running, Go, Ends
  <2> QED
      BY <2>1, <2>2, <2>3, <2>4, <2>5, <2>6, <2>7, <2>8, <2>9, <2>10, <2>11, <2>12 DEF SecStep
<1> QED
    BY <1>1, SocketAssumption

\* A command's result is fired, and the command has ended.
Fires(c, r) ==
  /\ Fire(r) /\ conn' = [conn EXCEPT ![c].cmd = None]
  /\ DOMAIN call' \subseteq Callers
  /\ \A d \in Conns \ {c} : d \in DOMAIN call' => d \in DOMAIN call
  /\ c \notin DOMAIN call'
  /\ left' = left /\ connections' = connections /\ socket' = socket /\ sent' = sent

\* It is a new one, and goes to those that are asking.
LEMMA ResultFired ==
  ASSUME SocketInv, NEW c \in Conns, NEW n, NEW ret, NEW r, r = Result(c, n, ret),
         Firing(c), Fires(c, r)
  PROVE  SocketInv'
<1>0. PICK V : Typed(V)
      BY DEF SocketInv, TypeInv
<1>1. /\ conn \in [Conns -> ConnOf(V)] /\ fired \in SUBSET V /\ socket \in Socket
      /\ owed \in [Conns -> SUBSET V] /\ sent \in [Conns -> SUBSET V] /\ left \in Left
      BY <1>0 DEF Typed, SocketInv, TypeInv
<1>2. /\ conn' = [conn EXCEPT ![c].cmd = None] /\ fired' = fired \cup {r}
      /\ left' = left /\ connections' = connections /\ socket' = socket /\ sent' = sent
      BY DEF Fires, Fire
<1>3. PICK W : W = V \cup {r, None}
      OBVIOUS
<1>4. V \subseteq W /\ None \in W /\ r \in W
      BY <1>3
<1>5. Becomes(c, W, conn[c].stage, conn[c].running, conn[c].sub, conn[c].has_event,
              conn[c].queue, None)
      BY <1>1, <1>2, <1>4, CmdIs
<1>6. /\ conn' \in [Conns -> ConnOf(W)] /\ conn'[c].cmd = None
      /\ \A d \in Conns \ {c} : conn'[d] = conn[d]
      /\ conn'[c].queue = conn[c].queue /\ conn'[c].stage = conn[c].stage
      /\ conn'[c].sub = conn[c].sub /\ conn'[c].has_event = conn[c].has_event
      BY <1>5 DEF Becomes
<1>7. ASSUME NEW d \in Conns
      PROVE  /\ conn'[d].queue = conn[d].queue /\ conn'[d].stage = conn[d].stage
             /\ conn'[d].sub = conn[d].sub /\ conn'[d].has_event = conn[d].has_event
             /\ conn'[d].cmd = conn[d].cmd \/ conn'[d].cmd = None
      BY <1>6
<1>8. /\ owed' \in [Conns -> SUBSET W]
      /\ \A d \in Conns : \/ owed'[d] = owed[d]
                          \/ /\ owed'[d] = owed[d] \cup {r}
                             /\ socket.bound /\ conn[d].stage = "listed" /\ conn[d].sub
  <2>1. owed' = [d \in Conns |-> owed[d] \cup
           (IF socket.bound /\ conn[d].stage = "listed" /\ conn[d].sub THEN {r} ELSE {})]
        BY DEF Fires, Fire
  <2> QED
      BY <2>1, <1>1, <1>4
<1>9. TypeInv'
  <2>1. Typed(W)'
        BY <1>1, <1>2, <1>4, <1>6, <1>8 DEF Typed
  <2>2. DOMAIN call' \subseteq Callers
        BY DEF Fires
  <2> QED
      BY <2>1, <2>2, <1>1, <1>2 DEF TypeInv, Left
<1>10. ListInv'
       BY <1>2, <1>7, ListStays DEF SocketInv
<1>11. CallInv'
  <2>1. ASSUME NEW d \in Conns
        PROVE  /\ conn'[d].cmd # None => conn'[d].stage = "listed"
               /\ d \in DOMAIN call' => conn'[d].cmd = [op |-> "secgw"]
    <3>1. CASE d = c
          BY <3>1, <1>6 DEF Fires
    <3>2. CASE d # c
          BY <3>2, <1>6 DEF Fires, SocketInv, CallInv
    <3> QED
        BY <3>1, <3>2
  <2> QED
      BY <2>1 DEF CallInv
<1>12. AskInv'
  <2>1. ASSUME NEW d \in Conns
        PROVE  /\ conn'[d].cmd # None /\ conn'[d].cmd.op = "event" => ~conn'[d].sub
               /\ conn'[d].sub => conn'[d].has_event
               /\ owed'[d] # {} => conn'[d].stage = "listed" /\ conn'[d].sub /\ socket'.bound
        BY <1>2, <1>7, <1>8 DEF SocketInv, AskInv
  <2> QED
      BY <2>1 DEF AskInv
<1>13. CommandsLeft \in Nat /\ CommandsLeft' = CommandsLeft
       BY <1>1, <1>2, SpendsNothing
<1>14. r.by = c /\ r.id = CommandsLeft /\ r \notin Known
  <2>1. r.by = c /\ r.id = CommandsLeft
        BY DEF Result
  <2>2. ASSUME r \in Known PROVE FALSE
    <3>1. r.id \in Nat /\ r.id > CommandsLeft
          BY <2>1, <2>2 DEF SocketInv, FreshInv
    <3> QED
        BY <3>1, <2>1, <1>13
  <2> QED
      BY <2>1, <2>2
<1>15. FreshInv'
  <2>1. Known' \subseteq Known \cup {r}
        BY <1>2, <1>7 DEF Known
  <2>2. \A d \in Conns : Firing(d)' => Firing(d)
        BY <1>7 DEF Firing
  <2>3. ~Firing(c)'
        BY <1>6 DEF Firing
  <2>4. ASSUME NEW x \in Known'
        PROVE  /\ x.id \in Nat /\ x.id >= CommandsLeft'
               /\ \A d \in Conns : x.by = d /\ Firing(d)' => x.id > CommandsLeft'
    <3>1. CASE x = r
          BY <3>1, <2>3, <1>13, <1>14
    <3>2. CASE x \in Known
          BY <3>2, <2>2, <1>13 DEF SocketInv, FreshInv
    <3> QED
        BY <3>1, <3>2, <2>1
  <2> QED
      BY <2>4 DEF FreshInv
<1>16. OnceInv'
  <2>1. ASSUME NEW d \in Conns
        PROVE  /\ \A i, j \in 1 .. Len(conn'[d].queue) :
                     conn'[d].queue[i] = conn'[d].queue[j] => i = j
               /\ ToSet(conn'[d].queue) \cap (sent'[d] \cup fired') = {} /\ sent'[d] \cap fired' = {}
               /\ owed'[d] \subseteq fired' \cup sent'[d] \cup ToSet(conn'[d].queue)
    <3>1. r \notin ToSet(conn[d].queue) /\ r \notin sent[d]
          BY <1>14 DEF Known
    <3>2. /\ \A i, j \in 1 .. Len(conn[d].queue) : conn[d].queue[i] = conn[d].queue[j] => i = j
          /\ ToSet(conn[d].queue) \cap (sent[d] \cup fired) = {} /\ sent[d] \cap fired = {}
          /\ owed[d] \subseteq fired \cup sent[d] \cup ToSet(conn[d].queue)
          BY DEF SocketInv, OnceInv
    <3>3. owed'[d] \subseteq owed[d] \cup {r}
          BY <1>8
    <3>4. conn'[d].queue = conn[d].queue
          BY <1>7
    <3> QED
        BY <3>1, <3>2, <3>3, <3>4, <1>2
  <2> QED
      BY <2>1 DEF OnceInv
<1> QED
    BY <1>9, <1>10, <1>11, <1>12, <1>15, <1>16 DEF SocketInv

\* siggw_fire_event: a result without a body is dropped.
LEMMA SiggwFireKeeps ==
  ASSUME SocketInv, NEW c \in Conns, siggw_fire_event(c)
  PROVE  SocketInv'
<1>1. PICK r : r = Result(c, conn[c].cmd.n, conn[c].cmd.ret)
      OBVIOUS
<1>2. /\ conn[c].cmd # None /\ conn[c].cmd.op = "fire"
      /\ conn' = [conn EXCEPT ![c].cmd = None] /\ left' = left
      /\ connections' = connections /\ socket' = socket /\ sent' = sent /\ call' = call
      BY DEF siggw_fire_event, tables, secgw
<1>3. (fired' = fired /\ owed' = owed) \/ Fire(r)
      BY <1>1 DEF siggw_fire_event
<1>4. Firing(c) /\ c \notin DOMAIN call
  <2>1. conn[c].cmd # [op |-> "secgw"]
        BY <1>2
  <2> QED
      BY <2>1, <1>2 DEF Firing, SocketInv, CallInv
<1>5. CASE Fire(r)
  <2>1. DOMAIN call' \subseteq Callers
        BY <1>2 DEF SocketInv, TypeInv
  <2>2. Fires(c, r)
        BY <2>1, <1>2, <1>4, <1>5 DEF Fires
  <2> QED
      BY <2>2, <1>1, <1>4, ResultFired
<1>6. CASE fired' = fired /\ owed' = owed
  <2>0. PICK V : Typed(V)
        BY DEF SocketInv, TypeInv
  <2>1. /\ conn \in [Conns -> ConnOf(V)] /\ owed \in [Conns -> SUBSET V]
        /\ socket \in Socket /\ left \in Left
        BY <2>0 DEF Typed, SocketInv, TypeInv
  <2>2. PICK W : W = V \cup {None}
        OBVIOUS
  <2>3. V \subseteq W /\ None \in W
        BY <2>2
  <2>4. Becomes(c, W, conn[c].stage, conn[c].running, conn[c].sub, conn[c].has_event,
                conn[c].queue, None)
        BY <2>1, <2>3, <1>2, CmdIs
  <2>5. ListInv'
    <3>1. conn'[c].stage = conn[c].stage /\ \A d \in Conns \ {c} : conn'[d] = conn[d]
          BY <2>4 DEF Becomes
    <3> QED
        BY <3>1, <1>2, ListStays DEF SocketInv
  <2>6. /\ left' \in Left /\ CommandsLeft \in Nat /\ CommandsLeft' \in Nat
        /\ CommandsLeft' <= CommandsLeft
        BY <2>1, <1>2, SpendsNothing
  <2>7. /\ conn[c].sub => conn[c].has_event
        /\ owed'[c] # {} => conn[c].stage = "listed" /\ conn[c].sub
        BY <1>6 DEF SocketInv, AskInv
  <2>8. /\ call' = call /\ fired' = fired /\ sent' = sent /\ owed' \in [Conns -> SUBSET V]
        /\ \A d \in Conns : owed'[d] \subseteq owed[d]
        /\ socket' \in Socket /\ socket'.bound = socket.bound
        BY <2>1, <1>2, <1>6
  <2> QED
      BY <2>0, <2>3, <2>4, <2>5, <2>6, <2>7, <2>8, <1>4, PlainStep
<1> QED
    BY <1>3, <1>5, <1>6

\* secgw_fire_event: a command of mod_ipsec always has a result.
LEMMA SecgwFireKeeps ==
  ASSUME SocketInv, NEW c \in Conns, secgw_fire_event(c)
  PROVE  SocketInv'
<1>1. PICK r : r = Result(c, <<>>, call[c].ret)
      OBVIOUS
<1>2. /\ c \in DOMAIN call /\ call' = Without(call, c) /\ Fire(r)
      /\ conn' = [conn EXCEPT ![c].cmd = None] /\ left' = left
      /\ connections' = connections /\ socket' = socket /\ sent' = sent
      BY <1>1 DEF secgw_fire_event, Running
<1>3. Firing(c)
  <2>1. conn[c].cmd = [op |-> "secgw"]
        BY <1>2 DEF SocketInv, CallInv
  <2>2. conn[c].cmd # None
        BY <2>1, SocketAssumption
  <2>3. conn[c].cmd.op = "secgw"
        BY <2>1
  <2> QED
      BY <2>2, <2>3 DEF Firing
<1>4. Fires(c, r)
  <2>1. DOMAIN call \subseteq Callers /\ c \in Callers
        BY SocketAssumption DEF SocketInv, TypeInv
  <2>2. /\ DOMAIN call' \subseteq Callers /\ c \notin DOMAIN call'
        /\ \A d \in Conns \ {c} : d \in DOMAIN call' => d \in DOMAIN call
        BY <2>1, <1>2 DEF Without
  <2> QED
      BY <2>2, <1>2 DEF Fires
<1> QED
    BY <1>1, <1>3, <1>4, ResultFired

-----------------------------------------------------------------------------
(* What happens elsewhere.                                                  *)

\* Set-ups, tunnels, files and mod_ipsec's commands under way touch no connection.
LEMMA SocketsStay ==
  ASSUME SocketInv, conn' = conn, connections' = connections, socket' = socket,
         fired' = fired, owed' = owed, sent' = sent,
         DOMAIN call' \subseteq Callers,
         \A d \in Conns : d \in DOMAIN call' => d \in DOMAIN call,
         left' \in Left, CommandsLeft \in Nat, CommandsLeft' \in Nat,
         CommandsLeft' <= CommandsLeft
  PROVE  SocketInv'
<1>1. TypeInv' /\ ListInv' /\ CallInv' /\ AskInv' /\ OnceInv'
      BY DEF SocketInv, TypeInv, Typed, ListInv, Links, Listed, Counted, CallInv, AskInv, OnceInv
<1>2. FreshInv'
  <2>1. Known' = Known
        BY DEF Known
  <2>2. \A d \in Conns : Firing(d)' => Firing(d)
        BY DEF Firing
  <2> QED
      BY <2>1, <2>2, FreshStays DEF SocketInv
<1> QED
    BY <1>1, <1>2 DEF SocketInv

\* A command of mod_ipsec goes on.
LEMMA SecgwGoesOnKeeps ==
  ASSUME SocketInv, NEW c \in Conns, secgw_goes_on(c)
  PROVE  SocketInv'
<1>1. /\ SecStep(c) /\ conn' = conn /\ connections' = connections /\ socket' = socket
      /\ fired' = fired /\ owed' = owed /\ sent' = sent /\ left' = left
      BY DEF secgw_goes_on, sockets
<1>2. DOMAIN call \subseteq Callers /\ left \in Left
      BY DEF SocketInv, TypeInv
<1>3. /\ left' \in Left /\ CommandsLeft \in Nat /\ CommandsLeft' \in Nat
      /\ CommandsLeft' <= CommandsLeft
      BY <1>1, <1>2, SpendsNothing
<1> QED
    BY <1>1, <1>2, <1>3, SecStepIs, SocketsStay

\* Set-ups and what reaches mod_ipsec from outside.
LEMMA OthersKeep ==
  ASSUME SocketInv, Setups \/ Reads \/ SecgwEvents
  PROVE  SocketInv'
<1>1. left \in Left /\ DOMAIN call \subseteq Callers
      BY DEF SocketInv, TypeInv
<1>2. /\ conn' = conn /\ connections' = connections /\ socket' = socket
      /\ fired' = fired /\ owed' = owed /\ sent' = sent
      BY DEF Setups, Reads, SecgwEvents, sockets
<1>3. call' = call
  <2>1. ASSUME SecgwEvents PROVE call' = call
        BY <2>1 DEF SecgwEvents, add_cert_file, CharonDies, CharonStarts, secgw_timer_callback,
           LoadAll, parseIkeEvent, Tunnels, verify_ike_info_to_db, save_ike_info_to_db,
           secgw_ike_conn_alarm
  <2> QED
      BY <2>1 DEF Setups, Reads, secgw
<1>4. \/ left' = left
      \/ \E what \in {"setups", "uploads", "restarts", "tunnels"} : Spend(what)
      BY DEF Setups, Reads, SecgwEvents
<1>5. /\ left' \in Left /\ CommandsLeft \in Nat /\ CommandsLeft' \in Nat
      /\ CommandsLeft' <= CommandsLeft
      BY <1>1, <1>4, SpendIs, SpendsNothing
<1> QED
    BY <1>1, <1>2, <1>3, <1>5, SocketsStay

\* A result is appended to a queue it is not in.
LEMMA AppendIs ==
  ASSUME NEW V, NEW s \in Seq(V), NEW r \in V, r \notin ToSet(s),
         \A i, j \in 1 .. Len(s) : s[i] = s[j] => i = j
  PROVE  /\ Append(s, r) \in Seq(V) /\ ToSet(Append(s, r)) = ToSet(s) \cup {r}
         /\ \A i, j \in 1 .. Len(Append(s, r)) : Append(s, r)[i] = Append(s, r)[j] => i = j
<1>1. PICK u : u = Append(s, r)
      OBVIOUS
<1>2. /\ u \in Seq(V) /\ Len(u) = Len(s) + 1 /\ Len(s) \in Nat
      /\ \A i \in 1 .. Len(s) : u[i] = s[i]
      /\ u[Len(s) + 1] = r
      BY <1>1
<1>3. \A i \in 1 .. Len(s) : s[i] # r
      BY DEF ToSet
<1>4. \A i \in 1 .. Len(u) : i \in 1 .. Len(s) \/ i = Len(s) + 1
      BY <1>2
<1>5. \A i, j \in 1 .. Len(u) : u[i] = u[j] => i = j
      BY <1>2, <1>3, <1>4
<1>6. ToSet(u) = ToSet(s) \cup {r}
  <2>1. DOMAIN u = 1 .. Len(u) /\ DOMAIN s = 1 .. Len(s)
        BY <1>2
  <2>2. ASSUME NEW x \in ToSet(u) PROVE x \in ToSet(s) \cup {r}
    <3>1. PICK i \in 1 .. Len(u) : u[i] = x
          BY <2>1 DEF ToSet
    <3> QED
        BY <3>1, <2>1, <1>2, <1>4 DEF ToSet
  <2>3. ASSUME NEW x \in ToSet(s) PROVE x \in ToSet(u)
    <3>1. PICK i \in 1 .. Len(s) : s[i] = x
          BY <2>1 DEF ToSet
    <3>2. i \in 1 .. Len(u) /\ u[i] = x
          BY <3>1, <1>2
    <3> QED
        BY <3>2, <2>1 DEF ToSet
  <2>4. r \in ToSet(u)
    <3>1. Len(s) + 1 \in 1 .. Len(u)
          BY <1>2
    <3> QED
        BY <3>1, <2>1, <1>2 DEF ToSet
  <2> QED
      BY <2>2, <2>3, <2>4
<1> QED
    BY <1>1, <1>2, <1>5, <1>6

\* handle_event: whoever is owed the result is on the list and asks for it, so it is
\* queued to it or, without room, owed no more.
LEMMA HandleKeeps ==
  ASSUME SocketInv, NEW r, handle_event(r)
  PROVE  SocketInv'
<1>0. PICK V : Typed(V)
      BY DEF SocketInv, TypeInv
<1>1. /\ conn \in [Conns -> ConnOf(V)] /\ fired \in SUBSET V /\ socket \in Socket
      /\ owed \in [Conns -> SUBSET V] /\ sent \in [Conns -> SUBSET V] /\ left \in Left
      BY <1>0 DEF Typed, SocketInv, TypeInv
<1>2. /\ r \in fired /\ fired' = fired \ {r} /\ left' = left
      /\ connections' = connections /\ socket' = socket /\ sent' = sent /\ call' = call
      BY DEF handle_event, tables, secgw
<1>3. PICK asking : asking = {c \in ToSet(connections) : conn[c].has_event /\ conn[c].sub}
      OBVIOUS
<1>4. PICK room : room = {c \in asking : Len(conn[c].queue) < MaxQueue}
      OBVIOUS
<1>5. \/ ~socket.bound /\ conn' = conn /\ owed' = owed
      \/ /\ socket.bound
         /\ conn' = [c \in Conns |-> IF c \in room
                       THEN [conn[c] EXCEPT !.queue = Append(@, r)] ELSE conn[c]]
         /\ owed' = [c \in Conns |-> IF c \in asking \ room THEN owed[c] \ {r} ELSE owed[c]]
      BY <1>3, <1>4 DEF handle_event
<1>6. /\ owed' \in [Conns -> SUBSET V] /\ \A c \in Conns : owed'[c] \subseteq owed[c]
      BY <1>1, <1>5
<1>7. ASSUME NEW c \in Conns
      PROVE  /\ conn[c].queue \in Seq(V) /\ r \notin ToSet(conn[c].queue) /\ r \notin sent[c]
             /\ \A i, j \in 1 .. Len(conn[c].queue) : conn[c].queue[i] = conn[c].queue[j] => i = j
             /\ ToSet(conn[c].queue) \cap (sent[c] \cup fired) = {} /\ sent[c] \cap fired = {}
             /\ owed[c] \subseteq fired \cup sent[c] \cup ToSet(conn[c].queue)
  <2>1. conn[c].queue \in Seq(V)
        BY <1>1 DEF ConnOf
  <2> QED
      BY <2>1, <1>2 DEF SocketInv, OnceInv
<1>8. ASSUME NEW c \in Conns
      PROVE  /\ conn'[c] \in ConnOf(V)
             /\ conn'[c].stage = conn[c].stage /\ conn'[c].sub = conn[c].sub
             /\ conn'[c].has_event = conn[c].has_event /\ conn'[c].cmd = conn[c].cmd
             /\ \/ conn'[c].queue = conn[c].queue
                   /\ (r \in owed[c] /\ socket.bound /\ c \in asking => r \notin owed'[c])
                \/ conn'[c].queue = Append(conn[c].queue, r)
  <2>1. CASE conn' = conn /\ ~socket.bound
        BY <2>1, <1>1
  <2>2. CASE socket.bound /\ c \in room
    <3>1. conn'[c] = [conn[c] EXCEPT !.queue = Append(conn[c].queue, r)]
          BY <2>2, <1>5
    <3>2. Append(conn[c].queue, r) \in Seq(V)
          BY <1>1, <1>2, <1>7
    <3>3. conn[c] \in ConnOf(V)
          BY <1>1
    <3> QED
        BY <3>1, <3>2, <3>3 DEF ConnOf
  <2>3. CASE socket.bound /\ c \notin room
    <3>1. conn'[c] = conn[c] /\ (c \in asking => owed'[c] = owed[c] \ {r})
          BY <2>3, <1>5
    <3> QED
        BY <3>1, <1>1
  <2> QED
      BY <2>1, <2>2, <2>3, <1>5
<1>9. conn' \in [Conns -> ConnOf(V)]
  <2>1. conn' = [c \in Conns |-> conn'[c]]
        BY <1>1, <1>5
  <2> QED
      BY <2>1, <1>8
<1>10. TypeInv'
  <2>1. Typed(V)'
        BY <1>1, <1>2, <1>6, <1>9 DEF Typed
  <2> QED
      BY <2>1, <1>2 DEF SocketInv, TypeInv, Left
<1>11. ListInv'
       BY <1>2, <1>8, ListStays DEF SocketInv
<1>12. CallInv'
       BY <1>2, <1>8 DEF SocketInv, CallInv
<1>13. AskInv'
  <2>1. ASSUME NEW d \in Conns
        PROVE  /\ conn'[d].cmd # None /\ conn'[d].cmd.op = "event" => ~conn'[d].sub
               /\ conn'[d].sub => conn'[d].has_event
               /\ owed'[d] # {} => conn'[d].stage = "listed" /\ conn'[d].sub /\ socket'.bound
    <3>1. owed'[d] # {} => owed[d] # {}
          BY <1>6
    <3> QED
        BY <3>1, <1>2, <1>8 DEF SocketInv, AskInv
  <2> QED
      BY <2>1 DEF AskInv
<1>14. ASSUME NEW c \in Conns
       PROVE  ToSet(conn'[c].queue) \subseteq ToSet(conn[c].queue) \cup {r}
  <2>1. r \in V
        BY <1>1, <1>2
  <2>2. ToSet(Append(conn[c].queue, r)) = ToSet(conn[c].queue) \cup {r}
        BY <2>1, <1>7, AppendIs
  <2> QED
      BY <2>2, <1>8
<1>15. FreshInv'
  <2>1. Known' \subseteq Known
        BY <1>2, <1>14 DEF Known
  <2>2. \A d \in Conns : Firing(d)' => Firing(d)
        BY <1>8 DEF Firing
  <2>3. CommandsLeft \in Nat /\ CommandsLeft' \in Nat /\ CommandsLeft' <= CommandsLeft
        BY <1>1, <1>2, SpendsNothing
  <2> QED
      BY <2>1, <2>2, <2>3, FreshStays DEF SocketInv
<1>16. ASSUME NEW c \in Conns, r \in owed[c] PROVE socket.bound /\ c \in asking
  <2>1. socket.bound /\ conn[c].stage = "listed" /\ conn[c].sub /\ conn[c].has_event
        BY <1>16 DEF SocketInv, AskInv
  <2>2. c \in Listed
        BY <2>1 DEF Listed
  <2>3. \E i \in 1 .. Len(connections) : connections[i] = c
        BY <2>2 DEF SocketInv, ListInv, Links
  <2>4. connections \in Seq(Conns)
        BY DEF SocketInv, ListInv, Links
  <2>5. c \in ToSet(connections)
        BY <2>3, <2>4 DEF ToSet
  <2> QED
      BY <2>1, <2>5, <1>3
<1>17. OnceInv'
  <2>1. ASSUME NEW d \in Conns
        PROVE  /\ \A i, j \in 1 .. Len(conn'[d].queue) :
                     conn'[d].queue[i] = conn'[d].queue[j] => i = j
               /\ ToSet(conn'[d].queue) \cap (sent'[d] \cup fired') = {} /\ sent'[d] \cap fired' = {}
               /\ owed'[d] \subseteq fired' \cup sent'[d] \cup ToSet(conn'[d].queue)
    <3>1. /\ r \notin ToSet(conn[d].queue) /\ r \notin sent[d]
          /\ \A i, j \in 1 .. Len(conn[d].queue) : conn[d].queue[i] = conn[d].queue[j] => i = j
          /\ ToSet(conn[d].queue) \cap (sent[d] \cup fired) = {} /\ sent[d] \cap fired = {}
          /\ owed[d] \subseteq fired \cup sent[d] \cup ToSet(conn[d].queue)
          BY <1>7
    <3>2. owed'[d] \subseteq owed[d] /\ fired' = fired \ {r} /\ sent'[d] = sent[d]
          BY <1>2, <1>6
    <3>3. CASE conn'[d].queue = conn[d].queue
                 /\ (r \in owed[d] /\ socket.bound /\ d \in asking => r \notin owed'[d])
      <4>1. r \notin owed'[d]
            BY <3>2, <3>3, <1>16
      <4> QED
          BY <4>1, <3>1, <3>2, <3>3
    <3>4. CASE conn'[d].queue = Append(conn[d].queue, r)
      <4>1. r \in V /\ conn[d].queue \in Seq(V)
            BY <1>1, <1>2, <1>7
      <4>2. /\ ToSet(conn'[d].queue) = ToSet(conn[d].queue) \cup {r}
            /\ \A i, j \in 1 .. Len(conn'[d].queue) :
                     conn'[d].queue[i] = conn'[d].queue[j] => i = j
        <5>u. PICK u : u = conn[d].queue
              OBVIOUS
        <5>1. u \in Seq(V) /\ r \in V /\ r \notin ToSet(u) /\ conn'[d].queue = Append(u, r)
              BY <4>1, <3>1, <3>4, <5>u
        <5>2. \A i, j \in 1 .. Len(u) : u[i] = u[j] => i = j
              BY <3>1, <5>u
        <5>3. /\ ToSet(Append(u, r)) = ToSet(u) \cup {r}
              /\ \A i, j \in 1 .. Len(Append(u, r)) : Append(u, r)[i] = Append(u, r)[j] => i = j
              BY <5>1, <5>2, AppendIs
        <5> QED
            BY <5>u, <5>1, <5>3
      <4> QED
          BY <4>2, <3>1, <3>2
    <3> QED
        BY <3>3, <3>4, <1>8
  <2> QED
      BY <2>1 DEF OnceInv
<1> QED
    BY <1>10, <1>11, <1>12, <1>13, <1>15, <1>17 DEF SocketInv

-----------------------------------------------------------------------------
(* Shutdown.                                                                *)

\* kill_connections tells connections to stop, nothing else.
LEMMA KillIs ==
  ASSUME NEW V, conn \in [Conns -> ConnOf(V)],
         conn' = [c \in Conns |-> IF c \in ToSet(connections)
                    THEN [conn[c] EXCEPT !.running = FALSE] ELSE conn[c]]
  PROVE  /\ conn' \in [Conns -> ConnOf(V)]
         /\ \A c \in Conns : /\ conn'[c].stage = conn[c].stage /\ conn'[c].sub = conn[c].sub
                             /\ conn'[c].has_event = conn[c].has_event
                             /\ conn'[c].queue = conn[c].queue /\ conn'[c].cmd = conn[c].cmd
<1>1. ASSUME NEW c \in Conns
      PROVE  /\ conn'[c] \in ConnOf(V)
             /\ conn'[c].stage = conn[c].stage /\ conn'[c].sub = conn[c].sub
             /\ conn'[c].has_event = conn[c].has_event
             /\ conn'[c].queue = conn[c].queue /\ conn'[c].cmd = conn[c].cmd
  <2>1. conn[c] \in ConnOf(V)
        OBVIOUS
  <2>2. PICK x : x = [conn[c] EXCEPT !.running = FALSE]
        OBVIOUS
  <2>3. /\ x \in ConnOf(V) /\ x.stage = conn[c].stage /\ x.sub = conn[c].sub
        /\ x.has_event = conn[c].has_event /\ x.queue = conn[c].queue /\ x.cmd = conn[c].cmd
        BY <2>1, <2>2 DEF ConnOf
  <2>4. conn'[c] = x \/ conn'[c] = conn[c]
        BY <2>2
  <2> QED
      BY <2>1, <2>3, <2>4
<1> QED
    BY <1>1

\* A step of the shutdown: connections keep all but whether they run, and nothing is
\* owed to anyone once handle_event is unbound.
LEMMA ShutdownStep ==
  ASSUME SocketInv, NEW V, Typed(V), conn' \in [Conns -> ConnOf(V)],
         \A c \in Conns : /\ conn'[c].stage = conn[c].stage /\ conn'[c].sub = conn[c].sub
                          /\ conn'[c].has_event = conn[c].has_event
                          /\ conn'[c].queue = conn[c].queue /\ conn'[c].cmd = conn[c].cmd,
         connections' = connections, fired' = fired, sent' = sent, call' = call,
         socket' \in Socket, socket'.threads = socket.threads,
         \/ owed' = owed /\ socket'.bound = socket.bound
         \/ owed' = [c \in Conns |-> {}],
         left' = left \/ Spend("shutdown")
  PROVE  SocketInv'
<1>1. /\ owed \in [Conns -> SUBSET V] /\ left \in Left /\ fired \in SUBSET V
      /\ sent \in [Conns -> SUBSET V]
      BY DEF Typed, SocketInv, TypeInv
<1>2. /\ left' \in Left /\ CommandsLeft \in Nat /\ CommandsLeft' \in Nat
      /\ CommandsLeft' <= CommandsLeft
      BY <1>1, SpendIs, SpendsNothing
<1>3. /\ owed' \in [Conns -> SUBSET V] /\ \A c \in Conns : owed'[c] \subseteq owed[c]
      /\ \A c \in Conns : owed'[c] # {} => socket'.bound = socket.bound
      BY <1>1
<1>4. TypeInv'
  <2>1. Typed(V)'
        BY <1>1, <1>3 DEF Typed
  <2> QED
      BY <2>1, <1>2 DEF SocketInv, TypeInv
<1>5. ListInv'
      BY ListStays DEF SocketInv
<1>6. CallInv'
      BY DEF SocketInv, CallInv
<1>7. AskInv'
  <2>1. ASSUME NEW d \in Conns
        PROVE  /\ conn'[d].cmd # None /\ conn'[d].cmd.op = "event" => ~conn'[d].sub
               /\ conn'[d].sub => conn'[d].has_event
               /\ owed'[d] # {} => conn'[d].stage = "listed" /\ conn'[d].sub /\ socket'.bound
    <3>1. owed'[d] # {} => owed[d] # {} /\ socket'.bound = socket.bound
          BY <1>3
    <3> QED
        BY <3>1 DEF SocketInv, AskInv
  <2> QED
      BY <2>1 DEF AskInv
<1>8. OnceInv' /\ Known' \subseteq Known
      BY <1>3, QueuesStay DEF SocketInv
<1>9. FreshInv'
  <2>1. \A d \in Conns : Firing(d)' => Firing(d)
        BY DEF Firing
  <2> QED
      BY <2>1, <1>2, <1>8, FreshStays DEF SocketInv
<1> QED
    BY <1>4, <1>5, <1>6, <1>7, <1>8, <1>9 DEF SocketInv

\* mod_eventsocket_shutdown.
LEMMA ShutdownKeeps ==
  ASSUME SocketInv, ShutdownStarts \/ Unbind \/ Kill \/ WaitThreads
  PROVE  SocketInv'
<1>0. PICK V : Typed(V)
      BY DEF SocketInv, TypeInv
<1>1. conn \in [Conns -> ConnOf(V)] /\ socket \in Socket
      BY <1>0 DEF Typed, SocketInv, TypeInv
<1>2. CASE ShutdownStarts
  <2>1. /\ Spend("shutdown") /\ socket' = [socket EXCEPT !.done = TRUE, !.shutdown = "unbind"]
        /\ conn' = conn /\ connections' = connections /\ fired' = fired /\ owed' = owed
        /\ sent' = sent /\ call' = call
        BY <1>2 DEF ShutdownStarts, tables, secgw
  <2>2. socket' \in Socket /\ socket'.threads = socket.threads /\ socket'.bound = socket.bound
        BY <2>1, <1>1 DEF Socket
  <2> QED
      BY <2>1, <2>2, <1>0, <1>1, ShutdownStep
<1>3. CASE Unbind
  <2>1. /\ socket' = [socket EXCEPT !.bound = FALSE, !.shutdown = "kill"]
        /\ conn' = conn /\ connections' = connections /\ fired' = fired
        /\ owed' = [c \in Conns |-> {}] /\ sent' = sent /\ call' = call /\ left' = left
        BY <1>3 DEF Unbind, tables, secgw
  <2>2. socket' \in Socket /\ socket'.threads = socket.threads
        BY <2>1, <1>1 DEF Socket
  <2> QED
      BY <2>1, <2>2, <1>0, <1>1, ShutdownStep
<1>4. CASE Kill
  <2>1. /\ kill_connections /\ socket' = [socket EXCEPT !.accepting = FALSE, !.shutdown = "wait"]
        /\ connections' = connections /\ fired' = fired /\ owed' = owed
        /\ sent' = sent /\ call' = call /\ left' = left
        BY <1>4 DEF Kill, tables, secgw
  <2>2. socket' \in Socket /\ socket'.threads = socket.threads /\ socket'.bound = socket.bound
        BY <2>1, <1>1 DEF Socket
  <2>3. /\ conn' \in [Conns -> ConnOf(V)]
        /\ \A c \in Conns : /\ conn'[c].stage = conn[c].stage /\ conn'[c].sub = conn[c].sub
                            /\ conn'[c].has_event = conn[c].has_event
                            /\ conn'[c].queue = conn[c].queue /\ conn'[c].cmd = conn[c].cmd
        BY <2>1, <1>1, KillIs DEF kill_connections
  <2> QED
      BY <2>1, <2>2, <2>3, <1>0, ShutdownStep
<1>5. CASE WaitThreads
  <2>1. /\ \/ socket' = [socket EXCEPT !.shutdown = "ended"] /\ conn' = conn
           \/ socket' = [socket EXCEPT !.waits = @ + 1] /\ kill_connections
        /\ connections' = connections /\ fired' = fired /\ owed' = owed
        /\ sent' = sent /\ call' = call /\ left' = left
        BY <1>5 DEF WaitThreads, tables, secgw
  <2>2. socket' \in Socket /\ socket'.threads = socket.threads /\ socket'.bound = socket.bound
    <3>1. socket.waits \in Nat
          BY <1>1 DEF Socket
    <3>2. socket.waits + 1 \in Nat
          BY <3>1
    <3> QED
        BY <3>2, <2>1, <1>1 DEF Socket
  <2>3. /\ conn' \in [Conns -> ConnOf(V)]
        /\ \A c \in Conns : /\ conn'[c].stage = conn[c].stage /\ conn'[c].sub = conn[c].sub
                            /\ conn'[c].has_event = conn[c].has_event
                            /\ conn'[c].queue = conn[c].queue /\ conn'[c].cmd = conn[c].cmd
    <3>1. CASE conn' = conn
          BY <3>1, <1>1
    <3>2. CASE kill_connections
          BY <3>2, <1>1, KillIs DEF kill_connections
    <3> QED
        BY <3>1, <3>2, <2>1
  <2> QED
      BY <2>1, <2>2, <2>3, <1>0, ShutdownStep
<1> QED
    BY <1>2, <1>3, <1>4, <1>5

-----------------------------------------------------------------------------
(* The theorems about the event socket.                                     *)

\* Nobody has come yet.
LEMMA SocketInit == Init => SocketInv
<1> SUFFICES ASSUME Init PROVE SocketInv
    OBVIOUS
<1>1. /\ conn = [c \in Conns |-> Off] /\ connections = <<>> /\ fired = {} /\ left \in Budgets
      /\ owed = [c \in Conns |-> {}] /\ sent = [c \in Conns |-> {}]
      /\ call = <<>>
      /\ socket = [done |-> FALSE, bound |-> TRUE, accepting |-> TRUE, threads |-> 0,
                   shutdown |-> "no", waits |-> 0]
      BY DEF Init, SecInit
<1>2. \A c \in Conns : /\ conn[c] = Off /\ conn[c].stage = "off" /\ conn[c].cmd = None
                       /\ ~conn[c].sub /\ conn[c].queue = <<>>
                       /\ owed[c] = {} /\ sent[c] = {}
      BY <1>1 DEF Off
<1>3. TypeInv
  <2>1. PICK V : V = {None}
        OBVIOUS
  <2>2. Off \in ConnOf(V)
    <3>1. <<>> \in Seq(V) /\ None \in V
          BY <2>1
    <3> QED
        BY <3>1 DEF Off, ConnOf, Stages
  <2>3. Typed(V)
        BY <2>2, <1>1 DEF Typed
  <2>4. left \in Left
        BY <1>1, SocketAssumption DEF Left
  <2>5. socket \in Socket
        BY <1>1 DEF Socket
  <2>6. DOMAIN call \subseteq Callers
        BY <1>1
  <2> QED
      BY <2>3, <2>4, <2>5, <2>6 DEF TypeInv
<1>4. ListInv
  <2>1. Listed = {} /\ Counted = {}
        BY <1>2 DEF Listed, Counted
  <2>2. Links(connections, Listed)
        BY <2>1, <1>1 DEF Links
  <2>3. IsFiniteSet({}) /\ Cardinality({}) = 0
        BY FS_EmptySet
  <2> QED
      BY <2>1, <2>2, <2>3, <1>1 DEF ListInv
<1>5. CallInv
      BY <1>1, <1>2, SocketAssumption DEF CallInv
<1>6. AskInv
      BY <1>2 DEF AskInv
<1>7. \A c \in Conns : ToSet(conn[c].queue) = {} /\ Len(conn[c].queue) = 0
      BY <1>2 DEF ToSet
<1>8. Known = {}
      BY <1>1, <1>2, <1>7 DEF Known
<1>9. FreshInv
      BY <1>8 DEF FreshInv
<1>10. OnceInv
       BY <1>1, <1>2, <1>7 DEF OnceInv
<1> QED
    BY <1>3, <1>4, <1>5, <1>6, <1>9, <1>10 DEF SocketInv

\* No step breaks it.
LEMMA SocketNext == SocketInv /\ [Next]_vars => SocketInv'
<1> SUFFICES ASSUME SocketInv, [Next]_vars PROVE SocketInv'
    OBVIOUS
<1>1. CASE UNCHANGED vars
  <2>1. /\ conn' = conn /\ connections' = connections /\ socket' = socket
        /\ fired' = fired /\ owed' = owed /\ sent' = sent /\ left' = left /\ call' = call
        BY <1>1 DEF vars, tables, sockets, secgw
  <2>2. left \in Left /\ DOMAIN call \subseteq Callers
        BY DEF SocketInv, TypeInv
  <2>3. /\ left' \in Left /\ CommandsLeft \in Nat /\ CommandsLeft' \in Nat
        /\ CommandsLeft' <= CommandsLeft
        BY <2>1, <2>2, SpendsNothing
  <2> QED
      BY <2>1, <2>2, <2>3, SocketsStay
<1>2. ASSUME NEW c \in Conns,
             \/ Accept(c) \/ Count(c) \/ add_conn(c) \/ SendQueued(c) \/ Exits(c)
             \/ \E want \in {"results", "others", "unknown"} : EventClears(c, want)
             \/ EventSets(c) \/ remove_conn(c) \/ release_connection(c) \/ Uncount(c)
             \/ \E m \in Changes : Change(c, m)
             \/ \E m \in Queries : Query(c, m)
             \/ QueryPage(c) \/ siggw_fire_event(c)
             \/ \E m \in SecChanges : secgw_starts(c, m, "secgw")
             \/ \E m \in SecLists : secgw_starts(c, m, "lists")
             \/ secgw_goes_on(c) \/ secgw_fire_event(c)
      PROVE  SocketInv'
  <2>1. CASE Accept(c)
        BY <2>1, AcceptKeeps
  <2>2. CASE Count(c)
        BY <2>2, CountKeeps
  <2>3. CASE add_conn(c)
        BY <2>3, AddKeeps
  <2>4. CASE SendQueued(c)
        BY <2>4, SendKeeps
  <2>5. CASE Exits(c)
        BY <2>5, ExitsKeeps
  <2>6. ASSUME NEW want, EventClears(c, want) PROVE SocketInv'
        BY <2>6, EventClearsKeeps
  <2>7. CASE EventSets(c)
        BY <2>7, EventSetsKeeps
  <2>8. CASE remove_conn(c)
        BY <2>8, RemoveKeeps
  <2>9. CASE release_connection(c)
        BY <2>9, ReleaseKeeps
  <2>10. CASE Uncount(c)
        BY <2>10, UncountKeeps
  <2>11. ASSUME NEW m, Change(c, m) PROVE SocketInv'
        BY <2>11, ChangeKeeps
  <2>12. ASSUME NEW m, Query(c, m) PROVE SocketInv'
        BY <2>12, QueryKeeps
  <2>13. CASE QueryPage(c)
        BY <2>13, QueryPageKeeps
  <2>14. CASE siggw_fire_event(c)
        BY <2>14, SiggwFireKeeps
  <2>15. ASSUME NEW m, secgw_starts(c, m, "secgw") PROVE SocketInv'
        BY <2>15, SecgwStartsKeeps
  <2>16. ASSUME NEW m, secgw_starts(c, m, "lists") PROVE SocketInv'
        BY <2>16, SecgwStartsKeeps
  <2>17. CASE secgw_goes_on(c)
        BY <2>17, SecgwGoesOnKeeps
  <2>18. CASE secgw_fire_event(c)
        BY <2>18, SecgwFireKeeps
  <2> QED
      BY <1>2, <2>1, <2>2, <2>3, <2>4, <2>5, <2>6, <2>7, <2>8, <2>9, <2>10, <2>11, <2>12,
         <2>13, <2>14, <2>15, <2>16, <2>17, <2>18
<1>3. ASSUME NEW r, handle_event(r) PROVE SocketInv'
      BY <1>3, HandleKeeps
<1>4. CASE ShutdownStarts \/ Unbind \/ Kill \/ WaitThreads
      BY <1>4, ShutdownKeeps
<1>5. CASE Setups \/ Reads \/ SecgwEvents
      BY <1>5, OthersKeep
<1> QED
    BY <1>1, <1>2, <1>3, <1>4, <1>5 DEF Next

\* The inductive invariant holds.
LEMMA SocketInvariant == Spec => []SocketInv
<1>1. Init => SocketInv
      BY SocketInit
<1>2. SocketInv /\ [Next]_vars => SocketInv'
      BY SocketNext
<1> QED
    BY <1>1, <1>2, PTL DEF Spec

\* Every connection handle_event and kill_connections meet on listener.connections is
\* between add_conn and remove_conn, whose queue and memory are not released, and none
\* is met twice; once shutdown has counted no thread, the list is empty.
THEOREM ListedAreLive == Spec => []ListedLive
<1>1. SocketInv => ListedLive
  <2> SUFFICES ASSUME SocketInv PROVE ListedLive
      OBVIOUS
  <2>1. /\ connections \in Seq(Conns) /\ DOMAIN connections = 1 .. Len(connections)
        /\ Len(connections) \in Nat
        BY DEF SocketInv, ListInv, Links
  <2>2. \A i \in 1 .. Len(connections) : connections[i] \in Listed
        BY <2>1 DEF SocketInv, ListInv, Links
  <2>3. \A c \in ToSet(connections) : conn[c].stage = "listed"
        BY <2>1, <2>2 DEF ToSet, Listed
  <2>4. IsInjective(connections)
        BY <2>1 DEF IsInjective, SocketInv, ListInv, Links
  <2>5. ASSUME socket.threads = 0 PROVE connections = <<>>
    <3>1. Counted = {}
          BY <2>5, FS_EmptySet DEF SocketInv, ListInv
    <3>2. Listed = {}
          BY <3>1 DEF Listed, Counted
    <3>3. Len(connections) = 0
          BY <2>1, <2>2, <3>2
    <3> QED
        BY <2>1, <3>3
  <2> QED
      BY <2>3, <2>4, <2>5 DEF ListedLive
<1> QED
    BY <1>1, SocketInvariant, PTL

\* A connection that is owed the result of a command - it asked for results when
\* siggw_fire_event or secgw_fire_event fired it, has not asked anew since, and had room
\* for it - has it queued or sent exactly once when handle_event is done with it.
THEOREM ResultsAlwaysReach == Spec => []ResultsReachSubscribers
<1>1. SocketInv => ResultsReachSubscribers
  <2> SUFFICES ASSUME SocketInv, NEW c \in Conns, NEW r \in owed[c] \ fired
               PROVE  Cardinality({i \in DOMAIN conn[c].queue : conn[c].queue[i] = r})
                        + (IF r \in sent[c] THEN 1 ELSE 0) = 1
      BY DEF ResultsReachSubscribers
  <2>1. PICK I : I = {i \in DOMAIN conn[c].queue : conn[c].queue[i] = r}
        OBVIOUS
  <2>2. PICK V : Typed(V)
        BY DEF SocketInv, TypeInv
  <2>3. conn[c].queue \in Seq(V)
        BY <2>2 DEF Typed, ConnOf
  <2>4. DOMAIN conn[c].queue = 1 .. Len(conn[c].queue)
        BY <2>3
  <2>5. r \in sent[c] \/ r \in ToSet(conn[c].queue)
        BY DEF SocketInv, OnceInv
  <2>6. CASE r \in sent[c]
    <3>1. r \notin ToSet(conn[c].queue)
          BY <2>6 DEF SocketInv, OnceInv
    <3>2. I = {}
          BY <3>1, <2>1 DEF ToSet
    <3>3. Cardinality(I) = 0
          BY <3>2, FS_EmptySet
    <3> QED
        BY <3>3, <2>1, <2>6
  <2>7. CASE r \notin sent[c]
    <3>1. PICK k \in DOMAIN conn[c].queue : conn[c].queue[k] = r
          BY <2>5, <2>7 DEF ToSet
    <3>2. \A i, j \in 1 .. Len(conn[c].queue) : conn[c].queue[i] = conn[c].queue[j] => i = j
          BY DEF SocketInv, OnceInv
    <3>3. I = {k}
          BY <3>1, <3>2, <2>1, <2>4
    <3>4. Cardinality(I) = 1
          BY <3>3, FS_Singleton
    <3> QED
        BY <3>4, <2>1, <2>7
  <2> QED
      BY <2>6, <2>7
<1> QED
    BY <1>1, SocketInvariant, PTL

-----------------------------------------------------------------------------
(* The set-ups: the inductive invariant.                                    *)

\* The fields of a set-up.
Fields == {"of", "gw", "plmn", "areas", "at", "param", "tas", "plmns", "said", "list",
           "seen", "faulted"}
IsSetup(j) == j = [x \in Fields |-> j[x]]

\* What each place leaves to be filled in, and whose place it is.
Places ==
  /\ job.of \in {Gnb, Amf}
  /\ job.at \in {"vgw", "bplmn", "param", "guami", "tacs", "slices", "over"}
  /\ job.at \in {"vgw", "bplmn", "param", "guami"} => job.of = Gnb
  /\ job.at = "tacs" => job.of = Amf
  /\ job.of = Gnb \/ job.at # "slices" => job.tas = {}
  /\ job.at \notin {"guami", "slices"} => job.plmns = {}
  /\ job.at = "slices" \/ job.said = "list" \/ job.list = {}
  /\ job.at # "over" => job.said = "nothing" /\ db \in job.seen

\* What has been read was in the tables meanwhile.
Meanwhile ==
  /\ job.at = "bplmn" => \E d \in job.seen : job.param \in QueryVgwParam(d, job.gw)
  /\ job.of = Gnb /\ (job.at \in {"param", "guami", "slices"} \/ job.said = "list") =>
        esm = job.plmn /\ \E d \in job.seen : Served(d, job)
  /\ \A b \in job.plmns : \E d \in job.seen : b \in PlmnsFor(d, job)
  /\ \A e \in job.list : \E d, k \in job.seen : \E b \in PlmnsFor(d, job) :
        b.plmn = e.plmn /\ e.slices = QueryPlmnNssai(k, job.gw, b.id) /\ e.slices # {}

\* While the tables stand still as d: the PLMNs taken, and how far their slices are.
Taken(d) == IF job.of = Gnb THEN QueryBplmn(d, job.gw)
            ELSE UNION {QueryTacPlmn(d, job.gw, ta) : ta \in QueryTacs(d, job.gw) \ job.tas}
Progress(d) ==
  /\ job.tas \subseteq QueryTacs(d, job.gw)
  /\ job.plmns \subseteq Taken(d)
  /\ job.of = Gnb => Taken(d) # {} /\ QueryGuami(d, job.gw) # {}
  /\ job.of = Amf => \A ta \in QueryTacs(d, job.gw) \ job.tas : QueryTacPlmn(d, job.gw, ta) # {}
  /\ \A b \in Taken(d) \ job.plmns :
        QueryPlmnNssai(d, job.gw, b.id) # {} /\ Entry(d, job.gw, b) \in job.list
  /\ \A e \in job.list : \E b \in Taken(d) : e = Entry(d, job.gw, b)
Steady(d) ==
  /\ job.at = "bplmn" => job.param \in QueryVgwParam(d, job.gw)
  /\ job.at \in {"param", "guami", "slices"} => Served(d, job)
  /\ job.at = "guami" => job.plmns # {} /\ job.plmns = QueryBplmn(d, job.gw)
  /\ job.at = "slices" => Progress(d)
  /\ job.at = "over" => /\ job.said = Due(d, job)
                        /\ job.said = "list" =>
                              job.list = {Entry(d, job.gw, b) : b \in PlmnsFor(d, job)}

\* A SELECT that failed leaves nothing to be said of the set-up.
SetupInv == job # None =>
  /\ IsSetup(job)
  /\ ~job.faulted =>
       /\ Places /\ Meanwhile
       /\ \A d \in job.seen :
            job.seen = {d} /\ Cardinality(QueryVgwParam(d, job.gw)) = 1 => Steady(d)

-----------------------------------------------------------------------------
(* What a step makes of a set-up.                                           *)

\* The set-up goes on with these values; what was asked, and what has been seen of the
\* tables, stay.
Proceeds(at, param, tas, plmns, said, list) ==
  /\ IsSetup(job')
  /\ job'.of = job.of /\ job'.gw = job.gw /\ job'.plmn = job.plmn /\ job'.areas = job.areas
  /\ job'.seen = job.seen /\ job'.faulted = job.faulted
  /\ job'.at = at /\ job'.param = param /\ job'.tas = tas /\ job'.plmns = plmns
  /\ job'.said = said /\ job'.list = list
\* A SELECT has failed.
Fails == IsSetup(job') /\ job'.faulted

\* One field is changed.
LEMMA FieldIs ==
  ASSUME NEW j, IsSetup(j), NEW f \in Fields, NEW v
  PROVE  /\ IsSetup([j EXCEPT ![f] = v])
         /\ [j EXCEPT ![f] = v][f] = v
         /\ \A g \in Fields \ {f} : [j EXCEPT ![f] = v][g] = j[g]
<1>1. DOMAIN j = Fields
      BY DEF IsSetup
<1> QED
    BY <1>1 DEF IsSetup

\* SELECT gives all rows, unless it fails.
LEMMA SelectIs ==
  ASSUME NEW X, NEW next, DOMAIN next = SUBSET X, NEW ends, Selects(next, ends),
         \A part \in SUBSET X : IsSetup(next[part]), IsSetup(ends)
  PROVE  Fails \/ job' = next[X]
<1>1. UNION DOMAIN next = X
      OBVIOUS
<1>2. "faulted" \in Fields
      BY DEF Fields
<1>3. CASE job' = next[X]
      BY <1>3
<1>4. ASSUME NEW part \in DOMAIN next, job' = [next[part] EXCEPT !.faulted = TRUE]
      PROVE  Fails
      BY <1>2, <1>4, FieldIs DEF Fails
<1>5. ASSUME job' = [ends EXCEPT !.faulted = TRUE] PROVE Fails
      BY <1>2, <1>5, FieldIs DEF Fails
<1>6. \/ job' = next[X]
      \/ \E part \in DOMAIN next \ {X} : job' = [next[part] EXCEPT !.faulted = TRUE]
      \/ job' = [ends EXCEPT !.faulted = TRUE]
  <2>1. PICK rows : rows = UNION DOMAIN next
        OBVIOUS
  <2>2. \/ job' = next[rows]
        \/ \E part \in DOMAIN next \ {rows} : job' = [next[part] EXCEPT !.faulted = TRUE]
        \/ job' = [ends EXCEPT !.faulted = TRUE]
        BY <2>1, Zenon DEF Selects
  <2>3. rows = X
        BY <1>1, <2>1
  <2> QED
      BY <2>2, <2>3, Zenon
<1> QED
    BY <1>3, <1>4, <1>5, <1>6

\* The set-up is over.
LEMMA OverIs ==
  ASSUME NEW j, IsSetup(j), NEW s
  PROVE  LET k == Over(j, s) IN
         /\ IsSetup(k)
         /\ k.of = j.of /\ k.gw = j.gw /\ k.plmn = j.plmn /\ k.areas = j.areas
         /\ k.seen = j.seen /\ k.faulted = j.faulted
         /\ k.at = "over" /\ k.param = None /\ k.tas = {} /\ k.plmns = {}
         /\ k.said = s /\ k.list = IF s = "list" THEN j.list ELSE {}
<1>1. DOMAIN j = Fields
      BY DEF IsSetup
<1> QED
    BY <1>1 DEF IsSetup, Over, Fields

\* HandlePlmn reads the gateway's own PLMN.
LEMMA VgwIs ==
  ASSUME IsSetup(job), HandlePlmn_Vgw
  PROVE  Fails \/ \E p \in QueryVgwParam(db, job.gw) :
                    Proceeds("bplmn", p, job.tas, job.plmns, job.said, job.list)
<1>1. DOMAIN job = Fields
      BY DEF IsSetup
<1>2. ASSUME NEW p, job' = [job EXCEPT !.at = "bplmn", !.param = p]
      PROVE  Proceeds("bplmn", p, job.tas, job.plmns, job.said, job.list)
      BY <1>1, <1>2 DEF IsSetup, Proceeds, Fields
<1>3. ASSUME NEW p, job' = [job EXCEPT !.at = "bplmn", !.param = p, !.faulted = TRUE]
      PROVE  Fails
      BY <1>1, <1>3 DEF IsSetup, Fails, Fields
<1>4. ASSUME job' = [Over(job, "failure") EXCEPT !.faulted = TRUE]
      PROVE  Fails
  <2>1. IsSetup(Over(job, "failure"))
        BY OverIs
  <2> QED
      BY <2>1, <1>4, FieldIs DEF Fails, Fields
<1> QED
    BY <1>2, <1>3, <1>4 DEF HandlePlmn_Vgw

\* HandlePlmn compares, and registers the gNB it serves.
LEMMA PlmnIs ==
  ASSUME IsSetup(job), HandlePlmn
  PROVE  \/ Fails
         \/ /\ job.plmn \in {job.param} \cup {r.plmn : r \in QueryBplmn(db, job.gw)} /\ job.areas
            /\ Proceeds("param", job.param, job.tas, job.plmns, job.said, job.list)
            /\ esm' = job.plmn
         \/ /\ ~(job.plmn \in {job.param} \cup {r.plmn : r \in QueryBplmn(db, job.gw)} /\ job.areas)
            /\ Proceeds("over", None, {}, {}, "failure", {})
<1> DEFINE X == QueryBplmn(db, job.gw)
           C(rows) == job.plmn \in {job.param} \cup {r.plmn : r \in rows} /\ job.areas
           E == [job EXCEPT !.at = "param"]
           next == [rows \in SUBSET X |-> IF C(rows) THEN E ELSE Over(job, "failure")]
<1>1. IsSetup(E) /\ E.at = "param" /\ \A g \in Fields \ {"at"} : E[g] = job[g]
      BY FieldIs DEF Fields
<1>2. IsSetup(Over(job, "failure"))
      BY OverIs
<1>3. Selects(next, Over(job, "failure"))
      BY DEF HandlePlmn
<1>4. esm' = IF job'.at = "param" THEN job.plmn ELSE esm
      BY DEF HandlePlmn
<1> HIDE DEF E, C
<1>5. Fails \/ job' = next[X]
      BY <1>1, <1>2, <1>3, SelectIs
<1>6. next[X] = IF C(X) THEN E ELSE Over(job, "failure")
      OBVIOUS
<1>7. CASE C(X) /\ job' = next[X]
  <2>1. job' = E
        BY <1>6, <1>7
  <2>2. Proceeds("param", job.param, job.tas, job.plmns, job.said, job.list)
        BY <2>1, <1>1 DEF Proceeds, Fields
  <2>3. esm' = job.plmn
        BY <2>1, <1>1, <1>4
  <2> QED
      BY <1>7, <2>2, <2>3 DEF C
<1>8. CASE ~C(X) /\ job' = next[X]
  <2>1. job' = Over(job, "failure")
        BY <1>6, <1>8
  <2>2. Proceeds("over", None, {}, {}, "failure", {})
        BY <2>1, OverIs DEF Proceeds
  <2> QED
      BY <1>8, <2>2 DEF C
<1> QED
    BY <1>5, <1>7, <1>8

\* The set-up ends without a word.
Silent == Proceeds("over", None, {}, {}, "nothing", {})

\* A SELECT whose rows the set-up cannot do without.
LEMMA TakeIs ==
  ASSUME IsSetup(job), NEW X, NEW next, DOMAIN next = SUBSET X,
         Selects(next, Over(job, "nothing")),
         \A rows \in SUBSET X : IsSetup(next[rows]), next[{}] = Over(job, "nothing")
  PROVE  Fails \/ (X = {} /\ Silent) \/ (X # {} /\ job' = next[X])
<1>1. IsSetup(Over(job, "nothing"))
      BY OverIs
<1>2. Fails \/ job' = next[X]
      BY <1>1, SelectIs
<1>3. ASSUME job' = Over(job, "nothing") PROVE Silent
      BY <1>3, OverIs DEF Proceeds, Silent
<1> QED
    BY <1>2, <1>3

\* SendNgSetupResponse reads the PLMNs.
LEMMA PlmnsIs ==
  ASSUME IsSetup(job), SendNgSetupResponse_Plmns
  PROVE  LET X == QueryBplmn(db, job.gw) IN
         \/ Fails \/ (X = {} /\ Silent)
         \/ X # {} /\ Proceeds("guami", job.param, job.tas, X, job.said, job.list)
<1> DEFINE X == QueryBplmn(db, job.gw)
           E(rows) == [job EXCEPT !.at = "guami", !.plmns = rows]
           next == [rows \in SUBSET X |-> IF rows = {} THEN Over(job, "nothing") ELSE E(rows)]
<1>1. ASSUME NEW rows
      PROVE  /\ IsSetup(E(rows))
             /\ job' = E(rows) => Proceeds("guami", job.param, job.tas, rows, job.said, job.list)
  <2>1. DOMAIN job = Fields
        BY DEF IsSetup
  <2> QED
      BY <2>1 DEF IsSetup, Proceeds, Fields
<1>2. IsSetup(Over(job, "nothing"))
      BY OverIs
<1>3. Selects(next, Over(job, "nothing"))
      BY DEF SendNgSetupResponse_Plmns
<1> HIDE DEF E
<1>4. /\ DOMAIN next = SUBSET X /\ next[{}] = Over(job, "nothing")
      /\ \A rows \in SUBSET X : IsSetup(next[rows])
      /\ X # {} => next[X] = E(X)
      BY <1>1, <1>2
<1> HIDE DEF next
<1>5. Fails \/ (X = {} /\ Silent) \/ (X # {} /\ job' = next[X])
      BY <1>3, <1>4, TakeIs
<1> QED
    BY <1>1, <1>4, <1>5

\* Then it reads the GUAMIs.
LEMMA GuamisIs ==
  ASSUME IsSetup(job), SendNgSetupResponse_Guamis
  PROVE  LET X == QueryGuami(db, job.gw) IN
         \/ Fails \/ (X = {} /\ Silent)
         \/ X # {} /\ Proceeds("slices", job.param, job.tas, job.plmns, job.said, job.list)
<1> DEFINE X == QueryGuami(db, job.gw)
           E == [job EXCEPT !.at = "slices"]
           next == [rows \in SUBSET X |-> IF rows = {} THEN Over(job, "nothing") ELSE E]
<1>1. /\ IsSetup(E)
      /\ job' = E => Proceeds("slices", job.param, job.tas, job.plmns, job.said, job.list)
  <2>1. DOMAIN job = Fields
        BY DEF IsSetup
  <2> QED
      BY <2>1 DEF IsSetup, Proceeds, Fields
<1>2. IsSetup(Over(job, "nothing"))
      BY OverIs
<1>3. Selects(next, Over(job, "nothing"))
      BY DEF SendNgSetupResponse_Guamis
<1> HIDE DEF E
<1>4. /\ DOMAIN next = SUBSET X /\ next[{}] = Over(job, "nothing")
      /\ \A rows \in SUBSET X : IsSetup(next[rows])
      /\ X # {} => next[X] = E
      BY <1>1, <1>2
<1> HIDE DEF next
<1>5. Fails \/ (X = {} /\ Silent) \/ (X # {} /\ job' = next[X])
      BY <1>3, <1>4, TakeIs
<1> QED
    BY <1>1, <1>4, <1>5

\* SendNgSetup reads the areas.
LEMMA AreasIs ==
  ASSUME IsSetup(job), SendNgSetup_Areas
  PROVE  LET X == QueryTacs(db, job.gw) IN
         \/ Fails \/ (X = {} /\ Silent)
         \/ X # {} /\ Proceeds("slices", job.param, X, job.plmns, job.said, job.list)
<1> DEFINE X == QueryTacs(db, job.gw)
           E(rows) == [job EXCEPT !.at = "slices", !.tas = rows]
           next == [rows \in SUBSET X |-> IF rows = {} THEN Over(job, "nothing") ELSE E(rows)]
<1>1. ASSUME NEW rows
      PROVE  /\ IsSetup(E(rows))
             /\ job' = E(rows) => Proceeds("slices", job.param, rows, job.plmns, job.said, job.list)
  <2>1. DOMAIN job = Fields
        BY DEF IsSetup
  <2> QED
      BY <2>1 DEF IsSetup, Proceeds, Fields
<1>2. IsSetup(Over(job, "nothing"))
      BY OverIs
<1>3. Selects(next, Over(job, "nothing"))
      BY DEF SendNgSetup_Areas
<1> HIDE DEF E
<1>4. /\ DOMAIN next = SUBSET X /\ next[{}] = Over(job, "nothing")
      /\ \A rows \in SUBSET X : IsSetup(next[rows])
      /\ X # {} => next[X] = E(X)
      BY <1>1, <1>2
<1> HIDE DEF next
<1>5. Fails \/ (X = {} /\ Silent) \/ (X # {} /\ job' = next[X])
      BY <1>3, <1>4, TakeIs
<1> QED
    BY <1>1, <1>4, <1>5

\* Then it reads the PLMNs of an area.
LEMMA AreaPlmnsIs ==
  ASSUME IsSetup(job), NEW ta, SendNgSetup_Plmns(ta)
  PROVE  LET X == QueryTacPlmn(db, job.gw, ta) IN
         \/ Fails \/ (X = {} /\ Silent)
         \/ X # {} /\ Proceeds(job.at, job.param, job.tas \ {ta}, X, job.said, job.list)
<1> DEFINE X == QueryTacPlmn(db, job.gw, ta)
           E(rows) == [job EXCEPT !.tas = @ \ {ta}, !.plmns = rows]
           next == [rows \in SUBSET X |-> IF rows = {} THEN Over(job, "nothing") ELSE E(rows)]
<1>1. ASSUME NEW rows
      PROVE  /\ IsSetup(E(rows))
             /\ job' = E(rows) => Proceeds(job.at, job.param, job.tas \ {ta}, rows, job.said, job.list)
  <2>1. DOMAIN job = Fields
        BY DEF IsSetup
  <2> QED
      BY <2>1 DEF IsSetup, Proceeds, Fields
<1>2. IsSetup(Over(job, "nothing"))
      BY OverIs
<1>3. Selects(next, Over(job, "nothing"))
      BY DEF SendNgSetup_Plmns
<1> HIDE DEF E
<1>4. /\ DOMAIN next = SUBSET X /\ next[{}] = Over(job, "nothing")
      /\ \A rows \in SUBSET X : IsSetup(next[rows])
      /\ X # {} => next[X] = E(X)
      BY <1>1, <1>2
<1> HIDE DEF next
<1>5. Fails \/ (X = {} /\ Silent) \/ (X # {} /\ job' = next[X])
      BY <1>3, <1>4, TakeIs
<1> QED
    BY <1>1, <1>4, <1>5

\* The slices of one PLMN are listed; after the last the message goes.
LEMMA SlicesIs ==
  ASSUME IsSetup(job), NEW b, ListSlices(b)
  PROVE  LET X == QueryPlmnNssai(db, job.gw, b.id)
             P == job.plmns \ {b}
             L == job.list \cup {[plmn |-> b.plmn, slices |-> X]} IN
         \/ Fails \/ (X = {} /\ Silent)
         \/ X # {} /\ P = {} /\ job.tas = {} /\ Proceeds("over", None, {}, {}, "list", L)
         \/ X # {} /\ ~(P = {} /\ job.tas = {}) /\ Proceeds(job.at, job.param, job.tas, P, job.said, L)
<1> DEFINE X == QueryPlmnNssai(db, job.gw, b.id)
           P == job.plmns \ {b}
           L(rows) == job.list \cup {[plmn |-> b.plmn, slices |-> rows]}
           J(rows) == [job EXCEPT !.plmns = @ \ {b},
                                  !.list = @ \cup {[plmn |-> b.plmn, slices |-> rows]}]
           E(rows) == IF J(rows).plmns = {} /\ J(rows).tas = {} THEN Over(J(rows), "list")
                      ELSE J(rows)
           next == [rows \in SUBSET X |-> IF rows = {} THEN Over(job, "nothing") ELSE E(rows)]
<1>1. ASSUME NEW rows
      PROVE  /\ IsSetup(J(rows)) /\ J(rows).plmns = P /\ J(rows).list = L(rows)
             /\ \A f \in Fields \ {"plmns", "list"} : J(rows)[f] = job[f]
  <2>1. DOMAIN job = Fields
        BY DEF IsSetup
  <2> QED
      BY <2>1 DEF IsSetup, Fields
<1> HIDE DEF J, L
<1>2. ASSUME NEW rows
      PROVE  /\ IsSetup(E(rows))
             /\ job' = E(rows) =>
                  IF P = {} /\ job.tas = {} THEN Proceeds("over", None, {}, {}, "list", L(rows))
                  ELSE Proceeds(job.at, job.param, job.tas, P, job.said, L(rows))
  <2>1. J(rows).tas = job.tas
        BY <1>1 DEF Fields
  <2>2. IsSetup(Over(J(rows), "list"))
        BY <1>1, OverIs
  <2>3. ASSUME job' = Over(J(rows), "list")
        PROVE  Proceeds("over", None, {}, {}, "list", L(rows))
        BY <2>3, <1>1, OverIs DEF Proceeds, Fields
  <2>4. ASSUME job' = J(rows)
        PROVE  Proceeds(job.at, job.param, job.tas, P, job.said, L(rows))
        BY <2>4, <1>1 DEF Proceeds, Fields
  <2> QED
      BY <2>1, <2>2, <2>3, <2>4, <1>1
<1>3. IsSetup(Over(job, "nothing"))
      BY OverIs
<1>4. Selects(next, Over(job, "nothing"))
      BY DEF ListSlices, J
<1> HIDE DEF E
<1>5. /\ DOMAIN next = SUBSET X /\ next[{}] = Over(job, "nothing")
      /\ \A rows \in SUBSET X : IsSetup(next[rows])
      /\ X # {} => next[X] = E(X)
      BY <1>2, <1>3
<1> HIDE DEF next
<1>6. Fails \/ (X = {} /\ Silent) \/ (X # {} /\ job' = next[X])
      BY <1>4, <1>5, TakeIs
<1> QED
    BY <1>2, <1>5, <1>6 DEF L

-----------------------------------------------------------------------------
(* Set-ups whose SELECTs all succeed.                                       *)

\* The tables give the gateway a PLMN of its own.
Certain(d) == Cardinality(QueryVgwParam(d, job.gw)) = 1

\* Then HandlePlmn compares with no other.
LEMMA OnePlmn ==
  ASSUME NEW d, Certain(d), NEW p \in QueryVgwParam(d, job.gw)
  PROVE  QueryVgwParam(d, job.gw) = {p}
<1> DEFINE found == {i \in DOMAIN d.vgw : d.vgw[i].gw = job.gw}
           own   == d.vgw[Max(found)].plmn
<1>1. QueryVgwParam(d, job.gw) = IF found = {} THEN Plmns \cup {None} ELSE {own}
      BY DEF QueryVgwParam
<1>2. IsFiniteSet(Plmns \cup {None}) /\ IsFiniteSet({own})
      BY TableAssumption, FS_AddElement, FS_Singleton
<1>3. IsFiniteSet(QueryVgwParam(d, job.gw))
      BY <1>1, <1>2
<1>4. PICK q : QueryVgwParam(d, job.gw) = {q}
      BY <1>3, FS_Singleton DEF Certain
<1> QED
    BY <1>4

\* An area with PLMNs is an area of the gateway.
LEMMA AreaOfPlmn ==
  ASSUME NEW d, NEW g, NEW ta, NEW b \in QueryTacPlmn(d, g, ta)
  PROVE  ta \in QueryTacs(d, g)
BY DEF QueryTacPlmn, QueryTacs

\* What was asked stays.
SameQuestion ==
  job'.of = job.of /\ job'.gw = job.gw /\ job'.plmn = job.plmn /\ job'.areas = job.areas

\* What a set-up should come to depends on that only.
LEMMA SameAnswer ==
  ASSUME SameQuestion, NEW d
  PROVE  /\ PlmnsFor(d, job)' = PlmnsFor(d, job) /\ Served(d, job)' = Served(d, job)
         /\ Complete(d, job)' = Complete(d, job) /\ Due(d, job)' = Due(d, job)
<1>1. PlmnsFor(d, job)' = PlmnsFor(d, job)
      BY DEF SameQuestion, PlmnsFor
<1>2. Served(d, job)' = Served(d, job)
      BY DEF SameQuestion, Served
<1>3. Complete(d, job)' = Complete(d, job)
      BY <1>1 DEF SameQuestion, Complete
<1> QED
    BY <1>1, <1>2, <1>3 DEF Due

\* A set-up of which a SELECT has failed, or that is none.
LEMMA FailsKeeps == Fails => SetupInv'
BY DEF Fails, SetupInv

\* A set-up is under way.
UnderWay == job # None /\ job.at # "over" /\ SetupInv

\* How a SELECT that succeeds keeps the invariant.
LEMMA SelectKeeps ==
  ASSUME UnderWay, IsSetup(job'), SameQuestion, job'.seen = job.seen, job'.faulted = job.faulted,
         Places /\ Meanwhile => Places' /\ Meanwhile',
         \A d : d = db /\ job.seen = {d} /\ Certain(d) /\ Places /\ Steady(d) => Steady(d)'
  PROVE  SetupInv'
<1> SUFFICES ASSUME ~job.faulted
             PROVE  /\ Places' /\ Meanwhile'
                    /\ \A d \in job.seen : job.seen = {d} /\ Certain(d) => Steady(d)'
    BY DEF SetupInv, SameQuestion, Certain
<1>1. /\ Places /\ Meanwhile
      /\ \A d \in job.seen : job.seen = {d} /\ Certain(d) => Steady(d)
      BY DEF UnderWay, SetupInv, Certain
<1>2. db \in job.seen
      BY <1>1 DEF UnderWay, Places
<1> QED
    BY <1>1, <1>2

\* The set-up ends in silence.
LEMMA SilentKeeps ==
  ASSUME UnderWay, Silent,
         \A d : d = db /\ Certain(d) /\ Places /\ Steady(d) => Due(d, job) = "nothing"
  PROVE  SetupInv'
<1>1. SameQuestion /\ IsSetup(job') /\ job'.seen = job.seen /\ job'.faulted = job.faulted
      BY DEF Silent, Proceeds, SameQuestion
<1>2. /\ job'.at = "over" /\ job'.said = "nothing" /\ job'.list = {} /\ job'.tas = {}
      /\ job'.plmns = {} /\ job'.of = job.of
      BY DEF Silent, Proceeds
<1>3. Places => Places'
      BY <1>2 DEF Places
<1>4. Meanwhile'
      BY <1>2 DEF Meanwhile
<1>5. ASSUME NEW d, d = db, Certain(d), Places, Steady(d) PROVE Steady(d)'
  <2>1. Due(d, job)' = "nothing"
        BY <1>1, <1>5, SameAnswer
  <2> QED
      BY <2>1, <1>2 DEF Steady
<1> QED
    BY <1>1, <1>3, <1>4, <1>5, SelectKeeps

\* The gateway's own PLMN is one the tables give it.
LEMMA VgwKeeps == UnderWay /\ HandlePlmn_Vgw => SetupInv'
<1> SUFFICES ASSUME UnderWay, HandlePlmn_Vgw PROVE SetupInv'
    OBVIOUS
<1>0. job.at = "vgw" /\ job.of = Gnb /\ db' = db /\ IsSetup(job)
      BY DEF HandlePlmn_Vgw, At, UnderWay, SetupInv
<1>1. CASE Fails
      BY <1>1, FailsKeeps
<1>2. ASSUME NEW p \in QueryVgwParam(db, job.gw),
             Proceeds("bplmn", p, job.tas, job.plmns, job.said, job.list)
      PROVE  SetupInv'
  <2>1. SameQuestion /\ IsSetup(job') /\ job'.seen = job.seen /\ job'.faulted = job.faulted
        BY <1>2 DEF Proceeds, SameQuestion
  <2>2. /\ job'.at = "bplmn" /\ job'.param = p /\ job'.tas = job.tas /\ job'.plmns = job.plmns
        /\ job'.said = job.said /\ job'.list = job.list /\ job'.of = job.of /\ job'.gw = job.gw
        BY <1>2 DEF Proceeds
  <2>3. Places => Places'
        BY <2>1, <2>2, <1>0 DEF Places
  <2>4. Places => Meanwhile'
    <3> SUFFICES ASSUME Places PROVE Meanwhile'
        OBVIOUS
    <3>1. job'.plmns = {} /\ job'.list = {} /\ job'.said = "nothing" /\ db \in job.seen
          BY <2>2, <1>0 DEF Places
    <3> QED
        BY <3>1, <2>1, <2>2, <1>2 DEF Meanwhile
  <2>5. ASSUME NEW d, d = db PROVE Steady(d)'
        BY <2>2, <2>5, <1>2 DEF Steady
  <2> QED
      BY <2>1, <2>3, <2>4, <2>5, SelectKeeps
<1> QED
    BY <1>0, <1>1, <1>2, VgwIs

\* Only a gNB that asks for a PLMN of the gateway is registered, and only it goes on.
LEMMA PlmnKeeps == UnderWay /\ HandlePlmn => SetupInv'
<1> SUFFICES ASSUME UnderWay, HandlePlmn PROVE SetupInv'
    OBVIOUS
<1> DEFINE X == QueryBplmn(db, job.gw)
           C == job.plmn \in {job.param} \cup {r.plmn : r \in X} /\ job.areas
<1>0. job.at = "bplmn" /\ job.of = Gnb /\ db' = db /\ IsSetup(job)
      BY DEF HandlePlmn, At, UnderWay, SetupInv
<1>s. \A d : Served(d, job) <=>
               job.areas /\ job.plmn \in QueryVgwParam(d, job.gw) \cup {b.plmn : b \in QueryBplmn(d, job.gw)}
      BY <1>0, TableAssumption DEF Served
<1>1. CASE Fails
      BY <1>1, FailsKeeps
<1>2. ASSUME C, Proceeds("param", job.param, job.tas, job.plmns, job.said, job.list), esm' = job.plmn
      PROVE  SetupInv'
  <2>1. SameQuestion /\ IsSetup(job') /\ job'.seen = job.seen /\ job'.faulted = job.faulted
        BY <1>2 DEF Proceeds, SameQuestion
  <2>2. /\ job'.at = "param" /\ job'.tas = job.tas /\ job'.plmns = job.plmns
        /\ job'.said = job.said /\ job'.list = job.list /\ job'.of = job.of /\ job'.gw = job.gw
        /\ job'.plmn = job.plmn
        BY <1>2 DEF Proceeds
  <2>3. Places => Places'
        BY <2>1, <2>2, <1>0 DEF Places
  <2>4. Places /\ Meanwhile => Meanwhile'
    <3> SUFFICES ASSUME Places, Meanwhile PROVE Meanwhile'
        OBVIOUS
    <3>1. job'.plmns = {} /\ job'.list = {} /\ db \in job.seen
          BY <2>2, <1>0 DEF Places
    <3>2. \E d \in job.seen : Served(d, job)
      <4>1. PICK d \in job.seen : job.param \in QueryVgwParam(d, job.gw)
            BY <1>0 DEF Meanwhile
      <4>2. CASE job.plmn = job.param
            BY <4>1, <4>2, <1>2, <1>s
      <4>3. CASE job.plmn \in {r.plmn : r \in X}
            BY <4>3, <3>1, <1>2, <1>s
      <4> QED
          BY <4>2, <4>3, <1>2
    <3>3. \E d \in job'.seen : Served(d, job)'
          BY <3>2, <2>1, SameAnswer
    <3> QED
        BY <3>1, <3>3, <2>2, <1>2 DEF Meanwhile
  <2>5. ASSUME NEW d, d = db, Certain(d), Steady(d) PROVE Steady(d)'
    <3>1. job.param \in QueryVgwParam(d, job.gw)
          BY <2>5, <1>0 DEF Steady
    <3>2. Served(d, job)
          BY <3>1, <2>5, <1>2, <1>s
    <3> QED
        BY <3>2, <2>1, <2>2, SameAnswer DEF Steady
  <2> QED
      BY <2>1, <2>3, <2>4, <2>5, SelectKeeps
<1>3. ASSUME ~C, Proceeds("over", None, {}, {}, "failure", {})
      PROVE  SetupInv'
  <2>1. SameQuestion /\ IsSetup(job') /\ job'.seen = job.seen /\ job'.faulted = job.faulted
        BY <1>3 DEF Proceeds, SameQuestion
  <2>2. /\ job'.at = "over" /\ job'.tas = {} /\ job'.plmns = {}
        /\ job'.said = "failure" /\ job'.list = {} /\ job'.of = job.of
        BY <1>3 DEF Proceeds
  <2>3. Places => Places'
        BY <2>2 DEF Places
  <2>4. Meanwhile'
        BY <2>2 DEF Meanwhile
  <2>5. ASSUME NEW d, d = db, Certain(d), Steady(d) PROVE Steady(d)'
    <3>1. QueryVgwParam(d, job.gw) = {job.param}
          BY <2>5, <1>0, OnePlmn DEF Steady
    <3>2. ~Served(d, job)
          BY <3>1, <2>5, <1>3, <1>s
    <3>3. Due(d, job)' = "failure"
          BY <3>2, <2>1, SameAnswer DEF Due
    <3> QED
        BY <3>3, <2>2 DEF Steady
  <2> QED
      BY <2>1, <2>3, <2>4, <2>5, SelectKeeps
<1> QED
    BY <1>0, <1>1, <1>2, <1>3, PlmnIs

\* The broadcast PLMNs are taken, or there are none.
LEMMA PlmnsKeeps == UnderWay /\ SendNgSetupResponse_Plmns => SetupInv'
<1> SUFFICES ASSUME UnderWay, SendNgSetupResponse_Plmns PROVE SetupInv'
    OBVIOUS
<1> DEFINE X == QueryBplmn(db, job.gw)
<1>0. job.at = "param" /\ job.of = Gnb /\ db' = db /\ esm' = esm /\ IsSetup(job)
      BY DEF SendNgSetupResponse_Plmns, At, UnderWay, SetupInv
<1>p. \A d : PlmnsFor(d, job) = QueryBplmn(d, job.gw)
      BY <1>0 DEF PlmnsFor
<1>1. CASE Fails
      BY <1>1, FailsKeeps
<1>2. CASE X = {} /\ Silent
  <2>1. ASSUME NEW d, d = db, Steady(d) PROVE Due(d, job) = "nothing"
    <3>1. Served(d, job)
          BY <2>1, <1>0 DEF Steady
    <3>2. ~Complete(d, job)
          BY <2>1, <1>2, <1>p DEF Complete
    <3> QED
        BY <3>1, <3>2 DEF Due
  <2> QED
      BY <1>2, <2>1, SilentKeeps
<1>3. CASE X # {} /\ Proceeds("guami", job.param, job.tas, X, job.said, job.list)
  <2>1. SameQuestion /\ IsSetup(job') /\ job'.seen = job.seen /\ job'.faulted = job.faulted
        BY <1>3 DEF Proceeds, SameQuestion
  <2>2. /\ job'.at = "guami" /\ job'.tas = job.tas /\ job'.plmns = X
        /\ job'.said = job.said /\ job'.list = job.list /\ job'.of = job.of /\ job'.gw = job.gw
        /\ job'.plmn = job.plmn
        BY <1>3 DEF Proceeds
  <2>3. Places => Places'
        BY <2>1, <2>2, <1>0 DEF Places
  <2>4. Places /\ Meanwhile => Meanwhile'
    <3> SUFFICES ASSUME Places, Meanwhile PROVE Meanwhile'
        OBVIOUS
    <3>1. job'.list = {} /\ db \in job.seen
          BY <2>2, <1>0 DEF Places
    <3>2. esm' = job.plmn /\ \E d \in job'.seen : Served(d, job)'
          BY <1>0, <2>1, SameAnswer DEF Meanwhile
    <3>3. \A b \in job'.plmns : \E d \in job'.seen : b \in PlmnsFor(d, job)'
      <4>1. PICK d \in job.seen : d = db
            BY <3>1
      <4> QED
          BY <4>1, <2>1, <2>2, <1>p, SameAnswer
    <3> QED
        BY <3>1, <3>2, <3>3, <2>1, <2>2, <1>0 DEF Meanwhile
  <2>5. ASSUME NEW d, d = db, Steady(d) PROVE Steady(d)'
    <3>1. Served(d, job)'
          BY <2>1, <2>5, <1>0, SameAnswer DEF Steady
    <3> QED
        BY <3>1, <2>2, <2>5, <1>3 DEF Steady
  <2> QED
      BY <2>1, <2>3, <2>4, <2>5, SelectKeeps
<1> QED
    BY <1>0, <1>1, <1>2, <1>3, PlmnsIs

\* So are the GUAMIs, which are not kept.
LEMMA GuamisKeeps == UnderWay /\ SendNgSetupResponse_Guamis => SetupInv'
<1> SUFFICES ASSUME UnderWay, SendNgSetupResponse_Guamis PROVE SetupInv'
    OBVIOUS
<1> DEFINE X == QueryGuami(db, job.gw)
<1>0. job.at = "guami" /\ job.of = Gnb /\ db' = db /\ esm' = esm /\ IsSetup(job)
      BY DEF SendNgSetupResponse_Guamis, At, UnderWay, SetupInv
<1>1. CASE Fails
      BY <1>1, FailsKeeps
<1>2. CASE X = {} /\ Silent
  <2>1. ASSUME NEW d, d = db, Steady(d) PROVE Due(d, job) = "nothing"
    <3>1. Served(d, job)
          BY <2>1, <1>0 DEF Steady
    <3>2. ~Complete(d, job)
          BY <2>1, <1>2, <1>0 DEF Complete
    <3> QED
        BY <3>1, <3>2 DEF Due
  <2> QED
      BY <1>2, <2>1, SilentKeeps
<1>3. CASE X # {} /\ Proceeds("slices", job.param, job.tas, job.plmns, job.said, job.list)
  <2>1. SameQuestion /\ IsSetup(job') /\ job'.seen = job.seen /\ job'.faulted = job.faulted
        BY <1>3 DEF Proceeds, SameQuestion
  <2>2. /\ job'.at = "slices" /\ job'.tas = job.tas /\ job'.plmns = job.plmns
        /\ job'.said = job.said /\ job'.list = job.list /\ job'.of = job.of /\ job'.gw = job.gw
        /\ job'.plmn = job.plmn
        BY <1>3 DEF Proceeds
  <2>3. Places => Places'
        BY <2>1, <2>2, <1>0 DEF Places
  <2>4. Places /\ Meanwhile => Meanwhile'
    <3> SUFFICES ASSUME Places, Meanwhile PROVE Meanwhile'
        OBVIOUS
    <3>1. job'.list = {}
          BY <2>2, <1>0 DEF Places
    <3>2. esm' = job.plmn /\ \E d \in job'.seen : Served(d, job)'
          BY <1>0, <2>1, SameAnswer DEF Meanwhile
    <3>3. \A b \in job'.plmns : \E d \in job'.seen : b \in PlmnsFor(d, job)'
          BY <2>1, <2>2, SameAnswer DEF Meanwhile
    <3> QED
        BY <3>1, <3>2, <3>3, <2>2 DEF Meanwhile
  <2>5. ASSUME NEW d, d = db, Places, Steady(d) PROVE Steady(d)'
    <3>1. Served(d, job)'
          BY <2>1, <2>5, <1>0, SameAnswer DEF Steady
    <3>2. /\ job'.plmns # {} /\ job'.plmns = QueryBplmn(d, job'.gw)
          /\ job'.tas = {} /\ job'.list = {} /\ job'.of = Gnb /\ Gnb # Amf
          BY <2>2, <2>5, <1>0, TableAssumption DEF Steady, Places
    <3>3. Taken(d)' = job'.plmns
          BY <3>2 DEF Taken
    <3>4. QueryGuami(d, job'.gw) # {}
          BY <2>2, <2>5, <1>3
    <3>5. Progress(d)'
          BY <3>2, <3>3, <3>4 DEF Progress
    <3> QED
        BY <3>1, <3>5, <2>2 DEF Steady
  <2> QED
      BY <2>1, <2>3, <2>4, <2>5, SelectKeeps
<1> QED
    BY <1>0, <1>1, <1>2, <1>3, GuamisIs

\* And the areas, of a set-up of the gateway's own.
LEMMA AreasKeeps == UnderWay /\ SendNgSetup_Areas => SetupInv'
<1> SUFFICES ASSUME UnderWay, SendNgSetup_Areas PROVE SetupInv'
    OBVIOUS
<1> DEFINE X == QueryTacs(db, job.gw)
<1>0. /\ job.at = "tacs" /\ job.of = Amf /\ Gnb # Amf
      /\ db' = db /\ esm' = esm /\ IsSetup(job)
      BY TableAssumption DEF SendNgSetup_Areas, At, UnderWay, SetupInv
<1>s. \A d : Served(d, job)
      BY <1>0 DEF Served
<1>1. CASE Fails
      BY <1>1, FailsKeeps
<1>2. CASE X = {} /\ Silent
  <2>1. ASSUME NEW d, d = db PROVE Due(d, job) = "nothing"
    <3>1. PlmnsFor(d, job) = {}
          BY <2>1, <1>0, <1>2 DEF PlmnsFor
    <3> QED
        BY <3>1, <1>s DEF Due, Complete
  <2> QED
      BY <1>2, <2>1, SilentKeeps
<1>3. CASE X # {} /\ Proceeds("slices", job.param, X, job.plmns, job.said, job.list)
  <2>1. SameQuestion /\ IsSetup(job') /\ job'.seen = job.seen /\ job'.faulted = job.faulted
        BY <1>3 DEF Proceeds, SameQuestion
  <2>2. /\ job'.at = "slices" /\ job'.tas = X /\ job'.plmns = job.plmns
        /\ job'.said = job.said /\ job'.list = job.list /\ job'.of = job.of /\ job'.gw = job.gw
        BY <1>3 DEF Proceeds
  <2>3. Places => Places'
        BY <2>1, <2>2, <1>0 DEF Places
  <2>4. Places => Meanwhile'
    <3> SUFFICES ASSUME Places PROVE Meanwhile'
        OBVIOUS
    <3>1. job'.list = {} /\ job'.plmns = {}
          BY <2>2, <1>0 DEF Places
    <3> QED
        BY <3>1, <2>2, <1>0 DEF Meanwhile
  <2>5. ASSUME NEW d, d = db, Places PROVE Steady(d)'
    <3>1. Served(d, job)'
          BY <2>1, <1>s, SameAnswer
    <3>2. /\ job'.tas = QueryTacs(d, job'.gw) /\ job'.list = {} /\ job'.plmns = {}
          /\ job'.of = Amf
          BY <2>2, <2>5, <1>0 DEF Places
    <3>3. Taken(d)' = {}
          BY <3>2, <1>0 DEF Taken
    <3>4. Progress(d)'
          BY <3>2, <3>3, <1>0 DEF Progress
    <3> QED
        BY <3>1, <3>4, <2>2 DEF Steady
  <2> QED
      BY <2>1, <2>3, <2>4, <2>5, SelectKeeps
<1> QED
    BY <1>0, <1>1, <1>2, <1>3, AreasIs

\* The PLMNs of the next area are taken when the slices of the last area's are listed.
LEMMA AreaPlmnsKeeps == \A ta : UnderWay /\ SendNgSetup_Plmns(ta) => SetupInv'
<1> SUFFICES ASSUME UnderWay, NEW ta, SendNgSetup_Plmns(ta) PROVE SetupInv'
    OBVIOUS
<1> DEFINE X == QueryTacPlmn(db, job.gw, ta)
<1>0. /\ job.at = "slices" /\ job.of = Amf /\ Gnb # Amf /\ job.plmns = {} /\ ta \in job.tas
      /\ db' = db /\ esm' = esm /\ IsSetup(job)
      BY TableAssumption DEF SendNgSetup_Plmns, At, UnderWay, SetupInv
<1>s. \A d : Served(d, job)
      BY <1>0 DEF Served
<1>1. CASE Fails
      BY <1>1, FailsKeeps
<1>2. CASE X = {} /\ Silent
  <2>1. ASSUME NEW d, d = db, Steady(d) PROVE Due(d, job) = "nothing"
    <3>1. ta \in QueryTacs(d, job.gw) /\ QueryTacPlmn(d, job.gw, ta) = {}
          BY <2>1, <1>0, <1>2 DEF Steady, Progress
    <3>2. ~Complete(d, job)
          BY <3>1, <1>0 DEF Complete
    <3> QED
        BY <3>2, <1>s DEF Due
  <2> QED
      BY <1>2, <2>1, SilentKeeps
<1>3. CASE X # {} /\ Proceeds(job.at, job.param, job.tas \ {ta}, X, job.said, job.list)
  <2>1. SameQuestion /\ IsSetup(job') /\ job'.seen = job.seen /\ job'.faulted = job.faulted
        BY <1>3 DEF Proceeds, SameQuestion
  <2>2. /\ job'.at = "slices" /\ job'.tas = job.tas \ {ta} /\ job'.plmns = X
        /\ job'.said = job.said /\ job'.list = job.list /\ job'.of = job.of /\ job'.gw = job.gw
        BY <1>0, <1>3 DEF Proceeds
  <2>3. Places => Places'
        BY <2>1, <2>2, <1>0 DEF Places
  <2>4. Places /\ Meanwhile => Meanwhile'
    <3> SUFFICES ASSUME Places, Meanwhile PROVE Meanwhile'
        OBVIOUS
    <3>1. db \in job.seen
          BY <1>0 DEF Places
    <3>2. X \subseteq PlmnsFor(db, job)
          BY <1>0, AreaOfPlmn DEF PlmnsFor
    <3>3. \A b \in job'.plmns : \E d \in job'.seen : b \in PlmnsFor(d, job)'
          BY <3>1, <3>2, <2>1, <2>2, SameAnswer
    <3>4. \A e \in job'.list : \E d, k \in job'.seen : \E b \in PlmnsFor(d, job)' :
             b.plmn = e.plmn /\ e.slices = QueryPlmnNssai(k, job'.gw, b.id) /\ e.slices # {}
          BY <2>1, <2>2, SameAnswer DEF Meanwhile
    <3> QED
        BY <3>3, <3>4, <2>2, <1>0 DEF Meanwhile
  <2>5. ASSUME NEW d, d = db, Steady(d) PROVE Steady(d)'
    <3>1. Served(d, job)'
          BY <2>1, <1>s, SameAnswer
    <3>2. Progress(d)
          BY <2>5, <1>0 DEF Steady
    <3>3. Taken(d)' = Taken(d) \cup X
      <4>1. QueryTacs(d, job.gw) \ (job.tas \ {ta}) = (QueryTacs(d, job.gw) \ job.tas) \cup {ta}
            BY <3>2, <1>0 DEF Progress
      <4> QED
          BY <4>1, <2>2, <2>5, <1>0 DEF Taken
    <3>4. Progress(d)'
      <4>1. job'.tas \subseteq QueryTacs(d, job'.gw)
            BY <3>2, <2>2 DEF Progress
      <4>2. job'.plmns \subseteq Taken(d)'
            BY <3>3, <2>2
      <4>3. \A t \in QueryTacs(d, job'.gw) \ job'.tas : QueryTacPlmn(d, job'.gw, t) # {}
            BY <3>2, <2>2, <2>5, <1>0, <1>3 DEF Progress
      <4>4. \A b \in Taken(d)' \ job'.plmns :
               QueryPlmnNssai(d, job'.gw, b.id) # {} /\ Entry(d, job'.gw, b) \in job'.list
            BY <3>2, <3>3, <2>2, <1>0 DEF Progress
      <4>5. \A e \in job'.list : \E b \in Taken(d)' : e = Entry(d, job'.gw, b)
            BY <3>2, <3>3, <2>2 DEF Progress
      <4> QED
          BY <4>1, <4>2, <4>3, <4>4, <4>5, <2>2, <1>0 DEF Progress
    <3> QED
        BY <3>1, <3>4, <2>2 DEF Steady
  <2> QED
      BY <2>1, <2>3, <2>4, <2>5, SelectKeeps
<1> QED
    BY <1>0, <1>1, <1>2, <1>3, AreaPlmnsIs

\* The slices of one PLMN more are listed; when those of the last are, the list is what
\* the tables say.
LEMMA SlicesKeeps == \A b : UnderWay /\ ListSlices(b) => SetupInv'
<1> SUFFICES ASSUME UnderWay, NEW b, ListSlices(b) PROVE SetupInv'
    OBVIOUS
<1> DEFINE X == QueryPlmnNssai(db, job.gw, b.id)
           P == job.plmns \ {b}
           L == job.list \cup {[plmn |-> b.plmn, slices |-> X]}
           ListOk(l) == \A e \in l : \E d, k \in job.seen : \E q \in PlmnsFor(d, job) :
              q.plmn = e.plmn /\ e.slices = QueryPlmnNssai(k, job.gw, q.id) /\ e.slices # {}
<1>0. /\ job.at = "slices" /\ b \in job.plmns
      /\ db' = db /\ esm' = esm /\ IsSetup(job)
      BY DEF ListSlices, UnderWay, SetupInv
<1>t. ASSUME NEW d, Steady(d) PROVE Progress(d) /\ Served(d, job) /\ Taken(d) \subseteq PlmnsFor(d, job)
      BY <1>0, <1>t DEF Steady, Taken, PlmnsFor
<1>l. ASSUME Places, Meanwhile, X # {} PROVE ListOk(L)
  <2>1. db \in job.seen
        BY <1>0, <1>l DEF Places
  <2>2. PICK d \in job.seen : b \in PlmnsFor(d, job)
        BY <1>0, <1>l DEF Meanwhile
  <2>3. ListOk(job.list)
        BY <1>l DEF Meanwhile
  <2>4. ListOk({[plmn |-> b.plmn, slices |-> X]})
        BY <2>1, <2>2, <1>l
  <2> QED
      BY <2>3, <2>4
<1>p. ASSUME NEW d, d = db, Steady(d), X # {}
      PROVE  /\ \A q \in Taken(d) \ P :
                   QueryPlmnNssai(d, job.gw, q.id) # {} /\ Entry(d, job.gw, q) \in L
             /\ \A e \in L : \E q \in Taken(d) : e = Entry(d, job.gw, q)
  <2>1. Progress(d)
        BY <1>p, <1>t
  <2>2. b \in Taken(d)
        BY <2>1, <1>0 DEF Progress
  <2>3. Entry(d, job.gw, b) = [plmn |-> b.plmn, slices |-> X]
        BY <1>p DEF Entry
  <2>4. \A q \in Taken(d) \ P : q = b \/ q \in Taken(d) \ job.plmns
        OBVIOUS
  <2>5. \A q \in Taken(d) \ P :
           QueryPlmnNssai(d, job.gw, q.id) # {} /\ Entry(d, job.gw, q) \in L
        BY <2>1, <2>3, <2>4, <1>p DEF Progress
  <2>6. \A e \in L : e \in job.list \/ e = Entry(d, job.gw, b)
        BY <2>3
  <2>7. \A e \in job.list : \E q \in Taken(d) : e = Entry(d, job.gw, q)
        BY <2>1 DEF Progress
  <2> HIDE DEF L
  <2> QED
      BY <2>2, <2>5, <2>6, <2>7
<1> HIDE DEF ListOk, L
<1>1. CASE Fails
      BY <1>1, FailsKeeps
<1>2. CASE X = {} /\ Silent
  <2>1. ASSUME NEW d, d = db, Steady(d) PROVE Due(d, job) = "nothing"
    <3>1. b \in PlmnsFor(d, job) /\ Served(d, job)
          BY <2>1, <1>0, <1>t DEF Progress
    <3>2. ~Complete(d, job)
          BY <3>1, <2>1, <1>2 DEF Complete
    <3> QED
        BY <3>1, <3>2 DEF Due
  <2> QED
      BY <1>2, <2>1, SilentKeeps
<1>3. CASE X # {} /\ P = {} /\ job.tas = {} /\ Proceeds("over", None, {}, {}, "list", L)
  <2>1. SameQuestion /\ IsSetup(job') /\ job'.seen = job.seen /\ job'.faulted = job.faulted
        BY <1>3 DEF Proceeds, SameQuestion
  <2>2. /\ job'.at = "over" /\ job'.tas = {} /\ job'.plmns = {}
        /\ job'.said = "list" /\ job'.list = L /\ job'.of = job.of /\ job'.gw = job.gw
        /\ job'.plmn = job.plmn
        BY <1>3 DEF Proceeds
  <2>3. Places => Places'
        BY <2>1, <2>2 DEF Places
  <2>4. Places /\ Meanwhile => Meanwhile'
    <3> SUFFICES ASSUME Places, Meanwhile PROVE Meanwhile'
        OBVIOUS
    <3>1. job'.of = Gnb => esm' = job.plmn /\ \E d \in job'.seen : Served(d, job)'
          BY <1>0, <2>1, <2>2, SameAnswer DEF Meanwhile
    <3>2. \A e \in job'.list : \E d, k \in job'.seen : \E q \in PlmnsFor(d, job)' :
             q.plmn = e.plmn /\ e.slices = QueryPlmnNssai(k, job'.gw, q.id) /\ e.slices # {}
          BY <1>l, <1>3, <2>1, <2>2, SameAnswer DEF ListOk
    <3> QED
        BY <3>1, <3>2, <2>2 DEF Meanwhile
  <2>5. ASSUME NEW d, d = db, Places, Steady(d) PROVE Steady(d)'
    <3>1. Progress(d) /\ Served(d, job)
          BY <2>5, <1>t
    <3>2. Taken(d) = PlmnsFor(d, job)
          BY <1>3 DEF Taken, PlmnsFor
    <3>3. \A q \in PlmnsFor(d, job) :
             QueryPlmnNssai(d, job.gw, q.id) # {} /\ Entry(d, job.gw, q) \in L
          BY <3>2, <2>5, <1>p, <1>3
    <3>4. \A e \in L : \E q \in PlmnsFor(d, job) : e = Entry(d, job.gw, q)
          BY <3>2, <2>5, <1>p, <1>3
    <3>5. L = {Entry(d, job.gw, q) : q \in PlmnsFor(d, job)}
          BY <3>3, <3>4
    <3>6. b \in PlmnsFor(d, job)
          BY <3>1, <3>2, <1>0 DEF Progress
    <3>7. Complete(d, job)
      <4>1. CASE job.of = Gnb
            BY <4>1, <3>1, <3>3, <3>6 DEF Complete, Progress
      <4>2. CASE job.of # Gnb
        <5>1. job.of = Amf
              BY <4>2, <2>5 DEF Places
        <5>2. \A ta \in QueryTacs(d, job.gw) : QueryTacPlmn(d, job.gw, ta) # {}
              BY <5>1, <3>1, <1>3 DEF Progress
        <5> QED
            BY <4>2, <5>2, <3>3, <3>6 DEF Complete
      <4> QED
          BY <4>1, <4>2
    <3>8. Due(d, job)' = "list"
          BY <3>1, <3>7, <2>1, SameAnswer DEF Due
    <3>9. job'.list = {Entry(d, job'.gw, q) : q \in PlmnsFor(d, job)'}
          BY <3>5, <2>1, <2>2, SameAnswer
    <3> QED
        BY <3>8, <3>9, <2>2 DEF Steady
  <2> QED
      BY <2>1, <2>3, <2>4, <2>5, SelectKeeps
<1>4. CASE X # {} /\ ~(P = {} /\ job.tas = {}) /\ Proceeds(job.at, job.param, job.tas, P, job.said, L)
  <2>1. SameQuestion /\ IsSetup(job') /\ job'.seen = job.seen /\ job'.faulted = job.faulted
        BY <1>4 DEF Proceeds, SameQuestion
  <2>2. /\ job'.at = "slices" /\ job'.tas = job.tas /\ job'.plmns = P
        /\ job'.said = job.said /\ job'.list = L /\ job'.of = job.of /\ job'.gw = job.gw
        /\ job'.plmn = job.plmn
        BY <1>0, <1>4 DEF Proceeds
  <2>3. Places => Places'
        BY <2>1, <2>2, <1>0 DEF Places
  <2>4. Places /\ Meanwhile => Meanwhile'
    <3> SUFFICES ASSUME Places, Meanwhile PROVE Meanwhile'
        OBVIOUS
    <3>1. job'.of = Gnb => esm' = job.plmn /\ \E d \in job'.seen : Served(d, job)'
          BY <1>0, <2>1, <2>2, SameAnswer DEF Meanwhile
    <3>2. \A e \in job'.list : \E d, k \in job'.seen : \E q \in PlmnsFor(d, job)' :
             q.plmn = e.plmn /\ e.slices = QueryPlmnNssai(k, job'.gw, q.id) /\ e.slices # {}
          BY <1>l, <1>4, <2>1, <2>2, SameAnswer DEF ListOk
    <3>3. \A q \in job'.plmns : \E d \in job'.seen : q \in PlmnsFor(d, job)'
          BY <2>1, <2>2, SameAnswer DEF Meanwhile
    <3> QED
        BY <3>1, <3>2, <3>3, <2>2 DEF Meanwhile
  <2>5. ASSUME NEW d, d = db, Steady(d) PROVE Steady(d)'
    <3>1. Progress(d) /\ Served(d, job)
          BY <2>5, <1>t
    <3>2. Taken(d)' = Taken(d)
          BY <2>2 DEF Taken
    <3>3. Served(d, job)'
          BY <3>1, <2>1, SameAnswer
    <3>4. /\ \A q \in Taken(d) \ P :
                QueryPlmnNssai(d, job.gw, q.id) # {} /\ Entry(d, job.gw, q) \in L
          /\ \A e \in L : \E q \in Taken(d) : e = Entry(d, job.gw, q)
          BY <2>5, <1>p, <1>4
    <3>5. P \subseteq Taken(d)
          BY <3>1 DEF Progress
    <3>6. Progress(d)'
          BY <3>1, <3>2, <3>4, <3>5, <2>2 DEF Progress
    <3> QED
        BY <3>3, <3>6, <2>2 DEF Steady
  <2> QED
      BY <2>1, <2>3, <2>4, <2>5, SelectKeeps
<1> QED
    BY <1>0, <1>1, <1>2, <1>3, <1>4, SlicesIs DEF L

-----------------------------------------------------------------------------
(* The other steps, and the theorem about the set-ups.                      *)

\* A set-up begins.
LEMMA AskedKeeps ==
  ASSUME NEW who \in {Gnb, Amf}, NEW g, NEW p, NEW areas, NEW at,
         at = IF who = Gnb THEN "vgw" ELSE "tacs", job' = Asked(who, g, p, areas, at), db' = db
  PROVE  SetupInv'
<1>1. IsSetup(job')
      BY DEF Asked, IsSetup, Fields
<1>2. /\ job'.of = who /\ job'.at = at /\ job'.tas = {} /\ job'.plmns = {}
      /\ job'.said = "nothing" /\ job'.list = {} /\ job'.seen = {db}
      BY DEF Asked
<1>3. Places'
      BY <1>2 DEF Places
<1>4. Meanwhile'
      BY <1>2 DEF Meanwhile
<1>5. \A d : Steady(d)'
      BY <1>2 DEF Steady
<1> QED
    BY <1>1, <1>3, <1>4, <1>5 DEF SetupInv

\* A command changes a table: there has been one more database.
LEMMA ChangeKeepsSetups ==
  ASSUME SetupInv, NEW v, db' = v, esm' = esm,
         job' = IF Idle THEN job ELSE [job EXCEPT !.seen = @ \cup {v}]
  PROVE  SetupInv'
<1>1. CASE Idle
  <2>1. job' = job /\ (job # None => job.at = "over")
        BY <1>1 DEF Idle
  <2>2. ASSUME job # None, Places PROVE Places'
        BY <2>1, <2>2 DEF Places
  <2>3. Meanwhile => Meanwhile'
        BY <2>1 DEF Meanwhile, Served, PlmnsFor
  <2>4. \A d : Steady(d) => Steady(d)'
        BY <2>1 DEF Steady, Progress, Taken
  <2> QED
      BY <2>1, <2>2, <2>3, <2>4 DEF SetupInv
<1>2. CASE ~Idle
  <2>0. job # None /\ job.at # "over" /\ IsSetup(job)
        BY <1>2 DEF Idle, SetupInv
  <2>1. /\ IsSetup(job') /\ job'.seen = job.seen \cup {v}
        /\ \A f \in Fields \ {"seen"} : job'[f] = job[f]
        BY <1>2, <2>0, FieldIs DEF Fields
  <2>2. /\ job'.at = job.at /\ job'.param = job.param /\ job'.tas = job.tas
        /\ job'.plmns = job.plmns /\ job'.said = job.said /\ job'.list = job.list
        /\ job'.of = job.of /\ job'.gw = job.gw /\ job'.plmn = job.plmn
        /\ job'.areas = job.areas /\ job'.faulted = job.faulted
        BY <2>1 DEF Fields
  <2>3. SameQuestion
        BY <2>2 DEF SameQuestion
  <2>4. Places => Places'
        BY <2>1, <2>2 DEF Places
  <2>5. ASSUME Meanwhile PROVE Meanwhile'
    <3>1. job'.at = "bplmn" => \E d \in job'.seen : job'.param \in QueryVgwParam(d, job'.gw)
          BY <2>1, <2>2, <2>5 DEF Meanwhile
    <3>2. job'.of = Gnb /\ (job'.at \in {"param", "guami", "slices"} \/ job'.said = "list") =>
             esm' = job'.plmn /\ \E d \in job'.seen : Served(d, job)'
          BY <2>1, <2>2, <2>3, <2>5, SameAnswer DEF Meanwhile
    <3>3. \A b \in job'.plmns : \E d \in job'.seen : b \in PlmnsFor(d, job)'
          BY <2>1, <2>2, <2>3, <2>5, SameAnswer DEF Meanwhile
    <3>4. ASSUME NEW e \in job'.list
          PROVE  \E d, k \in job'.seen : \E b \in PlmnsFor(d, job)' :
             b.plmn = e.plmn /\ e.slices = QueryPlmnNssai(k, job'.gw, b.id) /\ e.slices # {}
      <4>1. PICK d \in job.seen, k \in job.seen : \E b \in PlmnsFor(d, job) :
               b.plmn = e.plmn /\ e.slices = QueryPlmnNssai(k, job.gw, b.id) /\ e.slices # {}
            BY <2>2, <2>5 DEF Meanwhile
      <4>2. PlmnsFor(d, job)' = PlmnsFor(d, job) /\ job'.gw = job.gw
            BY <2>2, <2>3, SameAnswer
      <4>3. d \in job'.seen /\ k \in job'.seen
            BY <4>1, <2>1
      <4> QED
          BY <4>1, <4>2, <4>3
    <3> QED
        BY <3>1, <3>2, <3>3, <3>4 DEF Meanwhile
  <2>6. ASSUME NEW d, Steady(d) PROVE Steady(d)'
    <3>1. Served(d, job)' = Served(d, job)
          BY <2>3, SameAnswer
    <3>2. Taken(d)' = Taken(d)
          BY <2>2 DEF Taken
    <3>3. Progress(d) => Progress(d)'
          BY <3>2, <2>2 DEF Progress
    <3> QED
        BY <3>1, <3>3, <2>0, <2>2, <2>6 DEF Steady
  <2>7. ASSUME NEW d \in job'.seen, job'.seen = {d}, Places PROVE d \in job.seen /\ job.seen = {d}
    <3>1. db \in job.seen
          BY <2>0, <2>7 DEF Places
    <3> QED
        BY <3>1, <2>1, <2>7
  <2>8. SetupInv => /\ IsSetup(job)
                    /\ ~job.faulted => /\ Places /\ Meanwhile
                                       /\ \A d \in job.seen : job.seen = {d} /\ Certain(d) => Steady(d)
        BY <2>0 DEF SetupInv, Certain
  <2>9. ASSUME ~job'.faulted
        PROVE  /\ Places' /\ Meanwhile'
               /\ \A d \in job'.seen :
                     job'.seen = {d} /\ Cardinality(QueryVgwParam(d, job'.gw)) = 1 => Steady(d)'
    <3>1. /\ Places /\ Meanwhile
          /\ \A d \in job.seen : job.seen = {d} /\ Certain(d) => Steady(d)
          BY <2>2, <2>8, <2>9
    <3>2. ASSUME NEW d \in job'.seen, job'.seen = {d}, Cardinality(QueryVgwParam(d, job'.gw)) = 1
          PROVE  Steady(d)'
      <4>1. d \in job.seen /\ job.seen = {d} /\ Certain(d)
            BY <3>1, <3>2, <2>2, <2>7 DEF Certain
      <4> QED
          BY <4>1, <3>1, <2>6
    <3> QED
        BY <3>1, <3>2, <2>4, <2>5
  <2> QED
      BY <2>1, <2>9 DEF SetupInv
<1> QED
    BY <1>1, <1>2

\* What touches neither the tables nor the set-up.
LEMMA OthersKeepSetups == SetupInv /\ UNCHANGED <<db, esm, job>> => SetupInv'
BY DEF SetupInv, IsSetup, Places, Meanwhile, Steady, Progress, Taken

\* The first SELECT, or the next.
LEMMA LookupKeeps == SetupInv /\ Lookup => SetupInv'
<1> SUFFICES ASSUME SetupInv, Lookup PROVE SetupInv'
    OBVIOUS
<1>1. job # None /\ job.at # "over"
      BY DEF Lookup, At, HandlePlmn_Vgw, HandlePlmn, SendNgSetupResponse_Plmns,
             SendNgSetupResponse_Guamis, SendNgSetup_Areas, SendNgSetup_Plmns, ListSlices
<1>2. UnderWay
      BY <1>1 DEF UnderWay
<1> QED
    BY <1>2, VgwKeeps, PlmnKeeps, PlmnsKeeps, GuamisKeeps, AreasKeeps, AreaPlmnsKeeps,
       SlicesKeeps DEF Lookup

\* No step breaks it.
LEMMA SetupNext == SetupInv /\ [Next]_vars => SetupInv'
<1> SUFFICES ASSUME SetupInv, [Next]_vars PROVE SetupInv'
    OBVIOUS
<1>1. CASE UNCHANGED vars
      BY <1>1, OthersKeepSetups DEF vars, tables
<1>2. ASSUME NEW c \in Conns,
             \/ Accept(c) \/ Count(c) \/ add_conn(c) \/ SendQueued(c) \/ Exits(c)
             \/ \E want \in {"results", "others", "unknown"} : EventClears(c, want)
             \/ EventSets(c) \/ remove_conn(c) \/ release_connection(c) \/ Uncount(c)
      PROVE  SetupInv'
      BY <1>2, OthersKeepSetups DEF Accept, Count, add_conn, SendQueued, Exits, EventClears,
         EventSets, remove_conn, release_connection, Uncount, tables
<1>3. ASSUME NEW c \in Conns, NEW m, Change(c, m) PROVE SetupInv'
      BY <1>3, ChangeKeepsSetups DEF Change
<1>4. ASSUME NEW c \in Conns,
             \/ \E m \in Queries : Query(c, m)
             \/ QueryPage(c) \/ siggw_fire_event(c)
             \/ \E m \in SecChanges : secgw_starts(c, m, "secgw")
             \/ \E m \in SecLists : secgw_starts(c, m, "lists")
             \/ secgw_goes_on(c) \/ secgw_fire_event(c)
      PROVE  SetupInv'
      BY <1>4, OthersKeepSetups DEF Query, QueryPage, siggw_fire_event, secgw_starts,
         secgw_goes_on, secgw_fire_event, tables
<1>5. ASSUME NEW r, handle_event(r) PROVE SetupInv'
      BY <1>5, OthersKeepSetups DEF handle_event, tables
<1>6. CASE ShutdownStarts \/ Unbind \/ Kill \/ WaitThreads
      BY <1>6, OthersKeepSetups DEF ShutdownStarts, Unbind, Kill, WaitThreads, tables
<1>7. CASE Setups
  <2>1. ASSUME NEW g, SendNgSetup(g) PROVE SetupInv'
        BY <2>1, TableAssumption, AskedKeeps DEF SendNgSetup
  <2>2. ASSUME NEW g, NEW p, NEW areas, GNB_SetupReq(g, p, areas) PROVE SetupInv'
        BY <2>2, AskedKeeps DEF GNB_SetupReq
  <2> QED
      BY <1>7, <2>1, <2>2 DEF Setups
<1>8. CASE Reads
      BY <1>8, LookupKeeps DEF Reads
<1>9. CASE SecgwEvents
      BY <1>9, OthersKeepSetups DEF SecgwEvents
<1> QED
    BY <1>1, <1>2, <1>3, <1>4, <1>5, <1>6, <1>7, <1>8, <1>9 DEF Next

\* What GNB_SetupReq answers a gNB, and what SendNgSetup sends an AMF, is what the tables
\* say: while they stand still, all of it; when commands run between its SELECTs, still
\* no PLMN and no slices that were not in the tables meanwhile.
THEOREM SetupsAlwaysFollow == Spec => []SetupsFollowTables
<1>1. Init => SetupInv
      BY DEF Init, SetupInv
<1>2. SetupInv /\ [Next]_vars => SetupInv'
      BY SetupNext
<1>3. SetupInv => SetupsFollowTables
  <2> SUFFICES ASSUME SetupInv, job # None, job.at = "over", ~job.faulted
               PROVE  SetupsFollowTables
      BY DEF SetupsFollowTables
  <2>1. /\ Meanwhile
        /\ \A d \in job.seen :
             job.seen = {d} /\ Cardinality(QueryVgwParam(d, job.gw)) = 1 => Steady(d)
        BY DEF SetupInv
  <2>2. \A d \in job.seen : job.seen = {d} /\ Cardinality(QueryVgwParam(d, job.gw)) = 1 =>
           /\ job.said = Due(d, job)
           /\ job.said = "list" => job.list = {Entry(d, job.gw, b) : b \in PlmnsFor(d, job)}
        BY <2>1 DEF Steady
  <2> QED
      BY <2>1, <2>2 DEF SetupsFollowTables, Meanwhile
<1> QED
    BY <1>1, <1>2, <1>3, PTL DEF Spec
=============================================================================
