------------------------- MODULE EventDispatchProofs -------------------------
(***************************************************************************)
(* Theorems about the event core: the order of events, for any number of   *)
(* dispatchers, sources and firing threads and any queue capacity; its     *)
(* subscriptions and shutdown, for any event ids, callbacks and nodes.     *)
(***************************************************************************)
EXTENDS EventDispatch, SequenceTheorems, FiniteSetTheorems, TLAPS

-----------------------------------------------------------------------------
(* Events. *)

\* Stamping an event changes nothing else of it.
LEMMA Stamped ==
  ASSUME NEW e \in Event, NEW n \in Nat
  PROVE  /\ [e EXCEPT !.stamp = n] \in Event
         /\ [e EXCEPT !.stamp = n].stamp = n
         /\ [e EXCEPT !.stamp = n].source_id = e.source_id
BY DEF Event

\* An event has a source and a stamp.
LEMMA EventFields ==
  ASSUME NEW e \in Event
  PROVE  e.source_id \in AllSources /\ e.stamp \in Nat
BY DEF Event

\* What agc_event_fire is given is an event.
LEMMA NewEvent ==
  ASSUME NEW s \in AllSources, NEW id \in BindIds, NEW f \in FastEvents \cup {NULL},
         NEW cb \in BOOLEAN
  PROVE  [source_id |-> s, event_id |-> id, call_back |-> cb, fast |-> f, stamp |-> 0] \in Event
BY DEF Event

\* The queue of a source is a dispatcher.
LEMMA HomeType ==
  ASSUME NEW s \in Sources
  PROVE  s % MAX_DISPATCHER \in Dispatchers
BY EventAssumption DEF Dispatchers

\* Appending to a dispatch queue.
LEMMA AppendFacts ==
  ASSUME NEW q \in Seq(Event), NEW e \in Event
  PROVE  /\ Append(q, e) \in Seq(Event)
         /\ Len(Append(q, e)) = Len(q) + 1
         /\ \A i \in 1 .. Len(q) : Append(q, e)[i] = q[i]
         /\ Append(q, e)[Len(q) + 1] = e
OBVIOUS

\* Taking the first event of a queue that is not empty.
LEMMA TailFacts ==
  ASSUME NEW q \in Seq(Event), q # <<>>
  PROVE  /\ Tail(q) \in Seq(Event)
         /\ Head(q) = q[1] /\ Head(q) \in Event
         /\ Len(q) \in Nat \ {0}
         /\ Len(Tail(q)) = Len(q) - 1
         /\ \A i \in 1 .. Len(Tail(q)) : i + 1 \in 1 .. Len(q) /\ Tail(q)[i] = q[i + 1]
         /\ \A i \in 1 .. Len(q) :
              i = 1 \/ (i - 1 \in 1 .. Len(Tail(q)) /\ Tail(q)[i - 1] = q[i])
<1>1. /\ Tail(q) \in Seq(Event)
      /\ Head(q) = q[1] /\ Head(q) \in Event
      /\ Len(q) \in Nat \ {0}
      /\ Len(Tail(q)) = Len(q) - 1
      OBVIOUS
<1>2. \A i \in 1 .. Len(Tail(q)) : i + 1 \in 1 .. Len(q) /\ Tail(q)[i] = q[i + 1]
      OBVIOUS
<1>3. \A i \in 1 .. Len(q) : i = 1 \/ (i - 1 \in 1 .. Len(Tail(q)) /\ Tail(q)[i - 1] = q[i])
  <2> TAKE i \in 1 .. Len(q)
  <2>1. i # 1 => i - 1 \in 1 .. Len(Tail(q)) /\ (i - 1) + 1 = i
        BY <1>1
  <2> QED
      BY <1>2, <2>1
<1> QED
    BY <1>1, <1>2, <1>3

-----------------------------------------------------------------------------
(***************************************************************************)
(* The inductive invariant.                                                *)
(***************************************************************************)
Q == EVENT_DISPATCH_QUEUES
Slots(d) == 1 .. Len(Q[d])

\* The queues and the threads hold events.
QueueTypes ==
  /\ Q \in [Dispatchers -> Seq(Event)]
  /\ event \in [Dispatchers -> Event \cup {NULL}]
  /\ push \in [Threads -> [queue : Dispatchers, ev : Event] \cup {NULL}]
  /\ arrived \in [AllSources -> Nat]
  /\ taken \subseteq AllSources \X Nat

\* An event of a source is pushed to, queued at and delivered by the source's
\* dispatcher.
HomeInv ==
  /\ \A t \in Threads : push[t] # NULL /\ push[t].ev.source_id # EVENT_NULL_SOURCEID =>
       push[t].queue = push[t].ev.source_id % MAX_DISPATCHER
  /\ \A d \in Dispatchers : \A i \in Slots(d) : Q[d][i].source_id # EVENT_NULL_SOURCEID =>
       d = Q[d][i].source_id % MAX_DISPATCHER
  /\ \A d \in Dispatchers : event[d] # NULL /\ event[d].source_id # EVENT_NULL_SOURCEID =>
       d = event[d].source_id % MAX_DISPATCHER

\* Queued events have stamps that were given out, and in one queue the stamps of
\* a source increase.
StampInv ==
  /\ \A d \in Dispatchers : \A i \in Slots(d) : Q[d][i].stamp \in 1 .. arrived[Q[d][i].source_id]
  /\ \A d \in Dispatchers : \A i, j \in Slots(d) :
       i < j /\ Q[d][i].source_id = Q[d][j].source_id => Q[d][i].stamp < Q[d][j].stamp

\* An event of a source that has arrived was taken or is in the source's queue.
CompleteInv ==
  \A s \in Sources : \A k \in 1 .. arrived[s] :
    \/ <<s, k>> \in taken
    \/ \E i \in Slots(s % MAX_DISPATCHER) :
         Q[s % MAX_DISPATCHER][i].source_id = s /\ Q[s % MAX_DISPATCHER][i].stamp = k

OrderInv == QueueTypes /\ HomeInv /\ StampInv /\ CompleteInv /\ SourceOrder

-----------------------------------------------------------------------------
(* The steps that concern queues and events. *)

Quiet == UNCHANGED <<EVENT_DISPATCH_QUEUES, event, push, arrived, taken>>

\* agc_event_fire picked a queue for ev.
Fires(t, ev, d) ==
  /\ d \in QueueIndex(ev.source_id)
  /\ push' = [push EXCEPT ![t] = [queue |-> d, ev |-> ev]]
  /\ UNCHANGED <<EVENT_DISPATCH_QUEUES, event, arrived, taken, pc>>

\* Dispatcher d pops an event.
Pops(d) == TryPop(d) /\ EVENT_DISPATCH_QUEUES[d] # <<>>

\* Every step fires, pushes, pops, releases, or leaves queues and events alone.
LEMMA StepKinds ==
  ASSUME [Next]_vars
  PROVE  \/ Quiet
         \/ \E t \in Threads, ev \in Event : \E d \in Dispatchers : Fires(t, ev, d)
         \/ \E t \in Threads : Push(t)
         \/ \E d \in Dispatchers : Pops(d)
         \/ \E d \in Dispatchers : Release(d)
<1>q. \A s \in AllSources : QueueIndex(s) \subseteq Dispatchers
      BY HomeType DEF QueueIndex, AllSources
<1>1. CASE UNCHANGED vars
      BY <1>1 DEF vars, Quiet, threadVars, ghostVars
<1>2. ASSUME NEW t \in Threads, NEW ev \in Event, Fire(t, ev)
      PROVE  Quiet \/ \E d \in Dispatchers : Fires(t, ev, d)
  <2>1. ev.source_id \in AllSources
        BY EventFields
  <2> QED
      BY <1>2, <1>q, <2>1 DEF Fire, Fires, Quiet, threadVars
<1>3. ASSUME NEW t \in Threads, NEW s \in AllSources, NEW id \in BindIds, FireEvent(t, s, id)
      PROVE  Quiet \/ \E ev \in Event : \E d \in Dispatchers : Fires(t, ev, d)
  <2> DEFINE ev == [source_id |-> s, event_id |-> id, call_back |-> (id = EVENT_ID_ALL),
                    fast |-> NULL, stamp |-> 0]
  <2>1. ev \in Event
        BY NewEvent
  <2>2. Fire(t, ev)
        BY <1>3 DEF FireEvent
  <2> QED
      BY <1>2, <2>1, <2>2
<1>4. ASSUME NEW t \in Threads, NEW f \in FastEvents, FireFast(t, f)
      PROVE  Quiet \/ \E ev \in Event : \E d \in Dispatchers : Fires(t, ev, d)
  <2> DEFINE ev == [source_id |-> EVENT_NULL_SOURCEID, event_id |-> EVENT_ID_ALL,
                    call_back |-> TRUE, fast |-> f, stamp |-> 0]
  <2>1. ev \in Event
        BY NewEvent DEF AllSources, BindIds
  <2>2. Fire(t, ev)
        BY <1>4 DEF FireFast
  <2> QED
      BY <1>2, <2>1, <2>2
<1>5. ASSUME NEW d \in Dispatchers, DispatchThread(d)
      PROVE  Quiet \/ Pops(d) \/ Release(d)
      BY <1>5 DEF DispatchThread, ThreadStart, CheckRunning, TryPop, Pops, Deliver,
         CallbackReturn, NodeReturn, ThreadExit, Quiet, ghostVars
<1>6. CASE \/ \E n \in Nodes, id \in BindIds, cb \in Callbacks : Bind(n, id, cb)
           \/ \E n \in Nodes : Unbind(n)
           \/ \E cb \in Callbacks : UnbindCallback(cb)
      BY <1>6 DEF Bind, Unbind, UnbindCallback, SubStep, Quiet, threadVars, ghostVars
<1>7. CASE LaunchThread \/ Shutdown \/ ShutdownWait
      BY <1>7 DEF LaunchThread, Shutdown, ShutdownWait, MainStep, Quiet, ghostVars
<1> QED
    BY <1>1, <1>3, <1>4, <1>5, <1>6, <1>7 DEF Next

\* A push gives the event the next stamp of its source and the last place of its
\* queue.
LEMMA PushEffect ==
  ASSUME QueueTypes, NEW t \in Threads, Push(t)
  PROVE  \E d \in Dispatchers, e \in Event :
           LET s == e.source_id IN
           /\ push[t] # NULL /\ d = push[t].queue /\ s = push[t].ev.source_id
           /\ s \in AllSources
           /\ e.stamp = arrived[s] + 1
           /\ Q' = [Q EXCEPT ![d] = Append(Q[d], e)]
           /\ arrived' = [arrived EXCEPT ![s] = arrived[s] + 1]
           /\ push' = [push EXCEPT ![t] = NULL]
           /\ UNCHANGED <<event, taken, pc>>
<1> DEFINE d == push[t].queue
           s == push[t].ev.source_id
           e == [push[t].ev EXCEPT !.stamp = arrived[s] + 1]
<1>1. push[t] \in [queue : Dispatchers, ev : Event] /\ push[t] # NULL
      BY DEF Push, QueueTypes
<1>2. d \in Dispatchers /\ push[t].ev \in Event
      BY <1>1
<1>3. s \in AllSources
      BY <1>2, EventFields
<1>4. arrived[s] + 1 \in Nat
      BY <1>3 DEF QueueTypes
<1>5. e \in Event /\ e.stamp = arrived[s] + 1 /\ e.source_id = s
      BY <1>2, <1>4, Stamped
<1>6. /\ Q' = [Q EXCEPT ![d] = Append(Q[d], e)]
      /\ arrived' = [arrived EXCEPT ![s] = arrived[s] + 1]
      /\ push' = [push EXCEPT ![t] = NULL]
      /\ UNCHANGED <<event, taken, pc>>
      BY DEF Push, Q, threadVars
<1> HIDE DEF d, s, e
<1>7. d = push[t].queue /\ s = push[t].ev.source_id
      BY DEF d, s
<1> QED
    BY <1>1, <1>2, <1>3, <1>5, <1>6, <1>7

\* A pop takes the first event of the queue.
LEMMA PopEffect ==
  ASSUME QueueTypes, NEW d \in Dispatchers, Pops(d)
  PROVE  \E e \in Event :
           /\ Q[d] \in Seq(Event) /\ Q[d] # <<>> /\ e = Q[d][1]
           /\ Q' = [Q EXCEPT ![d] = Tail(Q[d])]
           /\ event' = [event EXCEPT ![d] = e]
           /\ taken' = taken \cup {<<e.source_id, e.stamp>>}
           /\ pc[d] = "pop"
           /\ UNCHANGED <<push, arrived>>
<1> DEFINE e == Head(Q[d])
<1>1. Q[d] \in Seq(Event) /\ Q[d] # <<>>
      BY DEF QueueTypes, Pops, Q
<1>2. e \in Event /\ e = Q[d][1]
      BY <1>1, TailFacts
<1>3. /\ Q' = [Q EXCEPT ![d] = Tail(Q[d])]
      /\ event' = [event EXCEPT ![d] = e]
      /\ taken' = taken \cup {<<e.source_id, e.stamp>>}
      /\ pc[d] = "pop"
      /\ UNCHANGED <<push, arrived>>
      BY DEF Pops, TryPop, Q, Goto
<1> HIDE DEF e
<1> QED
    BY <1>1, <1>2, <1>3

\* Where the events stand after a push.
LEMMA PushSlots ==
  ASSUME QueueTypes, NEW d \in Dispatchers, NEW e \in Event,
         Q' = [Q EXCEPT ![d] = Append(Q[d], e)]
  PROVE  /\ Len(Q[d]) \in Nat
         /\ \A c \in Dispatchers : \A i \in Slots(c)' :
              \/ i \in Slots(c) /\ Q'[c][i] = Q[c][i]
              \/ c = d /\ i = Len(Q[d]) + 1 /\ Q'[c][i] = e
         /\ \A c \in Dispatchers : \A i \in Slots(c) : i \in Slots(c)' /\ Q'[c][i] = Q[c][i]
         /\ Len(Q[d]) + 1 \in Slots(d)' /\ Q'[d][Len(Q[d]) + 1] = e
         /\ Len(Q'[d]) = Len(Q[d]) + 1 /\ Q'[d] \in Seq(Event)
         /\ \A c \in Dispatchers \ {d} : Q'[c] = Q[c]
<1>1. Q[d] \in Seq(Event) /\ Len(Q[d]) \in Nat
      BY DEF QueueTypes
<1>2. /\ Append(Q[d], e) \in Seq(Event)
      /\ Len(Append(Q[d], e)) = Len(Q[d]) + 1
      /\ \A i \in 1 .. Len(Q[d]) : Append(Q[d], e)[i] = Q[d][i]
      /\ Append(Q[d], e)[Len(Q[d]) + 1] = e
      BY <1>1, AppendFacts
<1>3. /\ Q'[d] = Append(Q[d], e)
      /\ \A c \in Dispatchers \ {d} : Q'[c] = Q[c]
      BY DEF QueueTypes
<1>4. \A c \in Dispatchers : \A i \in Slots(c)' :
        \/ i \in Slots(c) /\ Q'[c][i] = Q[c][i]
        \/ c = d /\ i = Len(Q[d]) + 1 /\ Q'[c][i] = e
      BY <1>1, <1>2, <1>3 DEF Slots
<1>5. \A c \in Dispatchers : \A i \in Slots(c) : i \in Slots(c)' /\ Q'[c][i] = Q[c][i]
      BY <1>1, <1>2, <1>3 DEF Slots
<1>6. Len(Q[d]) + 1 \in Slots(d)' /\ Q'[d][Len(Q[d]) + 1] = e
      BY <1>1, <1>2, <1>3 DEF Slots
<1> QED
    BY <1>1, <1>2, <1>3, <1>4, <1>5, <1>6

\* Where the events stand after a pop.
LEMMA PopSlots ==
  ASSUME QueueTypes, NEW d \in Dispatchers, Q[d] \in Seq(Event), Q[d] # <<>>,
         Q' = [Q EXCEPT ![d] = Tail(Q[d])]
  PROVE  /\ Len(Q[d]) \in Nat \ {0} /\ 1 \in Slots(d)
         /\ \A i \in Slots(d)' : i + 1 \in Slots(d) /\ Q'[d][i] = Q[d][i + 1]
         /\ \A i \in Slots(d) : i = 1 \/ (i - 1 \in Slots(d)' /\ Q'[d][i - 1] = Q[d][i])
         /\ Len(Q'[d]) = Len(Q[d]) - 1 /\ Q'[d] \in Seq(Event)
         /\ \A c \in Dispatchers \ {d} : Slots(c)' = Slots(c) /\ Q'[c] = Q[c]
<1>1. /\ Tail(Q[d]) \in Seq(Event)
      /\ Len(Q[d]) \in Nat \ {0}
      /\ Len(Tail(Q[d])) = Len(Q[d]) - 1
      /\ \A i \in 1 .. Len(Tail(Q[d])) :
           i + 1 \in 1 .. Len(Q[d]) /\ Tail(Q[d])[i] = Q[d][i + 1]
      /\ \A i \in 1 .. Len(Q[d]) :
           i = 1 \/ (i - 1 \in 1 .. Len(Tail(Q[d])) /\ Tail(Q[d])[i - 1] = Q[d][i])
      BY TailFacts
<1>2. /\ Q'[d] = Tail(Q[d])
      /\ \A c \in Dispatchers \ {d} : Q'[c] = Q[c]
      BY DEF QueueTypes
<1>3. \A i \in Slots(d)' : i + 1 \in Slots(d) /\ Q'[d][i] = Q[d][i + 1]
      BY <1>1, <1>2 DEF Slots
<1>4. \A i \in Slots(d) : i = 1 \/ (i - 1 \in Slots(d)' /\ Q'[d][i - 1] = Q[d][i])
      BY <1>1, <1>2 DEF Slots
<1>5. \A c \in Dispatchers \ {d} : Slots(c)' = Slots(c) /\ Q'[c] = Q[c]
      BY <1>2 DEF Slots
<1>6. 1 \in Slots(d)
      BY <1>1 DEF Slots
<1> QED
    BY <1>1, <1>2, <1>3, <1>4, <1>5, <1>6

-----------------------------------------------------------------------------
(* Order. *)

\* The invariant holds when agc_event_init has run.
LEMMA OrderInit == Init => OrderInv
<1> SUFFICES ASSUME Init PROVE OrderInv
    OBVIOUS
<1>1. QueueTypes
      BY DEF Init, QueueTypes, Q
<1>2. HomeInv
      BY DEF Init, HomeInv, Q, Slots
<1>3. StampInv
      BY DEF Init, StampInv, Q, Slots
<1>4. CompleteInv /\ SourceOrder
      BY DEF Init, CompleteInv, SourceOrder, AllSources
<1> QED
    BY <1>1, <1>2, <1>3, <1>4 DEF OrderInv

\* A push keeps the order.
LEMMA OrderPush ==
  ASSUME OrderInv, NEW t \in Threads, Push(t)
  PROVE  OrderInv'
<1>i. QueueTypes /\ HomeInv /\ StampInv /\ CompleteInv /\ SourceOrder
      BY DEF OrderInv
<1>e. PICK d \in Dispatchers, e \in Event :
           LET s == e.source_id IN
           /\ push[t] # NULL /\ d = push[t].queue /\ s = push[t].ev.source_id
           /\ s \in AllSources
           /\ e.stamp = arrived[s] + 1
           /\ Q' = [Q EXCEPT ![d] = Append(Q[d], e)]
           /\ arrived' = [arrived EXCEPT ![s] = arrived[s] + 1]
           /\ push' = [push EXCEPT ![t] = NULL]
           /\ UNCHANGED <<event, taken, pc>>
      BY <1>i, PushEffect
<1> DEFINE s == e.source_id
           n == Len(Q[d])
<1>q. /\ n \in Nat
      /\ \A c \in Dispatchers \ {d} : Q'[c] = Q[c]
      /\ Q'[d] \in Seq(Event)
      BY <1>e, <1>i, PushSlots
\* Every slot of the next state is an old one or the new last one.
<1>s. \A c \in Dispatchers : \A i \in Slots(c)' :
        \/ i \in Slots(c) /\ Q'[c][i] = Q[c][i]
        \/ c = d /\ i = n + 1 /\ Q'[c][i] = e
      BY <1>e, <1>i, PushSlots
<1>t. \A c \in Dispatchers : \A i \in Slots(c) : i \in Slots(c)' /\ Q'[c][i] = Q[c][i]
      BY <1>e, <1>i, PushSlots
<1>l. n + 1 \in Slots(d)' /\ Q'[d][n + 1] = e
  <2>1. QueueTypes /\ Q' = [Q EXCEPT ![d] = Append(Q[d], e)] /\ e \in Event
        BY <1>e, <1>i
  <2> QED
      BY <2>1, PushSlots
<1>n. arrived[s] \in Nat
      BY <1>e, <1>i DEF QueueTypes
<1>r. /\ arrived'[s] = arrived[s] + 1
      /\ \A u \in AllSources \ {s} : arrived'[u] = arrived[u]
      BY <1>e, <1>i DEF QueueTypes
<1>v. \A c \in Dispatchers : \A i \in Slots(c) :
         Q[c][i].source_id \in AllSources /\ Q[c][i].stamp \in Nat
  <2> TAKE c \in Dispatchers
  <2> TAKE i \in Slots(c)
  <2>1. Q[c][i] \in Event
        BY <1>i DEF QueueTypes, Slots
  <2> QED
      BY <2>1, EventFields
<1>1. QueueTypes'
      BY <1>e, <1>q, <1>n, <1>i DEF QueueTypes
<1>2. HomeInv'
  <2>1. \A u \in Threads : push'[u] # NULL => push'[u] = push[u]
        BY <1>e, <1>i DEF QueueTypes
  <2>2. s # EVENT_NULL_SOURCEID => d = s % MAX_DISPATCHER
        BY <1>e, <1>i DEF HomeInv
  <2> HIDE DEF s, n
  <2>3. \A c \in Dispatchers : \A i \in Slots(c)' : Q'[c][i].source_id # EVENT_NULL_SOURCEID =>
          c = Q'[c][i].source_id % MAX_DISPATCHER
        BY <1>s, <2>2, <1>i DEF HomeInv, s
  <2>4. \A c \in Dispatchers : event'[c] = event[c]
        BY <1>e
  <2> QED
      BY <2>1, <2>3, <2>4, <1>i DEF HomeInv
<1>3. StampInv'
  <2>1. \A c \in Dispatchers : \A i \in Slots(c)' :
          Q'[c][i].stamp \in 1 .. arrived'[Q'[c][i].source_id]
    <3> SUFFICES ASSUME NEW c \in Dispatchers, NEW i \in Slots(c)'
                 PROVE  Q'[c][i].stamp \in 1 .. arrived'[Q'[c][i].source_id]
        OBVIOUS
    <3>1. CASE i \in Slots(c) /\ Q'[c][i] = Q[c][i]
      <4>1. /\ Q[c][i].source_id \in AllSources
            /\ Q[c][i].stamp \in 1 .. arrived[Q[c][i].source_id]
            /\ arrived[Q[c][i].source_id] \in Nat
            BY <3>1, <1>v, <1>i DEF StampInv, QueueTypes
      <4>2. arrived'[Q[c][i].source_id] \in
              {arrived[Q[c][i].source_id], arrived[Q[c][i].source_id] + 1}
            BY <4>1, <1>r
      <4> QED
          BY <3>1, <4>1, <4>2
    <3>2. CASE Q'[c][i] = e
          BY <3>2, <1>e, <1>n, <1>r
    <3> QED
        BY <3>1, <3>2, <1>s
  <2>2. \A c \in Dispatchers : \A i, j \in Slots(c)' :
          i < j /\ Q'[c][i].source_id = Q'[c][j].source_id => Q'[c][i].stamp < Q'[c][j].stamp
    <3> SUFFICES ASSUME NEW c \in Dispatchers, NEW i \in Slots(c)', NEW j \in Slots(c)',
                        i < j, Q'[c][i].source_id = Q'[c][j].source_id
                 PROVE  Q'[c][i].stamp < Q'[c][j].stamp
        OBVIOUS
    <3>0. i \in Int /\ j \in Int
          BY DEF Slots
    <3>1. CASE j \in Slots(c) /\ Q'[c][j] = Q[c][j]
      <4>1. i \in Slots(c) /\ Q'[c][i] = Q[c][i]
            BY <3>1, <3>0, <1>s, <1>q DEF Slots
      <4> QED
          BY <3>1, <4>1, <1>i DEF StampInv
    <3>2. CASE c = d /\ j = n + 1 /\ Q'[c][j] = e
      <4>1. i \in Slots(c) /\ Q'[c][i] = Q[c][i]
            BY <3>2, <3>0, <1>s, <1>q
      <4>2. /\ Q[c][i].stamp \in 1 .. arrived[s]
            BY <4>1, <3>2, <1>i DEF StampInv
      <4> QED
          BY <4>1, <4>2, <3>2, <1>e, <1>n
    <3> QED
        BY <3>1, <3>2, <1>s
  <2> QED
      BY <2>1, <2>2 DEF StampInv
<1>4. CompleteInv'
  <2> SUFFICES ASSUME NEW u \in Sources, NEW k \in 1 .. arrived'[u]
               PROVE  \/ <<u, k>> \in taken'
                      \/ \E i \in Slots(u % MAX_DISPATCHER)' :
                           /\ Q'[u % MAX_DISPATCHER][i].source_id = u
                           /\ Q'[u % MAX_DISPATCHER][i].stamp = k
      BY DEF CompleteInv
  <2>0. u \in AllSources /\ u # EVENT_NULL_SOURCEID /\ u % MAX_DISPATCHER \in Dispatchers
        BY HomeType, EventAssumption DEF AllSources
  <2>1. CASE k \in 1 .. arrived[u]
    <3>1. CASE <<u, k>> \in taken
          BY <3>1, <1>e
    <3>2. ASSUME NEW i \in Slots(u % MAX_DISPATCHER),
                 Q[u % MAX_DISPATCHER][i].source_id = u, Q[u % MAX_DISPATCHER][i].stamp = k
          PROVE  \E j \in Slots(u % MAX_DISPATCHER)' :
                           /\ Q'[u % MAX_DISPATCHER][j].source_id = u
                           /\ Q'[u % MAX_DISPATCHER][j].stamp = k
          BY <3>2, <2>0, <1>t
    <3> QED
        BY <2>1, <3>1, <3>2, <1>i DEF CompleteInv
  <2>2. CASE k \notin 1 .. arrived[u]
    <3>1. u = s /\ k = arrived[s] + 1
          BY <2>0, <2>2, <1>r, <1>n
    <3>2. d = u % MAX_DISPATCHER
          BY <3>1, <2>0, <1>e, <1>i DEF HomeInv
    <3> QED
        BY <3>1, <3>2, <1>l, <1>e
  <2> QED
      BY <2>1, <2>2
<1>5. SourceOrder'
      BY <1>e, <1>i DEF SourceOrder
<1> QED
    BY <1>1, <1>2, <1>3, <1>4, <1>5 DEF OrderInv

\* A pop keeps the order: what is taken is the oldest event of its source.
LEMMA OrderPop ==
  ASSUME OrderInv, NEW d \in Dispatchers, Pops(d)
  PROVE  OrderInv'
<1>i. QueueTypes /\ HomeInv /\ StampInv /\ CompleteInv /\ SourceOrder
      BY DEF OrderInv
<1>e. PICK e \in Event :
           /\ Q[d] \in Seq(Event) /\ Q[d] # <<>> /\ e = Q[d][1]
           /\ Q' = [Q EXCEPT ![d] = Tail(Q[d])]
           /\ event' = [event EXCEPT ![d] = e]
           /\ taken' = taken \cup {<<e.source_id, e.stamp>>}
           /\ pc[d] = "pop"
           /\ UNCHANGED <<push, arrived>>
      BY <1>i, PopEffect
<1> DEFINE n == Len(Q[d])
<1>a. n \in Nat \ {0} /\ Q'[d] \in Seq(Event)
      BY <1>e, <1>i, PopSlots
<1>s. \A i \in Slots(d)' : i + 1 \in Slots(d) /\ Q'[d][i] = Q[d][i + 1]
      BY <1>e, <1>i, PopSlots
<1>t. \A i \in Slots(d) : i = 1 \/ (i - 1 \in Slots(d)' /\ Q'[d][i - 1] = Q[d][i])
      BY <1>e, <1>i, PopSlots
<1>o. \A c \in Dispatchers \ {d} : Slots(c)' = Slots(c) /\ Q'[c] = Q[c]
      BY <1>e, <1>i, PopSlots
<1>1s. 1 \in Slots(d) /\ Q[d][1] = e
      BY <1>e, <1>i, PopSlots
<1>f. e.source_id \in AllSources /\ e.stamp \in Nat
      BY EventFields
<1>1. QueueTypes'
      BY <1>e, <1>a, <1>f, <1>i DEF QueueTypes
<1>2. HomeInv'
  <2>1. e.source_id # EVENT_NULL_SOURCEID => d = e.source_id % MAX_DISPATCHER
        BY <1>1s, <1>i DEF HomeInv
  <2>2. \A c \in Dispatchers : event'[c] = event[c] \/ (c = d /\ event'[c] = e)
        BY <1>e, <1>i DEF QueueTypes
  <2>3. \A c \in Dispatchers : \A i \in Slots(c)' : Q'[c][i].source_id # EVENT_NULL_SOURCEID =>
          c = Q'[c][i].source_id % MAX_DISPATCHER
        BY <1>s, <1>o, <1>i DEF HomeInv
  <2>4. push' = push
        BY <1>e
  <2> QED
      BY <2>1, <2>2, <2>3, <2>4, <1>i DEF HomeInv
<1>3. StampInv'
  <2>1. arrived' = arrived
        BY <1>e
  <2>2. \A c \in Dispatchers : \A i \in Slots(c)' :
          Q'[c][i].stamp \in 1 .. arrived'[Q'[c][i].source_id]
        BY <2>1, <1>s, <1>o, <1>i DEF StampInv
  <2>3. \A c \in Dispatchers : \A i, j \in Slots(c)' :
          i < j /\ Q'[c][i].source_id = Q'[c][j].source_id => Q'[c][i].stamp < Q'[c][j].stamp
    <3> SUFFICES ASSUME NEW c \in Dispatchers, NEW i \in Slots(c)', NEW j \in Slots(c)',
                        i < j, Q'[c][i].source_id = Q'[c][j].source_id
                 PROVE  Q'[c][i].stamp < Q'[c][j].stamp
        OBVIOUS
    <3>1. CASE c # d
          BY <3>1, <1>o, <1>i DEF StampInv
    <3>2. CASE c = d
      <4>1. i + 1 < j + 1
            BY DEF Slots
      <4> QED
          BY <3>2, <4>1, <1>s, <1>i DEF StampInv
    <3> QED
        BY <3>1, <3>2
  <2> QED
      BY <2>2, <2>3 DEF StampInv
<1>4. CompleteInv'
  <2> SUFFICES ASSUME NEW u \in Sources, NEW k \in 1 .. arrived'[u]
               PROVE  \/ <<u, k>> \in taken'
                      \/ \E i \in Slots(u % MAX_DISPATCHER)' :
                           /\ Q'[u % MAX_DISPATCHER][i].source_id = u
                           /\ Q'[u % MAX_DISPATCHER][i].stamp = k
      BY DEF CompleteInv
  <2>0. PICK c \in Dispatchers : c = u % MAX_DISPATCHER
        BY HomeType
  <2>1. <<u, k>> \in taken => <<u, k>> \in taken'
        BY <1>e
  <2>2. ASSUME NEW i \in Slots(c), Q[c][i].source_id = u, Q[c][i].stamp = k
        PROVE  <<u, k>> \in taken' \/ \E j \in Slots(c)' : Q'[c][j].source_id = u /\ Q'[c][j].stamp = k
    <3>1. CASE c # d
          BY <2>0, <2>2, <3>1, <1>o
    <3>2. CASE c = d /\ i = 1
          BY <2>2, <3>2, <1>e
    <3>3. CASE c = d /\ i # 1
          BY <2>2, <3>3, <1>t
    <3> QED
        BY <3>1, <3>2, <3>3
  <2>3. \/ <<u, k>> \in taken
        \/ \E i \in Slots(c) : Q[c][i].source_id = u /\ Q[c][i].stamp = k
        BY <2>0, <1>e, <1>i DEF CompleteInv
  <2>4. \/ <<u, k>> \in taken'
        \/ \E j \in Slots(c)' : Q'[c][j].source_id = u /\ Q'[c][j].stamp = k
        BY <2>1, <2>2, <2>3
  <2> QED
      BY <2>0, <2>4
<1>5. SourceOrder'
  <2> DEFINE u == e.source_id
  <2>1. ASSUME u # EVENT_NULL_SOURCEID, NEW j \in 1 .. e.stamp
        PROVE  <<u, j>> \in taken'
    <3>1. u \in Sources /\ d = u % MAX_DISPATCHER
          BY <2>1, <1>f, <1>1s, <1>i DEF AllSources, HomeInv
    <3>2. e.stamp \in 1 .. arrived[u] /\ arrived[u] \in Nat
          BY <1>f, <1>1s, <1>i DEF StampInv, QueueTypes
    <3>3. j \in 1 .. arrived[u]
          BY <3>2, <1>f
    <3>4. CASE <<u, j>> \in taken
          BY <3>4, <1>e
    <3>5. ASSUME NEW i \in Slots(d), Q[d][i].source_id = u, Q[d][i].stamp = j
          PROVE  <<u, j>> \in taken'
      <4>1. CASE i = 1
            BY <3>5, <4>1, <1>e
      <4>2. CASE i # 1
        <5>1. 1 < i
              BY <4>2, <1>a DEF Slots
        <5>2. e.stamp < j
              BY <3>5, <5>1, <1>1s, <1>i DEF StampInv
        <5> QED
            BY <5>2, <1>f
      <4> QED
          BY <4>1, <4>2
    <3> QED
        BY <3>1, <3>3, <3>4, <3>5, <1>i DEF CompleteInv
  <2>2. \A x \in taken' : x[1] # EVENT_NULL_SOURCEID => \A j \in 1 .. x[2] : <<x[1], j>> \in taken'
    <3> SUFFICES ASSUME NEW x \in taken', x[1] # EVENT_NULL_SOURCEID, NEW j \in 1 .. x[2]
                 PROVE  <<x[1], j>> \in taken'
        OBVIOUS
    <3>1. CASE x \in taken
          BY <3>1, <1>e, <1>i DEF SourceOrder
    <3>2. CASE x = <<e.source_id, e.stamp>>
          BY <3>2, <2>1
    <3> QED
        BY <3>1, <3>2, <1>e
  <2> QED
      BY <2>2 DEF SourceOrder
<1> QED
    BY <1>1, <1>2, <1>3, <1>4, <1>5 DEF OrderInv

\* Firing, releasing and every other step keep the order.
LEMMA OrderRest ==
  ASSUME OrderInv,
         \/ Quiet
         \/ \E t \in Threads, ev \in Event : \E d \in Dispatchers : Fires(t, ev, d)
         \/ \E d \in Dispatchers : Release(d)
  PROVE  OrderInv'
<1>i. QueueTypes /\ HomeInv /\ StampInv /\ CompleteInv /\ SourceOrder
      BY DEF OrderInv
<1>u. UNCHANGED <<EVENT_DISPATCH_QUEUES, arrived, taken>>
      BY DEF Quiet, Fires, Release, ghostVars
<1>1. StampInv' /\ CompleteInv' /\ SourceOrder'
      BY <1>u, <1>i DEF StampInv, CompleteInv, SourceOrder, Slots, Q
<1>2. QueueTypes'
  <2>1. CASE Quiet
        BY <2>1, <1>i DEF Quiet, QueueTypes, Q
  <2>2. ASSUME NEW t \in Threads, NEW ev \in Event, NEW d \in Dispatchers, Fires(t, ev, d)
        PROVE  QueueTypes'
        BY <2>2, <1>i DEF Fires, QueueTypes, Q
  <2>3. ASSUME NEW d \in Dispatchers, Release(d)
        PROVE  QueueTypes'
        BY <2>3, <1>u, <1>i DEF Release, QueueTypes, Q
  <2> QED
      BY <2>1, <2>2, <2>3
<1>3. HomeInv'
  <2>q. \A d \in Dispatchers : \A i \in Slots(d)' :
          Q'[d][i].source_id # EVENT_NULL_SOURCEID => d = Q'[d][i].source_id % MAX_DISPATCHER
        BY <1>u, <1>i DEF HomeInv, Q, Slots
  <2>1. CASE Quiet
        BY <2>1, <2>q, <1>i DEF Quiet, HomeInv
  <2>2. ASSUME NEW t \in Threads, NEW ev \in Event, NEW d \in Dispatchers, Fires(t, ev, d)
        PROVE  HomeInv'
    <3>1. ev.source_id # EVENT_NULL_SOURCEID => d = ev.source_id % MAX_DISPATCHER
          BY <2>2 DEF Fires, QueueIndex
    <3>2. \A u \in Threads : push'[u] = push[u] \/ push'[u] = [queue |-> d, ev |-> ev]
          BY <2>2, <1>i DEF Fires, QueueTypes
    <3>3. event' = event
          BY <2>2 DEF Fires
    <3> QED
        BY <3>1, <3>2, <3>3, <2>q, <1>i DEF HomeInv
  <2>3. ASSUME NEW d \in Dispatchers, Release(d)
        PROVE  HomeInv'
    <3>1. \A c \in Dispatchers : event'[c] = event[c] \/ event'[c] = NULL
          BY <2>3, <1>i DEF Release, QueueTypes
    <3>2. push' = push
          BY <2>3 DEF Release
    <3> QED
        BY <3>1, <3>2, <2>q, <1>i DEF HomeInv
  <2> QED
      BY <2>1, <2>2, <2>3
<1> QED
    BY <1>1, <1>2, <1>3 DEF OrderInv

\* The invariant is inductive.
LEMMA OrderInvariant == Spec => []OrderInv
<1>1. OrderInv /\ [Next]_vars => OrderInv'
      BY StepKinds, OrderPush, OrderPop, OrderRest
<1> QED
    BY <1>1, OrderInit, PTL DEF Spec

\* Events of one source are taken in the order in which they were queued.
THEOREM TakesInOrder == Spec => []SourceOrder
<1>1. OrderInv => SourceOrder
      BY DEF OrderInv
<1> QED
    BY <1>1, OrderInvariant, PTL

\* "the same soure will be handled by same thread": no two dispatchers are ever
\* at work on one source.
THEOREM ServesOneByOne == Spec => []SourceSerial
<1>1. OrderInv => SourceSerial
      BY DEF OrderInv, HomeInv, SourceSerial
<1> QED
    BY <1>1, OrderInvariant, PTL

-----------------------------------------------------------------------------
(***************************************************************************)
(* Exactly once.  What is queued was not taken, stands in one place, and   *)
(* everything that arrived was taken or is queued.                         *)
(***************************************************************************)
InPlace(c, i, x) == Q[c][i].source_id = x[1] /\ Q[c][i].stamp = x[2]

OnceInv ==
  /\ \A c \in Dispatchers : Len(Q[c]) <= DISPATCH_QUEUE_LIMIT
  /\ \A x \in taken : x[2] <= arrived[x[1]]
  /\ \A c \in Dispatchers : \A i \in Slots(c) : <<Q[c][i].source_id, Q[c][i].stamp>> \notin taken
  /\ \A b, c \in Dispatchers : \A i \in Slots(b), j \in Slots(c) :
       Q[b][i].source_id = Q[c][j].source_id /\ Q[b][i].stamp = Q[c][j].stamp => b = c /\ i = j
  /\ \A s \in AllSources : \A k \in 1 .. arrived[s] :
       <<s, k>> \in taken \/ \E c \in Dispatchers : \E i \in Slots(c) : InPlace(c, i, <<s, k>>)

\* Nothing has arrived when agc_event_init has run.
LEMMA OnceInit == Init => OnceInv
<1> SUFFICES ASSUME Init PROVE OnceInv
    OBVIOUS
<1>1. \A c \in Dispatchers : Slots(c) = {} /\ Len(Q[c]) = 0
      BY DEF Init, Slots, Q
<1>2. \A s \in AllSources : arrived[s] = 0
      BY DEF Init
<1>3. taken = {}
      BY DEF Init
<1> QED
    BY <1>1, <1>2, <1>3, EventAssumption DEF OnceInv

\* A push enters an event that was neither queued nor taken.
LEMMA OncePush ==
  ASSUME OrderInv, OnceInv, NEW t \in Threads, Push(t)
  PROVE  OnceInv'
<1>i. QueueTypes /\ StampInv
      BY DEF OrderInv
<1>e. PICK d \in Dispatchers, e \in Event :
           LET s == e.source_id IN
           /\ push[t] # NULL /\ d = push[t].queue /\ s = push[t].ev.source_id
           /\ s \in AllSources
           /\ e.stamp = arrived[s] + 1
           /\ Q' = [Q EXCEPT ![d] = Append(Q[d], e)]
           /\ arrived' = [arrived EXCEPT ![s] = arrived[s] + 1]
           /\ push' = [push EXCEPT ![t] = NULL]
           /\ UNCHANGED <<event, taken, pc>>
      BY <1>i, PushEffect
<1>g. Len(Q[d]) < DISPATCH_QUEUE_LIMIT
      BY <1>e DEF Push, Q
<1> DEFINE s == e.source_id
           n == Len(Q[d])
<1>q. /\ n \in Nat /\ Len(Q'[d]) = n + 1
      /\ \A c \in Dispatchers \ {d} : Q'[c] = Q[c]
      BY <1>e, <1>i, PushSlots
<1>s. \A c \in Dispatchers : \A i \in Slots(c)' :
        \/ i \in Slots(c) /\ Q'[c][i] = Q[c][i]
        \/ c = d /\ i = n + 1 /\ Q'[c][i] = e
      BY <1>e, <1>i, PushSlots
<1>t. \A c \in Dispatchers : \A i \in Slots(c) : i \in Slots(c)' /\ Q'[c][i] = Q[c][i]
      BY <1>e, <1>i, PushSlots
<1>l. n + 1 \in Slots(d)' /\ Q'[d][n + 1] = e
  <2>1. QueueTypes /\ Q' = [Q EXCEPT ![d] = Append(Q[d], e)] /\ e \in Event
        BY <1>e, <1>i
  <2> QED
      BY <2>1, PushSlots
<1>n. /\ s \in AllSources /\ arrived[s] \in Nat /\ e.stamp = arrived[s] + 1
      /\ taken' = taken
      BY <1>e, <1>i DEF QueueTypes
<1>r. /\ arrived'[s] = arrived[s] + 1
      /\ \A u \in AllSources \ {s} : arrived'[u] = arrived[u]
      BY <1>e, <1>i DEF QueueTypes
<1>v. \A c \in Dispatchers : \A i \in Slots(c) :
        ~(Q[c][i].source_id = s /\ Q[c][i].stamp = e.stamp)
      BY <1>n, <1>i DEF StampInv
<1>w. <<s, e.stamp>> \notin taken
      BY <1>n DEF OnceInv
<1> HIDE DEF s, n
<1>1. \A c \in Dispatchers : Len(Q'[c]) <= DISPATCH_QUEUE_LIMIT
  <2> TAKE c \in Dispatchers
  <2>1. CASE c = d
        BY <2>1, <1>q, <1>g, EventAssumption DEF n
  <2>2. CASE c # d
        BY <2>2, <1>q DEF OnceInv
  <2> QED
      BY <2>1, <2>2
<1>2. \A x \in taken' : x[2] <= arrived'[x[1]]
  <2> SUFFICES ASSUME NEW x \in taken PROVE x[2] <= arrived'[x[1]]
      BY <1>n
  <2>1. x[1] \in AllSources /\ x[2] \in Nat /\ x[2] <= arrived[x[1]] /\ arrived[x[1]] \in Nat
        BY <1>i DEF QueueTypes, OnceInv
  <2>2. arrived'[x[1]] \in {arrived[x[1]], arrived[x[1]] + 1}
        BY <2>1, <1>r
  <2> QED
      BY <2>1, <2>2
<1>3. \A c \in Dispatchers : \A i \in Slots(c)' :
        <<Q'[c][i].source_id, Q'[c][i].stamp>> \notin taken'
      BY <1>s, <1>w, <1>n DEF OnceInv, s
<1>4. \A b, c \in Dispatchers : \A i \in Slots(b)', j \in Slots(c)' :
        Q'[b][i].source_id = Q'[c][j].source_id /\ Q'[b][i].stamp = Q'[c][j].stamp
          => b = c /\ i = j
  <2> SUFFICES ASSUME NEW b \in Dispatchers, NEW c \in Dispatchers,
                      NEW i \in Slots(b)', NEW j \in Slots(c)',
                      Q'[b][i].source_id = Q'[c][j].source_id,
                      Q'[b][i].stamp = Q'[c][j].stamp
               PROVE  b = c /\ i = j
      OBVIOUS
  <2>1. CASE (i \in Slots(b) /\ Q'[b][i] = Q[b][i]) /\ (j \in Slots(c) /\ Q'[c][j] = Q[c][j])
        BY <2>1 DEF OnceInv
  <2>2. CASE (i \in Slots(b) /\ Q'[b][i] = Q[b][i]) /\ Q'[c][j] = e
        BY <2>2, <1>v DEF s
  <2>3. CASE Q'[b][i] = e /\ (j \in Slots(c) /\ Q'[c][j] = Q[c][j])
        BY <2>3, <1>v DEF s
  <2>4. CASE (b = d /\ i = n + 1) /\ (c = d /\ j = n + 1)
        BY <2>4
  <2> QED
      BY <2>1, <2>2, <2>3, <2>4, <1>s
<1>5. \A u \in AllSources : \A k \in 1 .. arrived'[u] :
        \/ <<u, k>> \in taken'
        \/ \E c \in Dispatchers : \E i \in Slots(c)' : Q'[c][i].source_id = u /\ Q'[c][i].stamp = k
  <2> SUFFICES ASSUME NEW u \in AllSources, NEW k \in 1 .. arrived'[u]
               PROVE  \/ <<u, k>> \in taken'
                      \/ \E c \in Dispatchers : \E i \in Slots(c)' :
                           Q'[c][i].source_id = u /\ Q'[c][i].stamp = k
      OBVIOUS
  <2>1. CASE k \in 1 .. arrived[u]
    <3>1. \/ <<u, k>> \in taken
          \/ \E c \in Dispatchers : \E i \in Slots(c) : Q[c][i].source_id = u /\ Q[c][i].stamp = k
          BY <2>1 DEF OnceInv, InPlace
    <3> QED
        BY <3>1, <1>t, <1>n
  <2>2. CASE k \notin 1 .. arrived[u]
    <3>1. u = s /\ k = e.stamp
          BY <2>2, <1>r, <1>n
    <3> QED
        BY <3>1, <1>l DEF s
  <2> QED
      BY <2>1, <2>2
<1> QED
    BY <1>1, <1>2, <1>3, <1>4, <1>5 DEF OnceInv, InPlace

\* A pop moves one event from the queues to taken.
LEMMA OncePop ==
  ASSUME OrderInv, OnceInv, NEW d \in Dispatchers, Pops(d)
  PROVE  OnceInv'
<1>i. QueueTypes /\ StampInv
      BY DEF OrderInv
<1>e. PICK e \in Event :
           /\ Q[d] \in Seq(Event) /\ Q[d] # <<>> /\ e = Q[d][1]
           /\ Q' = [Q EXCEPT ![d] = Tail(Q[d])]
           /\ event' = [event EXCEPT ![d] = e]
           /\ taken' = taken \cup {<<e.source_id, e.stamp>>}
           /\ pc[d] = "pop"
           /\ UNCHANGED <<push, arrived>>
      BY <1>i, PopEffect
<1>a. /\ Len(Q[d]) \in Nat \ {0} /\ Len(Q'[d]) = Len(Q[d]) - 1
      /\ 1 \in Slots(d)
      BY <1>e, <1>i, PopSlots
<1>s. \A i \in Slots(d)' : i + 1 \in Slots(d) /\ Q'[d][i] = Q[d][i + 1]
      BY <1>e, <1>i, PopSlots
<1>t. \A i \in Slots(d) : i = 1 \/ (i - 1 \in Slots(d)' /\ Q'[d][i - 1] = Q[d][i])
      BY <1>e, <1>i, PopSlots
<1>o. \A c \in Dispatchers \ {d} : Slots(c)' = Slots(c) /\ Q'[c] = Q[c]
      BY <1>e, <1>i, PopSlots
<1>z. \A c \in Dispatchers : \A i \in Slots(c)' : i \in Int /\ i >= 1
      BY DEF Slots
<1>m. \A c \in Dispatchers : \A i \in Slots(c)' :
        \E j \in Slots(c) : Q'[c][i] = Q[c][j] /\ (c = d => j = i + 1) /\ (c # d => j = i)
      BY <1>s, <1>o
<1>n. arrived' = arrived /\ taken' = taken \cup {<<e.source_id, e.stamp>>} /\ e = Q[d][1]
      BY <1>e
<1>1. \A c \in Dispatchers : Len(Q'[c]) <= DISPATCH_QUEUE_LIMIT
  <2> TAKE c \in Dispatchers
  <2>1. Len(Q[c]) <= DISPATCH_QUEUE_LIMIT
        BY DEF OnceInv
  <2>2. CASE c = d
        BY <2>1, <2>2, <1>a, EventAssumption
  <2>3. CASE c # d
        BY <2>1, <2>3, <1>o
  <2> QED
      BY <2>2, <2>3
<1>2. \A x \in taken' : x[2] <= arrived'[x[1]]
  <2>1. e.stamp \in 1 .. arrived[e.source_id]
        BY <1>a, <1>n, <1>i DEF StampInv
  <2> QED
      BY <2>1, <1>n DEF OnceInv
<1>3. \A c \in Dispatchers : \A i \in Slots(c)' :
        <<Q'[c][i].source_id, Q'[c][i].stamp>> \notin taken'
  <2> SUFFICES ASSUME NEW c \in Dispatchers, NEW i \in Slots(c)'
               PROVE  <<Q'[c][i].source_id, Q'[c][i].stamp>> \notin taken'
      OBVIOUS
  <2>1. PICK j \in Slots(c) : Q'[c][i] = Q[c][j] /\ (c = d => j = i + 1)
        BY <1>m
  <2>2. ~(c = d /\ j = 1)
        BY <2>1, <1>z
  <2>3. ~(Q[c][j].source_id = e.source_id /\ Q[c][j].stamp = e.stamp)
        BY <2>2, <1>a, <1>n DEF OnceInv
  <2>4. <<Q[c][j].source_id, Q[c][j].stamp>> \notin taken
        BY DEF OnceInv
  <2> QED
      BY <2>1, <2>3, <2>4, <1>n
<1>4. \A b, c \in Dispatchers : \A i \in Slots(b)', j \in Slots(c)' :
        Q'[b][i].source_id = Q'[c][j].source_id /\ Q'[b][i].stamp = Q'[c][j].stamp
          => b = c /\ i = j
  <2> SUFFICES ASSUME NEW b \in Dispatchers, NEW c \in Dispatchers,
                      NEW i \in Slots(b)', NEW j \in Slots(c)',
                      Q'[b][i].source_id = Q'[c][j].source_id,
                      Q'[b][i].stamp = Q'[c][j].stamp
               PROVE  b = c /\ i = j
      OBVIOUS
  <2>1. PICK k \in Slots(b) : Q'[b][i] = Q[b][k] /\ (b = d => k = i + 1) /\ (b # d => k = i)
        BY <1>m
  <2>2. PICK l \in Slots(c) : Q'[c][j] = Q[c][l] /\ (c = d => l = j + 1) /\ (c # d => l = j)
        BY <1>m
  <2>3. b = c /\ k = l
        BY <2>1, <2>2 DEF OnceInv
  <2> QED
      BY <2>1, <2>2, <2>3, <1>z
<1>5. \A u \in AllSources : \A k \in 1 .. arrived'[u] :
        \/ <<u, k>> \in taken'
        \/ \E c \in Dispatchers : \E i \in Slots(c)' : Q'[c][i].source_id = u /\ Q'[c][i].stamp = k
  <2> TAKE u \in AllSources
  <2> TAKE k \in 1 .. arrived'[u]
  <2>a. CASE <<u, k>> \in taken'
        BY <2>a
  <2>b. CASE <<u, k>> \notin taken'
    <3>0. k \in 1 .. arrived[u] /\ <<u, k>> \notin taken
          BY <1>n, <2>b
    <3>1. PICK c \in Dispatchers : \E i \in Slots(c) : Q[c][i].source_id = u /\ Q[c][i].stamp = k
          BY <3>0 DEF OnceInv, InPlace
    <3>2. PICK i \in Slots(c) : Q[c][i].source_id = u /\ Q[c][i].stamp = k
          BY <3>1
    <3>3. CASE c # d
          BY <3>2, <3>3, <1>o
    <3>4. CASE c = d /\ i = 1
          BY <3>2, <3>4, <1>n
    <3>5. CASE c = d /\ i # 1
          BY <3>2, <3>5, <1>t
    <3> QED
        BY <3>3, <3>4, <3>5
  <2> QED
      BY <2>a, <2>b
<1> QED
    BY <1>1, <1>2, <1>3, <1>4, <1>5 DEF OnceInv, InPlace

\* The invariant is inductive.
LEMMA OnceInvariant == Spec => []OnceInv
<1>1. OrderInv /\ OnceInv /\ [Next]_vars => OnceInv'
  <2> SUFFICES ASSUME OrderInv, OnceInv, [Next]_vars PROVE OnceInv'
      OBVIOUS
  <2>1. ASSUME UNCHANGED <<EVENT_DISPATCH_QUEUES, arrived, taken>>
        PROVE  OnceInv'
        BY <2>1 DEF OnceInv, Slots, InPlace, Q
  <2>2. ASSUME NEW d \in Dispatchers, Release(d)
        PROVE  UNCHANGED <<EVENT_DISPATCH_QUEUES, arrived, taken>>
        BY <2>2 DEF Release, ghostVars
  <2>3. ASSUME NEW t \in Threads, NEW ev \in Event, NEW d \in Dispatchers, Fires(t, ev, d)
        PROVE  UNCHANGED <<EVENT_DISPATCH_QUEUES, arrived, taken>>
        BY <2>3 DEF Fires
  <2>4. ASSUME Quiet
        PROVE  UNCHANGED <<EVENT_DISPATCH_QUEUES, arrived, taken>>
        BY <2>4 DEF Quiet
  <2> QED
      BY <2>1, <2>2, <2>3, <2>4, StepKinds, OncePush, OncePop
<1> QED
    BY <1>1, OnceInit, OrderInvariant, PTL DEF Spec

\* agc_event_fire / agc_event_dispatch_thread: an event that entered a queue is in
\* one place of one queue until it is taken: none is lost, none is taken twice.
THEOREM TakesExactlyOnce == Spec => []ExactlyOnce
<1>1. OrderInv /\ OnceInv => ExactlyOnce
  <2> SUFFICES ASSUME OrderInv, OnceInv, NEW s \in AllSources, NEW k \in 1 .. arrived[s]
               PROVE  /\ <<s, k>> \in taken <=> Places(<<s, k>>) = {}
                      /\ \A x, y \in Places(<<s, k>>) : x = y
      BY DEF ExactlyOnce
  <2>t. Q \in [Dispatchers -> Seq(Event)]
        BY DEF OrderInv, QueueTypes
  <2>1. \A x : x \in Places(<<s, k>>) <=>
          /\ x \in Dispatchers \X (1 .. DISPATCH_QUEUE_LIMIT)
          /\ x[2] \in Slots(x[1])
          /\ Q[x[1]][x[2]].source_id = s /\ Q[x[1]][x[2]].stamp = k
    <3> SUFFICES ASSUME NEW x \in Dispatchers \X (1 .. DISPATCH_QUEUE_LIMIT)
                 PROVE  (x[2] <= Len(Q[x[1]]) /\ Ident(Q[x[1]][x[2]]) = <<s, k>>) <=>
                        (x[2] \in Slots(x[1]) /\ Q[x[1]][x[2]].source_id = s
                                              /\ Q[x[1]][x[2]].stamp = k)
        BY DEF Places, Q
    <3>1. x[1] \in Dispatchers /\ x[2] \in Nat /\ x[2] >= 1
          BY EventAssumption
    <3>2. Len(Q[x[1]]) \in Nat
          BY <3>1, <2>t
    <3>3. x[2] <= Len(Q[x[1]]) <=> x[2] \in Slots(x[1])
          BY <3>1, <3>2 DEF Slots
    <3> QED
        BY <3>3 DEF Ident
  <2>2. \A c \in Dispatchers : \A i \in Slots(c) :
          Q[c][i].source_id = s /\ Q[c][i].stamp = k => <<c, i>> \in Places(<<s, k>>)
    <3> SUFFICES ASSUME NEW c \in Dispatchers, NEW i \in Slots(c)
                 PROVE  i \in 1 .. DISPATCH_QUEUE_LIMIT
        BY <2>1
    <3>1. Len(Q[c]) \in Nat /\ Len(Q[c]) <= DISPATCH_QUEUE_LIMIT
          BY <2>t DEF OnceInv
    <3> QED
        BY <3>1, EventAssumption DEF Slots
  <2>3. <<s, k>> \in taken => Places(<<s, k>>) = {}
    <3> SUFFICES ASSUME <<s, k>> \in taken, NEW x \in Places(<<s, k>>) PROVE FALSE
        OBVIOUS
    <3>1. x[1] \in Dispatchers /\ x[2] \in Slots(x[1]) /\ Q[x[1]][x[2]].source_id = s
          /\ Q[x[1]][x[2]].stamp = k
          BY <2>1
    <3> QED
        BY <3>1 DEF OnceInv
  <2>4. <<s, k>> \notin taken => Places(<<s, k>>) # {}
    <3> SUFFICES ASSUME <<s, k>> \notin taken PROVE Places(<<s, k>>) # {}
        OBVIOUS
    <3>1. PICK c \in Dispatchers : \E i \in Slots(c) : Q[c][i].source_id = s /\ Q[c][i].stamp = k
          BY DEF OnceInv, InPlace
    <3> QED
        BY <3>1, <2>2
  <2>5. \A x, y \in Places(<<s, k>>) : x = y
    <3> SUFFICES ASSUME NEW x \in Places(<<s, k>>), NEW y \in Places(<<s, k>>) PROVE x = y
        OBVIOUS
    <3>1. /\ x \in Dispatchers \X (1 .. DISPATCH_QUEUE_LIMIT) /\ x[2] \in Slots(x[1])
          /\ Q[x[1]][x[2]].source_id = s /\ Q[x[1]][x[2]].stamp = k
          BY <2>1
    <3>2. /\ y \in Dispatchers \X (1 .. DISPATCH_QUEUE_LIMIT) /\ y[2] \in Slots(y[1])
          /\ Q[y[1]][y[2]].source_id = s /\ Q[y[1]][y[2]].stamp = k
          BY <2>1
    <3>3. x[1] = y[1] /\ x[2] = y[2]
          BY <3>1, <3>2 DEF OnceInv
    <3> QED
        BY <3>1, <3>2, <3>3
  <2> QED
      BY <2>3, <2>4, <2>5
<1> QED
    BY <1>1, OrderInvariant, OnceInvariant, PTL

-----------------------------------------------------------------------------
(***************************************************************************)
(* Refinement: agc_event.c implements SourceFifo.  A dispatcher that is    *)
(* not delivering holds no event, and the events being delivered are       *)
(* distinct events that were taken.                                        *)
(***************************************************************************)
Resting == {"none", "start", "loop", "pop", "exit", "ended"}

RestInv ==
  /\ pc \in [Dispatchers -> PCs]
  /\ \A d \in Dispatchers : pc[d] \in Resting => event[d] = NULL

\* A dispatcher's own steps keep RestInv.
LEMMA RestThread ==
  ASSUME QueueTypes, RestInv, NEW d \in Dispatchers, DispatchThread(d)
  PROVE  RestInv'
<1>1. PICK to \in PCs : pc' = [pc EXCEPT ![d] = to]
      BY DEF DispatchThread, ThreadStart, CheckRunning, TryPop, Deliver, CallbackReturn,
         NodeReturn, Release, ThreadExit, Goto, PCs
<1>2. \A c \in Dispatchers : c # d => pc'[c] = pc[c] /\ event'[c] = event[c]
      BY <1>1 DEF RestInv, QueueTypes, DispatchThread, ThreadStart, CheckRunning, TryPop, Deliver,
         CallbackReturn, NodeReturn, Release, ThreadExit
<1>3. pc'[d] = to
      BY <1>1 DEF RestInv
<1>4. to \in Resting => event'[d] = NULL
  <2>1. CASE ThreadStart(d) \/ CheckRunning(d) \/ ThreadExit(d)
    <3>1. pc[d] \in Resting /\ event' = event
          BY <2>1 DEF ThreadStart, CheckRunning, ThreadExit, Goto, Resting
    <3> QED
        BY <3>1 DEF RestInv
  <2>2. CASE TryPop(d)
    <3>1. pc[d] \in Resting
          BY <2>2 DEF TryPop, Goto, Resting
    <3>2. CASE event' = event
          BY <3>1, <3>2 DEF RestInv
    <3>3. CASE Goto(d, "pop", "deliver")
      <4>1. to = "deliver"
            BY <3>3, <1>3 DEF Goto, RestInv
      <4> QED
          BY <4>1 DEF Resting
    <3> QED
        BY <2>2, <3>2, <3>3 DEF TryPop
  <2>3. CASE Deliver(d) \/ CallbackReturn(d) \/ NodeReturn(d)
    <3>1. pc'[d] \in {"release", "callback", "node"}
          BY <2>3 DEF Deliver, CallbackReturn, NodeReturn, Goto, RestInv
    <3> QED
        BY <3>1, <1>3 DEF Resting
  <2>4. CASE Release(d)
        BY <2>4 DEF Release, QueueTypes
  <2> QED
      BY <2>1, <2>2, <2>3, <2>4 DEF DispatchThread
<1>5. pc' \in [Dispatchers -> PCs]
      BY <1>1 DEF RestInv
<1> QED
    BY <1>2, <1>3, <1>4, <1>5 DEF RestInv

\* RestInv is an invariant.
LEMMA RestInvariant == Spec => []RestInv
<1>1. Init => RestInv
      BY DEF Init, RestInv, PCs
<1>2. OrderInv /\ RestInv /\ [Next]_vars => RestInv'
  <2> SUFFICES ASSUME OrderInv, RestInv, [Next]_vars PROVE RestInv'
      OBVIOUS
  <2>t. QueueTypes
        BY DEF OrderInv
  <2>1. ASSUME UNCHANGED <<pc, event>> PROVE RestInv'
        BY <2>1 DEF RestInv
  <2>2. CASE UNCHANGED vars
        BY <2>1, <2>2 DEF vars, threadVars
  <2>3. CASE \/ \E t \in Threads, s \in AllSources, id \in BindIds : FireEvent(t, s, id)
             \/ \E t \in Threads, f \in FastEvents : FireFast(t, f)
             \/ \E t \in Threads : Push(t)
        BY <2>1, <2>3 DEF FireEvent, FireFast, Fire, Push, threadVars
  <2>4. CASE \/ \E n \in Nodes, id \in BindIds, cb \in Callbacks : Bind(n, id, cb)
             \/ \E n \in Nodes : Unbind(n)
             \/ \E cb \in Callbacks : UnbindCallback(cb)
        BY <2>1, <2>4 DEF Bind, Unbind, UnbindCallback, SubStep, threadVars
  <2>5. CASE Shutdown \/ ShutdownWait
        BY <2>1, <2>5 DEF Shutdown, ShutdownWait, MainStep
  <2>6. CASE LaunchThread
    <3>1. /\ pc' = [pc EXCEPT ![main.index] = "start"]
          /\ pc[main.index] = "none" /\ event' = event
          BY <2>6 DEF LaunchThread, Goto, MainStep
    <3>2. \A d \in Dispatchers : pc'[d] = pc[d] \/ (pc[d] = "none" /\ pc'[d] = "start")
          BY <3>1 DEF RestInv
    <3> QED
        BY <3>1, <3>2 DEF RestInv, Resting, PCs
  <2> QED
      BY <2>t, <2>2, <2>3, <2>4, <2>5, <2>6, RestThread DEF Next
<1> QED
    BY <1>1, <1>2, OrderInvariant, PTL DEF Spec

\* The events being delivered were taken, and no two dispatchers deliver the same.
ServeInv ==
  /\ \A d \in Dispatchers : event[d] # NULL => Ident(event[d]) \in taken
  /\ \A c, d \in Dispatchers :
       event[c] # NULL /\ event[d] # NULL /\ Ident(event[c]) = Ident(event[d]) => c = d

\* ServeInv is an invariant.
LEMMA ServeInvariant == Spec => []ServeInv
<1>1. Init => ServeInv
      BY DEF Init, ServeInv
<1>2. OrderInv /\ OnceInv /\ ServeInv /\ [Next]_vars => ServeInv'
  <2> SUFFICES ASSUME OrderInv, OnceInv, ServeInv, [Next]_vars PROVE ServeInv'
      OBVIOUS
  <2>t. QueueTypes
        BY DEF OrderInv
  <2>1. ASSUME UNCHANGED <<event, taken>> PROVE ServeInv'
        BY <2>1 DEF ServeInv
  <2>2. CASE \/ Quiet
             \/ \E t \in Threads, ev \in Event : \E d \in Dispatchers : Fires(t, ev, d)
             \/ \E t \in Threads : Push(t)
        BY <2>1, <2>2 DEF Quiet, Fires, Push, threadVars
  <2>3. ASSUME NEW d \in Dispatchers, Release(d) PROVE ServeInv'
    <3>1. taken' = taken /\ \A c \in Dispatchers : event'[c] = event[c] \/ event'[c] = NULL
          BY <2>3, <2>t DEF Release, ghostVars, QueueTypes
    <3> QED
        BY <3>1 DEF ServeInv
  <2>4. ASSUME NEW d \in Dispatchers, Pops(d) PROVE ServeInv'
    <3>1. PICK e \in Event :
           /\ Q[d] \in Seq(Event) /\ Q[d] # <<>> /\ e = Q[d][1]
           /\ Q' = [Q EXCEPT ![d] = Tail(Q[d])]
           /\ event' = [event EXCEPT ![d] = e]
           /\ taken' = taken \cup {<<e.source_id, e.stamp>>}
           /\ pc[d] = "pop"
           /\ UNCHANGED <<push, arrived>>
          BY <2>4, <2>t, PopEffect
    <3>2. 1 \in Slots(d)
          BY <3>1, <2>t, PopSlots
    <3>3. Ident(e) \notin taken /\ taken' = taken \cup {Ident(e)}
          BY <3>1, <3>2 DEF OnceInv, Ident
    <3>4. /\ event'[d] = e
          /\ \A c \in Dispatchers \ {d} : event'[c] = event[c]
          BY <3>1, <2>t DEF QueueTypes
    <3> QED
        BY <3>3, <3>4 DEF ServeInv
  <2> QED
      BY <2>2, <2>3, <2>4, StepKinds
<1> QED
    BY <1>1, <1>2, OrderInvariant, OnceInvariant, PTL DEF Spec

\* The events being delivered: what SourceFifo calls serving.
Serving == {Ident(event[d]) : d \in {c \in Dispatchers : event[c] # NULL}}

\* Every step is a step of SourceFifo or changes nothing it can see.
LEMMA StepRefines ==
  ASSUME OrderInv, OrderInv', OnceInv, RestInv, ServeInv, [Next]_vars
  PROVE  [Fifo!Next]_(Fifo!fifoVars)
<1>t. QueueTypes /\ HomeInv /\ StampInv
      BY DEF OrderInv
<1>n. NULL \notin Event
      BY EventAssumption
<1>1. CASE Quiet \/ \E t \in Threads, ev \in Event : \E d \in Dispatchers : Fires(t, ev, d)
  <2>1. UNCHANGED <<event, arrived, taken>>
        BY <1>1 DEF Quiet, Fires
  <2> QED
      BY <2>1 DEF Fifo!fifoVars
<1>2. ASSUME NEW t \in Threads, Push(t)
      PROVE  Fifo!Next
  <2>1. PICK s \in AllSources :
          arrived' = [arrived EXCEPT ![s] = arrived[s] + 1] /\ UNCHANGED <<event, taken>>
        BY <1>2, <1>t, PushEffect
  <2>2. Fifo!Send(s)
        BY <2>1 DEF Fifo!Send
  <2> QED
      BY <2>2 DEF Fifo!Next
<1>3. ASSUME NEW d \in Dispatchers, Pops(d)
      PROVE  Fifo!Next
  <2>1. PICK e \in Event :
           /\ Q[d] \in Seq(Event) /\ Q[d] # <<>> /\ e = Q[d][1]
           /\ Q' = [Q EXCEPT ![d] = Tail(Q[d])]
           /\ event' = [event EXCEPT ![d] = e]
           /\ taken' = taken \cup {<<e.source_id, e.stamp>>}
           /\ pc[d] = "pop"
           /\ UNCHANGED <<push, arrived>>
        BY <1>3, <1>t, PopEffect
  <2> DEFINE s == e.source_id
             k == e.stamp
  <2>2. 1 \in Slots(d) /\ s \in AllSources /\ k \in Nat
        BY <2>1, <1>t, PopSlots, EventFields
  <2>3. k \in 1 .. arrived[s] /\ <<s, k>> \notin taken
        BY <2>1, <2>2, <1>t DEF StampInv, OnceInv
  <2>4. event[d] = NULL
        BY <2>1 DEF RestInv, Resting
  <2>5. /\ event'[d] = e /\ e # NULL
        /\ \A c \in Dispatchers \ {d} : event'[c] = event[c]
        BY <2>1, <1>t, <1>n DEF QueueTypes
  <2>6. Serving' = Serving \cup {<<s, k>>}
        BY <2>4, <2>5 DEF Serving, Ident
  <2>7. ASSUME s # EVENT_NULL_SOURCEID, NEW j \in 1 .. (k - 1)
        PROVE  <<s, j>> \in taken
    <3>1. <<s, k>> \in taken' /\ taken' = taken \cup {<<s, k>>}
          BY <2>1
    <3>2. j \in 1 .. k /\ j # k
          BY <2>2
    <3>3. SourceOrder'
          BY DEF OrderInv
    <3>4. <<s, j>> \in taken'
          BY <2>7, <3>1, <3>2, <3>3 DEF SourceOrder
    <3> QED
        BY <3>1, <3>2, <3>4
  <2>8. ASSUME s # EVENT_NULL_SOURCEID, NEW x \in Serving
        PROVE  x[1] # s
    <3>1. PICK c \in Dispatchers : event[c] # NULL /\ x = Ident(event[c])
          BY DEF Serving
    <3>2. x[1] = event[c].source_id
          BY <3>1 DEF Ident
    <3>3. d = s % MAX_DISPATCHER
          BY <2>1, <2>2, <2>8, <1>t DEF HomeInv
    <3> QED
        BY <2>4, <2>8, <3>1, <3>2, <3>3, <1>t DEF HomeInv
  <2> HIDE DEF s, k
  <2>9. arrived' = arrived /\ taken' = taken \cup {<<s, k>>}
        BY <2>1 DEF s, k
  <2>10. Fifo!Begin(s, k)
         BY <2>3, <2>6, <2>7, <2>8, <2>9 DEF Fifo!Begin, Serving
  <2> QED
      BY <2>2, <2>3, <2>10 DEF Fifo!Next
<1>4. ASSUME NEW d \in Dispatchers, Release(d)
      PROVE  [Fifo!Next]_(Fifo!fifoVars)
  <2>1. /\ UNCHANGED <<arrived, taken>> /\ event'[d] = NULL
        /\ \A c \in Dispatchers \ {d} : event'[c] = event[c]
        BY <1>4, <1>t DEF Release, ghostVars, QueueTypes
  <2>2. CASE event[d] = NULL
    <3>1. Serving' = Serving
          BY <2>1, <2>2 DEF Serving
    <3> QED
        BY <2>1, <3>1 DEF Fifo!fifoVars, Serving
  <2>3. CASE event[d] # NULL
    <3>1. PICK x \in Serving : x = Ident(event[d])
          BY <2>3 DEF Serving
    <3>2. Serving' = Serving \ {x}
      <4>1. ASSUME NEW y \in Serving' PROVE y \in Serving \ {x}
        <5>1. PICK c \in Dispatchers : event'[c] # NULL /\ y = Ident(event'[c])
              BY <4>1 DEF Serving
        <5>2. c # d /\ event[c] # NULL /\ y = Ident(event[c])
              BY <2>1, <5>1
        <5>3. y # x
              BY <2>3, <3>1, <5>2 DEF ServeInv
        <5> QED
            BY <5>2, <5>3 DEF Serving
      <4>2. ASSUME NEW y \in Serving \ {x} PROVE y \in Serving'
        <5>1. PICK c \in Dispatchers : event[c] # NULL /\ y = Ident(event[c])
              BY <4>2 DEF Serving
        <5>2. c # d
              BY <3>1, <4>2, <5>1
        <5>3. event'[c] # NULL /\ y = Ident(event'[c])
              BY <2>1, <5>1, <5>2
        <5> QED
            BY <5>3 DEF Serving
      <4> QED
          BY <4>1, <4>2
    <3>3. Fifo!End(x)
          BY <2>1, <3>1, <3>2 DEF Fifo!End, Serving
    <3> QED
        BY <3>1, <3>3 DEF Fifo!Next, Serving
  <2> QED
      BY <2>2, <2>3
<1> QED
    BY <1>1, <1>2, <1>3, <1>4, StepKinds

\* agc_event.c implements one FIFO channel with one server per source.
THEOREM EventsImplementFifo == Spec => ImplementsFifo
<1>1. Init => Fifo!Init
      BY DEF Init, Fifo!Init
<1> QED
    BY <1>1, StepRefines, OrderInvariant, OnceInvariant, RestInvariant, ServeInvariant, PTL
       DEF Spec, ImplementsFifo, Fifo!Spec

-----------------------------------------------------------------------------
(* Lists.                                                                   *)

\* l links the nodes of S, each of them once.
Links(l, S) ==
  /\ l \in Seq(Nodes)
  /\ \A i, j \in 1 .. Len(l) : l[i] = l[j] => i = j
  /\ \A n \in Nodes : n \in S <=> \E i \in 1 .. Len(l) : l[i] = n

\* A set of naturals that is not empty has a least element: the shortest of the
\* intervals 0 .. j is that of the least j.
LEMMA LeastElement ==
  ASSUME NEW S \in SUBSET Nat, S # {}
  PROVE  \E m \in S : \A j \in S : m <= j
<1> DEFINE T == {0 .. j : j \in S}
<1>1. T # {} /\ T \subseteq FiniteSubsetsOf(Nat)
  <2>1. \A j \in S : IsFiniteSet(0 .. j) /\ 0 .. j \in SUBSET Nat
        BY FS_Interval
  <2> QED
      BY <2>1 DEF FiniteSubsetsOf
<1>2. PICK x \in T : \A y \in T : ~(<<y, x>> \in StrictSubsetOrdering(Nat))
  <2>1. IsWellFoundedOn(StrictSubsetOrdering(Nat), FiniteSubsetsOf(Nat))
        BY FS_StrictSubsetOrderingWellFounded
  <2> HIDE DEF T
  <2> QED
      BY <2>1, <1>1, WFMin
<1>3. PICK m \in S : x = 0 .. m
      OBVIOUS
<1>4. ASSUME NEW j \in S, j < m PROVE FALSE
  <2>1. 0 .. j \subseteq 0 .. m /\ 0 .. j # 0 .. m
    <3>1. m \in 0 .. m /\ m \notin 0 .. j
          BY <1>4
    <3> QED
        BY <1>4, <3>1
  <2>2. <<0 .. j, 0 .. m>> \in StrictSubsetOrdering(Nat)
        BY <2>1 DEF StrictSubsetOrdering
  <2> QED
      BY <1>2, <1>3, <2>2
<1> QED
    BY <1>4

\* agc_event_bind puts the new node first.
LEMMA LinksPrepended ==
  ASSUME NEW l, NEW S, Links(l, S), NEW n \in Nodes, n \notin S
  PROVE  Links(<<n>> \o l, S \cup {n})
<1> DEFINE u == <<n>> \o l
<1>1. /\ l \in Seq(Nodes)
      /\ u \in Seq(Nodes)
      /\ Len(u) = Len(l) + 1 /\ Len(l) \in Nat
      /\ \A i \in 1 .. Len(u) : u[i] = IF i = 1 THEN n ELSE l[i - 1]
      BY DEF Links
<1> HIDE DEF u
<1>2. \A i \in 1 .. Len(u) : i = 1 \/ i - 1 \in 1 .. Len(l)
      BY <1>1
<1>3. \A i \in 1 .. Len(l) : l[i] # n
      BY <1>1 DEF Links
<1>4. \A i, j \in 1 .. Len(u) : u[i] = u[j] => i = j
  <2> SUFFICES ASSUME NEW i \in 1 .. Len(u), NEW j \in 1 .. Len(u), u[i] = u[j]
               PROVE  i = j
      OBVIOUS
  <2>1. CASE i = 1 \/ j = 1
        BY <2>1, <1>1, <1>2, <1>3
  <2>2. CASE i # 1 /\ j # 1
    <3>1. i - 1 \in 1 .. Len(l) /\ j - 1 \in 1 .. Len(l) /\ l[i - 1] = l[j - 1]
          BY <2>2, <1>1, <1>2
    <3>2. i - 1 = j - 1
          BY <3>1 DEF Links
    <3> QED
        BY <3>2
  <2> QED
      BY <2>1, <2>2
<1>5. ASSUME NEW m \in Nodes
      PROVE  m \in S \cup {n} <=> \E i \in 1 .. Len(u) : u[i] = m
  <2>1. CASE m = n
    <3>1. 1 \in 1 .. Len(u) /\ u[1] = n
          BY <1>1
    <3> QED
        BY <2>1, <3>1
  <2>2. ASSUME m # n, m \in S PROVE \E i \in 1 .. Len(u) : u[i] = m
    <3>1. PICK i \in 1 .. Len(l) : l[i] = m
          BY <2>2 DEF Links
    <3>2. i + 1 \in 1 .. Len(u) /\ i + 1 # 1 /\ (i + 1) - 1 = i
          BY <1>1
    <3> QED
        BY <3>1, <3>2, <1>1
  <2>3. ASSUME m # n, NEW i \in 1 .. Len(u), u[i] = m PROVE m \in S
    <3>1. i - 1 \in 1 .. Len(l) /\ l[i - 1] = m
          BY <2>3, <1>1, <1>2
    <3> QED
        BY <3>1 DEF Links
  <2> QED
      BY <2>1, <2>2, <2>3
<1> QED
    BY <1>1, <1>4, <1>5 DEF Links, u

\* Unlinking the k-th node joins what is before it to what is after it.
LEMMA LinksUnlinked ==
  ASSUME NEW l, NEW S, Links(l, S), NEW k \in 1 .. Len(l)
  PROVE  Links(Unlink(l, k), S \ {l[k]}) /\ l[k] \in S /\ l[k] \in Nodes
<1> DEFINE u == Unlink(l, k)
<1>0. l \in Seq(Nodes) /\ Len(l) \in Nat /\ k \in Nat
      BY DEF Links
<1>1. /\ u \in Seq(Nodes)
      /\ Len(u) = Len(l) - 1
      /\ \A i \in 1 .. Len(u) : u[i] = IF i < k THEN l[i] ELSE l[i + 1]
  <2> DEFINE a == SubSeq(l, 1, k - 1)
             b == SubSeq(l, k + 1, Len(l))
  <2>1. /\ a \in Seq(Nodes) /\ Len(a) = k - 1
        /\ \A i \in 1 .. k - 1 : a[i] = l[i]
        BY <1>0, SubSeqProperties
  <2>2. /\ b \in Seq(Nodes) /\ Len(b) = Len(l) - k
        /\ \A i \in 1 .. Len(l) - k : b[i] = l[k + i]
        BY <1>0, SubSeqProperties
  <2>3. u = a \o b
        BY DEF Unlink
  <2> HIDE DEF a, b, u
  <2>4. u \in Seq(Nodes) /\ Len(u) = Len(l) - 1
    <3>1. u \in Seq(Nodes) /\ Len(u) = Len(a) + Len(b)
          BY <2>1, <2>2, <2>3, ConcatProperties
    <3> QED
        BY <3>1, <2>1, <2>2, <1>0
  <2>5. ASSUME NEW i \in 1 .. Len(u) PROVE u[i] = IF i < k THEN l[i] ELSE l[i + 1]
    <3>1. CASE i < k
      <4>1. i \in 1 .. Len(a) /\ i \in 1 .. k - 1
            BY <3>1, <2>1, <1>0
      <4> QED
          BY <4>1, <3>1, <2>1, <2>2, <2>3
    <3>2. CASE ~(i < k)
      <4>1. i - (k - 1) \in 1 .. Len(l) - k /\ i > Len(a) /\ k + (i - (k - 1)) = i + 1
            BY <3>2, <2>1, <2>4, <1>0
      <4>2. u[i] = b[i - Len(a)]
            BY <4>1, <2>1, <2>2, <2>3, <2>4, <1>0
      <4> QED
          BY <4>1, <4>2, <3>2, <2>1, <2>2
    <3> QED
        BY <3>1, <3>2
  <2> QED
      BY <2>4, <2>5
<1> HIDE DEF u
<1>2. l[k] \in S /\ l[k] \in Nodes
      BY <1>0 DEF Links
<1>3. \A i \in 1 .. Len(u) : i \in 1 .. Len(l) /\ i + 1 \in 1 .. Len(l)
      BY <1>0, <1>1
<1>4. \A i, j \in 1 .. Len(l) : l[i] = l[j] => i = j
      BY DEF Links
<1>5. \A i \in 1 .. Len(u) : u[i] # l[k]
  <2> TAKE i \in 1 .. Len(u)
  <2>1. i \in Nat
        OBVIOUS
  <2>2. CASE i < k
    <3>1. u[i] = l[i] /\ i # k
          BY <2>2, <2>1, <1>0, <1>1
    <3> QED
        BY <3>1, <1>3, <1>4
  <2>3. CASE ~(i < k)
    <3>1. u[i] = l[i + 1] /\ i + 1 # k
          BY <2>3, <2>1, <1>0, <1>1
    <3> QED
        BY <3>1, <1>3, <1>4
  <2> QED
      BY <2>2, <2>3
<1>6. \A i, j \in 1 .. Len(u) : u[i] = u[j] => i = j
  <2> TAKE i, j \in 1 .. Len(u)
  <2>1. i \in Nat /\ j \in Nat
        OBVIOUS
  <2>2. CASE i < k /\ j < k
        BY <2>2, <1>1, <1>3, <1>4
  <2>3. CASE i < k /\ ~(j < k)
        BY <2>1, <2>3, <1>0, <1>1, <1>3, <1>4
  <2>4. CASE ~(i < k) /\ j < k
        BY <2>1, <2>4, <1>0, <1>1, <1>3, <1>4
  <2>5. CASE ~(i < k) /\ ~(j < k)
    <3>1. u[i] = u[j] => i + 1 = j + 1
          BY <2>5, <1>1, <1>3, <1>4
    <3> QED
        BY <2>1, <3>1
  <2> QED
      BY <2>2, <2>3, <2>4, <2>5
<1>7. ASSUME NEW m \in Nodes
      PROVE  m \in S \ {l[k]} <=> \E i \in 1 .. Len(u) : u[i] = m
  <2>1. ASSUME m \in S, m # l[k] PROVE \E i \in 1 .. Len(u) : u[i] = m
    <3>1. PICK i \in 1 .. Len(l) : l[i] = m
          BY <2>1 DEF Links
    <3>2. i # k /\ i \in Nat
          BY <3>1, <2>1
    <3>3. CASE i < k
      <4>1. i \in 1 .. Len(u)
            BY <3>3, <1>0, <1>1
      <4> QED
          BY <4>1, <3>1, <3>3, <1>1
    <3>4. CASE ~(i < k)
      <4>1. i - 1 \in 1 .. Len(u) /\ ~(i - 1 < k) /\ (i - 1) + 1 = i
            BY <3>2, <3>4, <1>0, <1>1
      <4> QED
          BY <4>1, <3>1, <1>1
    <3> QED
        BY <3>3, <3>4
  <2>2. ASSUME NEW i \in 1 .. Len(u), u[i] = m PROVE m \in S /\ m # l[k]
    <3>1. m # l[k]
          BY <2>2, <1>5
    <3>2. \E j \in 1 .. Len(l) : l[j] = m
          BY <2>2, <1>1, <1>3
    <3> QED
        BY <3>1, <3>2 DEF Links
  <2> QED
      BY <2>1, <2>2
<1> QED
    BY <1>1, <1>2, <1>6, <1>7 DEF Links, u

-----------------------------------------------------------------------------
(***************************************************************************)
(* The lists link what is bound.                                           *)
(***************************************************************************)
Live(id) == {n \in Nodes : node[n] # NULL /\ node[n].event_id = id}

ListInv ==
  /\ node \in [Nodes -> Subscription \cup {NULL}]
  /\ EVENT_NODES \in [BindIds -> Seq(Nodes)]
  /\ \A id \in BindIds : Links(EVENT_NODES[id], Live(id))

\* agc_event_bind: one list gains its first node.
LEMMA ListBind ==
  ASSUME ListInv, NEW n \in Nodes, NEW id \in BindIds, NEW cb \in Callbacks, Bind(n, id, cb)
  PROVE  ListInv'
<1> DEFINE rec == [event_id |-> id, callback |-> cb]
<1>1. rec \in Subscription /\ rec.event_id = id
      BY DEF Subscription
<1>2. rec # NULL
      BY <1>1, EventAssumption
<1>3. /\ node[n] = NULL
      /\ node' = [node EXCEPT ![n] = rec]
      /\ EVENT_NODES' = [EVENT_NODES EXCEPT ![id] = <<n>> \o EVENT_NODES[id]]
      BY DEF Bind
<1> HIDE DEF rec
<1>4. node' \in [Nodes -> Subscription \cup {NULL}]
      BY <1>1, <1>3 DEF ListInv
<1>5. node'[n] = rec /\ \A m \in Nodes : m # n => node'[m] = node[m]
      BY <1>3 DEF ListInv
<1>6. Live(id)' = Live(id) \cup {n} /\ n \notin Live(id)
      BY <1>1, <1>2, <1>3, <1>5 DEF Live
<1>7. \A i \in BindIds : i # id => Live(i)' = Live(i)
      BY <1>1, <1>3, <1>5 DEF Live
<1>8. Links(<<n>> \o EVENT_NODES[id], Live(id)')
      BY <1>6, LinksPrepended DEF ListInv
<1>9. /\ EVENT_NODES'[id] = <<n>> \o EVENT_NODES[id]
      /\ \A i \in BindIds : i # id => EVENT_NODES'[i] = EVENT_NODES[i]
      BY <1>3 DEF ListInv
<1>10. \A i \in BindIds : Links(EVENT_NODES'[i], Live(i)')
       BY <1>7, <1>8, <1>9 DEF ListInv
<1>11. EVENT_NODES' \in [BindIds -> Seq(Nodes)]
       BY <1>3, <1>8 DEF ListInv, Links
<1> QED
    BY <1>4, <1>10, <1>11 DEF ListInv

\* agc_event_unbind: one list loses the node that is freed.
LEMMA ListUnbind ==
  ASSUME ListInv, NEW n \in Nodes, Unbind(n)
  PROVE  ListInv'
<1>0. node[n] # NULL /\ node[n].event_id \in BindIds
      BY DEF Unbind, ListInv, Subscription
<1>1. PICK id \in BindIds : id = node[n].event_id
      BY <1>0
<1>2. PICK i \in DOMAIN EVENT_NODES[id] :
        /\ EVENT_NODES[id][i] = n
        /\ EVENT_NODES' = [EVENT_NODES EXCEPT ![id] = Unlink(EVENT_NODES[id], i)]
        /\ node' = [node EXCEPT ![n] = NULL]
      BY <1>1 DEF Unbind
<1>3. EVENT_NODES[id] \in Seq(Nodes) /\ i \in 1 .. Len(EVENT_NODES[id])
      BY <1>1, <1>2 DEF ListInv
<1>4. Links(Unlink(EVENT_NODES[id], i), Live(id) \ {n})
      BY <1>1, <1>2, <1>3, LinksUnlinked DEF ListInv
<1>5. node'[n] = NULL /\ \A m \in Nodes : m # n => node'[m] = node[m]
      BY <1>2 DEF ListInv
<1>6. Live(id)' = Live(id) \ {n}
      BY <1>5 DEF Live
<1>7. \A j \in BindIds : j # id => Live(j)' = Live(j)
      BY <1>1, <1>5 DEF Live
<1>8. \A j \in BindIds : Links(EVENT_NODES'[j], Live(j)')
      BY <1>1, <1>2, <1>4, <1>6, <1>7 DEF ListInv
<1>9. EVENT_NODES' \in [BindIds -> Seq(Nodes)]
      BY <1>1, <1>2, <1>4 DEF ListInv, Links
<1>10. node' \in [Nodes -> Subscription \cup {NULL}]
       BY <1>2 DEF ListInv
<1> QED
    BY <1>8, <1>9, <1>10 DEF ListInv

\* The first subscription of a callback in a list is one of its subscriptions.
LEMMA FirstOfHit ==
  ASSUME ListInv, NEW id \in BindIds, NEW cb, FirstOf(id, cb) # 0
  PROVE  /\ FirstOf(id, cb) \in 1 .. Len(EVENT_NODES[id])
         /\ EVENT_NODES[id][FirstOf(id, cb)] \in Live(id)
<1> DEFINE hits == {i \in DOMAIN EVENT_NODES[id] : node[EVENT_NODES[id][i]].callback = cb}
<1>1. EVENT_NODES[id] \in Seq(Nodes) /\ hits \in SUBSET (1 .. Len(EVENT_NODES[id]))
      BY DEF ListInv
<1>2. /\ hits # {}
      /\ FirstOf(id, cb) = CHOOSE i \in hits : \A j \in hits : i <= j
      BY DEF FirstOf
<1> HIDE DEF hits
<1>3. \E i \in hits : \A j \in hits : i <= j
      BY <1>1, <1>2, LeastElement
<1>4. FirstOf(id, cb) \in hits
      BY <1>2, <1>3
<1>5. FirstOf(id, cb) \in 1 .. Len(EVENT_NODES[id])
      BY <1>1, <1>4
<1>6. EVENT_NODES[id][FirstOf(id, cb)] \in Nodes
      BY <1>1, <1>5
<1> QED
    BY <1>5, <1>6 DEF ListInv, Links

\* agc_event_unbind_callback: every list that has the callback loses one node.
LEMMA ListUnbindCallback ==
  ASSUME ListInv, NEW cb \in Callbacks, UnbindCallback(cb)
  PROVE  ListInv'
<1> DEFINE found == {id \in BindIds : FirstOf(id, cb) # 0}
           gone(id) == EVENT_NODES[id][FirstOf(id, cb)]
           freed == {gone(id) : id \in found}
<1>1. /\ EVENT_NODES' = [id \in BindIds |-> IF id \in found
                                            THEN Unlink(EVENT_NODES[id], FirstOf(id, cb))
                                            ELSE EVENT_NODES[id]]
      /\ node' = [n \in Nodes |-> IF n \in freed THEN NULL ELSE node[n]]
      BY DEF UnbindCallback
<1>2. \A id \in found : gone(id) \in Live(id) /\ gone(id) \in Nodes
      BY FirstOfHit DEF Live
<1>3. node' \in [Nodes -> Subscription \cup {NULL}]
      BY <1>1 DEF ListInv
<1>4. ASSUME NEW id \in BindIds
      PROVE  Links(EVENT_NODES'[id], Live(id)')
  <2>1. \A m \in Nodes : m \in Live(id)' <=> m \in Live(id) /\ m \notin freed
        BY <1>1, EventAssumption DEF Live
  <2>2. CASE id \in found
    <3>1. Links(Unlink(EVENT_NODES[id], FirstOf(id, cb)), Live(id) \ {gone(id)})
          BY <2>2, FirstOfHit, LinksUnlinked DEF ListInv
    <3>2. \A m \in Live(id) : m \in freed <=> m = gone(id)
          BY <2>2, <1>2 DEF Live
    <3>3. Live(id)' = Live(id) \ {gone(id)}
          BY <2>1, <3>2 DEF Live
    <3> QED
        BY <3>1, <3>3, <2>2, <1>1
  <2>3. CASE id \notin found
    <3>1. \A m \in Live(id) : m \notin freed
          BY <2>3, <1>2 DEF Live
    <3>2. Live(id)' = Live(id)
          BY <2>1, <3>1 DEF Live
    <3>3. EVENT_NODES'[id] = EVENT_NODES[id]
          BY <2>3, <1>1
    <3> QED
        BY <3>2, <3>3 DEF ListInv
  <2> QED
      BY <2>2, <2>3
<1>5. EVENT_NODES' \in [BindIds -> Seq(Nodes)]
  <2>1. \A id \in BindIds : EVENT_NODES'[id] \in Seq(Nodes)
        BY <1>4 DEF Links
  <2> QED
      BY <2>1, <1>1
<1> QED
    BY <1>3, <1>4, <1>5 DEF ListInv

\* ListInv is inductive.
LEMMA ListInvariant == Spec => []ListInv
<1>1. Init => ListInv
      BY DEF Init, ListInv, Live, Links
<1>2. ListInv /\ [Next]_vars => ListInv'
  <2> SUFFICES ASSUME ListInv, [Next]_vars PROVE ListInv'
      OBVIOUS
  <2>1. ASSUME UNCHANGED subVars PROVE ListInv'
        BY <2>1 DEF ListInv, Live, Links, subVars
  <2>2. CASE UNCHANGED vars
        BY <2>1, <2>2 DEF vars
  <2>3. CASE \/ \E t \in Threads, s \in AllSources, id \in BindIds : FireEvent(t, s, id)
             \/ \E t \in Threads, f \in FastEvents : FireFast(t, f)
             \/ \E t \in Threads : Push(t)
        BY <2>1, <2>3 DEF FireEvent, FireFast, Fire, Push
  <2>4. CASE \E d \in Dispatchers : DispatchThread(d)
        BY <2>1, <2>4 DEF DispatchThread, ThreadStart, CheckRunning, TryPop, Deliver,
           CallbackReturn, NodeReturn, Release, ThreadExit
  <2>5. CASE LaunchThread \/ Shutdown \/ ShutdownWait
        BY <2>1, <2>5 DEF LaunchThread, Shutdown, ShutdownWait, MainStep
  <2>6. CASE \/ \E n \in Nodes, id \in BindIds, cb \in Callbacks : Bind(n, id, cb)
             \/ \E n \in Nodes : Unbind(n)
             \/ \E cb \in Callbacks : UnbindCallback(cb)
        BY <2>6, ListBind, ListUnbind, ListUnbindCallback
  <2> QED
      BY <2>2, <2>3, <2>4, <2>5, <2>6 DEF Next
<1> QED
    BY <1>1, <1>2, PTL DEF Spec

\* agc_event_bind / unbind / unbind_callback: for any nodes, ids and callbacks, the
\* lists link every allocated node once, under its own event id, and no freed node.
THEOREM ListsLinkWhatIsBound == Spec => []SubscriptionLists
<1>1. ListInv => SubscriptionLists
  <2> SUFFICES ASSUME ListInv, NEW id \in BindIds
               PROVE  /\ \A i \in DOMAIN EVENT_NODES[id] :
                           LET n == EVENT_NODES[id][i] IN
                           /\ node[n] # NULL /\ node[n].event_id = id
                           /\ \A j \in DOMAIN EVENT_NODES[id] : EVENT_NODES[id][j] = n => j = i
                      /\ \A n \in Nodes : node[n] # NULL /\ node[n].event_id = id =>
                           \E i \in DOMAIN EVENT_NODES[id] : EVENT_NODES[id][i] = n
      BY DEF SubscriptionLists
  <2>1. /\ EVENT_NODES[id] \in Seq(Nodes)
        /\ DOMAIN EVENT_NODES[id] = 1 .. Len(EVENT_NODES[id])
        /\ \A i \in DOMAIN EVENT_NODES[id] : EVENT_NODES[id][i] \in Nodes
        BY DEF ListInv
  <2> DEFINE l == EVENT_NODES[id]
             S == Live(id)
  <2>2. Links(l, S)
        BY DEF ListInv
  <2>3. S \subseteq Nodes /\ \A n \in Nodes : n \in S <=> node[n] # NULL /\ node[n].event_id = id
        BY DEF Live
  <2> HIDE DEF l, S
  <2>i. l \in Seq(Nodes) /\ DOMAIN l = 1 .. Len(l) /\ \A i \in DOMAIN l : l[i] \in Nodes
        BY <2>1 DEF l
  <2>4. /\ \A i, j \in DOMAIN l : l[i] = l[j] => i = j
        /\ \A i \in DOMAIN l : l[i] \in S
        /\ \A n \in S : \E i \in DOMAIN l : l[i] = n
        BY <2>i, <2>2, <2>3 DEF Links
  <2> QED
      BY <2>1, <2>3, <2>4 DEF l
<1> QED
    BY <1>1, ListInvariant, PTL

-----------------------------------------------------------------------------
(***************************************************************************)
(* A walk stands on a linked node.  Writers wait until no dispatcher walks,*)
(* so the lists under a walk do not change.                                *)
(***************************************************************************)
\* n is a node that a walk for event id may stand on.
OnPath(n, id) ==
  /\ n \in Nodes /\ node[n] # NULL
  /\ node[n].event_id \in {id, EVENT_ID_ALL}
  /\ \E i \in 1 .. Len(EVENT_NODES[node[n].event_id]) : EVENT_NODES[node[n].event_id][i] = n

WalkInv ==
  /\ np \in [Dispatchers -> Nodes \cup {NULL}]
  /\ \A d \in Dispatchers : pc[d] \in {"deliver", "node"} => event[d] \in Event
  /\ \A d \in Dispatchers : pc[d] = "node" => OnPath(np[d], event[d].event_id)

\* The first node of a list is on the path of its event.
LEMMA FirstOnPath ==
  ASSUME ListInv, NEW id \in BindIds, NEW ev \in BindIds, id \in {ev, EVENT_ID_ALL}
  PROVE  FirstNode(id) = NULL \/ OnPath(FirstNode(id), ev)
<1>1. EVENT_NODES[id] \in Seq(Nodes)
      BY DEF ListInv
<1>2. CASE EVENT_NODES[id] = <<>>
      BY <1>2 DEF FirstNode
<1>3. CASE EVENT_NODES[id] # <<>>
  <2>1. 1 \in 1 .. Len(EVENT_NODES[id])
        BY <1>1, <1>3
  <2>2. FirstNode(id) = EVENT_NODES[id][1] /\ FirstNode(id) \in Nodes
        BY <1>1, <1>3, <2>1 DEF FirstNode
  <2>3. FirstNode(id) \in Live(id)
        BY <2>1, <2>2 DEF ListInv, Links
  <2> QED
      BY <2>1, <2>2, <2>3 DEF OnPath, Live
<1> QED
    BY <1>2, <1>3

\* A walk begins at the head of the event's own list, or of that of all events.
LEMMA WalkBegins ==
  ASSUME ListInv, NEW ev \in BindIds
  PROVE  WalkFrom(ev) = NULL \/ OnPath(WalkFrom(ev), ev)
<1>1. EVENT_ID_ALL \in BindIds
      BY DEF BindIds
<1> QED
    BY <1>1, FirstOnPath DEF WalkFrom

\* Where it stands, the next node of that list follows, or the head of the other.
LEMMA WalkGoesOn ==
  ASSUME ListInv, NEW ev \in BindIds, NEW n, OnPath(n, ev)
  PROVE  NextNode(n) = NULL \/ OnPath(NextNode(n), ev)
<1>1. PICK id \in BindIds : id = node[n].event_id
      BY DEF OnPath, ListInv, Subscription
<1> DEFINE list == EVENT_NODES[id]
           i == CHOOSE j \in DOMAIN list : list[j] = n
<1>2. list \in Seq(Nodes) /\ DOMAIN list = 1 .. Len(list) /\ id \in {ev, EVENT_ID_ALL}
      BY <1>1 DEF ListInv, OnPath
<1>3. \E j \in DOMAIN list : list[j] = n
      BY <1>1, <1>2 DEF OnPath
<1>4. i \in 1 .. Len(list)
      BY <1>2, <1>3
<1>5. NextNode(n) = IF i < Len(list) THEN list[i + 1]
                    ELSE IF id = EVENT_ID_ALL THEN NULL ELSE FirstNode(EVENT_ID_ALL)
      BY <1>1 DEF NextNode
<1> HIDE DEF i
<1>6. CASE i < Len(list)
  <2>1. i + 1 \in 1 .. Len(list)
        BY <1>2, <1>4, <1>6
  <2>2. list[i + 1] \in Nodes
        BY <1>2, <2>1
  <2>3. list[i + 1] \in Live(id)
        BY <2>1, <2>2 DEF ListInv, Links
  <2>4. node[list[i + 1]] # NULL /\ node[list[i + 1]].event_id = id
        BY <2>3 DEF Live
  <2>5. OnPath(list[i + 1], ev)
        BY <1>2, <2>1, <2>2, <2>4 DEF OnPath
  <2> QED
      BY <1>5, <1>6, <2>5
<1>7. CASE ~(i < Len(list))
  <2>1. EVENT_ID_ALL \in BindIds
        BY DEF BindIds
  <2> QED
      BY <1>5, <1>7, <2>1, FirstOnPath
<1> QED
    BY <1>6, <1>7

\* The dispatcher's own steps keep WalkInv.
LEMMA WalkThread ==
  ASSUME QueueTypes, RestInv, ListInv, WalkInv, NEW d \in Dispatchers, DispatchThread(d)
  PROVE  WalkInv'
<1>1. PICK to \in PCs : pc' = [pc EXCEPT ![d] = to]
      BY DEF DispatchThread, ThreadStart, CheckRunning, TryPop, Deliver, CallbackReturn,
         NodeReturn, Release, ThreadExit, Goto, PCs
<1>2. pc'[d] = to /\ \A c \in Dispatchers : c # d => pc'[c] = pc[c]
      BY <1>1 DEF RestInv
<1>3. UNCHANGED subVars
      BY DEF DispatchThread, ThreadStart, CheckRunning, TryPop, Deliver, CallbackReturn,
         NodeReturn, Release, ThreadExit
<1>4. \A n, id : OnPath(n, id)' <=> OnPath(n, id)
      BY <1>3 DEF OnPath, subVars
<1>5. \A c \in Dispatchers : c # d => event'[c] = event[c] /\ np'[c] = np[c]
      BY DEF WalkInv, QueueTypes, DispatchThread, ThreadStart, CheckRunning, TryPop, Deliver,
         CallbackReturn, NodeReturn, Release, ThreadExit
<1>6. \A e \in Event : e.event_id \in BindIds
      BY DEF Event
<1>7. /\ np' \in [Dispatchers -> Nodes \cup {NULL}]
      /\ pc'[d] \in {"deliver", "node"} => event'[d] \in Event
      /\ pc'[d] = "node" => OnPath(np'[d], event'[d].event_id)
  <2>1. CASE ThreadStart(d) \/ CheckRunning(d) \/ CallbackReturn(d) \/ Release(d) \/ ThreadExit(d)
    <3>1. pc'[d] \notin {"deliver", "node"} /\ np' = np
          BY <2>1, <1>2 DEF ThreadStart, CheckRunning, CallbackReturn, Release, ThreadExit, Goto, RestInv
    <3> QED
        BY <3>1 DEF WalkInv
  <2>2. CASE TryPop(d)
    <3>1. np' = np
          BY <2>2 DEF TryPop
    <3>2. CASE Pops(d)
      <4>1. event'[d] \in Event
            BY <3>2, PopEffect DEF QueueTypes
      <4>2. pc'[d] = "deliver"
            BY <3>2 DEF Pops, TryPop, Goto, RestInv
      <4> QED
          BY <3>1, <4>1, <4>2 DEF WalkInv
    <3>3. CASE ~Pops(d)
      <4>1. pc'[d] = "loop"
            BY <2>2, <3>3 DEF Pops, TryPop, Goto, RestInv
      <4> QED
          BY <3>1, <4>1 DEF WalkInv
    <3> QED
        BY <3>2, <3>3
  <2>3. CASE Deliver(d)
    <3>1. event' = event /\ event[d] \in Event /\ event[d].event_id \in BindIds
          BY <2>3, <1>6 DEF Deliver, WalkInv
    <3>2. CASE np' = np /\ pc'[d] \in {"release", "callback"}
          BY <3>2 DEF WalkInv
    <3>3. CASE /\ np' = [np EXCEPT ![d] = WalkFrom(event[d].event_id)]
               /\ Goto(d, "deliver", IF np'[d] = NULL THEN "release" ELSE "node")
      <4>1. np'[d] = WalkFrom(event[d].event_id) /\ pc'[d] \in {"release", "node"}
            BY <3>3 DEF WalkInv, Goto, RestInv
      <4>2. np'[d] = NULL \/ OnPath(np'[d], event[d].event_id)
            BY <3>1, <4>1, WalkBegins
      <4>3. pc'[d] = "node" => np'[d] # NULL
            BY <3>3 DEF Goto, RestInv
      <4>4. np'[d] \in Nodes \cup {NULL}
            BY <4>2 DEF OnPath
      <4>5. np' \in [Dispatchers -> Nodes \cup {NULL}]
            BY <3>3, <4>1, <4>4 DEF WalkInv
      <4> QED
          BY <3>1, <4>2, <4>3, <4>5
    <3> QED
        BY <2>3, <3>2, <3>3 DEF Deliver, Goto, RestInv
  <2>4. CASE NodeReturn(d)
    <3>1. event' = event /\ event[d] \in Event /\ event[d].event_id \in BindIds
          BY <2>4, <1>6 DEF NodeReturn, WalkInv
    <3>2. OnPath(np[d], event[d].event_id)
          BY <2>4 DEF NodeReturn, WalkInv
    <3>3. /\ np' = [np EXCEPT ![d] = NextNode(np[d])] /\ np'[d] = NextNode(np[d])
          /\ pc'[d] = IF np'[d] = NULL THEN "release" ELSE "node"
          BY <2>4 DEF NodeReturn, WalkInv, Goto, RestInv
    <3>4. np'[d] = NULL \/ OnPath(np'[d], event[d].event_id)
          BY <3>1, <3>2, <3>3, WalkGoesOn
    <3>5. np'[d] \in Nodes \cup {NULL}
          BY <3>4 DEF OnPath
    <3>6. np' \in [Dispatchers -> Nodes \cup {NULL}]
          BY <3>3, <3>5 DEF WalkInv
    <3> QED
        BY <3>1, <3>3, <3>4, <3>6
  <2> QED
      BY <2>1, <2>2, <2>3, <2>4 DEF DispatchThread
<1>8. ASSUME NEW c \in Dispatchers
      PROVE  /\ pc'[c] \in {"deliver", "node"} => event'[c] \in Event
             /\ pc'[c] = "node" => OnPath(np'[c], event'[c].event_id)
  <2>1. CASE c = d
        BY <2>1, <1>7
  <2>2. CASE c # d
        BY <2>2, <1>2, <1>5 DEF WalkInv
  <2> QED
      BY <2>1, <2>2
<1> QED
    BY <1>4, <1>7, <1>8 DEF WalkInv

\* WalkInv is an invariant.
LEMMA WalkInvariant == Spec => []WalkInv
<1>1. Init => WalkInv
      BY DEF Init, WalkInv
<1>2. QueueTypes /\ RestInv /\ ListInv /\ WalkInv /\ [Next]_vars => WalkInv'
  <2> SUFFICES ASSUME QueueTypes, RestInv, ListInv, WalkInv, [Next]_vars PROVE WalkInv'
      OBVIOUS
  <2>1. ASSUME UNCHANGED <<threadVars, subVars>> PROVE WalkInv'
        BY <2>1 DEF WalkInv, OnPath, threadVars, subVars
  <2>2. CASE UNCHANGED vars
        BY <2>1, <2>2 DEF vars
  <2>3. CASE \/ \E t \in Threads, s \in AllSources, id \in BindIds : FireEvent(t, s, id)
             \/ \E t \in Threads, f \in FastEvents : FireFast(t, f)
             \/ \E t \in Threads : Push(t)
        BY <2>1, <2>3 DEF FireEvent, FireFast, Fire, Push
  <2>4. CASE \E d \in Dispatchers : DispatchThread(d)
        BY <2>4, WalkThread
  <2>5. CASE Shutdown \/ ShutdownWait
        BY <2>1, <2>5 DEF Shutdown, ShutdownWait, MainStep, threadVars
  <2>6. CASE LaunchThread
    <3>1. /\ pc' = [pc EXCEPT ![main.index] = "start"]
          /\ UNCHANGED <<event, np, subVars>>
          BY <2>6 DEF LaunchThread, Goto, MainStep
    <3>2. \A d \in Dispatchers : pc'[d] = pc[d] \/ pc'[d] = "start"
          BY <3>1 DEF RestInv
    <3> QED
        BY <3>1, <3>2 DEF WalkInv, OnPath, subVars
  <2>7. CASE \/ \E n \in Nodes, id \in BindIds, cb \in Callbacks : Bind(n, id, cb)
             \/ \E n \in Nodes : Unbind(n)
             \/ \E cb \in Callbacks : UnbindCallback(cb)
    <3>1. WrLockFree /\ UNCHANGED threadVars
          BY <2>7 DEF Bind, Unbind, UnbindCallback, SubStep
    <3> QED
        BY <3>1 DEF WalkInv, WrLockFree, threadVars
  <2> QED
      BY <2>2, <2>3, <2>4, <2>5, <2>6, <2>7 DEF Next
<1>3. OrderInv => QueueTypes
      BY DEF OrderInv
<1> QED
    BY <1>1, <1>2, <1>3, OrderInvariant, RestInvariant, ListInvariant, PTL DEF Spec

\* agc_event_deliver / agc_event_unbind: for any number of dispatchers and subscribers,
\* a dispatcher walking the subscriptions stands on a node that is allocated and linked.
THEOREM WalksOnLiveNodes == Spec => []WalkOnLiveNode
<1>1. ListInv /\ WalkInv => WalkOnLiveNode
  <2> SUFFICES ASSUME ListInv, WalkInv, NEW d \in Dispatchers, pc[d] = "node"
               PROVE  /\ np[d] \in Nodes
                      /\ node[np[d]] # NULL
                      /\ node[np[d]].event_id \in {event[d].event_id, EVENT_ID_ALL}
                      /\ \E i \in DOMAIN EVENT_NODES[node[np[d]].event_id] :
                           EVENT_NODES[node[np[d]].event_id][i] = np[d]
      BY DEF WalkOnLiveNode
  <2>1. OnPath(np[d], event[d].event_id)
        BY DEF WalkInv
  <2>2. node[np[d]].event_id \in BindIds
        BY <2>1 DEF OnPath, ListInv, Subscription
  <2>3. EVENT_NODES[node[np[d]].event_id] \in Seq(Nodes)
        BY <2>2 DEF ListInv
  <2> QED
      BY <2>1, <2>3 DEF OnPath
<1> QED
    BY <1>1, ListInvariant, WalkInvariant, PTL

-----------------------------------------------------------------------------
(* Shutdown.  DISPATCH_THREAD_COUNT is the number of threads that have      *)
(* started and not ended; one launched late starts, sees that the system is *)
(* down and exits without taking an event.                                  *)

Counted == {d \in Dispatchers : pc[d] \notin {"none", "start", "ended"}}

\* Where a dispatcher may be once agc_event_shutdown saw no thread left.
Quiesced == {"start", "loop", "exit", "ended"}

\* Every dispatcher below main.index is launched.
LaunchInv ==
  /\ main.index \in Nat
  /\ main.pc \in {"launch", "run", "wait", "done"}
  /\ \A d \in Dispatchers : pc[d] = "none" => main.pc = "launch" /\ main.index <= d

ShutdownInv ==
  /\ DISPATCH_THREAD_COUNT = Cardinality(Counted)
  /\ SYSTEM_RUNNING <=> main.pc \in {"launch", "run"}
  /\ ShutdownQuiesces

\* How one dispatcher's move changes the set of the counted ones.
LEMMA CountedMoves ==
  ASSUME RestInv, NEW d \in Dispatchers, NEW to \in PCs, pc' = [pc EXCEPT ![d] = to]
  PROVE  /\ IsFiniteSet(Counted)
         /\ pc'[d] = to /\ \A c \in Dispatchers : c # d => pc'[c] = pc[c]
         /\ Counted' = IF to \in {"none", "start", "ended"} THEN Counted \ {d}
                       ELSE Counted \cup {d}
<1>1. pc'[d] = to /\ \A c \in Dispatchers : c # d => pc'[c] = pc[c]
      BY DEF RestInv
<1>2. IsFiniteSet(Dispatchers)
      BY EventAssumption, FS_Interval DEF Dispatchers
<1>3. IsFiniteSet(Counted)
      BY <1>2, FS_Subset DEF Counted
<1>4. CASE to \in {"none", "start", "ended"}
  <2>1. Counted' = Counted \ {d}
        BY <1>1, <1>4 DEF Counted
  <2> QED
      BY <1>1, <1>3, <1>4, <2>1
<1>5. CASE to \notin {"none", "start", "ended"}
  <2>1. Counted' = Counted \cup {d}
        BY <1>1, <1>5 DEF Counted
  <2> QED
      BY <1>1, <1>3, <1>5, <2>1
<1> QED
    BY <1>4, <1>5

\* A dispatcher's own steps keep the count, and after shutdown they never lead it
\* from a quiet place to an event.
LEMMA ShutdownThread ==
  ASSUME RestInv, ShutdownInv, NEW d \in Dispatchers, DispatchThread(d)
  PROVE  ShutdownInv'
<1>1. UNCHANGED <<SYSTEM_RUNNING, main>>
      BY DEF DispatchThread, ThreadStart, CheckRunning, TryPop, Deliver, CallbackReturn,
         NodeReturn, Release, ThreadExit, runVars
<1>2. /\ IsFiniteSet(Counted)
      /\ Cardinality(Counted \cup {d}) = IF d \in Counted THEN Cardinality(Counted)
                                        ELSE Cardinality(Counted) + 1
      /\ Cardinality(Counted \ {d}) = IF d \in Counted THEN Cardinality(Counted) - 1
                                      ELSE Cardinality(Counted)
  <2>1. IsFiniteSet(Dispatchers)
        BY EventAssumption, FS_Interval DEF Dispatchers
  <2>2. IsFiniteSet(Counted)
        BY <2>1, FS_Subset DEF Counted
  <2> QED
      BY <2>2, FS_AddElement, FS_RemoveElement
<1>3. /\ DISPATCH_THREAD_COUNT' = Cardinality(Counted')
      /\ \A c \in Dispatchers : c # d => pc'[c] = pc[c]
      /\ ~SYSTEM_RUNNING /\ pc[d] \in Quiesced => pc'[d] \in Quiesced
  <2>1. CASE ThreadStart(d)
    <3>1. pc[d] = "start" /\ pc' = [pc EXCEPT ![d] = "loop"]
          /\ DISPATCH_THREAD_COUNT' = DISPATCH_THREAD_COUNT + 1
          BY <2>1 DEF ThreadStart, Goto
    <3>2. pc'[d] = "loop" /\ Counted' = Counted \cup {d} /\ \A c \in Dispatchers : c # d => pc'[c] = pc[c]
          BY <3>1, CountedMoves DEF PCs
    <3>3. d \notin Counted
          BY <3>1 DEF Counted
    <3> QED
        BY <3>1, <3>2, <3>3, <1>2 DEF ShutdownInv, Quiesced
  <2>2. CASE ThreadExit(d)
    <3>1. pc[d] = "exit" /\ pc' = [pc EXCEPT ![d] = "ended"]
          /\ DISPATCH_THREAD_COUNT' = DISPATCH_THREAD_COUNT - 1
          BY <2>2 DEF ThreadExit, Goto
    <3>2. pc'[d] = "ended" /\ Counted' = Counted \ {d} /\ \A c \in Dispatchers : c # d => pc'[c] = pc[c]
          BY <3>1, CountedMoves DEF PCs
    <3>3. d \in Counted
          BY <3>1 DEF Counted
    <3> QED
        BY <3>1, <3>2, <3>3, <1>2 DEF ShutdownInv, Quiesced
  <2>3. CASE \/ CheckRunning(d) \/ TryPop(d) \/ Deliver(d)
             \/ CallbackReturn(d) \/ NodeReturn(d) \/ Release(d)
    <3>1. PICK to \in {"pop", "exit", "loop", "deliver", "release", "callback", "node"} :
            pc' = [pc EXCEPT ![d] = to]
          BY <2>3 DEF CheckRunning, TryPop, Deliver, CallbackReturn, NodeReturn, Release, Goto
    <3>2. d \in Counted /\ DISPATCH_THREAD_COUNT' = DISPATCH_THREAD_COUNT
          BY <2>3 DEF CheckRunning, TryPop, Deliver, CallbackReturn, NodeReturn, Release, Goto,
             Counted, runVars
    <3>3. /\ Counted' = Counted \cup {d} /\ pc'[d] = to
          /\ \A c \in Dispatchers : c # d => pc'[c] = pc[c]
          BY <3>1, CountedMoves DEF PCs
    <3>4. ~SYSTEM_RUNNING /\ pc[d] \in Quiesced => pc'[d] \in Quiesced
          BY <2>3, <3>1, <3>3 DEF Quiesced, CheckRunning, TryPop, Deliver, CallbackReturn,
             NodeReturn, Release, Goto, RestInv
    <3>5. Counted' = Counted
          BY <3>2, <3>3
    <3> QED
        BY <3>2, <3>3, <3>4, <3>5 DEF ShutdownInv
  <2> QED
      BY <2>1, <2>2, <2>3 DEF DispatchThread
<1>4. ShutdownQuiesces'
  <2> SUFFICES ASSUME main.pc = "done", main.x < SHUTDOWN_TRIES, NEW c \in Dispatchers
               PROVE  pc'[c] \in Quiesced
      BY <1>1 DEF ShutdownQuiesces, Quiesced
  <2>1. ~SYSTEM_RUNNING /\ pc[c] \in Quiesced
        BY DEF ShutdownInv, ShutdownQuiesces, Quiesced
  <2> QED
      BY <2>1, <1>3
<1> QED
    BY <1>1, <1>3, <1>4 DEF ShutdownInv

\* Launching and shutting down keep it: with no thread counted and all of them
\* launched, each is either about to start or ended.
LEMMA ShutdownMain ==
  ASSUME RestInv, LaunchInv, ShutdownInv, LaunchThread \/ Shutdown \/ ShutdownWait
  PROVE  LaunchInv' /\ ShutdownInv'
<1>1. CASE LaunchThread
  <2>1. /\ main.pc = "launch" /\ pc[main.index] = "none"
        /\ pc' = [pc EXCEPT ![main.index] = "start"]
        /\ UNCHANGED <<SYSTEM_RUNNING, DISPATCH_THREAD_COUNT>>
        /\ main' = [main EXCEPT !.index = main.index + 1,
                       !.pc = IF main.index + 1 = MAX_DISPATCHER THEN "run" ELSE main.pc]
        BY <1>1 DEF LaunchThread, Goto, MainStep
  <2>2. CASE main.index \in Dispatchers
    <3>1. /\ Counted' = Counted \ {main.index} /\ pc'[main.index] = "start"
          /\ \A c \in Dispatchers : c # main.index => pc'[c] = pc[c]
          BY <2>1, <2>2, CountedMoves DEF PCs
    <3>2. Counted' = Counted
          BY <3>1, <2>1 DEF Counted
    <3>3. main'.index = main.index + 1 /\ main'.pc = IF main.index + 1 = MAX_DISPATCHER THEN "run" ELSE "launch"
          BY <2>1
    <3>4. \A c \in Dispatchers : pc'[c] = "none" => main.index < c /\ c < MAX_DISPATCHER
          BY <3>1, <2>2, EventAssumption DEF Dispatchers, LaunchInv
    <3> QED
        BY <2>1, <2>2, <3>2, <3>3, <3>4, EventAssumption DEF LaunchInv, ShutdownInv, ShutdownQuiesces, Dispatchers
  <2>3. CASE main.index \notin Dispatchers
    <3>1. pc' = pc
          BY <2>1, <2>3 DEF RestInv
    <3>2. Counted' = Counted
          BY <3>1 DEF Counted
    <3>3. main'.index = main.index + 1 /\ main'.pc = IF main.index + 1 = MAX_DISPATCHER THEN "run" ELSE "launch"
          BY <2>1
    <3>4. main.index + 1 # MAX_DISPATCHER /\ \A c \in Dispatchers : ~(main.index <= c)
          BY <2>3, EventAssumption DEF Dispatchers, LaunchInv
    <3> QED
        BY <2>1, <3>1, <3>2, <3>3, <3>4 DEF LaunchInv, ShutdownInv, ShutdownQuiesces
  <2> QED
      BY <2>2, <2>3
<1>2. CASE Shutdown
  <2>1. /\ main.pc = "run" /\ SYSTEM_RUNNING' = FALSE
        /\ UNCHANGED <<pc, DISPATCH_THREAD_COUNT>>
        /\ main' = [main EXCEPT !.pc = "wait"]
        BY <1>2 DEF Shutdown, MainStep
  <2>2. Counted' = Counted
        BY <2>1 DEF Counted
  <2> QED
      BY <2>1, <2>2 DEF LaunchInv, ShutdownInv, ShutdownQuiesces
<1>3. CASE ShutdownWait
  <2>1. main.pc = "wait" /\ UNCHANGED <<pc, SYSTEM_RUNNING, DISPATCH_THREAD_COUNT>>
        BY <1>3 DEF ShutdownWait, MainStep
  <2>2. Counted' = Counted
        BY <2>1 DEF Counted
  <2>3. CASE main.x < SHUTDOWN_TRIES /\ DISPATCH_THREAD_COUNT # 0
    <3>1. main'.pc = "wait" /\ main'.index = main.index
          BY <2>1, <2>3, <1>3 DEF ShutdownWait
    <3> QED
        BY <2>1, <2>2, <3>1 DEF LaunchInv, ShutdownInv, ShutdownQuiesces
  <2>4. CASE ~(main.x < SHUTDOWN_TRIES /\ DISPATCH_THREAD_COUNT # 0)
    <3>1. main' = [main EXCEPT !.pc = "done"]
          BY <2>4, <1>3 DEF ShutdownWait
    <3>2. ASSUME DISPATCH_THREAD_COUNT = 0, NEW c \in Dispatchers PROVE pc[c] \in Quiesced
      <4>1. Counted = {}
        <5>1. IsFiniteSet(Dispatchers)
              BY EventAssumption, FS_Interval DEF Dispatchers
        <5>2. IsFiniteSet(Counted)
              BY <5>1, FS_Subset DEF Counted
        <5> QED
            BY <5>2, <3>2, FS_EmptySet DEF ShutdownInv
      <4> QED
          BY <4>1, <2>1 DEF Counted, LaunchInv, Quiesced
    <3>3. main'.pc = "done" /\ main'.index = main.index /\ main'.x = main.x
          BY <3>1
    <3> QED
        BY <2>1, <2>2, <2>4, <3>2, <3>3 DEF LaunchInv, ShutdownInv, ShutdownQuiesces, Quiesced
  <2> QED
      BY <2>3, <2>4
<1> QED
    BY <1>1, <1>2, <1>3

\* agc_event_shutdown: for any number of dispatchers, when it returns because
\* DISPATCH_THREAD_COUNT reached 0, and not because it gave up waiting, no dispatcher
\* is delivering, and none will.
THEOREM ShutdownQuiets == Spec => []ShutdownQuiesces
<1>1. Init => LaunchInv /\ ShutdownInv
  <2> SUFFICES ASSUME Init PROVE LaunchInv /\ ShutdownInv
      OBVIOUS
  <2>1. Counted = {}
        BY DEF Init, Counted
  <2>2. main.pc = "launch" /\ main.index = 0 /\ SYSTEM_RUNNING /\ DISPATCH_THREAD_COUNT = 0
        BY DEF Init
  <2>3. \A d \in Dispatchers : 0 <= d
        BY DEF Dispatchers
  <2> QED
      BY <2>1, <2>2, <2>3, FS_EmptySet DEF LaunchInv, ShutdownInv, ShutdownQuiesces
<1>2. RestInv /\ LaunchInv /\ ShutdownInv /\ [Next]_vars => LaunchInv' /\ ShutdownInv'
  <2> SUFFICES ASSUME RestInv, LaunchInv, ShutdownInv, [Next]_vars
               PROVE  LaunchInv' /\ ShutdownInv'
      OBVIOUS
  <2>1. ASSUME UNCHANGED <<runVars, pc>> PROVE LaunchInv' /\ ShutdownInv'
    <3>1. Counted' = Counted
          BY <2>1 DEF Counted
    <3> QED
        BY <2>1, <3>1 DEF LaunchInv, ShutdownInv, ShutdownQuiesces, runVars
  <2>2. CASE UNCHANGED vars
        BY <2>1, <2>2 DEF vars, threadVars
  <2>3. CASE \/ \E t \in Threads, s \in AllSources, id \in BindIds : FireEvent(t, s, id)
             \/ \E t \in Threads, f \in FastEvents : FireFast(t, f)
             \/ \E t \in Threads : Push(t)
        BY <2>1, <2>3 DEF FireEvent, FireFast, Fire, Push, threadVars
  <2>4. ASSUME NEW d \in Dispatchers, DispatchThread(d) PROVE LaunchInv' /\ ShutdownInv'
    <3>1. main' = main
          BY <2>4 DEF DispatchThread, ThreadStart, CheckRunning, TryPop, Deliver, CallbackReturn,
             NodeReturn, Release, ThreadExit, runVars
    <3>2. PICK to \in PCs \ {"none"} : pc' = [pc EXCEPT ![d] = to]
          BY <2>4 DEF DispatchThread, ThreadStart, CheckRunning, TryPop, Deliver, CallbackReturn,
             NodeReturn, Release, ThreadExit, Goto, PCs
    <3>3. \A c \in Dispatchers : pc'[c] = "none" => pc[c] = "none"
          BY <3>2 DEF RestInv
    <3> QED
        BY <3>1, <3>3, <2>4, ShutdownThread DEF LaunchInv
  <2>5. CASE \/ \E n \in Nodes, id \in BindIds, cb \in Callbacks : Bind(n, id, cb)
             \/ \E n \in Nodes : Unbind(n)
             \/ \E cb \in Callbacks : UnbindCallback(cb)
        BY <2>1, <2>5 DEF Bind, Unbind, UnbindCallback, SubStep, threadVars
  <2> QED
      BY <2>2, <2>3, <2>4, <2>5, ShutdownMain DEF Next
<1>3. ShutdownInv => ShutdownQuiesces
      BY DEF ShutdownInv
<1> QED
    BY <1>1, <1>2, <1>3, RestInvariant, PTL DEF Spec

===============================================================================
