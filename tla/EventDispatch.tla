----------------------------- MODULE EventDispatch -----------------------------
(***************************************************************************)
(* The event core (agc_event.c): one bounded queue and one dispatch thread *)
(* per dispatcher, agc_event_fire and its blocking push, delivery to a     *)
(* call_back or to the subscribers in EVENT_NODES under the rwlock, the    *)
(* pool of fast events, subscription and unsubscription, and shutdown.     *)
(*                                                                         *)
(* Firing threads are the Producers (epoll and timer threads, modules) and *)
(* the dispatchers themselves, from inside a callback.                     *)
(***************************************************************************)
EXTENDS Integers, Sequences, FiniteSets

CONSTANTS
  Producers,             \* threads other than the dispatchers that fire events
  Sources,               \* source ids from agc_event_alloc_source
  MAX_DISPATCHER,        \* dispatchers (twice the cpus, plus one, in the code)
  DISPATCH_QUEUE_LIMIT,  \* capacity of one dispatch queue (10000 in the code)
  EventIds,              \* registered event ids other than EVENT_ID_ALL
  Callbacks,             \* subscribers' callback functions
  Nodes,                 \* addresses of agc_event_node_t
  FastEvents,            \* the preallocated events of the CallBack pool
  NULL,
  SHUTDOWN_TRIES,        \* idle rounds agc_event_shutdown waits (100 in the code)
  MaxFired               \* bound of the model: events queued in a behaviour

EVENT_ID_ALL == 0
EVENT_NULL_SOURCEID == 0

Dispatchers == 0 .. (MAX_DISPATCHER - 1)
Threads == Producers \cup Dispatchers
AllSources == Sources \cup {EVENT_NULL_SOURCEID}
BindIds == EventIds \cup {EVENT_ID_ALL}

(***************************************************************************)
(* An event.  stamp is a ghost: the position of the event among those      *)
(* queued for its source, 0 until it is queued.                            *)
(***************************************************************************)
Event == [source_id : AllSources, event_id : BindIds, call_back : BOOLEAN,
          fast : FastEvents \cup {NULL}, stamp : Nat]

\* What bind leaves at a node's address.
Subscription == [event_id : BindIds, callback : Callbacks]

ASSUME EventAssumption ==
  /\ MAX_DISPATCHER \in Nat \ {0}
  /\ DISPATCH_QUEUE_LIMIT \in Nat \ {0}
  /\ Sources \subseteq Nat \ {EVENT_NULL_SOURCEID}
  /\ EventIds \subseteq Nat \ {EVENT_ID_ALL}
  /\ Producers \cap Nat = {}
  /\ NULL \notin FastEvents \cup Nodes \cup Event \cup Subscription
  /\ SHUTDOWN_TRIES \in Nat
  /\ MaxFired \in Nat

VARIABLES
  SYSTEM_RUNNING,
  DISPATCH_THREAD_COUNT,
  EVENT_DISPATCH_QUEUE_RUNNING,
  EVENT_DISPATCH_QUEUES,  \* [Dispatchers -> Seq(Event)]
  EVENT_NODES,            \* [BindIds -> Seq(Nodes)]: the subscription lists
  node,                   \* [Nodes -> what the address holds, NULL if free]
  FAST_EVENT_QUEUE,       \* the free fast events
  pc,                     \* where each dispatch thread is
  event,                  \* [Dispatchers -> the event being delivered]
  np,                     \* [Dispatchers -> the subscription node being called]
  push,                   \* [Threads -> the push a thread is in, or NULL]
  main,                   \* the thread that runs agc_event_init and _shutdown
  arrived,                \* ghost: [AllSources -> events queued so far]
  taken,                  \* ghost: <<source, stamp>> of every event popped
  fired                   \* ghost: calls of agc_event_fire, bounded by MaxFired

poolVars == <<FAST_EVENT_QUEUE>>
subVars == <<EVENT_NODES, node>>
runVars == <<SYSTEM_RUNNING, DISPATCH_THREAD_COUNT, EVENT_DISPATCH_QUEUE_RUNNING, main>>
threadVars == <<pc, event, np>>
ghostVars == <<arrived, taken, fired>>
vars == <<runVars, EVENT_DISPATCH_QUEUES, subVars, poolVars, threadVars, push, ghostVars>>

PCs == {"none", "start", "loop", "pop", "deliver", "callback", "node", "release",
        "exit", "ended"}

\* Runs at agc_event_init: queues empty, the pool full, no thread yet.
Init ==
  /\ SYSTEM_RUNNING = TRUE
  /\ DISPATCH_THREAD_COUNT = 0
  /\ EVENT_DISPATCH_QUEUE_RUNNING = [d \in Dispatchers |-> FALSE]
  /\ EVENT_DISPATCH_QUEUES = [d \in Dispatchers |-> <<>>]
  /\ EVENT_NODES = [id \in BindIds |-> <<>>]
  /\ node = [n \in Nodes |-> NULL]
  /\ FAST_EVENT_QUEUE = FastEvents
  /\ pc = [d \in Dispatchers |-> "none"]
  /\ event = [d \in Dispatchers |-> NULL]
  /\ np = [d \in Dispatchers |-> NULL]
  /\ push = [t \in Threads |-> NULL]
  /\ main = [pc |-> "launch", index |-> 0, x |-> 0, last |-> 0]
  /\ arrived = [s \in AllSources |-> 0]
  /\ taken = {}
  /\ fired = 0
-----------------------------------------------------------------------------
(***************************************************************************)
(* Firing.  agc_event_fire tests SYSTEM_RUNNING, picks the queue, then     *)
(* blocks in agc_queue_push while that queue is full: two steps.           *)
(***************************************************************************)
CanFire(t) ==
  /\ main.pc # "launch"
  /\ push[t] = NULL
  /\ t \in Dispatchers => pc[t] \in {"callback", "node"}
  /\ fired < MaxFired

\* Variant: the source is ignored and a random queue is used.
QueueIndexRandom(s) == Dispatchers

\* The dispatchers whose queue may take an event of source s.
QueueIndex(s) ==
  IF s # EVENT_NULL_SOURCEID THEN {s % MAX_DISPATCHER} ELSE Dispatchers

\* Past shutdown the event is destroyed, a fast one too: it never returns to
\* its pool.
Fire(t, ev) ==
  /\ CanFire(t)
  /\ fired' = fired + 1
  /\ \/ /\ SYSTEM_RUNNING
        /\ \E d \in QueueIndex(ev.source_id) :
             push' = [push EXCEPT ![t] = [queue |-> d, ev |-> ev]]
     \/ ~SYSTEM_RUNNING /\ UNCHANGED push
  /\ UNCHANGED <<runVars, EVENT_DISPATCH_QUEUES, subVars, threadVars, arrived, taken>>

\* agc_event_create and agc_event_create_callback, then agc_event_fire.
FireEvent(t, s, id) ==
  /\ Fire(t, [source_id |-> s, event_id |-> id, call_back |-> (id = EVENT_ID_ALL),
              fast |-> NULL, stamp |-> 0])
  /\ UNCHANGED poolVars

\* agc_event_fast_create_callback, then agc_event_fire; the source is null.
FireFast(t, f) ==
  /\ f \in FAST_EVENT_QUEUE
  /\ FAST_EVENT_QUEUE' = FAST_EVENT_QUEUE \ {f}
  /\ Fire(t, [source_id |-> EVENT_NULL_SOURCEID, event_id |-> EVENT_ID_ALL,
              call_back |-> TRUE, fast |-> f, stamp |-> 0])

\* The push goes through once the queue has room.
Push(t) ==
  /\ push[t] # NULL
  /\ LET d == push[t].queue
         s == push[t].ev.source_id
     IN /\ Len(EVENT_DISPATCH_QUEUES[d]) < DISPATCH_QUEUE_LIMIT
        /\ arrived' = [arrived EXCEPT ![s] = @ + 1]
        /\ EVENT_DISPATCH_QUEUES' =
             [EVENT_DISPATCH_QUEUES EXCEPT
                ![d] = Append(@, [push[t].ev EXCEPT !.stamp = arrived[s] + 1])]
  /\ push' = [push EXCEPT ![t] = NULL]
  /\ UNCHANGED <<runVars, subVars, poolVars, threadVars, taken, fired>>

-----------------------------------------------------------------------------
(***************************************************************************)
(* The dispatch thread and agc_event_deliver.                              *)
(***************************************************************************)
Goto(d, from, to) == pc[d] = from /\ pc' = [pc EXCEPT ![d] = to]

\* Variant: a thread that starts is not counted.
ThreadStartUncounted(d) ==
  /\ Goto(d, "start", "loop")
  /\ EVENT_DISPATCH_QUEUE_RUNNING' = [EVENT_DISPATCH_QUEUE_RUNNING EXCEPT ![d] = TRUE]
  /\ UNCHANGED <<SYSTEM_RUNNING, DISPATCH_THREAD_COUNT, main, EVENT_DISPATCH_QUEUES,
                 subVars, poolVars, event, np, push, ghostVars>>

ThreadStart(d) ==
  /\ Goto(d, "start", "loop")
  /\ EVENT_DISPATCH_QUEUE_RUNNING' = [EVENT_DISPATCH_QUEUE_RUNNING EXCEPT ![d] = TRUE]
  /\ DISPATCH_THREAD_COUNT' = DISPATCH_THREAD_COUNT + 1
  /\ UNCHANGED <<SYSTEM_RUNNING, main, EVENT_DISPATCH_QUEUES, subVars, poolVars,
                 event, np, push, ghostVars>>

\* Variant: the loop does not look at SYSTEM_RUNNING.
CheckRunningNever(d) ==
  /\ Goto(d, "loop", "pop")
  /\ UNCHANGED <<runVars, EVENT_DISPATCH_QUEUES, subVars, poolVars, event, np, push,
                 ghostVars>>

CheckRunning(d) ==
  /\ Goto(d, "loop", IF SYSTEM_RUNNING THEN "pop" ELSE "exit")
  /\ UNCHANGED <<runVars, EVENT_DISPATCH_QUEUES, subVars, poolVars, event, np, push,
                 ghostVars>>

\* Variant: the event is read and left in the queue.
TryPopPeek(d) ==
  LET q == EVENT_DISPATCH_QUEUES[d] IN
  /\ q # <<>>
  /\ Goto(d, "pop", "deliver")
  /\ event' = [event EXCEPT ![d] = Head(q)]
  /\ taken' = taken \cup {<<Head(q).source_id, Head(q).stamp>>}
  /\ UNCHANGED <<EVENT_DISPATCH_QUEUES, runVars, subVars, poolVars, np, push, arrived, fired>>

\* Variant: an empty queue ends the thread.
TryPopQuit(d) ==
  /\ EVENT_DISPATCH_QUEUES[d] = <<>>
  /\ Goto(d, "pop", "exit")
  /\ UNCHANGED <<EVENT_DISPATCH_QUEUES, runVars, subVars, poolVars, event, np, push, ghostVars>>

TryPop(d) ==
  LET q == EVENT_DISPATCH_QUEUES[d] IN
  \/ /\ q = <<>>
     /\ Goto(d, "pop", "loop")
     /\ UNCHANGED <<EVENT_DISPATCH_QUEUES, runVars, subVars, poolVars, event, np, push,
                    ghostVars>>
  \/ /\ q # <<>>
     /\ Goto(d, "pop", "deliver")
     /\ event' = [event EXCEPT ![d] = Head(q)]
     /\ EVENT_DISPATCH_QUEUES' = [EVENT_DISPATCH_QUEUES EXCEPT ![d] = Tail(q)]
     /\ taken' = taken \cup {<<Head(q).source_id, Head(q).stamp>>}
     /\ UNCHANGED <<runVars, subVars, poolVars, np, push, arrived, fired>>

\* Head of a subscription list, NULL when it is empty.
FirstNode(id) == IF EVENT_NODES[id] = <<>> THEN NULL ELSE EVENT_NODES[id][1]

\* Where the walk over EVENT_NODES[id] then EVENT_NODES[EVENT_ID_ALL] begins.
WalkFrom(id) == IF FirstNode(id) # NULL THEN FirstNode(id) ELSE FirstNode(EVENT_ID_ALL)

\* The node after n, which tells by its event_id which of the two lists it is in.
NextNode(n) ==
  LET list == EVENT_NODES[node[n].event_id]
      i    == CHOOSE j \in DOMAIN list : list[j] = n
  IN IF i < Len(list) THEN list[i + 1]
     ELSE IF node[n].event_id = EVENT_ID_ALL THEN NULL
     ELSE FirstNode(EVENT_ID_ALL)

Deliver(d) ==
  /\ pc[d] = "deliver"
  /\ \/ /\ ~SYSTEM_RUNNING
        /\ Goto(d, "deliver", "release")
        /\ UNCHANGED np
     \/ /\ SYSTEM_RUNNING /\ event[d].call_back
        /\ Goto(d, "deliver", "callback")
        /\ UNCHANGED np
     \/ /\ SYSTEM_RUNNING /\ ~event[d].call_back
        /\ np' = [np EXCEPT ![d] = WalkFrom(event[d].event_id)]
        /\ Goto(d, "deliver", IF np'[d] = NULL THEN "release" ELSE "node")
  /\ UNCHANGED <<runVars, EVENT_DISPATCH_QUEUES, subVars, poolVars, event, push,
                 ghostVars>>

\* call_back(context) returns.
CallbackReturn(d) ==
  /\ push[d] = NULL
  /\ Goto(d, "callback", "release")
  /\ UNCHANGED <<runVars, EVENT_DISPATCH_QUEUES, subVars, poolVars, event, np, push,
                 ghostVars>>

\* A subscriber returns; after the last one the read lock is given up.
NodeReturn(d) ==
  /\ push[d] = NULL
  /\ pc[d] = "node"
  /\ np' = [np EXCEPT ![d] = NextNode(np[d])]
  /\ Goto(d, "node", IF np'[d] = NULL THEN "release" ELSE "node")
  /\ UNCHANGED <<runVars, EVENT_DISPATCH_QUEUES, subVars, poolVars, event, push,
                 ghostVars>>

\* agc_event_fast_release or agc_event_destroy.
Release(d) ==
  /\ Goto(d, "release", "loop")
  /\ FAST_EVENT_QUEUE' = FAST_EVENT_QUEUE \cup ({event[d].fast} \ {NULL})
  /\ event' = [event EXCEPT ![d] = NULL]
  /\ UNCHANGED <<runVars, EVENT_DISPATCH_QUEUES, subVars, np, push, ghostVars>>

ThreadExit(d) ==
  /\ Goto(d, "exit", "ended")
  /\ EVENT_DISPATCH_QUEUE_RUNNING' = [EVENT_DISPATCH_QUEUE_RUNNING EXCEPT ![d] = FALSE]
  /\ DISPATCH_THREAD_COUNT' = DISPATCH_THREAD_COUNT - 1
  /\ UNCHANGED <<SYSTEM_RUNNING, main, EVENT_DISPATCH_QUEUES, subVars, poolVars,
                 event, np, push, ghostVars>>

DispatchThread(d) ==
  \/ ThreadStart(d) \/ CheckRunning(d) \/ TryPop(d) \/ Deliver(d)
  \/ CallbackReturn(d) \/ NodeReturn(d) \/ Release(d) \/ ThreadExit(d)

-----------------------------------------------------------------------------
(***************************************************************************)
(* Subscriptions.  A writer needs EVENT_NODES_RWLOCK free of readers; it   *)
(* holds it for its whole change, which is therefore one step.             *)
(***************************************************************************)
\* Variant: the lists are changed without the write lock.
WrLockIgnored == TRUE

WrLockFree == \A d \in Dispatchers : pc[d] # "node"

SubStep == UNCHANGED <<runVars, EVENT_DISPATCH_QUEUES, poolVars, threadVars, push, ghostVars>>

Bind(n, id, cb) ==
  /\ WrLockFree
  /\ main.pc # "launch"
  /\ node[n] = NULL
  /\ node' = [node EXCEPT ![n] = [event_id |-> id, callback |-> cb]]
  /\ EVENT_NODES' = [EVENT_NODES EXCEPT ![id] = <<n>> \o @]
  /\ SubStep

\* Variant: the predecessor is forgotten, the list now starts after i.
UnlinkForgetful(list, i) == SubSeq(list, i + 1, Len(list))

\* list without its i-th element.
Unlink(list, i) == SubSeq(list, 1, i - 1) \o SubSeq(list, i + 1, Len(list))

\* The handle a removable subscription left with its owner: unlink and free.
Unbind(n) ==
  /\ WrLockFree
  /\ node[n] # NULL
  /\ LET id == node[n].event_id IN
       \E i \in DOMAIN EVENT_NODES[id] :
         /\ EVENT_NODES[id][i] = n
         /\ EVENT_NODES' = [EVENT_NODES EXCEPT ![id] = Unlink(@, i)]
  /\ node' = [node EXCEPT ![n] = NULL]
  /\ SubStep

\* Position of the first subscription of cb in the list of id, 0 if none.
FirstOf(id, cb) ==
  LET hits == {i \in DOMAIN EVENT_NODES[id] : node[EVENT_NODES[id][i]].callback = cb}
  IN IF hits = {} THEN 0 ELSE CHOOSE i \in hits : \A j \in hits : i <= j

\* Unlinks the first subscription of cb in every list, and only that one.
UnbindCallback(cb) ==
  LET found == {id \in BindIds : FirstOf(id, cb) # 0}
      freed == {EVENT_NODES[id][FirstOf(id, cb)] : id \in found}
  IN /\ WrLockFree
     /\ found # {}
     /\ EVENT_NODES' = [id \in BindIds |-> IF id \in found
                                           THEN Unlink(EVENT_NODES[id], FirstOf(id, cb))
                                           ELSE EVENT_NODES[id]]
     /\ node' = [n \in Nodes |-> IF n \in freed THEN NULL ELSE node[n]]
     /\ SubStep

-----------------------------------------------------------------------------
(***************************************************************************)
(* agc_event_launch_dispatch_threads and agc_event_shutdown.  The launcher *)
(* waits a bounded time for each thread, so a thread may start late.       *)
(***************************************************************************)
MainStep == UNCHANGED <<EVENT_DISPATCH_QUEUES, EVENT_DISPATCH_QUEUE_RUNNING,
                        DISPATCH_THREAD_COUNT, subVars, poolVars, event, np, push, ghostVars>>

LaunchThread ==
  /\ main.pc = "launch"
  /\ Goto(main.index, "none", "start")
  /\ main' = [main EXCEPT !.index = @ + 1,
                          !.pc = IF main.index + 1 = MAX_DISPATCHER THEN "run" ELSE @]
  /\ UNCHANGED SYSTEM_RUNNING
  /\ MainStep

Shutdown ==
  /\ main.pc = "run"
  /\ SYSTEM_RUNNING' = FALSE
  /\ main' = [main EXCEPT !.pc = "wait"]
  /\ UNCHANGED pc
  /\ MainStep

ShutdownWait ==
  /\ main.pc = "wait"
  /\ main' = IF main.x < SHUTDOWN_TRIES /\ DISPATCH_THREAD_COUNT # 0
             THEN [main EXCEPT !.x = IF DISPATCH_THREAD_COUNT = main.last THEN @ + 1 ELSE @,
                               !.last = DISPATCH_THREAD_COUNT]
             ELSE [main EXCEPT !.pc = "done"]
  /\ UNCHANGED <<pc, SYSTEM_RUNNING>>
  /\ MainStep

-----------------------------------------------------------------------------
Next ==
  \/ \E t \in Threads, s \in AllSources, id \in BindIds : FireEvent(t, s, id)
  \/ \E t \in Threads, f \in FastEvents : FireFast(t, f)
  \/ \E t \in Threads : Push(t)
  \/ \E d \in Dispatchers : DispatchThread(d)
  \/ \E n \in Nodes, id \in BindIds, cb \in Callbacks : Bind(n, id, cb)
  \/ \E n \in Nodes : Unbind(n)
  \/ \E cb \in Callbacks : UnbindCallback(cb)
  \/ LaunchThread \/ Shutdown \/ ShutdownWait

Spec == Init /\ [][Next]_vars

(***************************************************************************)
(* Every thread is scheduled and every callback returns; a push goes on    *)
(* when there is room.  Nobody is obliged to fire, bind or shut down.      *)
(***************************************************************************)
FairSpec ==
  /\ Spec
  /\ \A d \in Dispatchers : WF_vars(DispatchThread(d))
  /\ \A t \in Threads : WF_vars(Push(t))
  /\ WF_vars(LaunchThread) /\ WF_vars(ShutdownWait)

-----------------------------------------------------------------------------
(* Properties. *)

Ident(e) == <<e.source_id, e.stamp>>

\* Every variable has its type, and a queue never exceeds its capacity.
TypeOK ==
  /\ SYSTEM_RUNNING \in BOOLEAN
  /\ DISPATCH_THREAD_COUNT \in Int
  /\ EVENT_DISPATCH_QUEUE_RUNNING \in [Dispatchers -> BOOLEAN]
  /\ EVENT_DISPATCH_QUEUES \in [Dispatchers -> Seq(Event)]
  /\ \A d \in Dispatchers : Len(EVENT_DISPATCH_QUEUES[d]) <= DISPATCH_QUEUE_LIMIT
  /\ EVENT_NODES \in [BindIds -> Seq(Nodes)]
  /\ node \in [Nodes -> Subscription \cup {NULL}]
  /\ FAST_EVENT_QUEUE \subseteq FastEvents
  /\ pc \in [Dispatchers -> PCs]
  /\ event \in [Dispatchers -> Event \cup {NULL}]
  /\ np \in [Dispatchers -> Nodes \cup {NULL}]
  /\ push \in [Threads -> [queue : Dispatchers, ev : Event] \cup {NULL}]
  /\ main \in [pc : {"launch", "run", "wait", "done"}, index : Nat, x : Nat, last : Int]
  /\ arrived \in [AllSources -> Nat]
  /\ taken \subseteq AllSources \X Nat
  /\ fired \in Nat

\* Where a queued event stands: <<dispatcher, position>>.
Places(e) ==
  {x \in Dispatchers \X (1 .. DISPATCH_QUEUE_LIMIT) :
     /\ x[2] <= Len(EVENT_DISPATCH_QUEUES[x[1]])
     /\ Ident(EVENT_DISPATCH_QUEUES[x[1]][x[2]]) = e}

\* agc_event_fire / agc_event_dispatch_thread: an event that entered a queue is
\* in one place of one queue until one dispatcher takes it, and is never in a
\* queue again: none is lost, none is handled twice.
ExactlyOnce ==
  \A s \in AllSources : \A k \in 1 .. arrived[s] :
    /\ <<s, k>> \in taken <=> Places(<<s, k>>) = {}
    /\ \A x, y \in Places(<<s, k>>) : x = y

\* agc_event_fire's queue_index: events of one source are taken in the order in
\* which they were queued, whatever the threads that fired them.
SourceOrder ==
  \A e \in taken : e[1] # EVENT_NULL_SOURCEID =>
    \A j \in 1 .. e[2] : <<e[1], j>> \in taken

\* "the same soure will be handled by same thread": no two dispatchers are ever
\* at work on events of one source.
SourceSerial ==
  \A d1, d2 \in Dispatchers :
    /\ event[d1] # NULL /\ event[d2] # NULL
    /\ event[d1].source_id = event[d2].source_id
    /\ event[d1].source_id # EVENT_NULL_SOURCEID
    => d1 = d2

\* agc_event_deliver / agc_event_unbind: a dispatcher walking the subscriptions
\* stands on a node that is allocated and linked, in the list of its event's id
\* or in that of EVENT_ID_ALL: never on one that was freed under it.
WalkOnLiveNode ==
  \A d \in Dispatchers : pc[d] = "node" =>
    /\ np[d] \in Nodes
    /\ node[np[d]] # NULL
    /\ node[np[d]].event_id \in {event[d].event_id, EVENT_ID_ALL}
    /\ \E i \in DOMAIN EVENT_NODES[node[np[d]].event_id] :
         EVENT_NODES[node[np[d]].event_id][i] = np[d]

\* agc_event_bind / unbind / unbind_callback: the lists link every allocated node
\* once, under its own event id, and no freed node.
SubscriptionLists ==
  \A id \in BindIds :
    /\ \A i \in DOMAIN EVENT_NODES[id] :
         LET n == EVENT_NODES[id][i] IN
         /\ node[n] # NULL /\ node[n].event_id = id
         /\ \A j \in DOMAIN EVENT_NODES[id] : EVENT_NODES[id][j] = n => j = i
    /\ \A n \in Nodes : node[n] # NULL /\ node[n].event_id = id =>
         \E i \in DOMAIN EVENT_NODES[id] : EVENT_NODES[id][i] = n

\* agc_event_shutdown: when it returns because DISPATCH_THREAD_COUNT reached 0,
\* and not because it gave up waiting, no dispatcher is delivering any more.
ShutdownQuiesces ==
  main.pc = "done" /\ main.x < SHUTDOWN_TRIES =>
    \A d \in Dispatchers : pc[d] \in {"start", "loop", "exit", "ended"}

\* What agc_event promises the owners of event sources.
Fifo == INSTANCE SourceFifo WITH
          NullSource <- EVENT_NULL_SOURCEID,
          sent <- arrived,
          begun <- taken,
          serving <- {Ident(event[d]) : d \in {c \in Dispatchers : event[c] # NULL}}

\* agc_event.c implements one FIFO channel with one server per source.
ImplementsFifo == Fifo!Spec

PushBlocked(t) ==
  /\ push[t] # NULL
  /\ Len(EVENT_DISPATCH_QUEUES[push[t].queue]) = DISPATCH_QUEUE_LIMIT

\* Dispatchers whose callbacks all push into each other's full queues.
PushCycle ==
  \E D \in SUBSET Dispatchers :
    /\ D # {}
    /\ \A d \in D : PushBlocked(d) /\ push[d].queue \in D

\* agc_event_dispatch_thread: a queued event is taken, unless the system shuts
\* down or callbacks that fire have locked each other out of full queues.
EventuallyTaken ==
  \A s \in AllSources : \A k \in 1 .. MaxFired :
    (k <= arrived[s]) ~> (<<s, k>> \in taken \/ ~SYSTEM_RUNNING \/ PushCycle)

\* agc_event_shutdown returns, and every dispatch thread ends but one whose
\* callback is stuck in a push into a full queue.
ShutdownEnds ==
  /\ main.pc = "wait" ~> main.pc = "done"
  /\ \A d \in Dispatchers : ~SYSTEM_RUNNING ~> (pc[d] = "ended" \/ PushBlocked(d))

===============================================================================
