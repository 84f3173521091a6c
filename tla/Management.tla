---------------------------- MODULE Management ----------------------------
(***************************************************************************)
(* The management side of the gateway: operators connect to                *)
(* mod_eventsocket, one thread per connection; the thread reads a command, *)
(* runs it to its end and replies; mod_sig's commands change or page a     *)
(* table and fire their result as a CMDRESULT event, which handle_event    *)
(* queues to every connection that asked for such events.  Meanwhile gNBs  *)
(* are set up from the same tables, and the module may be shut down.       *)
(*                                                                         *)
(* Left out: failing allocations and threads, the packets' text, replies   *)
(* on the command's own connection, and what uses a closed handle.         *)
(***************************************************************************)
EXTENDS SecGw

CONSTANTS Conns,     \* connections that may be made
          Budgets,   \* bounds: [connects, exits, changes, queries, resubscriptions,
                     \*  setups, shutdown, secgw (commands of mod_ipsec), lists,
                     \*  uploads, restarts, tunnels] as often; on: the tables commands name
          MaxQueue,  \* MAX_QUEUE_LEN
          MaxWaits   \* rounds mod_eventsocket_shutdown waits for the threads

ASSUME SocketAssumption ==
    /\ MaxQueue \in Nat \ {0} /\ MaxWaits \in Nat
    /\ Conns \subseteq Callers /\ None # [op |-> "secgw"]
    /\ Budgets \subseteq [connects : Nat, exits : Nat, changes : Nat, queries : Nat,
                          resubscriptions : Nat, setups : Nat, shutdown : Nat, secgw : Nat,
                          lists : Nat, uploads : Nat, restarts : Nat, tunnels : Nat,
                          on : SUBSET (Tables \cup SecTables)]

VARIABLES
    conn,         \* per connection: stage, running, sub, has_event, queue, cmd
    connections,  \* listener.connections, the newest first
    socket,       \* the module: [done, bound, accepting, threads, shutdown, waits]
    fired,        \* results fired and not yet handled
    left,         \* what may still come (bounds)
    owed,         \* history: results fired while a connection was asking for them
    sent          \* history: results sent, per connection
tables == <<db, esm, job, secgw>>
sockets == <<conn, connections, socket>>
vars == <<tables, sockets, fired, left, owed, sent>>

Off == [stage |-> "off", running |-> FALSE, sub |-> FALSE, has_event |-> FALSE,
        queue |-> <<>>, cmd |-> None]

Init == /\ SecInit
        /\ db = InitialDb /\ esm = None /\ job = None
        /\ conn = [c \in Conns |-> Off] /\ connections = <<>>
        /\ socket = [done |-> FALSE, bound |-> TRUE, accepting |-> TRUE, threads |-> 0,
                     shutdown |-> "no", waits |-> 0]
        /\ fired = {} /\ left \in Budgets
        /\ owed = [c \in Conns |-> {}] /\ sent = [c \in Conns |-> {}]

Spend(what) == left[what] > 0 /\ left' = [left EXCEPT ![what] = @ - 1]

-----------------------------------------------------------------------------
(* A connection's thread: mod_eventsocket_runtime and connection_run.       *)

\* The runtime accepts once more after done is set, if it was waiting.
Accept(c) ==
    /\ socket.accepting /\ conn[c].stage = "off" /\ Spend("connects")
    /\ conn' = [conn EXCEPT ![c].stage = "launched"]
    /\ socket' = [socket EXCEPT !.accepting = ~socket.done]
    /\ UNCHANGED <<tables, connections, fired, owed, sent>>
Count(c) ==
    /\ conn[c].stage = "launched"
    /\ conn' = [conn EXCEPT ![c].stage = "counted", ![c].running = TRUE]
    /\ socket' = [socket EXCEPT !.threads = @ + 1]
    /\ UNCHANGED <<tables, connections, fired, left, owed, sent>>
add_conn(c) ==
    /\ conn[c].stage = "counted"
    /\ conn' = [conn EXCEPT ![c].stage = "listed"]
    /\ connections' = <<c>> \o connections
    /\ UNCHANGED <<tables, socket, fired, left, owed, sent>>

\* The loop's head; read_packet and parse_command follow.
Ready(c) == /\ conn[c].stage = "listed" /\ conn[c].cmd = None
            /\ ~socket.done /\ conn[c].running

\* read_packet sends what is queued while no command comes in.
SendQueued(c) ==
    /\ Ready(c) /\ conn[c].has_event /\ conn[c].queue # <<>>
    /\ sent' = [sent EXCEPT ![c] = @ \cup ToSet(conn[c].queue)]
    /\ conn' = [conn EXCEPT ![c].queue = <<>>]
    /\ UNCHANGED <<tables, connections, socket, fired, left, owed>>

\* "event": the list is cleared, then set, without the lock; its names have results
\* among them, or only others; without a known name the queue stays.
EventClears(c, want) ==
    /\ Ready(c) /\ Spend("resubscriptions")
    /\ conn' = [conn EXCEPT ![c].sub = FALSE, ![c].cmd = [op |-> "event", want |-> want]]
    /\ owed' = [owed EXCEPT ![c] = {}]
    /\ UNCHANGED <<tables, connections, socket, fired, sent>>
EventSets(c) ==
    /\ conn[c].cmd # None /\ conn[c].cmd.op = "event"
    /\ LET w == conn[c].cmd.want IN
       conn' = [conn EXCEPT ![c].sub = w = "results", ![c].has_event = w # "unknown",
                            ![c].cmd = None]
    /\ UNCHANGED <<tables, connections, socket, fired, left, owed, sent>>

\* "exit", or the peer closes.
Exits(c) ==
    /\ Ready(c) /\ Spend("exits") /\ conn' = [conn EXCEPT ![c].running = FALSE]
    /\ UNCHANGED <<tables, connections, socket, fired, owed, sent>>

\* Mutant: the list is cut at the connection instead of joined around it.
remove_conn_cuts(c) ==
    /\ conn[c].stage = "listed" /\ conn[c].cmd = None /\ (socket.done \/ ~conn[c].running)
    /\ LET at == Max({i \in DOMAIN connections : connections[i] = c} \cup {0}) IN
       connections' = SubSeq(connections, at + 1, Len(connections))
    /\ conn' = [conn EXCEPT ![c].stage = "unlisted"]
    /\ owed' = [owed EXCEPT ![c] = {}]
    /\ UNCHANGED <<tables, socket, fired, left, sent>>
\* send_disconnect and remove_conn, under sock_mutex.
remove_conn(c) ==
    /\ conn[c].stage = "listed" /\ conn[c].cmd = None /\ (socket.done \/ ~conn[c].running)
    /\ connections' = RemoveFirst(connections, c)
    /\ conn' = [conn EXCEPT ![c].stage = "unlisted"]
    /\ owed' = [owed EXCEPT ![c] = {}]
    /\ UNCHANGED <<tables, socket, fired, left, sent>>
\* Mutant: a connection is released before it has left the list.
release_connection_listed(c) ==
    /\ conn[c].stage \in {"listed", "unlisted"} /\ conn[c].cmd = None
    /\ socket.done \/ ~conn[c].running
    /\ conn' = [conn EXCEPT ![c] = [Off EXCEPT !.stage = "released"]]
    /\ UNCHANGED <<tables, connections, socket, fired, left, owed, sent>>
\* close_socket and release_connection: its queue and its memory.
release_connection(c) ==
    /\ conn[c].stage = "unlisted"
    /\ conn' = [conn EXCEPT ![c] = [Off EXCEPT !.stage = "released"]]
    /\ UNCHANGED <<tables, connections, socket, fired, left, owed, sent>>
Uncount(c) ==
    /\ conn[c].stage = "released"
    /\ conn' = [conn EXCEPT ![c].stage = "gone"]
    /\ socket' = [socket EXCEPT !.threads = @ - 1]
    /\ UNCHANGED <<tables, connections, fired, left, owed, sent>>

-----------------------------------------------------------------------------
(* "api siggw ...": run in the connection's thread.                         *)

Commands(t, rows, ids) ==
    {[op |-> "add", table |-> t, row |-> r] : r \in rows}
      \cup {[op |-> "mod", table |-> t, id |-> i, row |-> r] : i \in ids, r \in rows}
      \cup {[op |-> "rmv", table |-> t, id |-> i, row |-> None] : i \in ids}
Changes == UNION {Commands(t, Rows[t] \cup {Short}, DOMAIN InitialDb[t]) : t \in Tables}
SecChanges == UNION {Commands(t, SecRows[t], DOMAIN sec[t]) : t \in SecTables \ {"infos"}}
SecLists   == [op : {"query"}, table : SecTables, page : Pages]
Queries == [op : {"query"}, table : Tables, page : Pages]

\* api_exec, agc_api_execute: a connection that is being shut down runs nothing more.
Change(c, m) ==
    /\ Ready(c) /\ m.table \in left.on /\ Spend("changes")
    /\ \E o \in siggw_main(m) :
          /\ db' = o.db
          /\ conn' = [conn EXCEPT ![c].cmd = [op |-> "fire", n |-> <<>>, ret |-> o.ret]]
          /\ job' = IF Idle THEN job ELSE [job EXCEPT !.seen = @ \cup {o.db}]
    /\ UNCHANGED <<secgw, esm, connections, socket, fired, owed, sent>>
\* Two SELECTs: all rows, counted, then the page.  Where the second fails there is no
\* body; where the first does, the count is 0.
Query(c, m) ==
    /\ Ready(c) /\ m.table \in left.on /\ Spend("queries")
    /\ \E n \in {0, Cardinality(DOMAIN db[m.table])} :
          conn' = [conn EXCEPT ![c].cmd =
             [op |-> "page", table |-> m.table, page |-> m.page, total |-> n]]
    /\ UNCHANGED <<tables, connections, socket, fired, owed, sent>>
QueryPage(c) ==
    /\ conn[c].cmd # None /\ conn[c].cmd.op = "page"
    /\ \E r \in {"no_body", "ok"} :
          conn' = [conn EXCEPT ![c].cmd =
             [op |-> "fire", n |-> <<conn[c].cmd.total, siggw_query(conn[c].cmd)>>, ret |-> r]]
    /\ UNCHANGED <<tables, connections, socket, fired, left, owed, sent>>
\* An event is one of its own, whatever it says: n is its body, id tells it from the
\* others its connection's thread has fired.
CommandsLeft == left.changes + left.queries + left.secgw + left.lists
Result(c, n, ret) == [by |-> c, id |-> CommandsLeft, n |-> n, ret |-> ret]
Fire(r) ==
    /\ fired' = fired \cup {r}
    /\ owed' = [d \in Conns |-> owed[d] \cup
          (IF socket.bound /\ conn[d].stage = "listed" /\ conn[d].sub THEN {r} ELSE {})]
\* siggw_fire_event: no event without a body.
siggw_fire_event(c) ==
    /\ conn[c].cmd # None /\ conn[c].cmd.op = "fire"
    /\ conn' = [conn EXCEPT ![c].cmd = None]
    /\ LET r == Result(c, conn[c].cmd.n, conn[c].cmd.ret) IN
       IF r.ret = "no_body" THEN UNCHANGED <<fired, owed>> ELSE Fire(r)
    /\ UNCHANGED <<tables, connections, socket, left, sent>>

\* "api secgw ...": a command of mod_ipsec, step by step in the connection's thread.
secgw_starts(c, m, what) ==
    /\ Ready(c) /\ m.table \in left.on /\ Spend(what) /\ secgw_main(c, m)
    /\ conn' = [conn EXCEPT ![c].cmd = [op |-> "secgw"]]
    /\ UNCHANGED <<db, esm, job, connections, socket, fired, owed, sent>>
secgw_goes_on(c) ==
    SecStep(c) /\ UNCHANGED <<db, esm, job, sockets, fired, left, owed, sent>>
secgw_fire_event(c) ==
    /\ Running(c, "fire") /\ call' = Without(call, c)
    /\ conn' = [conn EXCEPT ![c].cmd = None]
    /\ Fire(Result(c, <<>>, call[c].ret))
    /\ UNCHANGED <<db, esm, job, sec, conf, charon, link, lists, ike, alarms, told, doubt,
                   connections, socket, left, sent>>
\* What reaches mod_ipsec otherwise.
SecgwEvents ==
    /\ \/ \E f \in {CertFile(r) : r \in SecRows["certs"]} : add_cert_file(f) /\ Spend("uploads")
       \/ CharonDies /\ Spend("restarts")
       \/ \E n \in SecNames, state \in States :
             parseIkeEvent(n, state) /\ Spend("tunnels")
       \/ (CharonStarts \/ secgw_timer_callback \/ LoadAll \/ Tunnels) /\ UNCHANGED left
    /\ UNCHANGED <<db, esm, job, sockets, fired, owed, sent>>

\* handle_event, on a dispatch thread, under sock_mutex; a full queue loses the clone.
handle_event(r) ==
    /\ r \in fired /\ fired' = fired \ {r}
    /\ LET asking == {c \in ToSet(connections) : conn[c].has_event /\ conn[c].sub}
           room   == {c \in asking : Len(conn[c].queue) < MaxQueue} IN
       IF ~socket.bound THEN UNCHANGED <<conn, owed>>
       ELSE /\ conn' = [c \in Conns |-> IF c \in room
                          THEN [conn[c] EXCEPT !.queue = Append(@, r)] ELSE conn[c]]
            /\ owed' = [c \in Conns |-> IF c \in asking \ room THEN owed[c] \ {r} ELSE owed[c]]
    /\ UNCHANGED <<tables, connections, socket, left, sent>>

-----------------------------------------------------------------------------
(* mod_eventsocket_shutdown.                                                *)

ShutdownStarts ==
    /\ Spend("shutdown") /\ socket' = [socket EXCEPT !.done = TRUE, !.shutdown = "unbind"]
    /\ UNCHANGED <<tables, conn, connections, fired, owed, sent>>
\* agc_event_unbind waits for the handlers that run.
Unbind ==
    /\ socket.shutdown = "unbind"
    /\ socket' = [socket EXCEPT !.bound = FALSE, !.shutdown = "kill"]
    /\ owed' = [c \in Conns |-> {}]
    /\ UNCHANGED <<tables, conn, connections, fired, left, sent>>
\* kill_connections walks the list under sock_mutex; its sockets are closed, not forgotten.
kill_connections == conn' = [c \in Conns |->
    IF c \in ToSet(connections) THEN [conn[c] EXCEPT !.running = FALSE] ELSE conn[c]]
Kill ==
    /\ socket.shutdown = "kill" /\ kill_connections
    /\ socket' = [socket EXCEPT !.accepting = FALSE, !.shutdown = "wait"]
    /\ UNCHANGED <<tables, connections, fired, left, owed, sent>>
WaitThreads ==
    /\ socket.shutdown = "wait" /\ UNCHANGED <<tables, connections, fired, left, owed, sent>>
    /\ IF socket.threads = 0 \/ socket.waits = MaxWaits
       THEN socket' = [socket EXCEPT !.shutdown = "ended"] /\ UNCHANGED conn
       ELSE socket' = [socket EXCEPT !.waits = @ + 1] /\ kill_connections

-----------------------------------------------------------------------------
Setups == /\ UNCHANGED <<secgw, sockets, fired, owed, sent>> /\ Spend("setups")
          /\ \E g \in Gws : \/ SendNgSetup(g)
                            \/ \E p \in Plmns, areas \in BOOLEAN : GNB_SetupReq(g, p, areas)
Reads  == Lookup /\ UNCHANGED <<secgw, sockets, fired, left, owed, sent>>
Next == \/ \E c \in Conns :
             \/ Accept(c) \/ Count(c) \/ add_conn(c) \/ SendQueued(c) \/ Exits(c)
             \/ \E want \in {"results", "others", "unknown"} : EventClears(c, want)
             \/ EventSets(c) \/ remove_conn(c) \/ release_connection(c) \/ Uncount(c)
             \/ \E m \in Changes : Change(c, m)
             \/ \E m \in Queries : Query(c, m)
             \/ QueryPage(c) \/ siggw_fire_event(c)
             \/ \E m \in SecChanges : secgw_starts(c, m, "secgw")
             \/ \E m \in SecLists : secgw_starts(c, m, "lists")
             \/ secgw_goes_on(c) \/ secgw_fire_event(c)
        \/ \E r \in fired : handle_event(r)
        \/ ShutdownStarts \/ Unbind \/ Kill \/ WaitThreads
        \/ Setups \/ Reads \/ SecgwEvents
Spec == Init /\ [][Next]_vars

-----------------------------------------------------------------------------
(* Properties.                                                              *)

\* handle_event and kill_connections never meet a connection whose queue and memory
\* have been released, whoever leaves, joins or is killed meanwhile; and a
\* shutdown that has seen no thread left has nobody on the list.
ListedLive ==
    /\ \A c \in ToSet(connections) : conn[c].stage = "listed"
    /\ IsInjective(connections)
    /\ socket.shutdown = "ended" /\ socket.threads = 0 => connections = <<>>

\* A connection that has asked for results since before a result was fired, and has had
\* room for it, has it queued or sent exactly once when the event has been handled,
\* whichever connections came and went and however the handlers' order was.
ResultsReachSubscribers == \A c \in Conns : \A r \in owed[c] \ fired :
    Cardinality({i \in DOMAIN conn[c].queue : conn[c].queue[i] = r})
      + (IF r \in sent[c] THEN 1 ELSE 0) = 1
=============================================================================
