----------------------------- MODULE SigLinks -----------------------------
(***************************************************************************)
(* The SCTP links of the signalling gateway.  The table sig_sctp_table     *)
(* names the links: the gateway connects to AMFs (client links) and        *)
(* listens for gNBs (server links).  SctpLayer keeps a context per index,  *)
(* reconnects what is lost, and raises and clears an alarm; AsmManager     *)
(* repeats the NG setup of each AMF until one is accepted; the operator's  *)
(* commands change links and table while all this goes on.                 *)
(*                                                                         *)
(* Left out: second addresses of a link, failing allocations and system    *)
(* calls other than connect and listen, and what travels over the links.   *)
(***************************************************************************)
EXTENDS Naturals, FiniteSets, FiniteSetsExt

CONSTANTS Idx,          \* indexes below MAX_SCTP_CONTEXTS
          Ids,          \* bound: IDs of the table's rows
          Amfs, Gnbs,   \* addresses of the peers
          Locals,       \* addresses the gateway may listen on
          HomeOf,       \* the local address a gNB connects to
          InitialTable, \* ID -> link, None where there is no row
          Offered,      \* links the operator may enter, [work, local, peer]
          MaxTimers,    \* bound: timers of one kind of a context told apart
          MaxFaults,    \* bound: losses, crashes, refusals and failed database calls
          MaxCommands,  \* bound: commands
          None

Peers == Amfs \cup Gnbs
Work  == {"client", "server"}
Links == [idx : Idx, work : Work, local : Locals \cup {None}, peer : Peers]

\* AMF links are client links, gNB links listen on a local address.
Proper(c) == IF c.work = "client" THEN c.peer \in Amfs /\ c.local = None ELSE c.local \in Locals

\* The table names an index once; no address is an AMF's and a gNB's.
ASSUME LinkAssumption ==
    /\ Idx \subseteq Nat /\ 0 \in Idx /\ Ids \subseteq Nat /\ IsFiniteSet(Ids)
    /\ Amfs \cap Gnbs = {} /\ HomeOf \in [Gnbs -> Locals]
    /\ None \notin Idx \cup Peers \cup Locals \cup Links \cup [peer : Peers, freed : BOOLEAN]
    /\ InitialTable \in [Ids -> Links \cup {None}]
    /\ \A r \in Ids : InitialTable[r] # None => Proper(InitialTable[r])
    /\ \A q, r \in Ids : /\ InitialTable[q] # None /\ InitialTable[r] # None
                        /\ InitialTable[q].idx = InitialTable[r].idx => q = r
    /\ Offered \subseteq [work : Work, local : Locals \cup {None}, peer : Peers]
    /\ \A c \in Offered : Proper(c)
    /\ {MaxTimers, MaxFaults, MaxCommands} \subseteq Nat

VARIABLES
    table,      \* sig_sctp_table: ID -> link
    gw,         \* the process: contexts, lists, timers and queued answers (Booted)
    up,         \* peers that are reachable
    configured, \* the other tables hold what an NG setup request needs
    raised,     \* alarms the network manager shows
    cmd,        \* the operator's command under way
    left,       \* faults and commands that may still come (bounds)
    astray,     \* history: indexes and addresses a command left differing from the table
    touched,    \* history: indexes of commands and of answers taken after their connection
    forgot,     \* history: alarms raised before the last start
    hushed      \* history: indexes whose alarm an old timer cleared
vars == <<table, gw, up, configured, raised, cmd, left, astray, touched, forgot, hushed>>
ghosts == <<astray, touched, forgot, hushed>>

-----------------------------------------------------------------------------
(* Contexts.                                                                *)

\* SctpContextInit: asked and accepted are what the peer knows of this connection.
Zeroed == [status |-> "unset", client |-> FALSE, peer |-> None, conn |-> "none",
           asked |-> FALSE, accepted |-> FALSE, alarm |-> FALSE, clearing |-> "no"]
RowsOf(t)    == {t[r] : r \in {q \in Ids : t[q] # None}}
RowsAt(t, i) == {c \in RowsOf(t) : c.idx = i}
Named(c)       == {c.idx, c.local} \ {None}
IsClient(t, i) == \E c \in RowsAt(t, i) : c.work = "client"
More(n) == IF n = MaxTimers THEN n ELSE n + 1
Fewer(n) == IF n = 0 THEN 0 ELSE n - 1

\* SctpLayerDrv::Init and, two seconds later, AddAmf for the AMF links of the table;
\* listening succeeds and nothing is lost before that.
Booted(t) ==
    [running |-> TRUE,
     ctx |-> [i \in Idx |-> IF RowsAt(t, i) = {} THEN Zeroed
                            ELSE [Zeroed EXCEPT !.status = "inactive"]],
     clients_links |-> [i \in Idx |-> IF IsClient(t, i)
           THEN [peer |-> (CHOOSE c \in RowsAt(t, i) : c.work = "client").peer, freed |-> FALSE]
           ELSE None],
     servers |-> [l \in Locals |-> Cardinality({c \in RowsOf(t) : c.local = l})],
     retry |-> [i \in Idx |-> 0],
     failing |-> {},
     stale |-> {},
     amf |-> [i \in Idx |-> [there |-> IsClient(t, i), setup |-> FALSE,
                             timers |-> IF IsClient(t, i) THEN 1 ELSE 0]],
     events |-> [i \in Idx |-> {}]]

\* No process: nothing of the above survives.
Dead == [Booted([r \in Ids |-> None]) EXCEPT !.running = FALSE]
Idle == [op |-> "none"]

Init == /\ table = InitialTable /\ gw = Booted(InitialTable)
        /\ up = Peers /\ configured = TRUE /\ raised = {}
        /\ cmd = Idle /\ left = [faults |-> MaxFaults, commands |-> MaxCommands]
        /\ astray = {} /\ touched = {} /\ forgot = {} /\ hushed = {}

Fault == left.faults > 0 /\ left' = [left EXCEPT !.faults = @ - 1]

\* The process is gone: a crash, or a call through NULL or freed memory.
Die == /\ gw' = Dead /\ cmd' = Idle
       /\ astray' = {} /\ touched' = {} /\ hushed' = {} /\ forgot' = raised
       /\ UNCHANGED <<table, up, configured, raised>>

Crash == gw.running /\ Fault /\ Die
Boot  == /\ ~gw.running /\ gw' = Booted(table)
         /\ UNCHANGED <<table, up, configured, raised, cmd, left, ghosts>>

\* The connection of context i goes; answers read from it stay queued.
Outdated(events) == {IF e = "yes" THEN "oldYes" ELSE IF e = "no" THEN "oldNo" ELSE e : e \in events}
Ended(c) == [c EXCEPT !.asked = FALSE, !.accepted = FALSE]
Closed(g, i) == [g EXCEPT !.ctx[i] = [Ended(@) EXCEPT !.conn = "none"],
                          !.events[i] = Outdated(@)]
\* StartAlarmTimer, unless one is there already.
Reassured(c) == IF c.alarm /\ c.clearing = "no" THEN [c EXCEPT !.clearing = "timer"] ELSE c
\* SctpClientConnect: a peer that is up answers within its second.
Connected(c) == [c EXCEPT !.status = "active", !.conn = "open"]

-----------------------------------------------------------------------------
(* Peers and connections.                                                   *)

Env(others) == UNCHANGED <<table, configured, cmd>> /\ UNCHANGED others

PeerDown(p) ==
    /\ p \in up /\ Fault /\ up' = up \ {p}
    /\ LET lost == {i \in Idx : gw.ctx[i].peer = p /\ gw.ctx[i].conn = "open"} IN
       gw' = [gw EXCEPT !.ctx = [i \in Idx |-> IF i \in lost
                                     THEN [Ended(@[i]) EXCEPT !.conn = "broken"] ELSE @[i]],
                        !.events = [i \in Idx |-> IF i \in lost THEN Outdated(@[i]) ELSE @[i]]]
    /\ Env(<<raised, ghosts>>)

PeerUp(p) == p \notin up /\ up' = up \cup {p} /\ Env(<<gw, raised, left, ghosts>>)

\* A command has removed this row's link, or is yet to remove the row.
Halfway(c) == cmd.op \in {"update", "update row", "delete row"} /\ table[cmd.id] = c
\* handle_newconnection: the row is found by the peer's address alone, and whatever
\* connection its context had is replaced.
Accept(p) ==
    /\ gw.running /\ p \in up /\ gw.servers[HomeOf[p]] > 0
    /\ \A i \in Idx : ~(gw.ctx[i].peer = p /\ gw.ctx[i].conn = "open")
    /\ \E c \in RowsOf(table) :
          /\ c.peer = p
          /\ LET g == Closed(gw, c.idx) IN
             gw' = [g EXCEPT !.ctx[c.idx] =
                Reassured(Connected([@ EXCEPT !.client = FALSE, !.peer = p]))]
          /\ astray' = IF Halfway(c) THEN astray \cup Named(c) ELSE astray
    /\ Env(<<up, raised, left, touched, forgot, hushed>>)

\* Mutant: the association is asked for again but not forgotten.
RestartKeeps(g, i) == [g EXCEPT !.amf[i].timers = More(@)]
\* Restart and Clear: the association is forgotten and a chain of timers added.
Restart(g, i) == [g EXCEPT !.amf[i].setup = FALSE, !.amf[i].timers = More(@)]

\* handle_error, first half: the error handler.  The AMF's context may be missing
\* (AddAmf is called at start only); the request it sends goes to the broken socket.
HandleError(i) ==
    /\ gw.running /\ gw.ctx[i].conn = "broken" /\ i \notin gw.failing
    /\ UNCHANGED left
    /\ IF gw.ctx[i].client /\ ~gw.amf[i].there
       THEN Die
       ELSE /\ LET g == [Closed(gw, i) EXCEPT !.failing = @ \cup {i}] IN
               gw' = IF gw.ctx[i].client THEN Restart(g, i) ELSE g
            /\ Env(<<up, raised, ghosts>>)

\* Mutant: the timer that clears the alarm runs on.
FinishErrorKeepsTimer(i) ==
    /\ gw.running /\ i \in gw.failing /\ gw.ctx[i].status # "unset"
    /\ gw' = [Closed(gw, i) EXCEPT
                !.failing = @ \ {i}, !.ctx[i].status = "inactive", !.ctx[i].alarm = TRUE,
                !.retry[i] = IF gw.ctx[i].client THEN More(@) ELSE @]
    /\ raised' = raised \cup (IF gw.ctx[i].alarm THEN {} ELSE {i})
    /\ forgot' = forgot \ {i}
    /\ Env(<<up, left, astray, touched, hushed>>)
\* handle_error, second half: close the context's socket, whatever it is by now, start
\* the reconnection of a client, stop the clearing of the alarm, raise it.  The mutex
\* of a context that was removed meanwhile is NULL.
FinishError(i) ==
    /\ gw.running /\ i \in gw.failing
    /\ IF gw.ctx[i].status = "unset"
       THEN Die /\ UNCHANGED left
       ELSE /\ gw' = [Closed(gw, i) EXCEPT
                        !.failing = @ \ {i}, !.ctx[i].status = "inactive",
                        !.ctx[i].alarm = TRUE, !.ctx[i].clearing = "no",
                        !.stale = IF gw.ctx[i].clearing = "queued" THEN @ \cup {i} ELSE @,
                        !.retry[i] = IF gw.ctx[i].client THEN More(@) ELSE @]
            /\ raised' = IF gw.ctx[i].alarm THEN raised ELSE raised \cup {i}
            /\ forgot' = IF gw.ctx[i].alarm THEN forgot ELSE forgot \ {i}
            /\ Env(<<up, left, astray, touched, hushed>>)

-----------------------------------------------------------------------------
(* Timers.  Their callbacks run on any dispatch thread.                     *)

\* AddSctpClient: the fields are set before the connection is tried.
AddSctpClient(g, i, p) ==
    LET h == [Closed(g, i) EXCEPT !.ctx[i].client = TRUE, !.ctx[i].peer = p] IN
    IF p \in up THEN [h EXCEPT !.ctx[i] = Connected(@)] ELSE h

\* handle_sctp_timeout, one link that has not been connected yet; a link that was
\* deleted is read from freed memory.
SctpTimer(i) ==
    /\ gw.running /\ gw.clients_links[i] # None /\ UNCHANGED left
    /\ \/ LET p == gw.clients_links[i].peer  g == AddSctpClient(gw, i, p) IN
          /\ gw' = IF p \in up THEN [g EXCEPT !.clients_links[i] = None] ELSE g
          /\ Env(<<up, raised, ghosts>>)
       \/ gw.clients_links[i].freed /\ Die

\* Mutant: the timer is not started again when the connection fails.
ClientTimerOnce(i) ==
    /\ gw.running /\ gw.retry[i] > 0
    /\ gw' = IF gw.ctx[i].peer \in up \cap Amfs
             THEN [gw EXCEPT !.retry[i] = Fewer(@), !.ctx[i] = Reassured(Connected(@))]
             ELSE [gw EXCEPT !.retry[i] = Fewer(@)]
    /\ Env(<<up, raised, left, ghosts>>)
\* OnSctpClientTimer: reconnect to the context's address, or start the timer again; a
\* context that was removed has no address, a gNB does not listen.
ClientTimer(i) ==
    /\ gw.running /\ gw.retry[i] > 0 /\ gw.ctx[i].peer \in up \cap Amfs
    /\ gw' = [gw EXCEPT !.retry[i] = Fewer(@), !.ctx[i] = Reassured(Connected(@))]
    /\ Env(<<up, raised, left, ghosts>>)

\* The timer thread queues OnSctpAlarmTimer; from then on it cannot be deleted.
AlarmTimer(i) ==
    /\ gw.running /\ gw.ctx[i].clearing = "timer"
    /\ gw' = [gw EXCEPT !.ctx[i].clearing = "queued"]
    /\ Env(<<up, raised, left, ghosts>>)

\* OnSctpAlarmTimer: it clears the alarm of the context's index, 0 in a removed one.
OnSctpAlarmTimer(i) ==
    /\ gw.running /\ gw.ctx[i].clearing = "queued"
    /\ gw' = [gw EXCEPT !.ctx[i].clearing = "no", !.ctx[i].alarm = FALSE]
    /\ raised' = raised \ {i} /\ forgot' = forgot \ {i}
    /\ Env(<<up, left, astray, touched, hushed>>)

\* The same from a timer the context no longer knows of.
OnOldAlarmTimer(i) ==
    /\ gw.running /\ i \in gw.stale
    /\ LET shown == IF gw.ctx[i].status = "unset" THEN 0 ELSE i
           known == gw.ctx[i].clearing # "no" IN
       /\ gw' = [gw EXCEPT !.ctx[i].clearing = "no", !.ctx[i].alarm = FALSE,
                           !.stale = IF known THEN @ ELSE @ \ {i}]
       /\ raised' = raised \ {shown} /\ forgot' = forgot \ {shown}
       /\ touched' = touched \cup ({shown} \ {i})
       /\ hushed' = IF gw.ctx[i].status = "active" THEN hushed ELSE hushed \cup {i}
    /\ Env(<<up, left, astray>>)

-----------------------------------------------------------------------------
(* NG setup with an AMF.                                                    *)

\* SendNgSetup: needs the tables and a socket.
Request(g, i) == IF configured /\ g.ctx[i].conn = "open"
                 THEN [g EXCEPT !.ctx[i].asked = TRUE] ELSE g

\* OnTimer, CheckSctpToAmf: the chain of timers ends where the association stands.
AmfTimer(i) ==
    /\ gw.running /\ gw.amf[i].timers > 0
    /\ gw' = IF gw.amf[i].setup THEN [gw EXCEPT !.amf[i].timers = Fewer(@)]
             ELSE Request(gw, i)
    /\ Env(<<up, raised, left, ghosts>>)

\* The AMF answers and handle_read queues what it says.
AmfAnswers(i) ==
    /\ gw.running /\ gw.ctx[i].asked
    /\ \/ /\ gw' = [gw EXCEPT !.ctx[i].asked = FALSE, !.ctx[i].accepted = TRUE,
                              !.events[i] = @ \cup {"yes"}]
          /\ UNCHANGED left
       \/ /\ ~gw.ctx[i].accepted /\ Fault
          /\ gw' = [gw EXCEPT !.ctx[i].asked = FALSE, !.events[i] = @ \cup {"no"}]
    /\ Env(<<up, raised, ghosts>>)

\* AMF_NgSetupResponse: handleNgSetupResponse, or Clear, which asks again at once.
\* An answer of an earlier connection counts like any other.
TakeAnswer(i, e) ==
    /\ gw.running /\ e \in gw.events[i]
    /\ LET g == [gw EXCEPT !.events[i] = @ \ {e}] IN
       gw' = IF ~gw.amf[i].there THEN g
             ELSE IF e \in {"yes", "oldYes"} THEN [g EXCEPT !.amf[i].setup = TRUE]
             ELSE Request(Restart(g, i), i)
    /\ touched' = IF e = "oldYes" /\ gw.ctx[i].conn # "broken" THEN touched \cup {i} ELSE touched
    /\ Env(<<up, raised, left, astray, forgot, hushed>>)

-----------------------------------------------------------------------------
(* Commands: link first, row second.                                        *)

\* ReleaseClientContext and SctpContextInit; timers of the context go on.
Released(g, i) == [Closed(g, i) EXCEPT !.ctx[i] = Zeroed,
                     !.stale = IF g.ctx[i].clearing = "no" THEN @ ELSE @ \cup {i}]
\* ReleaseServerContext: the listener goes with the last reference.
Unlisten(g, l) == [g EXCEPT !.servers[l] = Fewer(@)]
\* The entry of links is deleted; clients_links may still point to it.
Forgotten(g, i) == [g EXCEPT !.clients_links[i] = IF @ = None THEN @ ELSE [@ EXCEPT !.freed = TRUE]]

\* Mutant: the listener keeps its reference.
CfgRmvSctpListens(g, c) ==
    LET i == c.idx  known == g.ctx[i].status # "unset" IN
    Forgotten(IF c.work = "client"
              THEN IF known /\ g.ctx[i].client
                   THEN [Released(g, i) EXCEPT !.clients_links[i] = None] ELSE g
              ELSE IF known /\ ~g.ctx[i].client THEN Released(g, i) ELSE g, i)
CfgRmvSctp(g, c) ==
    LET i == c.idx  known == g.ctx[i].status # "unset" IN
    Forgotten(IF c.work = "client"
              THEN IF known /\ g.ctx[i].client
                   THEN [Released(g, i) EXCEPT !.clients_links[i] = None] ELSE g
              ELSE LET h == Unlisten(g, c.local) IN
                   IF known /\ ~g.ctx[i].client THEN Released(h, i) ELSE h, i)

\* CfgAddSctp: what the index holds is removed first, under the new link's addresses.
CfgAddSctp(g, c) ==
    LET i == c.idx  h == IF g.ctx[i].status = "unset" THEN g ELSE CfgRmvSctp(g, c) IN
    IF c.work = "server" THEN [h EXCEPT !.servers[c.local] = @ + 1]
    ELSE LET k == AddSctpClient(h, i, c.peer) IN
         IF c.peer \in up THEN k
         ELSE [k EXCEPT !.clients_links[i] = [peer |-> c.peer, freed |-> FALSE]]

Ordered(m) == /\ gw.running /\ left.commands > 0 /\ cmd = Idle
              /\ left' = [left EXCEPT !.commands = @ - 1] /\ cmd' = m
Command(others) == UNCHANGED <<table, up, configured, raised, forgot, hushed>> /\ UNCHANGED others

\* Indexes that stay apart from the table: an add over a link that is there, or a
\* link CfgRmvSctp passes by.
Overwrites(g, c) == IF g.ctx[c.idx].status = "unset" THEN {}
                    ELSE Named(c) \cup UNION {Named(d) : d \in RowsAt(table, c.idx)}
Missed(g, c) == IF c.work = "client" /\ ~(g.ctx[c.idx].status # "unset" /\ g.ctx[c.idx].client)
                THEN {c.idx} ELSE {}

\* CfgAddSctp fails where it cannot listen.
AddLink(g, c, next) ==
    \/ /\ gw' = CfgAddSctp(g, c) /\ cmd' = next
       /\ astray' = astray \cup Overwrites(g, c) /\ UNCHANGED left
    \/ /\ c.work = "server" /\ gw.servers[c.local] = 0 /\ Fault
       /\ gw' = (IF g.ctx[c.idx].status = "unset" THEN g ELSE CfgRmvSctp(g, c))
       /\ cmd' = Idle
       /\ astray' = astray \cup Overwrites(g, c)
             \cup (IF cmd.op = "update" THEN Named(table[cmd.id]) \cup Named(c) ELSE {})

\* sctp_insert: CfgGetFreeIndex takes the least index that is not set.
OrderInsert(o) ==
    /\ Ordered([op |-> "insert", link |-> o]) /\ Command(<<gw, astray, touched>>)
InsertLink ==
    /\ gw.running /\ cmd.op = "insert"
    /\ LET free == {i \in Idx : gw.ctx[i].status = "unset"} IN
       IF free = {} THEN cmd' = Idle /\ Command(<<gw, astray, touched, left>>)
       ELSE LET c == [idx |-> Min(free), work |-> cmd.link.work, local |-> cmd.link.local,
                      peer |-> cmd.link.peer] IN
            /\ AddLink(gw, c, [op |-> "insert row", link |-> c])
            /\ touched' = touched \cup {c.idx} /\ Command(<<>>)

\* sctp_delete and sctp_update read the row by its ID and remove its link.
OrderDelete(r, side) ==
    /\ table[r] # None
    /\ Ordered([op |-> "delete row", id |-> r, side |-> side])
    /\ gw' = CfgRmvSctp(gw, table[r])
    /\ astray' = astray \cup Missed(gw, table[r])
    /\ touched' = touched \cup {table[r].idx} /\ Command(<<>>)
OrderUpdate(r, c) ==
    /\ table[r] # None
    /\ Ordered([op |-> "update", id |-> r, link |-> c])
    /\ gw' = CfgRmvSctp(gw, table[r])
    /\ astray' = astray \cup Missed(gw, table[r])
    /\ touched' = touched \cup {table[r].idx} /\ Command(<<>>)
UpdateLink ==
    /\ gw.running /\ cmd.op = "update"
    /\ AddLink(gw, cmd.link, [cmd EXCEPT !.op = "update row"])
    /\ touched' = touched \cup {cmd.link.idx} /\ Command(<<>>)

\* The row, and the index it may not share; the call may fail.
Written(t, failed) ==
    \/ table' = t /\ UNCHANGED <<left, astray>>
    \/ Fault /\ UNCHANGED table /\ astray' = astray \cup failed
Row == /\ gw.running /\ cmd' = Idle
       /\ UNCHANGED <<gw, up, configured, raised, touched, forgot, hushed>>
InsertRow ==
    /\ cmd.op = "insert row" /\ Row
    /\ LET free == {r \in Ids : table[r] = None}  c == cmd.link IN
       IF RowsAt(table, c.idx) # {} \/ free = {}
       THEN UNCHANGED <<table, left>> /\ astray' = astray \cup Named(c)
       ELSE Written([table EXCEPT ![Min(free)] = c], Named(c))
DeleteRow ==
    /\ cmd.op = "delete row" /\ Row
    /\ LET c == table[cmd.id] IN
       IF cmd.side # c.work
       THEN UNCHANGED <<table, left>> /\ astray' = astray \cup Named(c)
       ELSE Written([table EXCEPT ![cmd.id] = None], Named(c))
UpdateRow ==
    /\ cmd.op = "update row" /\ Row
    /\ LET c == cmd.link  old == table[cmd.id] IN
       IF RowsAt(table, c.idx) \ {old} # {}
       THEN UNCHANGED <<table, left>> /\ astray' = astray \cup Named(c) \cup Named(old)
       ELSE Written([table EXCEPT ![cmd.id] = c], Named(c) \cup Named(old))

\* Commands on the other tables.
Configure ==
    /\ gw.running /\ left.commands > 0 /\ left' = [left EXCEPT !.commands = @ - 1]
    /\ configured' = ~configured
    /\ UNCHANGED <<table, gw, up, raised, cmd, ghosts>>

-----------------------------------------------------------------------------
LinkStep(i) == \/ HandleError(i) \/ FinishError(i) \/ SctpTimer(i) \/ ClientTimer(i)
               \/ AlarmTimer(i) \/ OnSctpAlarmTimer(i) \/ OnOldAlarmTimer(i)
               \/ AmfTimer(i) \/ AmfAnswers(i) \/ \E e \in gw.events[i] : TakeAnswer(i, e)
Operator == \/ \E o \in Offered : OrderInsert(o)
            \/ \E r \in Ids : \/ \E side \in Work : OrderDelete(r, side)
                              \/ \E o \in Offered, i \in Idx :
                                    OrderUpdate(r, [idx |-> i, work |-> o.work,
                                                    local |-> o.local, peer |-> o.peer])
            \/ InsertLink \/ UpdateLink \/ InsertRow \/ DeleteRow \/ UpdateRow \/ Configure
Next == \/ Crash \/ Boot \/ Operator
        \/ \E p \in Peers : PeerDown(p) \/ PeerUp(p)
        \/ \E p \in Gnbs : Accept(p)
        \/ \E i \in Idx : LinkStep(i)

\* Timers fire, sockets' errors are noticed, queued answers are taken and an AMF
\* answers; peers need not return, nor the process start again.
Fairness == \A i \in Idx :
    /\ WF_vars(SctpTimer(i)) /\ WF_vars(ClientTimer(i)) /\ WF_vars(AmfTimer(i))
    /\ WF_vars(HandleError(i)) /\ WF_vars(FinishError(i)) /\ WF_vars(AmfAnswers(i))
    /\ WF_vars(\E e \in gw.events[i] : TakeAnswer(i, e))
Spec == Init /\ [][Next]_vars
FairSpec == Spec /\ Fairness
-----------------------------------------------------------------------------
(* Properties.                                                              *)

ServerRows(l) == {c \in RowsOf(table) : c.work = "server" /\ c.local = l}
\* Between commands the process has exactly the links of sig_sctp_table: an index
\* without a row is connected to nothing and tried by no timer, an AMF's index is
\* connected, or tried, to that AMF, and an address is listened on once per link.
\* Commands that leave link and table apart are excepted, index and address only.
LinksFollowTable == gw.running /\ cmd = Idle =>
    /\ \A i \in Idx \ astray :
          /\ RowsAt(table, i) = {} => gw.ctx[i].status = "unset" /\ gw.clients_links[i] = None
          /\ \A c \in RowsAt(table, i) :
                IF c.work = "client"
                THEN \/ gw.clients_links[i] # None /\ gw.clients_links[i].peer = c.peer
                     \/ gw.ctx[i].client /\ gw.ctx[i].peer = c.peer
                ELSE gw.clients_links[i] = None /\ ~gw.ctx[i].client
    /\ \A l \in Locals \ astray : gw.servers[l] = Cardinality(ServerRows(l))

\* AsmManager takes an association for set up only while the AMF holds it on the
\* connection there is, or until the loss of that connection has been noticed.
SetupIsReal == \A i \in Idx \ touched :
    gw.amf[i].setup => gw.ctx[i].accepted \/ gw.ctx[i].conn = "broken"

\* However often the connection to an AMF is lost, refused or the process started
\* again: once the AMF stays up and the tables filled, the link is connected and the
\* association set up for good (CheckSctpToAmf, OnSctpClientTimer).
AmfReassociates == \A i \in Idx :
    <>[](/\ gw.running /\ i \notin touched /\ configured
         /\ \E c \in RowsAt(table, i) : c.work = "client" /\ c.peer \in up)
    => <>[](gw.ctx[i].status = "active" /\ gw.amf[i].setup /\ gw.ctx[i].accepted)

\* The network manager shows an alarm for the lost links and no others: what a context
\* counts as raised is shown, a link that is up again has a timer to clear its alarm,
\* and a link under reconnection keeps its alarm whichever timers ran before.
AlarmsFollowLinks == gw.running => \A i \in Idx \ touched :
    /\ (i \in raised) <=> (gw.ctx[i].alarm \/ i \in forgot)
    /\ gw.ctx[i].status = "active" /\ gw.ctx[i].alarm /\ i \notin gw.failing
          => gw.ctx[i].clearing # "no"
    /\ gw.retry[i] > 0 => gw.ctx[i].alarm \/ i \in hushed
=============================================================================
