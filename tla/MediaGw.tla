------------------------------ MODULE MediaGw ------------------------------
(***************************************************************************)
(* The media gateway (mod_media).  The signalling gateway asks it to carry *)
(* a PDU session: a session object gets an id, its TEIDs follow from the   *)
(* id, and each of its legs (towards the UPF and towards the gNB, over     *)
(* IPv4 and over IPv6) gets a connected UDP socket.  Legs with the same    *)
(* pair of addresses share a socket, through a list of counted nodes that  *)
(* no lock protects.  Dispatch threads run the signalling handlers, epoll  *)
(* threads forward the packets.                                            *)
(***************************************************************************)
EXTENDS Naturals, FiniteSets, Functions

CONSTANTS Sigs,        \* PDU sessions of the signalling gateway (sig_sess_id)
          Workers,     \* dispatch threads that take signalling events
          MaxId,       \* MAX_MEDIA_SESSIONS - 1
          StartIds,    \* bound: where the cursor may start (rand() in the code)
          UpfPeers,    \* IPv4 addresses of UPFs in setup requests
          NewUpfPeers, \* IPv4 addresses an update may move a session to
          GnbPeers,    \* IPv4 addresses of gNBs
          Peers6,      \* IPv6 addresses of either, None when a request has none
          LocalOf,     \* local address of each leg, None when not configured
          MaxSock,     \* bound: sockets that exist at once
          MaxRequests, \* bound: requests besides setups and releases, and commands
          Dests,       \* destinations the operator may break out locally
          None

Legs == {"upf", "upf6", "gnb", "gnb6"}
Ids  == 1..MaxId
Sixth(side) == IF side = "upf" THEN "upf6" ELSE "gnb6"

\* MAX_MEDIA_SESSIONS leaves a free id for every PDU session; None is no address.
ASSUME MediaAssumption ==
    /\ MaxId \in Nat /\ MaxSock \in Nat /\ MaxRequests \in Nat
    /\ IsFiniteSet(Sigs) /\ Cardinality(Sigs) <= MaxId
    /\ StartIds \subseteq 0..MaxId
    /\ None \notin UpfPeers \cup NewUpfPeers \cup GnbPeers \cup Sigs
    /\ LocalOf["upf"] # None /\ LocalOf["gnb"] # None

VARIABLES
    next_sess_id,    \* cursor of MEDIA_SESS_NEXT_ID
    session_list,    \* id -> session, None when free
    sess,            \* the session objects, one per PDU session
    server_list_v2,  \* the shared sockets: [sock, local, peer, ref, lost]
    budget,          \* requests and commands that may still come (bound)
    pc,              \* what each worker is doing
    ue_ip_table,     \* sessions entered under their UE's address
    lbo,             \* break-out table: rows of the database, keys in memory
    overtaken        \* history: a worker used a node freed or miscounted under it
vars == <<next_sess_id, session_list, sess, server_list_v2, budget, pc,
          ue_ip_table, lbo, overtaken>>

Idle   == [at |-> "idle", s |-> None, leg |-> None, node |-> 0, v4 |-> None, v6 |-> None]
Fresh  == [state |-> "none", id |-> 0, peer |-> [l \in Legs |-> None],
           sock |-> [l \in Legs |-> 0], moved |-> FALSE]

\* media_context_init: the cursor starts at a random id and the tables are empty,
\* the break-out table media_db_load_lbo reads among them.
Init == /\ next_sess_id \in StartIds
        /\ session_list = [i \in Ids |-> None]
        /\ sess = [s \in Sigs |-> Fresh]
        /\ server_list_v2 = {}
        /\ budget = MaxRequests
        /\ pc = [w \in Workers |-> Idle]
        /\ ue_ip_table = {}
        /\ lbo = [db |-> {}, mem |-> {}]
        /\ overtaken = FALSE

-----------------------------------------------------------------------------
(* The signalling gateway sends one request of a PDU session at a time; the *)
(* request waits nowhere that matters, so sending and taking are one step.  *)

Handles(w, s) == pc[w].s = s
\* The setup is answered before its sockets are opened.
Answered(w) == pc[w].at \in {"find", "take"} /\ pc[w].leg \in {"upf", "upf6"}
MayAsk(s)   == \A w \in Workers : Handles(w, s) => Answered(w)

\* media_sig_path_event_callback: an idle worker takes the event; every request
\* but the first names a session (media_find_media_sig_sess_by_id, sig id checked).
Found(s)      == session_list[sess[s].id] = s
Asks(w, s)    == pc[w] = Idle /\ MayAsk(s) /\ sess[s].state = "listed" /\ Found(s)
AsksMore(w, s) == Asks(w, s) /\ budget > 0 /\ budget' = budget - 1
-----------------------------------------------------------------------------
(* UPF setup: claim an id, enter the session, answer, open the UPF legs.   *)

HandleUpfSetup(w, s) ==
    /\ pc[w] = Idle /\ MayAsk(s)
    /\ \/ sess[s].state = "none" /\ UNCHANGED budget
       \/ sess[s].state = "freed" /\ budget > 0 /\ budget' = budget - 1
    /\ \E a \in UpfPeers, b \in Peers6 :
          pc' = [pc EXCEPT ![w] = [Idle EXCEPT !.at = "claim", !.s = s, !.v4 = a, !.v6 = b]]
    /\ UNCHANGED <<next_sess_id, session_list, sess, server_list_v2, ue_ip_table, lbo,
                   overtaken>>

\* Mutant: takes the next id without looking at its slot.
ClaimIdBlindly(w) ==
    /\ pc[w].at = "claim"
    /\ next_sess_id' = IF next_sess_id = MaxId THEN 1 ELSE next_sess_id + 1
    /\ pc' = [pc EXCEPT ![w].at = "install", ![w].node = next_sess_id']
    /\ UNCHANGED <<session_list, sess, server_list_v2, budget, ue_ip_table, lbo, overtaken>>
\* One turn of the loop, under the lock; bound: the cursor does not come round
\* to an id another worker has found free and not yet entered.
ClaimId(w) ==
    /\ pc[w].at = "claim"
    /\ LET id == IF next_sess_id = MaxId THEN 1 ELSE next_sess_id + 1 IN
       /\ \A v \in Workers : ~(pc[v].at = "install" /\ pc[v].node = id)
       /\ next_sess_id' = id
       /\ pc' = IF session_list[id] = None
                THEN [pc EXCEPT ![w].at = "install", ![w].node = id]
                ELSE pc
    /\ UNCHANGED <<session_list, sess, server_list_v2, budget, ue_ip_table, lbo, overtaken>>

\* The second locked section, the fields, and the answer, before any socket is open.
InstallSession(w) ==
    /\ pc[w].at = "install"
    /\ LET s == pc[w].s  id == pc[w].node IN
       /\ session_list' = [session_list EXCEPT ![id] = s]
       /\ sess' = [sess EXCEPT ![s] =
             [Fresh EXCEPT !.state = "listed", !.id = id,
                           !.peer = [Fresh.peer EXCEPT !["upf"] = pc[w].v4, !["upf6"] = pc[w].v6]]]
       /\ pc' = [pc EXCEPT ![w] = [Idle EXCEPT !.at = "find", !.s = s, !.leg = "upf"]]
    /\ UNCHANGED <<next_sess_id, server_list_v2, budget, ue_ip_table,
                   lbo, overtaken>>
-----------------------------------------------------------------------------
(* The shared sockets (media_upf_gtp_open, media_gnb_gtp_open and closes). *)

Socks     == {n.sock : n \in server_list_v2}
NodeOf(k) == CHOOSE n \in server_list_v2 : n.sock = k
Change(n, m) == (server_list_v2 \ {n}) \cup {m}
FreeSocks == (1..MaxSock) \ (Socks \cup (UNION {Range(sess[s].sock) : s \in Sigs})
                                    \cup {pc[w].node : w \in Workers})

\* media_gtp_node_find: addresses are compared over the given lengths, and an
\* absent address has length 0, which any node matches.  The list is kept as a
\* set: its order only chooses among nodes that match.
Matches(s, l) ==
    {n.sock : n \in {m \in server_list_v2 :
        /\ LocalOf[l] \in {None, m.local}
        /\ sess[s].peer[l] \in {None, m.peer}}}
\* An IPv4 address of a request carries eight padding bytes nobody sets, so a
\* node of the same address may compare different.
FindResult(s, l) == IF Matches(s, l) = {} \/ l \in {"upf", "gnb"}
                    THEN Matches(s, l) \cup {0} ELSE Matches(s, l)

\* The IPv4 search starts by forgetting both sockets of the side; a reference
\* they stood for is never given back.
Forget(s, side) ==
    {[n EXCEPT !.lost = @ + Cardinality({l \in {side, Sixth(side)} : sess[s].sock[l] = n.sock})] :
        n \in server_list_v2}
FindNode(w) ==
    /\ pc[w].at = "find"
    /\ LET s == pc[w].s  l == pc[w].leg IN
       /\ IF l \in {"upf", "gnb"}
          THEN /\ server_list_v2' = Forget(s, l)
               /\ sess' = [sess EXCEPT ![s].sock[l] = 0, ![s].sock[Sixth(l)] = 0]
          ELSE UNCHANGED <<server_list_v2, sess>>
       /\ \E k \in FindResult(s, l) :
             pc' = [pc EXCEPT ![w].at = "take", ![w].node = k]
    /\ UNCHANGED <<next_sess_id, session_list, budget, ue_ip_table, lbo,
                   overtaken>>

\* A node was found: count this leg in.  The node may have been freed since,
\* and two threads that count at once may count one.
ShareNode(w) ==
    /\ pc[w].at = "take" /\ pc[w].node # 0
    /\ LET s == pc[w].s  l == pc[w].leg  k == pc[w].node IN
       /\ sess' = [sess EXCEPT ![s].sock[l] = k]
       /\ \/ /\ k \in Socks
             /\ server_list_v2' = Change(NodeOf(k), [NodeOf(k) EXCEPT !.ref = @ + 1])
             /\ UNCHANGED overtaken
          \/ /\ \/ k \notin Socks
                \/ \E v \in Workers \ {w} : pc[v].node = k /\ pc[v].at = "take"
             /\ overtaken' = TRUE
             /\ UNCHANGED server_list_v2
       /\ pc' = [pc EXCEPT ![w] = Idle]
    /\ UNCHANGED <<next_sess_id, session_list, budget, ue_ip_table, lbo>>

\* No node: agc_gtp_open_v2.  Binding, connecting (to no address for one) or
\* registering may fail; the IPv6 leg is only tried after an opened IPv4 one.
OpenNode(w) ==
    /\ pc[w].at = "take" /\ pc[w].node = 0
    /\ LET s == pc[w].s  l == pc[w].leg  side == IF l \in {"upf", "upf6"} THEN "upf" ELSE "gnb" IN
       \/ /\ sess[s].peer[l] # None /\ LocalOf[l] # None
          /\ \E k \in FreeSocks :
                /\ \A j \in FreeSocks : k <= j
                /\ server_list_v2' = server_list_v2 \cup
                      {[sock |-> k, local |-> LocalOf[l], peer |-> sess[s].peer[l],
                        ref |-> 1, lost |-> 0]}
                /\ sess' = [sess EXCEPT ![s].sock[l] = k]
          /\ pc' = IF l = side THEN [pc EXCEPT ![w].at = "find", ![w].leg = Sixth(side)]
                   ELSE [pc EXCEPT ![w] = Idle]
       \/ /\ pc' = [pc EXCEPT ![w] = Idle]
          /\ UNCHANGED <<server_list_v2, sess>>
    /\ UNCHANGED <<next_sess_id, session_list, budget, ue_ip_table, lbo,
                   overtaken>>

\* Mutant: closes the socket although other legs count on it.
DropRefCloses(k) ==
    IF k \notin Socks THEN server_list_v2 ELSE server_list_v2 \ {NodeOf(k)}
\* media_del_gtp_node_ref_v2, then media_remove_gtp_node_v2 and agc_gtp_close.
DropRef(k) ==
    IF k \notin Socks THEN server_list_v2
    ELSE IF NodeOf(k).ref > 1
         THEN Change(NodeOf(k), [NodeOf(k) EXCEPT !.ref = @ - 1])
         ELSE server_list_v2 \ {NodeOf(k)}
-----------------------------------------------------------------------------
(* The other requests.                                                     *)

\* Mutant: a session that has a gNB socket keeps it.
HandleGnbSetupKeepsSocket(w, s) ==
    /\ AsksMore(w, s)
    /\ \E a \in GnbPeers, b \in Peers6 :
          sess' = [sess EXCEPT ![s].peer["gnb"] = a, ![s].peer["gnb6"] = b]
    /\ pc' = IF sess[s].sock["gnb"] # 0 THEN pc
             ELSE [pc EXCEPT ![w] = [Idle EXCEPT !.at = "find", !.s = s, !.leg = "gnb"]]
    /\ UNCHANGED <<next_sess_id, session_list, server_list_v2, ue_ip_table, lbo, overtaken>>
\* An IPv6 address a request leaves out stays what it was.
NewOr(b, old) == IF b = None THEN old ELSE b

\* An end marker goes to the old gNB, the addresses change, both gNB legs reopen.
HandleGnbSetup(w, s) ==
    /\ AsksMore(w, s)
    /\ \E a \in GnbPeers, b \in Peers6 :
          sess' = [sess EXCEPT ![s].peer["gnb"] = a,
                               ![s].peer["gnb6"] = NewOr(b, sess[s].peer["gnb6"])]
    /\ pc' = [pc EXCEPT ![w] = [Idle EXCEPT !.at = "find", !.s = s, !.leg = "gnb"]]
    /\ UNCHANGED <<next_sess_id, session_list, server_list_v2, ue_ip_table, lbo, overtaken>>

\* The UPF's new addresses are stored; its sockets stay connected to the old one.
HandleUpfUpdate(w, s) ==
    /\ AsksMore(w, s)
    /\ \E a \in NewUpfPeers, b \in Peers6 :
          sess' = [sess EXCEPT
              ![s].peer["upf"]  = a,
              ![s].peer["upf6"] = NewOr(b, sess[s].peer["upf6"]),
              ![s].moved = sess[s].moved \/ a # sess[s].peer["upf"]
                                         \/ b \notin {None, sess[s].peer["upf6"]}]
    /\ UNCHANGED <<next_sess_id, session_list, server_list_v2, pc, ue_ip_table, lbo, overtaken>>

\* A session check is answered and changes nothing.
HandleCheck(w, s) == Asks(w, s) /\ UNCHANGED vars

\* Release: the answer, then media_remove_media_sig_sess gives the four
\* references back, clears the slot and leaves the object to a 2 s timer.
HandleRelease(w, s) ==
    /\ Asks(w, s)
    /\ overtaken' = (overtaken \/ \E v \in Workers : Handles(v, s))
    /\ pc' = [pc EXCEPT ![w] = [Idle EXCEPT !.at = "upf", !.s = s]]
    /\ UNCHANGED <<next_sess_id, session_list, sess, server_list_v2, budget, ue_ip_table, lbo>>
AfterClose == [upf |-> "upf6", upf6 |-> "gnb", gnb |-> "gnb6", gnb6 |-> "unlist"]
CloseLeg(w) ==
    /\ pc[w].at \in Legs
    /\ server_list_v2' = DropRef(sess[pc[w].s].sock[pc[w].at])
    /\ pc' = [pc EXCEPT ![w].at = AfterClose[pc[w].at]]
    /\ UNCHANGED <<next_sess_id, session_list, sess, budget, ue_ip_table,
                   lbo, overtaken>>
Unlist(w) ==
    /\ pc[w].at = "unlist"
    /\ LET s == pc[w].s IN
       /\ session_list' = [session_list EXCEPT ![sess[s].id] = None]
       /\ sess' = [sess EXCEPT ![s].state = "unlisted"]
    /\ pc' = [pc EXCEPT ![w] = Idle]
    /\ UNCHANGED <<next_sess_id, server_list_v2, budget, ue_ip_table, lbo,
                   overtaken>>
\* media_on_release_timer.  Its UE's entry stays in ue_ip_table and dangles; what a
\* packet for that UE does then is undefined and not followed.
FreeSession(s) ==
    /\ sess[s].state = "unlisted"
    /\ sess' = [sess EXCEPT ![s] = [Fresh EXCEPT !.state = "freed"]]
    /\ ue_ip_table' = ue_ip_table \ {s}
    /\ UNCHANGED <<next_sess_id, session_list, server_list_v2, budget, pc, lbo, overtaken>>
-----------------------------------------------------------------------------
(* Packets, each handled in one step of an epoll thread.                   *)

Other == [upf |-> "gnb", gnb |-> "upf", upf6 |-> "gnb6", gnb6 |-> "upf6"]

\* agc_gtp_add_message writes to the socket, whatever address it was given.
SendsTo(s, l) == LET k == sess[s].sock[l] IN
    IF k = 0 THEN None ELSE IF k \in Socks THEN NodeOf(k).peer ELSE "closed"

\* media_gtp_packet_filter: a packet to a broken-out destination goes to the TUN
\* device; the first one enters the UE's address.
PacketFilter(s) == lbo.mem # {} /\ ue_ip_table' = ue_ip_table \cup {s}

\* media_gtp_path_recv_cb: the TEID names the session and the leg.  What comes
\* from the gNB may be filtered; any other packet leaves by the opposite leg.
ReceiveGtp(s, l) ==
    /\ sess[s].state = "listed" /\ Found(s)
    /\ \/ l \in {"gnb", "gnb6"} /\ PacketFilter(s)
       \/ SendsTo(s, Other[l]) # None /\ UNCHANGED ue_ip_table
    /\ UNCHANGED <<next_sess_id, session_list, sess, server_list_v2, budget, pc, lbo,
                   overtaken>>

\* media_tun_path_recv_cb: an answer from the TUN device goes to the UE's gNB,
\* over IPv4 when the session has an IPv4 gNB.
TunLeg(s) == IF sess[s].peer["gnb"] # None THEN "gnb" ELSE "gnb6"
ReceiveTun(s) ==
    /\ s \in ue_ip_table
    /\ sess[s].peer[TunLeg(s)] # None /\ SendsTo(s, TunLeg(s)) # None
    /\ UNCHANGED vars
-----------------------------------------------------------------------------
(* The operator's commands; each fails as a whole when the database does.  *)

LboInsert(d) == lbo' = [db |-> lbo.db \cup {d}, mem |-> lbo.mem \cup {d}]
LboDelete(d) == lbo' = [lbo EXCEPT !.db = @ \ {d}]
LboUpdate(d, e) == d \in lbo.db /\ lbo' = [lbo EXCEPT !.db = (@ \ {d}) \cup {e}]
Operator ==
    /\ \E d \in Dests : LboInsert(d) \/ LboDelete(d) \/ \E e \in Dests : LboUpdate(d, e)
    /\ budget > 0 /\ budget' = budget - 1
    /\ UNCHANGED <<next_sess_id, session_list, sess, server_list_v2, pc, ue_ip_table, overtaken>>

Handler(w) == \/ \E s \in Sigs : \/ HandleUpfSetup(w, s) \/ HandleGnbSetup(w, s)
                                 \/ HandleUpfUpdate(w, s) \/ HandleCheck(w, s)
                                 \/ HandleRelease(w, s)
              \/ ClaimId(w) \/ InstallSession(w) \/ FindNode(w) \/ ShareNode(w)
              \/ OpenNode(w) \/ CloseLeg(w) \/ Unlist(w)
Forwarder == \E s \in Sigs : ReceiveTun(s) \/ \E l \in Legs : ReceiveGtp(s, l)
Next == \/ \E s \in Sigs : FreeSession(s)
        \/ \E w \in Workers : Handler(w)
        \/ Forwarder
        \/ Operator
Spec == Init /\ [][Next]_vars
-----------------------------------------------------------------------------
(* Properties.                                                             *)

\* The references a session still holds: not those its release has given back.
Given(w)  == CASE pc[w].at = "upf6" -> {"upf"}
               [] pc[w].at = "gnb"  -> {"upf", "upf6"}
               [] pc[w].at = "gnb6" -> Legs \ {"gnb6"}
               [] pc[w].at = "unlist" -> Legs
               [] OTHER -> {}
Held(k) == {x \in Sigs \X Legs :
              /\ sess[x[1]].state = "listed" /\ sess[x[1]].sock[x[2]] = k
              /\ \A w \in Workers : Handles(w, x[1]) => x[2] \notin Given(w)}

\* A node of server_list_v2 counts the legs that use its socket, and besides
\* them only the references that a repeated gNB setup forgot; so a release never
\* closes a socket another PDU session forwards on, and a socket nobody uses is
\* closed.  Handlers that work on a node freed or counted under them, and a
\* release that overtakes the opening of its session's sockets, are excused.
SocketsCounted ==
    \/ overtaken
    \/ /\ \A n \in server_list_v2 : n.ref = Cardinality(Held(n.sock)) + n.lost
       /\ \A s \in Sigs, l \in Legs :
             (<<s, l>> \in Held(sess[s].sock[l]) /\ sess[s].sock[l] # 0)
             => sess[s].sock[l] \in Socks

\* A packet forwarded for a session at rest leaves on a socket connected to the
\* address the signalling gave for that leg, or nowhere when the socket could not
\* be opened; a leg whose UPF was moved by an update is the known exception, and
\* so is an IPv6 leg that never got an address.
Calm(s) == sess[s].state = "listed" /\ \A w \in Workers : ~Handles(w, s)
ForwardsToPeer ==
    overtaken \/ \A s \in Sigs, l \in Legs :
        (Calm(s) /\ sess[s].peer[l] # None)
        => \/ SendsTo(s, l) \in {None, sess[s].peer[l]}
           \/ sess[s].moved /\ l \in {"upf", "upf6"}

\* A session the gateway has answered for is found under its own id, hence under
\* its TEIDs, until its release clears the slot; no other slot leads to it.
TeidsLeadHome ==
    \A s \in Sigs, i \in Ids :
        session_list[i] = s <=> (sess[s].state = "listed" /\ sess[s].id = i)
=============================================================================
