----------------------------- MODULE MediaGwProofs -----------------------------
(***************************************************************************)
(* Theorems about the media gateway, for any number of PDU sessions,       *)
(* workers, session ids, addresses and sockets.                            *)
(***************************************************************************)
EXTENDS MediaGw, TLAPS, FiniteSetTheorems

-----------------------------------------------------------------------------
(* Types.                                                                   *)

Addr == UpfPeers \cup NewUpfPeers \cup GnbPeers \cup Peers6 \cup {None}
Session == [state : {"none", "listed", "unlisted", "freed"}, id : 0..MaxId,
            peer : [Legs -> Addr], sock : [Legs -> 0..MaxSock], moved : BOOLEAN]
Doing == [at : {"idle", "claim", "install", "find", "take", "unlist"} \cup Legs,
          s : Sigs \cup {None}, leg : Legs \cup {None}, node : Nat, v4 : Addr, v6 : Addr]
SharedSocket == [sock : 1..MaxSock, local : {LocalOf[l] : l \in Legs}, peer : Addr,
                 ref : Nat, lost : Nat]

\* server_list_v2 has one node per socket.
ListTypes ==
  /\ server_list_v2 \subseteq SharedSocket
  /\ \A m, n \in server_list_v2 : m.sock = n.sock => m = n
\* The types of the variables; a worker is idle or has a session in hand.
MediaTypes ==
  /\ next_sess_id \in 0..MaxId
  /\ session_list \in [Ids -> Sigs \cup {None}]
  /\ sess \in [Sigs -> Session]
  /\ pc \in [Workers -> Doing]
  /\ \A w \in Workers : pc[w].at = "idle" <=> pc[w].s = None
  /\ \A w \in Workers : pc[w].at \in {"find", "take"} => pc[w].leg \in Legs
  /\ \A w \in Workers : pc[w].at = "take" => pc[w].node \in 0..MaxSock
  /\ ListTypes

\* The other workers, and the other sessions, are left alone.
OthersWork(w) == \A v \in Workers : v # w => pc'[v] = pc[v]
OthersRest(s) == \A t \in Sigs : t # s => sess'[t] = sess[t]

\* The bounds are numbers, and 0 is a cursor and a socket.
LEMMA Numbers == MaxId \in Nat /\ MaxSock \in Nat /\ 0 \in 0..MaxSock /\ 0 \in 0..MaxId
BY MediaAssumption

\* The IPv6 leg of a side is a leg.
LEMMA SixthLeg == \A l \in Legs : Sixth(l) \in Legs
BY DEF Sixth, Legs

\* A worker's state is overwritten.
LEMMA WorkWritten ==
  ASSUME pc \in [Workers -> Doing], NEW w \in Workers, NEW x \in Doing,
         pc' = [pc EXCEPT ![w] = x]
  PROVE  pc' \in [Workers -> Doing] /\ pc'[w] = x /\ OthersWork(w)
BY DEF OthersWork

\* A session object is overwritten.
LEMMA SessWritten ==
  ASSUME sess \in [Sigs -> Session], NEW s \in Sigs, NEW y \in Session,
         sess' = [sess EXCEPT ![s] = y]
  PROVE  sess' \in [Sigs -> Session] /\ sess'[s] = y /\ OthersRest(s)
BY DEF OthersRest

\* Only the sockets of a session object are overwritten.
LEMMA SocksWritten ==
  ASSUME sess \in [Sigs -> Session], NEW s \in Sigs, NEW x \in [Legs -> 0..MaxSock],
         sess' = [sess EXCEPT ![s] = [sess[s] EXCEPT !.sock = x]]
  PROVE  /\ sess' \in [Sigs -> Session] /\ OthersRest(s)
         /\ sess'[s].sock = x /\ sess'[s].peer = sess[s].peer
         /\ sess'[s].state = sess[s].state /\ sess'[s].id = sess[s].id
         /\ sess'[s].moved = sess[s].moved
<1> DEFINE y == [sess[s] EXCEPT !.sock = x]
<1>1. sess[s] \in Session
      OBVIOUS
<1>2. /\ y \in Session /\ y.sock = x /\ y.peer = sess[s].peer /\ y.state = sess[s].state
      /\ y.id = sess[s].id /\ y.moved = sess[s].moved
      BY <1>1 DEF Session
<1>3. sess' = [sess EXCEPT ![s] = y]
      OBVIOUS
<1> HIDE DEF y
<1> QED
    BY <1>2, <1>3, SessWritten

\* A session object as it is allocated: no state, no socket.
LEMMA FreshSession == Fresh \in Session /\ Fresh.state = "none" /\ \A l \in Legs : Fresh.sock[l] = 0
<1> DEFINE p == [l \in Legs |-> None]
           k == [l \in Legs |-> 0]
<1>1. p \in [Legs -> Addr] /\ k \in [Legs -> 0..MaxSock] /\ \A l \in Legs : k[l] = 0
      BY Numbers DEF Addr
<1>2. Fresh = [state |-> "none", id |-> 0, peer |-> p, sock |-> k, moved |-> FALSE]
      BY DEF Fresh
<1> HIDE DEF p, k
<1> QED
    BY <1>1, <1>2, Numbers DEF Session

-----------------------------------------------------------------------------
(* What each operation does, field by field.                                *)

\* A UPF setup is taken by an idle worker and changes nothing else yet.
LEMMA SetupEffect ==
  ASSUME MediaTypes, NEW w \in Workers, NEW s \in Sigs, HandleUpfSetup(w, s)
  PROVE  /\ UNCHANGED <<next_sess_id, session_list, sess, server_list_v2, overtaken>>
         /\ pc[w] = Idle /\ MayAsk(s) /\ sess[s].state \in {"none", "freed"}
         /\ pc' \in [Workers -> Doing] /\ OthersWork(w)
         /\ pc'[w].at = "claim" /\ pc'[w].s = s
<1>1. PICK a \in UpfPeers, b \in Peers6 :
        pc' = [pc EXCEPT ![w] = [Idle EXCEPT !.at = "claim", !.s = s, !.v4 = a, !.v6 = b]]
      BY DEF HandleUpfSetup
<1> DEFINE x == [Idle EXCEPT !.at = "claim", !.s = s, !.v4 = a, !.v6 = b]
<1>2. x \in Doing /\ x.at = "claim" /\ x.s = s
      BY DEF Idle, Doing, Addr
<1>3. pc' = [pc EXCEPT ![w] = x]
      BY <1>1
<1> HIDE DEF x
<1>4. pc' \in [Workers -> Doing] /\ pc'[w] = x /\ OthersWork(w)
      BY <1>2, <1>3, WorkWritten DEF MediaTypes
<1> QED
    BY <1>2, <1>4 DEF HandleUpfSetup

\* One turn of MEDIA_SESS_NEXT_ID's loop: the cursor moves; a free id nobody has
\* claimed may be claimed.
LEMMA ClaimEffect ==
  ASSUME MediaTypes, NEW w \in Workers, ClaimId(w)
  PROVE  /\ UNCHANGED <<session_list, sess, server_list_v2, overtaken>>
         /\ next_sess_id' \in 0..MaxId
         /\ pc[w].at = "claim"
         /\ pc' \in [Workers -> Doing] /\ OthersWork(w)
         /\ pc'[w].s = pc[w].s
         /\ \/ pc' = pc
            \/ /\ pc'[w].at = "install" /\ pc'[w].node \in Ids
               /\ session_list[pc'[w].node] = None
               /\ \A v \in Workers : ~(pc[v].at = "install" /\ pc[v].node = pc'[w].node)
<1> DEFINE id == IF next_sess_id = MaxId THEN 1 ELSE next_sess_id + 1
<1>1. /\ UNCHANGED <<session_list, sess, server_list_v2, overtaken>> /\ pc[w].at = "claim"
      /\ next_sess_id' = id
      /\ \A v \in Workers : ~(pc[v].at = "install" /\ pc[v].node = id)
      /\ pc' = IF session_list[id] = None
               THEN [pc EXCEPT ![w].at = "install", ![w].node = id] ELSE pc
      BY DEF ClaimId
<1>2. MaxId # 0
  <2>1. pc[w].s \in Sigs
        BY <1>1 DEF MediaTypes, Doing
  <2> QED
      BY <2>1, MediaAssumption, FS_EmptySet, FS_CardinalityType
<1>3. id \in Ids /\ id \in Nat /\ id \in 0..MaxId
      BY <1>2, Numbers DEF Ids, MediaTypes
<1> HIDE DEF id
<1>4. CASE session_list[id] = None
  <2> DEFINE x == [pc[w] EXCEPT !.at = "install", !.node = id]
  <2>1. pc[w] \in Doing
        BY DEF MediaTypes
  <2>2. x \in Doing /\ x.at = "install" /\ x.node = id /\ x.s = pc[w].s
        BY <2>1, <1>3 DEF Doing
  <2>3. pc' = [pc EXCEPT ![w] = x]
        BY <1>1, <1>4 DEF MediaTypes
  <2> HIDE DEF x
  <2>4. pc' \in [Workers -> Doing] /\ pc'[w] = x /\ OthersWork(w)
        BY <2>2, <2>3, WorkWritten DEF MediaTypes
  <2> QED
      BY <1>1, <1>3, <1>4, <2>2, <2>4
<1>5. CASE session_list[id] # None
      BY <1>1, <1>3, <1>5 DEF MediaTypes, OthersWork
<1> QED
    BY <1>4, <1>5

\* The session is entered under its claimed id, without a socket.
LEMMA InstallEffect ==
  ASSUME MediaTypes, NEW w \in Workers, InstallSession(w), pc[w].node \in Ids
  PROVE  LET s == pc[w].s  id == pc[w].node IN
         /\ UNCHANGED <<next_sess_id, server_list_v2, overtaken>>
         /\ pc[w].at = "install" /\ s \in Sigs
         /\ session_list' = [session_list EXCEPT ![id] = s]
         /\ sess' \in [Sigs -> Session] /\ OthersRest(s)
         /\ sess'[s].state = "listed" /\ sess'[s].id = id
         /\ \A l \in Legs : sess'[s].sock[l] = 0
         /\ pc' \in [Workers -> Doing] /\ OthersWork(w)
         /\ pc'[w].at = "find" /\ pc'[w].s = s /\ pc'[w].leg = "upf"
<1> DEFINE s == pc[w].s
           id == pc[w].node
           p == [Fresh.peer EXCEPT !["upf"] = pc[w].v4, !["upf6"] = pc[w].v6]
           y == [Fresh EXCEPT !.state = "listed", !.id = id, !.peer = p]
           x == [Idle EXCEPT !.at = "find", !.s = s, !.leg = "upf"]
<1>1. /\ UNCHANGED <<next_sess_id, server_list_v2, overtaken>> /\ pc[w].at = "install"
      /\ session_list' = [session_list EXCEPT ![id] = s]
      /\ sess' = [sess EXCEPT ![s] = y]
      /\ pc' = [pc EXCEPT ![w] = x]
      BY DEF InstallSession
<1>2. pc[w] \in Doing /\ s \in Sigs
      BY <1>1 DEF MediaTypes, Doing
<1>3. p \in [Legs -> Addr]
      BY <1>2 DEF Fresh, Legs, Addr, Doing
<1> HIDE DEF p
<1>4. y \in Session /\ y.state = "listed" /\ y.id = id /\ y.sock = Fresh.sock
  <2>1. id \in 0..MaxId
        BY Numbers DEF Ids
  <2> DEFINE a == [Fresh EXCEPT !.state = "listed"]
             b == [a EXCEPT !.id = id]
  <2>2. a \in Session /\ a.state = "listed" /\ a.sock = Fresh.sock
        BY FreshSession DEF Session
  <2>3. b \in Session /\ b.state = "listed" /\ b.id = id /\ b.sock = Fresh.sock
    <3> HIDE DEF a, id
    <3> QED
        BY <2>1, <2>2 DEF Session
  <2>4. y = [b EXCEPT !.peer = p]
        OBVIOUS
  <2> HIDE DEF y, b, id
  <2> QED
      BY <1>3, <2>3, <2>4 DEF Session
<1>5. x \in Doing /\ x.at = "find" /\ x.s = s /\ x.leg = "upf"
      BY <1>2 DEF Idle, Doing, Addr, Legs
<1> HIDE DEF x, y
<1>6. pc' \in [Workers -> Doing] /\ pc'[w] = x /\ OthersWork(w)
      BY <1>1, <1>5, WorkWritten DEF MediaTypes
<1>7. sess' \in [Sigs -> Session] /\ sess'[s] = y /\ OthersRest(s)
      BY <1>1, <1>2, <1>4, SessWritten DEF MediaTypes
<1> QED
    BY <1>1, <1>2, <1>4, <1>5, <1>6, <1>7, FreshSession

-----------------------------------------------------------------------------
(* The list of shared sockets.                                              *)

\* NodeOf finds the only node of a socket.
LEMMA TheNode ==
  ASSUME ListTypes
  PROVE  /\ \A k \in Socks : NodeOf(k) \in server_list_v2 /\ NodeOf(k).sock = k
         /\ \A n \in server_list_v2 : n.sock \in Socks /\ NodeOf(n.sock) = n /\ n.sock \in 1..MaxSock
<1>1. ASSUME NEW k \in Socks PROVE NodeOf(k) \in server_list_v2 /\ NodeOf(k).sock = k
  <2>1. \E n \in server_list_v2 : n.sock = k
        BY DEF Socks
  <2> QED
      BY <2>1 DEF NodeOf
<1>2. ASSUME NEW n \in server_list_v2
      PROVE  n.sock \in Socks /\ NodeOf(n.sock) = n /\ n.sock \in 1..MaxSock
  <2>1. n.sock \in Socks
        BY DEF Socks
  <2>2. NodeOf(n.sock) \in server_list_v2 /\ NodeOf(n.sock).sock = n.sock
        BY <2>1, <1>1
  <2> QED
      BY <2>1, <2>2 DEF ListTypes, SharedSocket
<1> QED
    BY <1>1, <1>2

\* A node is overwritten by one of the same socket.
LEMMA NodeChanged ==
  ASSUME ListTypes, NEW n \in server_list_v2, NEW m \in SharedSocket, m.sock = n.sock,
         server_list_v2' = Change(n, m)
  PROVE  /\ ListTypes' /\ Socks' = Socks
         /\ \A x \in server_list_v2' : x = m \/ (x \in server_list_v2 /\ x.sock # n.sock)
<1>1. \A x \in server_list_v2' : x = m \/ (x \in server_list_v2 /\ x # n)
      BY DEF Change
<1>2. \A x \in server_list_v2' : x = m \/ (x \in server_list_v2 /\ x.sock # n.sock)
      BY <1>1 DEF ListTypes
<1>3. m \in server_list_v2' /\ \A x \in server_list_v2 : x # n => x \in server_list_v2'
      BY DEF Change
<1>4. ListTypes'
  <2>1. server_list_v2' \subseteq SharedSocket
        BY <1>1 DEF ListTypes
  <2>2. \A x, y \in server_list_v2' : x.sock = y.sock => x = y
        BY <1>2 DEF ListTypes
  <2> QED
      BY <2>1, <2>2 DEF ListTypes
<1>5. Socks' = Socks
      BY <1>2, <1>3 DEF Socks
<1> QED
    BY <1>2, <1>4, <1>5

\* The two legs on the side of leg l.
Side(l) == {m \in Legs : m \in {"upf", "upf6"} <=> l \in {"upf", "upf6"}}

\* The legs fall into the UPF's two and the gNB's two.
LEMMA SidesAre ==
  /\ \A l \in {"upf", "gnb"} : Side(l) = {l, Sixth(l)} /\ Sixth(l) # l /\ l \in Legs /\ Sixth(l) \in {"upf6", "gnb6"}
  /\ \A l, m \in Legs : m \in Side(l) <=> Side(m) = Side(l)
  /\ Side("upf") \cap Side("gnb") = {}
BY DEF Side, Sixth, Legs

\* The legs of a side that stand on socket k.
On(s, l, k) == {m \in {l, Sixth(l)} : sess[s].sock[m] = k}

\* At most two legs of a side stand on a socket.
LEMMA OnFinite ==
  ASSUME NEW s, NEW l, NEW k
  PROVE  IsFiniteSet(On(s, l, k)) /\ Cardinality(On(s, l, k)) \in Nat
<1>1. IsFiniteSet({l, Sixth(l)})
  <2>1. {l, Sixth(l)} = {l} \cup {Sixth(l)}
        OBVIOUS
  <2>2. IsFiniteSet({l})
        BY FS_Singleton
  <2>3. IsFiniteSet({l} \cup {Sixth(l)})
        BY <2>2, FS_AddElement
  <2> QED
      BY <2>1, <2>3
<1>2. IsFiniteSet(On(s, l, k))
      BY <1>1, FS_Subset DEF On
<1> QED
    BY <1>2, FS_CardinalityType

\* A search that forgets a side's sockets only adds to what is lost.
LEMMA ForgetNodes ==
  ASSUME ListTypes, NEW s \in Sigs, NEW l \in Legs, server_list_v2' = Forget(s, l)
  PROVE  /\ ListTypes' /\ Socks' = Socks
         /\ \A x \in server_list_v2' : \E n \in server_list_v2 :
              /\ x.sock = n.sock /\ x.peer = n.peer /\ x.ref = n.ref
              /\ x.lost = n.lost + Cardinality(On(s, l, n.sock))
<1> DEFINE F(n) == [n EXCEPT !.lost = @ + Cardinality(On(s, l, n.sock))]
<1>1. server_list_v2' = {F(n) : n \in server_list_v2}
      BY DEF Forget, On
<1>2. ASSUME NEW n \in server_list_v2
      PROVE  /\ F(n) \in SharedSocket
             /\ F(n).sock = n.sock /\ F(n).peer = n.peer /\ F(n).ref = n.ref
             /\ F(n).lost = n.lost + Cardinality(On(s, l, n.sock))
  <2>1. n \in SharedSocket
        BY DEF ListTypes
  <2>2. n.lost + Cardinality(On(s, l, n.sock)) \in Nat
        BY <2>1, OnFinite DEF SharedSocket
  <2> DEFINE c == n.lost + Cardinality(On(s, l, n.sock))
  <2>3. F(n) = [n EXCEPT !.lost = c]
        OBVIOUS
  <2> HIDE DEF c
  <2>4. /\ [n EXCEPT !.lost = c] \in SharedSocket
        /\ [n EXCEPT !.lost = c].sock = n.sock /\ [n EXCEPT !.lost = c].peer = n.peer
        /\ [n EXCEPT !.lost = c].ref = n.ref /\ [n EXCEPT !.lost = c].lost = c
        BY <2>1, <2>2 DEF SharedSocket, c
  <2> QED
      BY <2>3, <2>4 DEF c
<1> HIDE DEF F
<1>3. server_list_v2' \subseteq SharedSocket
      BY <1>1, <1>2
<1>4. \A x, y \in server_list_v2' : x.sock = y.sock => x = y
      BY <1>1, <1>2 DEF ListTypes
<1>5. Socks' = Socks
      BY <1>1, <1>2 DEF Socks
<1> QED
    BY <1>1, <1>2, <1>3, <1>4, <1>5 DEF ListTypes

\* A socket nobody stands on.
LEMMA FreeSocksAre ==
  ASSUME MediaTypes, NEW k \in FreeSocks
  PROVE  /\ k \in 1..MaxSock /\ k \notin Socks
         /\ \A s \in Sigs, l \in Legs : sess[s].sock[l] # k
         /\ \A v \in Workers : pc[v].node # k
<1>1. ASSUME NEW s \in Sigs, NEW l \in Legs PROVE sess[s].sock[l] # k
  <2>1. sess[s].sock \in [Legs -> 0..MaxSock]
        BY DEF MediaTypes, Session
  <2>2. sess[s].sock[l] \in Range(sess[s].sock)
        BY <2>1 DEF Range
  <2> QED
      BY <2>2 DEF FreeSocks
<1> DEFINE A == UNION {Range(sess[s].sock) : s \in Sigs}
           B == {pc[w].node : w \in Workers}
<1>2. k \in 1..MaxSock /\ k \notin Socks /\ k \notin B
  <2>1. k \in (1..MaxSock) \ (Socks \cup A \cup B)
        BY DEF FreeSocks
  <2> HIDE DEF A, B
  <2> QED
      BY <2>1
<1>3. ASSUME NEW v \in Workers PROVE pc[v].node # k
      BY <1>2
<1> QED
    BY <1>1, <1>2, <1>3

-----------------------------------------------------------------------------
(* The operations on sockets, field by field.                               *)

\* What every step of a worker on sockets leaves of its session.
SameButSocks(s) ==
  /\ sess' \in [Sigs -> Session] /\ OthersRest(s)
  /\ sess'[s].peer = sess[s].peer /\ sess'[s].state = sess[s].state
  /\ sess'[s].id = sess[s].id /\ sess'[s].moved = sess[s].moved

\* A search: it yields no socket or one that matches the leg's address, and the IPv4
\* search forgets the sockets of its side.
LEMMA FindEffect ==
  ASSUME MediaTypes, NEW w \in Workers, FindNode(w)
  PROVE  LET s == pc[w].s  l == pc[w].leg IN
         /\ UNCHANGED <<next_sess_id, session_list, overtaken>>
         /\ pc[w].at = "find" /\ s \in Sigs /\ l \in Legs
         /\ pc' \in [Workers -> Doing] /\ OthersWork(w)
         /\ pc'[w].at = "take" /\ pc'[w].s = s /\ pc'[w].leg = l /\ pc'[w].node \in 0..MaxSock
         /\ \A n \in server_list_v2 : n.sock = pc'[w].node => sess[s].peer[l] \in {None, n.peer}
         /\ SameButSocks(s)
         /\ \/ /\ l \in {"upf", "gnb"} /\ server_list_v2' = Forget(s, l)
               /\ \A m \in Legs : sess'[s].sock[m] = IF m \in Side(l) THEN 0 ELSE sess[s].sock[m]
            \/ l \notin {"upf", "gnb"} /\ UNCHANGED <<server_list_v2, sess>>
<1> DEFINE s == pc[w].s
           l == pc[w].leg
<1>1. /\ UNCHANGED <<next_sess_id, session_list, overtaken>> /\ pc[w].at = "find"
      /\ \/ /\ l \in {"upf", "gnb"} /\ server_list_v2' = Forget(s, l)
            /\ sess' = [sess EXCEPT ![s].sock[l] = 0, ![s].sock[Sixth(l)] = 0]
         \/ l \notin {"upf", "gnb"} /\ UNCHANGED <<server_list_v2, sess>>
      BY DEF FindNode
<1>2. PICK k \in FindResult(s, l) : pc' = [pc EXCEPT ![w].at = "take", ![w].node = k]
      BY DEF FindNode
<1>3. pc[w] \in Doing /\ s \in Sigs /\ l \in Legs
      BY <1>1 DEF MediaTypes, Doing
<1>4. k = 0 \/ \E n \in server_list_v2 : k = n.sock /\ sess[s].peer[l] \in {None, n.peer}
      BY <1>2 DEF FindResult, Matches
<1>5. k \in Nat /\ k \in 0..MaxSock /\ \A n \in server_list_v2 : n.sock = k => sess[s].peer[l] \in {None, n.peer}
  <2>1. \A n \in server_list_v2 : n.sock \in Nat /\ n.sock # 0 /\ n.sock \in 0..MaxSock
        BY Numbers DEF MediaTypes, ListTypes, SharedSocket
  <2> QED
      BY <1>4, <2>1, Numbers DEF MediaTypes, ListTypes
<1> DEFINE x == [pc[w] EXCEPT !.at = "take", !.node = k]
<1>6. x \in Doing /\ x.at = "take" /\ x.s = s /\ x.leg = l /\ x.node = k
      BY <1>3, <1>5 DEF Doing
<1>7. pc' = [pc EXCEPT ![w] = x]
      BY <1>2 DEF MediaTypes
<1> HIDE DEF x
<1>8. pc' \in [Workers -> Doing] /\ pc'[w] = x /\ OthersWork(w)
      BY <1>6, <1>7, WorkWritten DEF MediaTypes
<1>9. /\ SameButSocks(s)
      /\ \/ /\ l \in {"upf", "gnb"} /\ server_list_v2' = Forget(s, l)
            /\ \A m \in Legs : sess'[s].sock[m] = IF m \in Side(l) THEN 0 ELSE sess[s].sock[m]
         \/ l \notin {"upf", "gnb"} /\ UNCHANGED <<server_list_v2, sess>>
  <2>1. CASE l \notin {"upf", "gnb"}
        BY <1>1, <2>1 DEF SameButSocks, MediaTypes, OthersRest
  <2>2. CASE l \in {"upf", "gnb"}
    <3> DEFINE z == [sess[s].sock EXCEPT ![l] = 0, ![Sixth(l)] = 0]
    <3>1. sess[s] \in Session /\ sess[s].sock \in [Legs -> 0..MaxSock]
          BY <1>3 DEF MediaTypes, Session
    <3>2. sess' = [sess EXCEPT ![s] = [sess[s] EXCEPT !.sock = z]]
      <4>1. sess' = [sess EXCEPT ![s].sock[l] = 0, ![s].sock[Sixth(l)] = 0]
            BY <1>1, <2>2
      <4>2. sess \in [Sigs -> Session]
            BY DEF MediaTypes
      <4> HIDE DEF s, l
      <4> QED
          BY <1>3, <3>1, <4>1, <4>2 DEF Session
    <3>3. Side(l) = {l, Sixth(l)} /\ Sixth(l) \in Legs
          BY <2>2, SidesAre, SixthLeg
    <3>4. z \in [Legs -> 0..MaxSock] /\ \A m \in Legs : z[m] = IF m \in Side(l) THEN 0 ELSE sess[s].sock[m]
          BY <1>3, <3>1, <3>3, Numbers
    <3> HIDE DEF z
    <3>5. SameButSocks(s) /\ sess'[s].sock = z
          BY <1>3, <3>2, <3>4, SocksWritten DEF SameButSocks, MediaTypes
    <3> QED
        BY <1>1, <2>2, <3>4, <3>5
  <2> QED
      BY <2>1, <2>2
<1> QED
    BY <1>1, <1>3, <1>5, <1>6, <1>8, <1>9

\* Writing one socket of a session.
LEMMA SocketWritten ==
  ASSUME MediaTypes, NEW s \in Sigs, NEW l \in Legs, NEW k \in 0..MaxSock,
         sess' = [sess EXCEPT ![s].sock[l] = k]
  PROVE  /\ SameButSocks(s)
         /\ \A m \in Legs : sess'[s].sock[m] = IF m = l THEN k ELSE sess[s].sock[m]
<1> DEFINE z == [sess[s].sock EXCEPT ![l] = k]
<1>1. sess[s] \in Session /\ sess[s].sock \in [Legs -> 0..MaxSock]
      BY DEF MediaTypes, Session
<1>2. sess' = [sess EXCEPT ![s] = [sess[s] EXCEPT !.sock = z]]
      BY <1>1 DEF MediaTypes, Session
<1>3. z \in [Legs -> 0..MaxSock] /\ \A m \in Legs : z[m] = IF m = l THEN k ELSE sess[s].sock[m]
      BY <1>1
<1> HIDE DEF z
<1>4. sess \in [Sigs -> Session]
      BY DEF MediaTypes
<1>5. SameButSocks(s) /\ sess'[s].sock = z
      BY <1>2, <1>3, <1>4, SocksWritten DEF SameButSocks
<1> QED
    BY <1>3, <1>5

\* A worker at rest.
LEMMA IdleIsDoing == Idle \in Doing /\ Idle.at = "idle" /\ Idle.s = None /\ Idle.node = 0
BY DEF Idle, Doing, Addr

\* A leg takes the node it found: counted, or freed or miscounted under it.
LEMMA ShareEffect ==
  ASSUME MediaTypes, NEW w \in Workers, ShareNode(w)
  PROVE  LET s == pc[w].s  l == pc[w].leg  k == pc[w].node IN
         /\ UNCHANGED <<next_sess_id, session_list>>
         /\ pc[w].at = "take" /\ s \in Sigs /\ l \in Legs /\ k \in 1..MaxSock
         /\ pc' \in [Workers -> Doing] /\ OthersWork(w) /\ pc'[w] = Idle
         /\ SameButSocks(s)
         /\ \A m \in Legs : sess'[s].sock[m] = IF m = l THEN k ELSE sess[s].sock[m]
         /\ \/ /\ k \in Socks /\ overtaken' = overtaken
               /\ server_list_v2' = Change(NodeOf(k), [NodeOf(k) EXCEPT !.ref = NodeOf(k).ref + 1])
            \/ overtaken' = TRUE /\ UNCHANGED server_list_v2
<1> DEFINE s == pc[w].s
           l == pc[w].leg
           k == pc[w].node
<1>1. /\ UNCHANGED <<next_sess_id, session_list>> /\ pc[w].at = "take" /\ k # 0
      /\ sess' = [sess EXCEPT ![s].sock[l] = k]
      /\ pc' = [pc EXCEPT ![w] = Idle]
      /\ \/ /\ k \in Socks /\ overtaken' = overtaken
            /\ server_list_v2' = Change(NodeOf(k), [NodeOf(k) EXCEPT !.ref = NodeOf(k).ref + 1])
         \/ overtaken' = TRUE /\ UNCHANGED server_list_v2
      BY DEF ShareNode
<1>2. pc[w] \in Doing /\ s \in Sigs /\ l \in Legs
      BY <1>1 DEF MediaTypes, Doing
<1>3. k \in 0..MaxSock /\ k \in 1..MaxSock
      BY <1>1, Numbers DEF MediaTypes
<1>4. pc' \in [Workers -> Doing] /\ pc'[w] = Idle /\ OthersWork(w)
      BY <1>1, IdleIsDoing, WorkWritten DEF MediaTypes
<1>5. /\ SameButSocks(s)
      /\ \A m \in Legs : sess'[s].sock[m] = IF m = l THEN k ELSE sess[s].sock[m]
  <2>1. sess' = [sess EXCEPT ![s].sock[l] = k]
        BY <1>1
  <2> HIDE DEF s, l, k
  <2> QED
      BY <1>2, <1>3, <2>1, SocketWritten
<1> QED
    BY <1>1, <1>2, <1>3, <1>4, <1>5

\* A new node for socket k and its first leg.
Opens(s, l, k) ==
  /\ server_list_v2' = server_list_v2 \cup
        {[sock |-> k, local |-> LocalOf[l], peer |-> sess[s].peer[l], ref |-> 1, lost |-> 0]}
  /\ \A m \in Legs : sess'[s].sock[m] = IF m = l THEN k ELSE sess[s].sock[m]

\* agc_gtp_open_v2: a new node with a free socket for the leg, or nothing.
LEMMA OpenEffect ==
  ASSUME MediaTypes, NEW w \in Workers, OpenNode(w)
  PROVE  LET s == pc[w].s  l == pc[w].leg IN
         /\ UNCHANGED <<next_sess_id, session_list, overtaken>>
         /\ pc[w].at = "take" /\ s \in Sigs /\ l \in Legs
         /\ pc' \in [Workers -> Doing] /\ OthersWork(w)
         /\ SameButSocks(s)
         /\ \/ pc'[w] = Idle
            \/ /\ l \in {"upf", "gnb"}
               /\ pc'[w].at = "find" /\ pc'[w].s = s /\ pc'[w].leg = Sixth(l)
         /\ \/ \E k \in FreeSocks : Opens(s, l, k)
            \/ UNCHANGED <<server_list_v2, sess>> /\ pc'[w] = Idle
<1> DEFINE s == pc[w].s
           l == pc[w].leg
           side == IF l \in {"upf", "upf6"} THEN "upf" ELSE "gnb"
<1>1. UNCHANGED <<next_sess_id, session_list, overtaken>> /\ pc[w].at = "take"
      BY DEF OpenNode
<1>2. pc[w] \in Doing /\ s \in Sigs /\ l \in Legs
      BY <1>1 DEF MediaTypes, Doing
<1>3. CASE UNCHANGED <<server_list_v2, sess>> /\ pc' = [pc EXCEPT ![w] = Idle]
  <2>1. pc' \in [Workers -> Doing] /\ pc'[w] = Idle /\ OthersWork(w)
        BY <1>3, IdleIsDoing, WorkWritten DEF MediaTypes
  <2> QED
      BY <1>1, <1>2, <1>3, <2>1 DEF SameButSocks, OthersRest, MediaTypes
<1>4. ASSUME NEW k \in FreeSocks,
             server_list_v2' = server_list_v2 \cup
               {[sock |-> k, local |-> LocalOf[l], peer |-> sess[s].peer[l], ref |-> 1, lost |-> 0]},
             sess' = [sess EXCEPT ![s].sock[l] = k],
             pc' = IF l = side THEN [pc EXCEPT ![w].at = "find", ![w].leg = Sixth(side)]
                   ELSE [pc EXCEPT ![w] = Idle]
      PROVE  /\ SameButSocks(s) /\ Opens(s, l, k)
             /\ pc' \in [Workers -> Doing] /\ OthersWork(w)
             /\ \/ pc'[w] = Idle
                \/ /\ l \in {"upf", "gnb"}
                   /\ pc'[w].at = "find" /\ pc'[w].s = s /\ pc'[w].leg = Sixth(l)
  <2>1. k \in 0..MaxSock
        BY FreeSocksAre, Numbers
  <2>2. SameButSocks(s) /\ Opens(s, l, k)
    <3>1. sess' = [sess EXCEPT ![s].sock[l] = k]
          BY <1>4
    <3> HIDE DEF s, l
    <3>2. SameButSocks(s) /\ \A m \in Legs : sess'[s].sock[m] = IF m = l THEN k ELSE sess[s].sock[m]
          BY <1>2, <2>1, <3>1, SocketWritten
    <3> QED
        BY <1>4, <3>2 DEF Opens
  <2>3. CASE l = side
    <3> DEFINE x == [pc[w] EXCEPT !.at = "find", !.leg = Sixth(l)]
    <3>1. x \in Doing /\ x.at = "find" /\ x.s = s /\ x.leg = Sixth(l)
          BY <1>2, SixthLeg DEF Doing
    <3>2. pc' = [pc EXCEPT ![w] = x]
          BY <1>4, <2>3 DEF MediaTypes
    <3> HIDE DEF x
    <3>3. pc' \in [Workers -> Doing] /\ pc'[w] = x /\ OthersWork(w)
          BY <3>1, <3>2, WorkWritten DEF MediaTypes
    <3> QED
        BY <2>2, <2>3, <3>1, <3>3
  <2>4. CASE l # side
    <3>1. pc' \in [Workers -> Doing] /\ pc'[w] = Idle /\ OthersWork(w)
          BY <1>4, <2>4, IdleIsDoing, WorkWritten DEF MediaTypes
    <3> QED
        BY <2>2, <3>1
  <2> QED
      BY <2>3, <2>4
<1>5. \/ UNCHANGED <<server_list_v2, sess>> /\ pc' = [pc EXCEPT ![w] = Idle]
      \/ \E k \in FreeSocks :
           /\ server_list_v2' = server_list_v2 \cup
                {[sock |-> k, local |-> LocalOf[l], peer |-> sess[s].peer[l], ref |-> 1, lost |-> 0]}
           /\ sess' = [sess EXCEPT ![s].sock[l] = k]
           /\ pc' = IF l = side THEN [pc EXCEPT ![w].at = "find", ![w].leg = Sixth(side)]
                    ELSE [pc EXCEPT ![w] = Idle]
      BY DEF OpenNode
<1> QED
    BY <1>1, <1>2, <1>3, <1>4, <1>5

\* A gNB setup changes the gNB's addresses only and goes on to the search.
LEMMA GnbSetupEffect ==
  ASSUME MediaTypes, NEW w \in Workers, NEW s \in Sigs, HandleGnbSetup(w, s)
  PROVE  /\ UNCHANGED <<next_sess_id, session_list, server_list_v2, overtaken>>
         /\ pc[w] = Idle /\ MayAsk(s) /\ sess[s].state = "listed"
         /\ pc' \in [Workers -> Doing] /\ OthersWork(w)
         /\ pc'[w].at = "find" /\ pc'[w].s = s /\ pc'[w].leg = "gnb"
         /\ sess' \in [Sigs -> Session] /\ OthersRest(s)
         /\ sess'[s].state = sess[s].state /\ sess'[s].id = sess[s].id
         /\ sess'[s].sock = sess[s].sock /\ sess'[s].moved = sess[s].moved
         /\ \A m \in Side("upf") : sess'[s].peer[m] = sess[s].peer[m]
<1>1. PICK a \in GnbPeers, b \in Peers6 :
        sess' = [sess EXCEPT ![s].peer["gnb"] = a,
                             ![s].peer["gnb6"] = NewOr(b, sess[s].peer["gnb6"])]
      BY DEF HandleGnbSetup
<1> DEFINE p == [sess[s].peer EXCEPT !["gnb"] = a, !["gnb6"] = NewOr(b, sess[s].peer["gnb6"])]
           y == [sess[s] EXCEPT !.peer = p]
           x == [Idle EXCEPT !.at = "find", !.s = s, !.leg = "gnb"]
<1>2. sess[s] \in Session /\ sess[s].peer \in [Legs -> Addr]
      BY DEF MediaTypes, Session
<1>3. NewOr(b, sess[s].peer["gnb6"]) \in Addr /\ a \in Addr
      BY <1>2 DEF NewOr, Addr, Legs
<1>4. p \in [Legs -> Addr] /\ \A m \in Side("upf") : p[m] = sess[s].peer[m]
      BY <1>2, <1>3 DEF Side, Legs
<1>5. sess' = [sess EXCEPT ![s] = y]
      BY <1>1, <1>2 DEF MediaTypes, Session
<1> HIDE DEF p
<1>6. /\ y \in Session /\ y.peer = p /\ y.state = sess[s].state /\ y.id = sess[s].id
      /\ y.sock = sess[s].sock /\ y.moved = sess[s].moved
      BY <1>2, <1>4 DEF Session
<1>7. x \in Doing /\ x.at = "find" /\ x.s = s /\ x.leg = "gnb"
      BY DEF Idle, Doing, Addr, Legs
<1>8. pc' = [pc EXCEPT ![w] = x]
      BY DEF HandleGnbSetup
<1> HIDE DEF x, y
<1>9. sess' \in [Sigs -> Session] /\ sess'[s] = y /\ OthersRest(s)
      BY <1>5, <1>6, SessWritten DEF MediaTypes
<1>10. pc' \in [Workers -> Doing] /\ pc'[w] = x /\ OthersWork(w)
      BY <1>7, <1>8, WorkWritten DEF MediaTypes
<1> QED
    BY <1>4, <1>6, <1>7, <1>9, <1>10 DEF HandleGnbSetup, AsksMore, Asks

\* A UPF update changes the UPF's addresses only; when it changes one, the session is
\* moved.
LEMMA UpfUpdateEffect ==
  ASSUME MediaTypes, NEW w \in Workers, NEW s \in Sigs, HandleUpfUpdate(w, s)
  PROVE  /\ UNCHANGED <<next_sess_id, session_list, server_list_v2, pc, overtaken>>
         /\ sess' \in [Sigs -> Session] /\ OthersRest(s)
         /\ sess'[s].state = sess[s].state /\ sess'[s].id = sess[s].id
         /\ sess'[s].sock = sess[s].sock /\ (sess[s].moved => sess'[s].moved)
         /\ \A m \in Legs : \/ sess'[s].peer[m] = sess[s].peer[m]
                            \/ m \in Side("upf") /\ sess'[s].moved
<1>1. PICK a \in NewUpfPeers, b \in Peers6 :
        sess' = [sess EXCEPT
              ![s].peer["upf"]  = a,
              ![s].peer["upf6"] = NewOr(b, sess[s].peer["upf6"]),
              ![s].moved = sess[s].moved \/ a # sess[s].peer["upf"]
                                         \/ b \notin {None, sess[s].peer["upf6"]}]
      BY DEF HandleUpfUpdate
<1> DEFINE p == [sess[s].peer EXCEPT !["upf"] = a, !["upf6"] = NewOr(b, sess[s].peer["upf6"])]
           v == (sess[s].moved \/ a # sess[s].peer["upf"] \/ b \notin {None, sess[s].peer["upf6"]})
           y == [sess[s] EXCEPT !.peer = p, !.moved = v]
<1>2. sess[s] \in Session /\ sess[s].peer \in [Legs -> Addr]
      BY DEF MediaTypes, Session
<1>3. NewOr(b, sess[s].peer["upf6"]) \in Addr /\ a \in Addr
      BY <1>2 DEF NewOr, Addr, Legs
<1>4. p \in [Legs -> Addr]
      BY <1>2, <1>3 DEF Legs
<1> DEFINE u == (a # sess[s].peer["upf"] \/ b \notin {None, sess[s].peer["upf6"]})
<1>5. ASSUME NEW m \in Legs, p[m] # sess[s].peer[m] PROVE m \in Side("upf") /\ u
  <2>1. CASE m = "upf"
    <3>1. p[m] = a /\ m \in Side("upf")
          BY <1>2, <2>1 DEF Side, Legs
    <3> QED
        BY <1>5, <2>1, <3>1
  <2>2. CASE m = "upf6"
    <3>1. p[m] = NewOr(b, sess[s].peer["upf6"]) /\ m \in Side("upf")
          BY <1>2, <2>2 DEF Side, Legs
    <3> QED
        BY <1>5, <2>2, <3>1 DEF NewOr
  <2>3. CASE m \notin {"upf", "upf6"}
    <3>1. p[m] = sess[s].peer[m]
          BY <1>2, <2>3 DEF Legs
    <3> QED
        BY <1>5, <3>1
  <2> QED
      BY <2>1, <2>2, <2>3
<1>6. v \in BOOLEAN /\ (sess[s].moved => v) /\ (u => v)
      OBVIOUS
<1>7. sess' = [sess EXCEPT ![s] = y]
      BY <1>1, <1>2 DEF MediaTypes, Session
<1> HIDE DEF p, v, u
<1>8. /\ y \in Session /\ y.peer = p /\ y.state = sess[s].state /\ y.id = sess[s].id
      /\ y.sock = sess[s].sock /\ y.moved = v
      BY <1>2, <1>4, <1>6 DEF Session
<1> HIDE DEF y
<1>9. sess' \in [Sigs -> Session] /\ sess'[s] = y /\ OthersRest(s)
      BY <1>7, <1>8, SessWritten DEF MediaTypes
<1> QED
    BY <1>5, <1>6, <1>8, <1>9 DEF HandleUpfUpdate

\* A release starts with the first leg and is noted when it overtakes a setup.
LEMMA ReleaseEffect ==
  ASSUME MediaTypes, NEW w \in Workers, NEW s \in Sigs, HandleRelease(w, s)
  PROVE  /\ UNCHANGED <<next_sess_id, session_list, sess, server_list_v2>>
         /\ pc[w] = Idle /\ MayAsk(s) /\ sess[s].state = "listed"
         /\ pc' \in [Workers -> Doing] /\ OthersWork(w)
         /\ pc'[w].at = "upf" /\ pc'[w].s = s
         /\ overtaken' = (overtaken \/ \E v \in Workers : Handles(v, s))
<1> DEFINE x == [Idle EXCEPT !.at = "upf", !.s = s]
<1>1. x \in Doing /\ x.at = "upf" /\ x.s = s
      BY DEF Idle, Doing, Addr, Legs
<1>2. pc' = [pc EXCEPT ![w] = x]
      BY DEF HandleRelease
<1> HIDE DEF x
<1>3. pc' \in [Workers -> Doing] /\ pc'[w] = x /\ OthersWork(w)
      BY <1>1, <1>2, WorkWritten DEF MediaTypes
<1> QED
    BY <1>1, <1>3 DEF HandleRelease, Asks

\* media_del_gtp_node_ref_v2 for one leg, then the next leg or the slot.
LEMMA CloseEffect ==
  ASSUME MediaTypes, NEW w \in Workers, CloseLeg(w)
  PROVE  LET s == pc[w].s  l == pc[w].at IN
         /\ UNCHANGED <<next_sess_id, session_list, sess, overtaken>>
         /\ s \in Sigs /\ l \in Legs
         /\ server_list_v2' = DropRef(sess[s].sock[l])
         /\ pc' \in [Workers -> Doing] /\ OthersWork(w)
         /\ pc'[w].at = AfterClose[l] /\ pc'[w].s = s
         /\ AfterClose[l] \in Legs \cup {"unlist"}
<1> DEFINE x == [pc[w] EXCEPT !.at = AfterClose[pc[w].at]]
<1>1. pc[w] \in Doing /\ pc[w].at \in Legs /\ pc[w].s \in Sigs
      BY DEF CloseLeg, MediaTypes, Doing, Legs
<1>2. AfterClose[pc[w].at] \in Legs \cup {"unlist"}
      BY <1>1 DEF AfterClose, Legs
<1>3. x \in Doing /\ x.at = AfterClose[pc[w].at] /\ x.s = pc[w].s
      BY <1>1, <1>2 DEF Doing
<1>4. pc' = [pc EXCEPT ![w] = x]
      BY DEF CloseLeg, MediaTypes
<1> HIDE DEF x
<1>5. pc' \in [Workers -> Doing] /\ pc'[w] = x /\ OthersWork(w)
      BY <1>3, <1>4, WorkWritten DEF MediaTypes
<1>6. UNCHANGED <<next_sess_id, session_list, sess, overtaken>> /\ server_list_v2' = DropRef(sess[pc[w].s].sock[pc[w].at])
      BY DEF CloseLeg, MediaTypes
<1> QED
    BY <1>1, <1>2, <1>3, <1>5, <1>6

\* Only the state of a session object is overwritten.
LEMMA StateWritten ==
  ASSUME MediaTypes, NEW s \in Sigs, sess' = [sess EXCEPT ![s].state = "unlisted"]
  PROVE  /\ sess' \in [Sigs -> Session] /\ OthersRest(s)
         /\ sess'[s].state = "unlisted" /\ sess'[s].sock = sess[s].sock
         /\ sess'[s].peer = sess[s].peer /\ sess'[s].moved = sess[s].moved
<1> DEFINE y == [sess[s] EXCEPT !.state = "unlisted"]
<1>1. sess[s] \in Session
      BY DEF MediaTypes
<1>2. /\ y \in Session /\ y.state = "unlisted" /\ y.sock = sess[s].sock
      /\ y.peer = sess[s].peer /\ y.moved = sess[s].moved
      BY <1>1 DEF Session
<1>3. sess' = [sess EXCEPT ![s] = y]
      BY <1>1 DEF MediaTypes, Session
<1> HIDE DEF y
<1> QED
    BY <1>2, <1>3, SessWritten DEF MediaTypes

\* media_remove_media_sig_sess clears the slot; the object keeps its fields.
LEMMA UnlistEffect ==
  ASSUME MediaTypes, NEW w \in Workers, Unlist(w)
  PROVE  LET s == pc[w].s IN
         /\ UNCHANGED <<next_sess_id, server_list_v2, overtaken>>
         /\ pc[w].at = "unlist" /\ s \in Sigs
         /\ session_list' = [session_list EXCEPT ![sess[s].id] = None]
         /\ pc' \in [Workers -> Doing] /\ OthersWork(w) /\ pc'[w] = Idle
         /\ sess' \in [Sigs -> Session] /\ OthersRest(s)
         /\ sess'[s].state = "unlisted" /\ sess'[s].sock = sess[s].sock
         /\ sess'[s].peer = sess[s].peer /\ sess'[s].moved = sess[s].moved
<1>1. pc[w].at = "unlist" /\ pc[w] \in Doing /\ pc[w].s \in Sigs
      BY DEF Unlist, MediaTypes, Doing
<1>2. pc' \in [Workers -> Doing] /\ pc'[w] = Idle /\ OthersWork(w)
      BY IdleIsDoing, WorkWritten DEF MediaTypes, Unlist
<1>3. sess' = [sess EXCEPT ![pc[w].s].state = "unlisted"]
      BY DEF Unlist
<1> QED
    BY <1>1, <1>2, <1>3, StateWritten DEF Unlist

\* media_on_release_timer frees an object that is in no slot.
LEMMA FreeEffect ==
  ASSUME MediaTypes, NEW s \in Sigs, FreeSession(s)
  PROVE  /\ UNCHANGED <<next_sess_id, session_list, server_list_v2, pc, overtaken>>
         /\ sess' \in [Sigs -> Session] /\ OthersRest(s)
         /\ sess[s].state = "unlisted" /\ sess'[s].state = "freed"
         /\ \A l \in Legs : sess'[s].sock[l] = 0
<1> DEFINE y == [Fresh EXCEPT !.state = "freed"]
<1>1. y \in Session /\ y.state = "freed" /\ y.sock = Fresh.sock
      BY FreshSession DEF Session
<1>2. sess' = [sess EXCEPT ![s] = y]
      BY DEF FreeSession
<1> HIDE DEF y
<1>3. sess' \in [Sigs -> Session] /\ sess'[s] = y /\ OthersRest(s)
      BY <1>1, <1>2, SessWritten DEF MediaTypes
<1> QED
    BY <1>1, <1>3, FreshSession DEF FreeSession

\* Steps that leave the state of the invariants alone: checks, packets, the
\* operator's commands.
core == <<next_sess_id, session_list, sess, server_list_v2, pc, overtaken>>

\* Every step is one of these; the others leave the variables of the proofs alone.
LEMMA StepKinds ==
  ASSUME [Next]_vars
  PROVE  \/ UNCHANGED core
         \/ \E s \in Sigs : FreeSession(s)
         \/ \E w \in Workers, s \in Sigs :
              \/ HandleUpfSetup(w, s) \/ HandleGnbSetup(w, s)
              \/ HandleUpfUpdate(w, s) \/ HandleRelease(w, s)
         \/ \E w \in Workers :
              \/ ClaimId(w) \/ InstallSession(w) \/ FindNode(w) \/ ShareNode(w)
              \/ OpenNode(w) \/ CloseLeg(w) \/ Unlist(w)
<1>1. CASE UNCHANGED vars
      BY <1>1 DEF vars, core
<1>2. CASE Forwarder
  <2>1. ASSUME NEW s \in Sigs, ReceiveTun(s) PROVE UNCHANGED core
        BY <2>1 DEF ReceiveTun, vars, core
  <2>2. ASSUME NEW s \in Sigs, NEW l \in Legs, ReceiveGtp(s, l) PROVE UNCHANGED core
        BY <2>2 DEF ReceiveGtp, core
  <2> QED
      BY <1>2, <2>1, <2>2 DEF Forwarder
<1>3. CASE Operator
      BY <1>3 DEF Operator, core
<1>4. ASSUME NEW w \in Workers, NEW s \in Sigs, HandleCheck(w, s) PROVE UNCHANGED core
      BY <1>4 DEF HandleCheck, vars, core
<1> QED
    BY <1>1, <1>2, <1>3, <1>4 DEF Next, Handler

\* A reference is given back: the node counts one less, or goes with its last one.
LEMMA DropRefNodes ==
  ASSUME ListTypes, NEW k, server_list_v2' = DropRef(k)
  PROVE  /\ ListTypes'
         /\ \A x \in server_list_v2' : \E n \in server_list_v2 :
              /\ x.sock = n.sock /\ x.peer = n.peer /\ x.lost = n.lost
              /\ x.ref = IF n.sock = k THEN n.ref - 1 ELSE n.ref
         /\ \A j \in Socks : j \notin Socks' => j = k /\ NodeOf(k).ref <= 1
         /\ \A x \in server_list_v2' : x.sock = k => NodeOf(k).ref > 1
<1>1. CASE k \notin Socks
  <2>1. server_list_v2' = server_list_v2
        BY <1>1 DEF DropRef
  <2>2. ListTypes' /\ Socks' = Socks
        BY <2>1 DEF ListTypes, Socks
  <2>3. \A n \in server_list_v2 : n.sock # k
        BY <1>1, TheNode
  <2> QED
      BY <2>1, <2>2, <2>3
<1>2. CASE k \in Socks
  <2>1. NodeOf(k) \in server_list_v2 /\ NodeOf(k).sock = k /\ NodeOf(k) \in SharedSocket
        BY <1>2, TheNode DEF ListTypes
  <2>2. CASE NodeOf(k).ref > 1
    <3> DEFINE r == NodeOf(k).ref - 1
               m == [NodeOf(k) EXCEPT !.ref = r]
    <3>1. server_list_v2' = Change(NodeOf(k), m)
          BY <1>2, <2>2 DEF DropRef
    <3>2. r \in Nat
          BY <2>1, <2>2 DEF SharedSocket
    <3>3. m \in SharedSocket /\ m.sock = k /\ m.peer = NodeOf(k).peer /\ m.lost = NodeOf(k).lost /\ m.ref = r
      <4> HIDE DEF r
      <4> QED
          BY <2>1, <3>2 DEF SharedSocket
    <3> HIDE DEF m
    <3>4. /\ ListTypes' /\ Socks' = Socks
          /\ \A x \in server_list_v2' : x = m \/ (x \in server_list_v2 /\ x.sock # k)
          BY <2>1, <3>1, <3>3, NodeChanged
    <3>5. ASSUME NEW x \in server_list_v2'
          PROVE  \E n \in server_list_v2 :
                   /\ x.sock = n.sock /\ x.peer = n.peer /\ x.lost = n.lost
                   /\ x.ref = IF n.sock = k THEN n.ref - 1 ELSE n.ref
          BY <2>1, <3>3, <3>4
    <3> QED
        BY <2>2, <3>4, <3>5
  <2>3. CASE ~(NodeOf(k).ref > 1)
    <3>1. server_list_v2' = server_list_v2 \ {NodeOf(k)}
          BY <1>2, <2>3 DEF DropRef
    <3>2. ListTypes'
          BY <3>1 DEF ListTypes
    <3>3. \A x \in server_list_v2' : x \in server_list_v2 /\ x.sock # k
          BY <2>1, <3>1 DEF ListTypes
    <3>4. \A j \in Socks : j # k => j \in Socks'
          BY <2>1, <3>1 DEF Socks
    <3>5. NodeOf(k).ref <= 1
          BY <2>1, <2>3 DEF SharedSocket
    <3> QED
        BY <3>2, <3>3, <3>4, <3>5
  <2> QED
      BY <2>2, <2>3
<1> QED
    BY <1>1, <1>2

\* A new node of count 1 joins the list under a socket nobody had.
LEMMA OpenNodes ==
  ASSUME MediaTypes, NEW s \in Sigs, NEW l \in Legs, NEW k \in FreeSocks, Opens(s, l, k)
  PROVE  /\ ListTypes'
         /\ \A x \in server_list_v2' :
              \/ x \in server_list_v2 /\ x.sock # k
              \/ x.sock = k /\ x.peer = sess[s].peer[l] /\ x.ref = 1 /\ x.lost = 0
         /\ \A j : j \in Socks' <=> j \in Socks \/ j = k
<1> DEFINE n == [sock |-> k, local |-> LocalOf[l], peer |-> sess[s].peer[l], ref |-> 1, lost |-> 0]
<1>1. server_list_v2' = server_list_v2 \cup {n}
      BY DEF Opens
<1>2. k \in 1..MaxSock /\ k \notin Socks
      BY FreeSocksAre
<1>3. sess[s].peer[l] \in Addr
      BY DEF MediaTypes, Session
<1>4. n \in SharedSocket /\ n.sock = k /\ n.peer = sess[s].peer[l] /\ n.ref = 1 /\ n.lost = 0
      BY <1>2, <1>3 DEF SharedSocket
<1> HIDE DEF n
<1>5. \A m \in server_list_v2 : m.sock # k
      BY <1>2, TheNode DEF MediaTypes
<1>6. ListTypes'
      BY <1>1, <1>4, <1>5 DEF ListTypes, MediaTypes
<1>7. \A j : j \in Socks' <=> j \in Socks \/ j = k
      BY <1>1, <1>4 DEF Socks
<1> QED
    BY <1>1, <1>4, <1>5, <1>6, <1>7

\* A leg more on a node.
LEMMA ShareNodes ==
  ASSUME ListTypes, NEW k \in Socks,
         server_list_v2' = Change(NodeOf(k), [NodeOf(k) EXCEPT !.ref = NodeOf(k).ref + 1])
  PROVE  /\ ListTypes' /\ Socks' = Socks
         /\ \A x \in server_list_v2' : \E n \in server_list_v2 :
              /\ x.sock = n.sock /\ x.peer = n.peer /\ x.lost = n.lost
              /\ x.ref = IF n.sock = k THEN n.ref + 1 ELSE n.ref
<1> DEFINE r == NodeOf(k).ref + 1
           m == [NodeOf(k) EXCEPT !.ref = r]
<1>1. NodeOf(k) \in server_list_v2 /\ NodeOf(k).sock = k /\ NodeOf(k) \in SharedSocket
      BY TheNode DEF ListTypes
<1>2. r \in Nat
      BY <1>1 DEF SharedSocket
<1>3. m \in SharedSocket /\ m.sock = k /\ m.peer = NodeOf(k).peer /\ m.lost = NodeOf(k).lost /\ m.ref = r
  <2> HIDE DEF r
  <2> QED
      BY <1>1, <1>2 DEF SharedSocket
<1>4. server_list_v2' = Change(NodeOf(k), m)
      OBVIOUS
<1> HIDE DEF m
<1>5. /\ ListTypes' /\ Socks' = Socks
      /\ \A x \in server_list_v2' : x = m \/ (x \in server_list_v2 /\ x.sock # k)
  <2>n. PICK n \in server_list_v2 : n = NodeOf(k)
        BY <1>1
  <2>1. n.sock = k /\ m.sock = n.sock /\ m \in SharedSocket /\ server_list_v2' = Change(n, m)
        BY <1>1, <1>3, <1>4, <2>n
  <2> QED
      BY <2>1, NodeChanged
<1>6. ASSUME NEW x \in server_list_v2'
      PROVE  \E n \in server_list_v2 :
               /\ x.sock = n.sock /\ x.peer = n.peer /\ x.lost = n.lost
               /\ x.ref = IF n.sock = k THEN n.ref + 1 ELSE n.ref
      BY <1>1, <1>3, <1>5
<1> QED
    BY <1>5, <1>6

-----------------------------------------------------------------------------
(* One request of a session at a time, and the slots.                       *)

\* Of two workers with one session, one has answered its setup.
OneAtATime ==
  \A v, w \in Workers : pc[v].s = pc[w].s /\ pc[v].s # None => v = w \/ Answered(v) \/ Answered(w)

\* A setup's session is out of the table, a release's is in it.
StateInv ==
  \A w \in Workers :
    /\ pc[w].at \in {"claim", "install"} => sess[pc[w].s].state \in {"none", "freed"}
    /\ pc[w].at \in Legs \cup {"unlist"} => sess[pc[w].s].state = "listed"

\* The id a setup has claimed stays free and its own until the session is entered.
ClaimInv ==
  /\ \A w \in Workers : pc[w].at = "install" => pc[w].node \in Ids /\ session_list[pc[w].node] = None
  /\ \A v, w \in Workers :
       pc[v].at = "install" /\ pc[w].at = "install" /\ pc[v].node = pc[w].node => v = w

MediaInv == MediaTypes /\ OneAtATime /\ StateInv /\ ClaimInv /\ TeidsLeadHome

\* How a step moves the workers: at most one, to rest, on with its request, or
\* from rest to a request nobody else is busy with.
Moves(w) ==
  /\ OthersWork(w)
  /\ \/ pc'[w] = Idle
     \/ pc'[w].s = pc[w].s /\ pc[w].s \in Sigs /\ pc'[w].at # "idle" /\ (Answered(w) => Answered(w)')
     \/ pc[w] = Idle /\ pc'[w].at # "idle" /\ pc'[w].s \in Sigs /\ MayAsk(pc'[w].s)

\* Every step keeps the types, and moves at most one worker.
LEMMA WorkKept ==
  ASSUME MediaInv, [Next]_vars
  PROVE  MediaTypes' /\ (pc' = pc \/ \E w \in Workers : Moves(w))
<1>n. None \notin Sigs
      BY MediaAssumption
<1>t. MediaTypes
      BY DEF MediaInv
<1>1. CASE UNCHANGED core
      BY <1>1, <1>t DEF core, MediaTypes, ListTypes
<1>2. ASSUME NEW s \in Sigs, FreeSession(s) PROVE MediaTypes' /\ pc' = pc
      BY <1>2, <1>t, FreeEffect DEF MediaTypes, ListTypes
<1>3. ASSUME NEW w \in Workers, NEW s \in Sigs, HandleUpfUpdate(w, s) PROVE MediaTypes' /\ pc' = pc
      BY <1>3, <1>t, UpfUpdateEffect DEF MediaTypes, ListTypes
\* Types and moves of a step that leaves worker w as pc'[w].
<1>4. ASSUME NEW w \in Workers, OthersWork(w), pc' \in [Workers -> Doing],
             next_sess_id' \in 0..MaxId, session_list' \in [Ids -> Sigs \cup {None}],
             sess' \in [Sigs -> Session], ListTypes',
             pc'[w].at = "idle" <=> pc'[w].s = None,
             pc'[w].at \in {"find", "take"} => pc'[w].leg \in Legs,
             pc'[w].at = "take" => pc'[w].node \in 0..MaxSock
      PROVE  MediaTypes'
      BY <1>4, <1>t DEF MediaTypes, OthersWork
<1>5. ASSUME NEW w \in Workers, NEW s \in Sigs, HandleUpfSetup(w, s) PROVE MediaTypes' /\ Moves(w)
  <2>1. ListTypes'
        BY <1>5, <1>t, SetupEffect DEF MediaTypes, ListTypes
  <2>2. MediaTypes'
        BY <1>5, <1>t, <1>n, <2>1, <1>4, SetupEffect DEF MediaTypes
  <2> QED
      BY <1>5, <1>t, <2>2, SetupEffect DEF Moves
<1>6. ASSUME NEW w \in Workers, NEW s \in Sigs, HandleGnbSetup(w, s) PROVE MediaTypes' /\ Moves(w)
  <2>1. ListTypes'
        BY <1>6, <1>t, GnbSetupEffect DEF MediaTypes, ListTypes
  <2>2. "gnb" \in Legs
        BY DEF Legs
  <2>3. MediaTypes'
        BY <1>6, <1>t, <1>n, <2>1, <2>2, <1>4, GnbSetupEffect DEF MediaTypes
  <2> QED
      BY <1>6, <1>t, <2>3, GnbSetupEffect DEF Moves
<1>7. ASSUME NEW w \in Workers, NEW s \in Sigs, HandleRelease(w, s) PROVE MediaTypes' /\ Moves(w)
  <2>1. ListTypes'
        BY <1>7, <1>t, ReleaseEffect DEF MediaTypes, ListTypes
  <2>2. MediaTypes'
        BY <1>7, <1>t, <1>n, <2>1, <1>4, ReleaseEffect DEF MediaTypes
  <2> QED
      BY <1>7, <1>t, <2>2, ReleaseEffect DEF Moves
<1>8. ASSUME NEW w \in Workers, ClaimId(w) PROVE MediaTypes' /\ (pc' = pc \/ Moves(w))
  <2>1. ListTypes' /\ pc[w].s \in Sigs
        BY <1>8, <1>t, ClaimEffect DEF MediaTypes, ListTypes, Doing
  <2>2. MediaTypes'
        BY <1>8, <1>t, <1>n, <2>1, <1>4, ClaimEffect DEF MediaTypes
  <2> QED
      BY <1>8, <1>t, <2>1, <2>2, ClaimEffect DEF Moves, Answered
<1>9. ASSUME NEW w \in Workers, InstallSession(w) PROVE MediaTypes' /\ Moves(w)
  <2>1. pc[w].at = "install" /\ pc[w].node \in Ids
        BY <1>9 DEF InstallSession, MediaInv, ClaimInv
  <2>2. ListTypes' /\ session_list' \in [Ids -> Sigs \cup {None}]
        BY <1>9, <1>t, <2>1, InstallEffect DEF MediaTypes, ListTypes
  <2>3. "upf" \in Legs
        BY DEF Legs
  <2>4. MediaTypes'
        BY <1>9, <1>t, <1>n, <2>1, <2>2, <2>3, <1>4, InstallEffect DEF MediaTypes
  <2> QED
      BY <1>9, <1>t, <2>1, <2>4, InstallEffect DEF Moves, Answered
<1>10. ASSUME NEW w \in Workers, FindNode(w) PROVE MediaTypes' /\ Moves(w)
  <2>1. ListTypes'
        BY <1>10, <1>t, FindEffect, ForgetNodes DEF MediaTypes, ListTypes
  <2>2. MediaTypes'
        BY <1>10, <1>t, <1>n, <2>1, <1>4, FindEffect DEF MediaTypes, SameButSocks
  <2> QED
      BY <1>10, <1>t, <2>2, FindEffect DEF Moves, Answered
<1>11. ASSUME NEW w \in Workers, ShareNode(w) PROVE MediaTypes' /\ Moves(w)
  <2>1. ListTypes'
        BY <1>11, <1>t, ShareEffect, ShareNodes DEF MediaTypes, ListTypes
  <2>2. /\ OthersWork(w) /\ pc' \in [Workers -> Doing] /\ pc'[w] = Idle
        /\ UNCHANGED <<next_sess_id, session_list>>
        BY <1>11, <1>t, ShareEffect
  <2>3. sess' \in [Sigs -> Session]
        BY <1>11, <1>t, ShareEffect DEF SameButSocks
  <2>4. next_sess_id' \in 0..MaxId /\ session_list' \in [Ids -> Sigs \cup {None}]
        BY <1>t, <2>2 DEF MediaTypes
  <2>5. pc'[w].at = "idle" /\ pc'[w].s = None
        BY <2>2, IdleIsDoing
  <2>6. MediaTypes'
        BY <2>1, <2>2, <2>3, <2>4, <2>5, <1>4
  <2> QED
      BY <2>2, <2>6 DEF Moves
<1>12. ASSUME NEW w \in Workers, OpenNode(w) PROVE MediaTypes' /\ Moves(w)
  <2>1. ListTypes'
        BY <1>12, <1>t, OpenEffect, OpenNodes DEF MediaTypes, ListTypes
  <2>2. MediaTypes'
        BY <1>12, <1>t, <1>n, <2>1, <1>4, OpenEffect, IdleIsDoing, SixthLeg DEF MediaTypes, SameButSocks
  <2>3. /\ \/ pc'[w] = Idle
           \/ /\ pc[w].leg \in {"upf", "gnb"}
              /\ pc'[w].at = "find" /\ pc'[w].s = pc[w].s /\ pc'[w].leg = Sixth(pc[w].leg)
        /\ OthersWork(w) /\ pc[w].s \in Sigs
        BY <1>12, <1>t, OpenEffect
  <2>4. CASE pc[w].leg \in {"upf", "gnb"} /\ pc'[w].at = "find" /\ pc'[w].s = pc[w].s /\ pc'[w].leg = Sixth(pc[w].leg)
    <3>1. Answered(w) => Answered(w)'
          BY <2>4 DEF Answered, Sixth
    <3> QED
        BY <2>2, <2>3, <2>4, <3>1 DEF Moves
  <2> QED
      BY <2>2, <2>3, <2>4 DEF Moves
<1>13. ASSUME NEW w \in Workers, CloseLeg(w) PROVE MediaTypes' /\ Moves(w)
  <2>1. ListTypes'
        BY <1>13, <1>t, CloseEffect, DropRefNodes DEF MediaTypes
  <2>2. pc'[w].at \notin {"idle", "find", "take"} /\ pc[w].at \notin {"find", "take"}
        BY <1>13, <1>t, CloseEffect DEF Legs
  <2>3. MediaTypes'
        BY <1>13, <1>t, <1>n, <2>1, <2>2, <1>4, CloseEffect DEF MediaTypes
  <2> QED
      BY <1>13, <1>t, <2>2, <2>3, CloseEffect DEF Moves, Answered
<1>14. ASSUME NEW w \in Workers, Unlist(w) PROVE MediaTypes' /\ Moves(w)
  <2>1. ListTypes'
        BY <1>14, <1>t, UnlistEffect DEF MediaTypes, ListTypes
  <2>2. session_list' \in [Ids -> Sigs \cup {None}]
        BY <1>14, <1>t, UnlistEffect DEF MediaTypes
  <2>3. MediaTypes'
        BY <1>14, <1>t, <1>n, <2>1, <2>2, <1>4, UnlistEffect, IdleIsDoing DEF MediaTypes
  <2> QED
      BY <1>14, <1>t, <2>3, UnlistEffect DEF Moves
<1> QED
    BY <1>1, <1>2, <1>3, <1>5, <1>6, <1>7, <1>8, <1>9, <1>10, <1>11, <1>12, <1>13, <1>14, StepKinds

\* A request is taken for a session only when its other requests are answered, so at
\* most one handler of a session is unanswered.
LEMMA OneKept ==
  ASSUME MediaTypes, OneAtATime, MediaTypes', pc' = pc \/ \E w \in Workers : Moves(w)
  PROVE  OneAtATime'
<1>1. CASE pc' = pc
      BY <1>1 DEF OneAtATime, Answered
<1>2. ASSUME NEW w \in Workers, Moves(w) PROVE OneAtATime'
  <2>1. ASSUME NEW v \in Workers, v # w, pc'[v].s = pc'[w].s, pc'[v].s # None
        PROVE  Answered(v)' \/ Answered(w)'
    <3>1. pc'[v] = pc[v]
          BY <1>2, <2>1 DEF Moves, OthersWork
    <3>2. CASE pc'[w] = Idle
          BY <2>1, <3>2, IdleIsDoing
    <3>3. CASE pc'[w].s = pc[w].s /\ (Answered(w) => Answered(w)')
          BY <2>1, <3>1, <3>3 DEF OneAtATime, Answered
    <3>4. CASE pc[w] = Idle /\ MayAsk(pc'[w].s)
          BY <2>1, <3>1, <3>4 DEF MayAsk, Handles, Answered
    <3> QED
        BY <1>2, <3>2, <3>3, <3>4 DEF Moves
  <2>2. ASSUME NEW u \in Workers, NEW v \in Workers, u # v, u # w, v # w,
               pc'[v].s = pc'[u].s, pc'[v].s # None
        PROVE  Answered(v)' \/ Answered(u)'
    <3>1. pc'[v] = pc[v] /\ pc'[u] = pc[u]
          BY <1>2, <2>2 DEF Moves, OthersWork
    <3> QED
        BY <2>2, <3>1 DEF OneAtATime, Answered
  <2> QED
      BY <2>1, <2>2 DEF OneAtATime
<1> QED
    BY <1>1, <1>2

\* A worker's session, when the worker is where nobody else may be busy with it.
LEMMA Alone ==
  ASSUME MediaTypes, OneAtATime, NEW v \in Workers, NEW w \in Workers, v # w,
         ~Answered(v), ~Answered(w), pc[v].s # None
  PROVE  pc[v].s # pc[w].s
BY DEF OneAtATime

\* What stays true of a worker and of the slots in a step that leaves them alone.
LEMMA SlotsStay ==
  ASSUME MediaInv, UNCHANGED session_list,
         \A s \in Sigs : sess'[s].state = sess[s].state /\ sess'[s].id = sess[s].id
  PROVE  /\ TeidsLeadHome'
         /\ \A w \in Workers : pc'[w] = pc[w] =>
              /\ pc'[w].at \in {"claim", "install"} => sess'[pc'[w].s].state \in {"none", "freed"}
              /\ pc'[w].at \in Legs \cup {"unlist"} => sess'[pc'[w].s].state = "listed"
<1>1. TeidsLeadHome'
      BY DEF MediaInv, TeidsLeadHome
<1>2. \A w \in Workers : pc[w].at # "idle" => pc[w].s \in Sigs
      BY DEF MediaInv, MediaTypes, Doing
<1>3. "idle" \notin Legs
      BY DEF Legs
<1> QED
    BY <1>1, <1>2, <1>3 DEF MediaInv, StateInv

\* Every step keeps what StateInv, ClaimInv and TeidsLeadHome say of the slots.
LEMMA SlotsKept ==
  ASSUME MediaInv, [Next]_vars
  PROVE  StateInv' /\ ClaimInv' /\ TeidsLeadHome'
<1>n. None \notin Sigs /\ "idle" \notin Legs /\ "claim" \notin Legs /\ "install" \notin Legs
      BY MediaAssumption DEF Legs
<1>t. MediaTypes
      BY DEF MediaInv
<1>s. \A w \in Workers : pc[w].at # "idle" => pc[w].s \in Sigs
      BY <1>t DEF MediaTypes, Doing
<1>1. CASE UNCHANGED core
      BY <1>1 DEF core, MediaInv, StateInv, ClaimInv, TeidsLeadHome
\* A worker that neither claims nor closes anything.
<1>2. ASSUME NEW w \in Workers, OthersWork(w), UNCHANGED session_list,
             \A s \in Sigs : sess'[s].state = sess[s].state /\ sess'[s].id = sess[s].id,
             pc'[w].at \notin {"claim", "install", "unlist"} \cup Legs
      PROVE  StateInv' /\ ClaimInv' /\ TeidsLeadHome'
  <2>1. TeidsLeadHome'
        BY <1>2, SlotsStay
  <2>2. StateInv'
        BY <1>2, SlotsStay DEF StateInv, OthersWork
  <2>3. ClaimInv'
        BY <1>2 DEF ClaimInv, OthersWork, MediaInv
  <2> QED
      BY <2>1, <2>2, <2>3
<1>3. ASSUME NEW s \in Sigs, FreeSession(s) PROVE StateInv' /\ ClaimInv' /\ TeidsLeadHome'
  <2>1. /\ UNCHANGED <<session_list, pc>> /\ OthersRest(s)
        /\ sess[s].state = "unlisted" /\ sess'[s].state = "freed"
        BY <1>3, <1>t, FreeEffect
  <2>2. StateInv'
        BY <2>1, <1>s, <1>n DEF MediaInv, StateInv, OthersRest
  <2>3. ClaimInv' /\ TeidsLeadHome'
        BY <2>1 DEF MediaInv, ClaimInv, TeidsLeadHome, OthersRest
  <2> QED
      BY <2>2, <2>3
<1>4. ASSUME NEW w \in Workers, NEW s \in Sigs, HandleUpfUpdate(w, s)
      PROVE  StateInv' /\ ClaimInv' /\ TeidsLeadHome'
  <2>1. /\ UNCHANGED <<session_list, pc>>
        /\ \A t \in Sigs : sess'[t].state = sess[t].state /\ sess'[t].id = sess[t].id
        BY <1>4, <1>t, UpfUpdateEffect DEF OthersRest
  <2>2. StateInv' /\ TeidsLeadHome'
        BY <2>1, SlotsStay DEF StateInv
  <2> QED
      BY <2>1, <2>2 DEF MediaInv, ClaimInv
<1>5. ASSUME NEW w \in Workers, NEW s \in Sigs, HandleUpfSetup(w, s)
      PROVE  StateInv' /\ ClaimInv' /\ TeidsLeadHome'
  <2>1. /\ UNCHANGED <<session_list, sess>> /\ OthersWork(w)
        /\ pc'[w].at = "claim" /\ pc'[w].s = s /\ sess[s].state \in {"none", "freed"}
        BY <1>5, <1>t, SetupEffect
  <2>2. StateInv' /\ TeidsLeadHome'
        BY <2>1, <1>n, SlotsStay DEF StateInv, OthersWork
  <2>3. ClaimInv'
        BY <2>1 DEF MediaInv, ClaimInv, OthersWork
  <2> QED
      BY <2>2, <2>3
<1>6. ASSUME NEW w \in Workers, NEW s \in Sigs, HandleGnbSetup(w, s)
      PROVE  StateInv' /\ ClaimInv' /\ TeidsLeadHome'
  <2>1. /\ OthersWork(w) /\ UNCHANGED session_list /\ pc'[w].at = "find"
        /\ \A t \in Sigs : sess'[t].state = sess[t].state /\ sess'[t].id = sess[t].id
        BY <1>6, <1>t, GnbSetupEffect DEF OthersRest
  <2> QED
      BY <2>1, <1>2 DEF Legs
<1>7. ASSUME NEW w \in Workers, NEW s \in Sigs, HandleRelease(w, s)
      PROVE  StateInv' /\ ClaimInv' /\ TeidsLeadHome'
  <2>1. /\ UNCHANGED <<session_list, sess>> /\ OthersWork(w)
        /\ pc'[w].at = "upf" /\ pc'[w].s = s /\ sess[s].state = "listed"
        BY <1>7, <1>t, ReleaseEffect
  <2>2. StateInv' /\ TeidsLeadHome'
        BY <2>1, <1>n, SlotsStay DEF StateInv, OthersWork
  <2>3. ClaimInv'
        BY <2>1 DEF MediaInv, ClaimInv, OthersWork
  <2> QED
      BY <2>2, <2>3
<1>8. ASSUME NEW w \in Workers, ClaimId(w) PROVE StateInv' /\ ClaimInv' /\ TeidsLeadHome'
  <2>1. /\ UNCHANGED <<session_list, sess>> /\ OthersWork(w) /\ pc'[w].s = pc[w].s
        /\ pc[w].at = "claim"
        /\ \/ pc' = pc
           \/ /\ pc'[w].at = "install" /\ pc'[w].node \in Ids
              /\ session_list[pc'[w].node] = None
              /\ \A v \in Workers : ~(pc[v].at = "install" /\ pc[v].node = pc'[w].node)
        BY <1>8, <1>t, ClaimEffect
  <2>2. TeidsLeadHome'
        BY <2>1, SlotsStay
  <2>3. CASE pc' = pc
        BY <2>1, <2>2, <2>3 DEF MediaInv, StateInv, ClaimInv
  <2>4. CASE pc' # pc
    <3>1. StateInv'
          BY <2>1, <2>4, <1>n, SlotsStay DEF StateInv, OthersWork, MediaInv
    <3>2. ClaimInv'
          BY <2>1, <2>4 DEF MediaInv, ClaimInv, OthersWork
    <3> QED
        BY <2>2, <3>1, <3>2
  <2> QED
      BY <2>3, <2>4
<1>9. ASSUME NEW w \in Workers, InstallSession(w) PROVE StateInv' /\ ClaimInv' /\ TeidsLeadHome'
  <2> DEFINE s == pc[w].s
             id == pc[w].node
  <2>1. pc[w].at = "install" /\ id \in Ids /\ session_list[id] = None
        BY <1>9 DEF InstallSession, MediaInv, ClaimInv
  <2>2. /\ s \in Sigs
        /\ session_list' = [session_list EXCEPT ![id] = s] /\ OthersRest(s)
        /\ sess'[s].state = "listed" /\ sess'[s].id = id
        /\ OthersWork(w) /\ pc'[w].at = "find"
        BY <1>9, <1>t, <2>1, InstallEffect
  <2>3. sess[s].state \in {"none", "freed"} /\ ~Answered(w)
        BY <2>1 DEF MediaInv, StateInv, Answered
  <2> HIDE DEF s, id
  <2>4. ASSUME NEW t \in Sigs, NEW i \in Ids
        PROVE  session_list'[i] = t <=> (sess'[t].state = "listed" /\ sess'[t].id = i)
    <3>1. session_list'[i] = IF i = id THEN s ELSE session_list[i]
          BY <2>1, <2>2, <1>t DEF MediaTypes
    <3>2. session_list[i] = t <=> (sess[t].state = "listed" /\ sess[t].id = i)
          BY DEF MediaInv, TeidsLeadHome
    <3>3. CASE t = s
          BY <2>2, <2>3, <3>1, <3>2, <3>3
    <3>4. CASE t # s
          BY <1>n, <2>1, <2>2, <3>1, <3>2, <3>4 DEF OthersRest
    <3> QED
        BY <3>3, <3>4
  <2>5. ASSUME NEW v \in Workers
        PROVE  /\ pc'[v].at \in {"claim", "install"} => sess'[pc'[v].s].state \in {"none", "freed"}
               /\ pc'[v].at \in Legs \cup {"unlist"} => sess'[pc'[v].s].state = "listed"
    <3>1. CASE v = w
          BY <2>2, <3>1 DEF Legs
    <3>2. CASE v # w /\ pc[v].at \in {"claim", "install", "unlist"} \cup Legs
      <4>1. pc'[v] = pc[v] /\ pc[v].s \in Sigs /\ ~Answered(v)
            BY <1>s, <1>n, <2>2, <3>2 DEF OthersWork, Answered, Legs
      <4>2. pc[v].s # s
            BY <1>t, <1>n, <2>3, <3>2, <4>1, Alone DEF MediaInv, s
      <4> QED
          BY <2>2, <4>1, <4>2 DEF OthersRest, MediaInv, StateInv
    <3>3. CASE v # w /\ pc[v].at \notin {"claim", "install", "unlist"} \cup Legs
          BY <2>2, <3>3 DEF OthersWork
    <3> QED
        BY <3>1, <3>2, <3>3
  <2>6. ClaimInv'
    <3>1. ASSUME NEW v \in Workers, pc'[v].at = "install"
          PROVE  v # w /\ pc'[v] = pc[v] /\ pc[v].node \in Ids /\ session_list[pc[v].node] = None /\ pc[v].node # id
          BY <2>1, <2>2, <3>1 DEF MediaInv, ClaimInv, OthersWork, id
    <3>2. ASSUME NEW v \in Workers, pc'[v].at = "install"
          PROVE  pc'[v].node \in Ids /\ session_list'[pc'[v].node] = None
          BY <1>t, <2>1, <2>2, <3>1, <3>2 DEF MediaTypes
    <3>3. ASSUME NEW u \in Workers, NEW v \in Workers, pc'[u].at = "install", pc'[v].at = "install",
                 pc'[u].node = pc'[v].node
          PROVE  u = v
          BY <3>1, <3>3 DEF MediaInv, ClaimInv
    <3> QED
        BY <3>2, <3>3 DEF ClaimInv
  <2> QED
      BY <2>4, <2>5, <2>6 DEF StateInv, TeidsLeadHome
<1>10. ASSUME NEW w \in Workers, FindNode(w) \/ ShareNode(w) \/ OpenNode(w)
       PROVE  StateInv' /\ ClaimInv' /\ TeidsLeadHome'
  <2>1. /\ OthersWork(w) /\ UNCHANGED session_list /\ pc'[w].at \in {"idle", "find", "take"}
        /\ \A t \in Sigs : sess'[t].state = sess[t].state /\ sess'[t].id = sess[t].id
        BY <1>10, <1>t, FindEffect, ShareEffect, OpenEffect, IdleIsDoing DEF OthersRest, SameButSocks
  <2> QED
      BY <2>1, <1>2 DEF Legs
<1>11. ASSUME NEW w \in Workers, CloseLeg(w) PROVE StateInv' /\ ClaimInv' /\ TeidsLeadHome'
  <2>1. /\ UNCHANGED <<session_list, sess>> /\ OthersWork(w)
        /\ pc[w].at \in Legs /\ pc'[w].at \in Legs \cup {"unlist"} /\ pc'[w].s = pc[w].s
        BY <1>11, <1>t, CloseEffect
  <2>2. TeidsLeadHome'
        BY <2>1, SlotsStay
  <2>3. StateInv'
        BY <2>1, <1>n, SlotsStay DEF StateInv, OthersWork, MediaInv
  <2>4. ClaimInv'
        BY <2>1, <1>n DEF MediaInv, ClaimInv, OthersWork
  <2> QED
      BY <2>2, <2>3, <2>4
<1>12. ASSUME NEW w \in Workers, Unlist(w) PROVE StateInv' /\ ClaimInv' /\ TeidsLeadHome'
  <2> DEFINE s == pc[w].s
             id == sess[pc[w].s].id
  <2>1. /\ pc[w].at = "unlist" /\ s \in Sigs
        /\ session_list' = [session_list EXCEPT ![id] = None]
        /\ OthersWork(w) /\ pc'[w] = Idle /\ OthersRest(s)
        /\ sess'[s].state = "unlisted"
        BY <1>12, <1>t, UnlistEffect
  <2>2. sess[s].state = "listed" /\ ~Answered(w)
        BY <2>1 DEF MediaInv, StateInv, Answered
  <2>3. sess[s].id = id
        OBVIOUS
  <2> HIDE DEF s, id
  <2>4. ASSUME NEW t \in Sigs, NEW i \in Ids
        PROVE  session_list'[i] = t <=> (sess'[t].state = "listed" /\ sess'[t].id = i)
    <3>1. session_list'[i] = IF i = id THEN None ELSE session_list[i]
          BY <2>1, <1>t DEF MediaTypes
    <3>2. session_list[i] = t <=> (sess[t].state = "listed" /\ sess[t].id = i)
          BY DEF MediaInv, TeidsLeadHome
    <3>3. session_list[i] = s <=> id = i
          BY <2>1, <2>2, <2>3 DEF MediaInv, TeidsLeadHome
    <3>4. CASE t = s
          BY <1>n, <2>1, <3>1, <3>3, <3>4
    <3>5. CASE t # s
          BY <1>n, <2>1, <3>1, <3>2, <3>3, <3>5 DEF OthersRest
    <3> QED
        BY <3>4, <3>5
  <2>5. ASSUME NEW v \in Workers
        PROVE  /\ pc'[v].at \in {"claim", "install"} => sess'[pc'[v].s].state \in {"none", "freed"}
               /\ pc'[v].at \in Legs \cup {"unlist"} => sess'[pc'[v].s].state = "listed"
    <3>1. CASE v = w
          BY <2>1, <3>1, IdleIsDoing, <1>n
    <3>2. CASE v # w /\ pc[v].at \in {"claim", "install", "unlist"} \cup Legs
      <4>1. pc'[v] = pc[v] /\ pc[v].s \in Sigs /\ ~Answered(v)
            BY <1>s, <1>n, <2>1, <3>2 DEF OthersWork, Answered, Legs
      <4>2. pc[v].s # s
            BY <1>t, <1>n, <2>2, <3>2, <4>1, Alone DEF MediaInv, s
      <4> QED
          BY <2>1, <4>1, <4>2 DEF OthersRest, MediaInv, StateInv
    <3>3. CASE v # w /\ pc[v].at \notin {"claim", "install", "unlist"} \cup Legs
          BY <2>1, <3>3 DEF OthersWork
    <3> QED
        BY <3>1, <3>2, <3>3
  <2>6. ClaimInv'
    <3>1. ASSUME NEW v \in Workers, pc'[v].at = "install"
          PROVE  pc'[v] = pc[v] /\ pc[v].node \in Ids /\ session_list'[pc[v].node] = None
          BY <1>t, <2>1, <3>1, IdleIsDoing DEF MediaInv, ClaimInv, OthersWork, MediaTypes
    <3> QED
        BY <3>1 DEF ClaimInv, MediaInv
  <2> QED
      BY <2>4, <2>5, <2>6 DEF StateInv, TeidsLeadHome
<1> QED
    BY <1>1, <1>3, <1>4, <1>5, <1>6, <1>7, <1>8, <1>9, <1>10, <1>11, <1>12, StepKinds

\* The slots, the ids and the workers agree in every state.
LEMMA MediaInvariant == Spec => []MediaInv
<1>1. Init => MediaInv
  <2> SUFFICES ASSUME Init PROVE MediaInv
      OBVIOUS
  <2>1. MediaTypes
        BY FreshSession, IdleIsDoing, Numbers, MediaAssumption DEF Init, MediaTypes, ListTypes
  <2>2. \A w \in Workers : pc[w] = Idle
        BY DEF Init
  <2>3. \A s \in Sigs : sess[s].state = "none"
        BY FreshSession DEF Init
  <2>4. \A i \in Ids : session_list[i] = None /\ None \notin Sigs
        BY MediaAssumption DEF Init
  <2>5. "idle" \notin Legs
        BY DEF Legs
  <2> QED
      BY <2>1, <2>2, <2>3, <2>4, <2>5, IdleIsDoing
      DEF MediaInv, OneAtATime, StateInv, ClaimInv, TeidsLeadHome
<1>2. MediaInv /\ [Next]_vars => MediaInv'
  <2> SUFFICES ASSUME MediaInv, [Next]_vars PROVE MediaInv'
      OBVIOUS
  <2>1. MediaTypes' /\ OneAtATime'
        BY WorkKept, OneKept DEF MediaInv
  <2> QED
      BY <2>1, SlotsKept DEF MediaInv
<1> QED
    BY <1>1, <1>2, PTL DEF Spec

\* media_find_media_sig_sess_by_id: for any number of sessions, workers and ids, a
\* session the gateway has answered for is found under its own id until its release
\* clears the slot, and no other slot leads to it.
THEOREM TeidsAlwaysLeadHome == Spec => []TeidsLeadHome
BY MediaInvariant, PTL DEF MediaInv

-----------------------------------------------------------------------------
(* Sockets being opened.  Unless a handler was overtaken, a session whose   *)
(* legs are being opened is in the table, no release of it has begun, each  *)
(* side has one opener, and what is still to be opened is forgotten.        *)

Opening(w) == pc[w].at \in {"find", "take"}

OpenOk(w) == Opening(w) =>
  /\ sess[pc[w].s].state = "listed"
  /\ \A v \in Workers : v # w /\ Handles(v, pc[w].s) => Opening(v) /\ pc[v].leg \notin Side(pc[w].leg)
  /\ pc[w].at = "take" \/ pc[w].leg \in {"upf6", "gnb6"} => sess[pc[w].s].sock[pc[w].leg] = 0
  /\ pc[w].at = "take" /\ pc[w].leg \in {"upf", "gnb"} => sess[pc[w].s].sock[Sixth(pc[w].leg)] = 0

OpenInv == overtaken \/ \A w \in Workers : OpenOk(w)

\* What another worker's step must leave to an opener.
LEMMA OpenerLeft ==
  ASSUME MediaInv, NEW v \in Workers, OpenOk(v), pc'[v] = pc[v],
         NEW w \in Workers, w # v, OthersWork(w),
         Opening(v) =>
           /\ sess'[pc[v].s].state = "listed"
           /\ \A m \in Side(pc[v].leg) : sess'[pc[v].s].sock[m] = sess[pc[v].s].sock[m]
           /\ pc'[w].s = pc[v].s => pc'[w].at \in {"find", "take"} /\ pc'[w].leg \notin Side(pc[v].leg)
  PROVE  OpenOk(v)'
<1> SUFFICES ASSUME Opening(v) PROVE OpenOk(v)'
    BY DEF OpenOk, Opening
<1>1. pc[v].leg \in Legs
      BY DEF MediaInv, MediaTypes, Opening
<1>2. pc[v].leg \in Side(pc[v].leg) /\ (pc[v].leg \in {"upf", "gnb"} => Sixth(pc[v].leg) \in Side(pc[v].leg))
      BY <1>1, SidesAre DEF Side
<1>3. ASSUME NEW u \in Workers, u # v, pc'[u].s = pc[v].s
      PROVE  pc'[u].at \in {"find", "take"} /\ pc'[u].leg \notin Side(pc[v].leg)
      BY <1>3 DEF OpenOk, OthersWork, Handles, Opening
<1> QED
    BY <1>2, <1>3 DEF OpenOk, Opening, Handles

\* Every step keeps what is said of openers; what is overtaken stays so.
LEMMA OpenKept ==
  ASSUME MediaInv, OpenInv, [Next]_vars
  PROVE  (overtaken => overtaken') /\ OpenInv'
<1>t. MediaTypes
      BY DEF MediaInv
<1>o. overtaken => overtaken'
  <2>1. CASE UNCHANGED core
        BY <2>1 DEF core
  <2>2. ASSUME NEW s \in Sigs, FreeSession(s) PROVE overtaken => overtaken'
        BY <2>2 DEF FreeSession
  <2>3. ASSUME NEW w \in Workers, NEW s \in Sigs,
               \/ HandleUpfSetup(w, s) \/ HandleGnbSetup(w, s)
               \/ HandleUpfUpdate(w, s) \/ HandleRelease(w, s)
        PROVE  overtaken => overtaken'
        BY <2>3 DEF HandleUpfSetup, HandleGnbSetup, HandleUpfUpdate, HandleRelease
  <2>4. ASSUME NEW w \in Workers,
               \/ ClaimId(w) \/ InstallSession(w) \/ FindNode(w) \/ ShareNode(w)
               \/ OpenNode(w) \/ CloseLeg(w) \/ Unlist(w)
        PROVE  overtaken => overtaken'
        BY <2>4 DEF ClaimId, InstallSession, FindNode, ShareNode, OpenNode, CloseLeg, Unlist
  <2> QED
      BY <2>1, <2>2, <2>3, <2>4, StepKinds
<1> SUFFICES ASSUME ~overtaken, overtaken' # TRUE PROVE OpenInv'
    BY <1>o DEF OpenInv
<1>i. \A w \in Workers : OpenOk(w)
      BY DEF OpenInv
<1>r. \A v \in Workers : Opening(v) => pc[v].s \in Sigs /\ pc[v].leg \in Legs /\ pc[v].s # None
      BY <1>t DEF Opening, MediaTypes, Doing
<1>1. CASE UNCHANGED core
      BY <1>1, <1>i DEF core, OpenInv, OpenOk, Opening, Handles
<1>2. ASSUME NEW s \in Sigs, FreeSession(s) PROVE OpenInv'
  <2>1. UNCHANGED pc /\ OthersRest(s) /\ sess[s].state = "unlisted"
        BY <1>2, <1>t, FreeEffect
  <2>2. \A v \in Workers : Opening(v) => sess'[pc[v].s] = sess[pc[v].s]
        BY <2>1, <1>i, <1>r DEF OpenOk, OthersRest
  <2> QED
      BY <2>1, <2>2, <1>i DEF OpenInv, OpenOk, Opening, Handles
<1>3. ASSUME NEW w \in Workers, NEW s \in Sigs, HandleUpfUpdate(w, s) PROVE OpenInv'
  <2>1. UNCHANGED pc /\ \A t \in Sigs : sess'[t].state = sess[t].state /\ sess'[t].sock = sess[t].sock
        BY <1>3, <1>t, UpfUpdateEffect DEF OthersRest
  <2> QED
      BY <2>1, <1>i, <1>r DEF OpenInv, OpenOk, Opening, Handles
\* A worker that is not opening, and whose session no opener has.
<1>4. ASSUME NEW w \in Workers, OthersWork(w), pc'[w].at \notin {"find", "take"},
             \A v \in Workers : v # w /\ Opening(v) => sess'[pc[v].s] = sess[pc[v].s] /\ pc'[w].s # pc[v].s
      PROVE  OpenInv'
  <2>1. ASSUME NEW v \in Workers, v # w PROVE OpenOk(v)'
        BY <1>4, <2>1, <1>i, OpenerLeft DEF OthersWork, OpenOk
  <2>2. OpenOk(w)'
        BY <1>4 DEF OpenOk, Opening
  <2> QED
      BY <2>1, <2>2 DEF OpenInv
<1>5. ASSUME NEW w \in Workers, NEW s \in Sigs, HandleUpfSetup(w, s) PROVE OpenInv'
  <2>1. /\ UNCHANGED sess /\ OthersWork(w) /\ pc'[w].at = "claim" /\ pc'[w].s = s
        /\ sess[s].state \in {"none", "freed"}
        BY <1>5, <1>t, SetupEffect
  <2> QED
      BY <2>1, <1>4, <1>i DEF OpenOk
<1>6. ASSUME NEW w \in Workers, ~Opening(w) /\ pc[w].at # "idle", pc'[w].at \notin {"find", "take"},
             pc'[w].s \in {pc[w].s, None}, OthersWork(w), OthersRest(pc[w].s)
      PROVE  OpenInv'
  <2>1. \A v \in Workers : v # w /\ Opening(v) => pc[v].s # pc[w].s
        BY <1>6, <1>i DEF OpenOk, Handles
  <2> QED
      BY <1>6, <2>1, <1>r, <1>4 DEF OthersRest
<1>7. ASSUME NEW w \in Workers, ClaimId(w) PROVE OpenInv'
  <2>1. /\ UNCHANGED sess /\ OthersWork(w) /\ pc[w].at = "claim" /\ pc'[w].s = pc[w].s
        /\ pc'[w].at \in {"claim", "install"}
        BY <1>7, <1>t, ClaimEffect
  <2> QED
      BY <2>1, <1>6 DEF Opening, OthersRest
<1>8. ASSUME NEW w \in Workers, CloseLeg(w) PROVE OpenInv'
  <2>1. /\ UNCHANGED sess /\ OthersWork(w) /\ pc[w].at \in Legs /\ pc'[w].s = pc[w].s
        /\ pc'[w].at \in Legs \cup {"unlist"}
        BY <1>8, <1>t, CloseEffect
  <2> QED
      BY <2>1, <1>6 DEF Opening, OthersRest, Legs
<1>9. ASSUME NEW w \in Workers, Unlist(w) PROVE OpenInv'
  <2>1. OthersRest(pc[w].s) /\ OthersWork(w) /\ pc[w].at = "unlist" /\ pc'[w] = Idle
        BY <1>9, <1>t, UnlistEffect
  <2> QED
      BY <2>1, <1>6, IdleIsDoing DEF Opening
<1>10. ASSUME NEW w \in Workers, NEW s \in Sigs, HandleRelease(w, s) PROVE OpenInv'
  <2>1. /\ UNCHANGED sess /\ OthersWork(w) /\ pc'[w].at = "upf" /\ pc'[w].s = s
        /\ ~(\E v \in Workers : Handles(v, s))
        BY <1>10, <1>t, ReleaseEffect
  <2> QED
      BY <2>1, <1>4 DEF Handles
<1>11. ASSUME NEW w \in Workers, InstallSession(w) PROVE OpenInv'
  <2>1. pc[w].at = "install" /\ pc[w].node \in Ids
        BY <1>11 DEF InstallSession, MediaInv, ClaimInv
  <2>2. /\ OthersRest(pc[w].s) /\ OthersWork(w) /\ pc[w].s \in Sigs
        /\ sess'[pc[w].s].state = "listed"
        /\ pc'[w].at = "find" /\ pc'[w].s = pc[w].s /\ pc'[w].leg = "upf"
        BY <1>11, <1>t, <2>1, InstallEffect
  <2>3. ~Answered(w) /\ ~Opening(w) /\ sess[pc[w].s].state \in {"none", "freed"}
        BY <2>1 DEF MediaInv, StateInv, Answered, Opening
  <2>4. \A v \in Workers : v # w => pc[v].s # pc[w].s
    <3>1. ASSUME NEW v \in Workers, v # w, pc[v].s = pc[w].s PROVE FALSE
      <4>1. Answered(v)
            BY <3>1, <2>2, <2>3, MediaAssumption DEF MediaInv, OneAtATime
      <4>2. sess[pc[v].s].state = "listed"
            BY <4>1, <1>i DEF OpenOk, Opening, Answered
      <4> QED
          BY <4>2, <3>1, <2>3
    <3> QED
        BY <3>1
  <2>5. ASSUME NEW v \in Workers, v # w PROVE OpenOk(v)'
        BY <2>2, <2>4, <2>5, <1>i, <1>r, OpenerLeft DEF OthersWork, OthersRest, OpenOk
  <2>6. OpenOk(w)'
        BY <2>2, <2>4 DEF OpenOk, Opening, Handles, OthersWork
  <2> QED
      BY <2>5, <2>6 DEF OpenInv
<1>12. ASSUME NEW w \in Workers, NEW s \in Sigs, HandleGnbSetup(w, s) PROVE OpenInv'
  <2>1. /\ OthersRest(s) /\ OthersWork(w) /\ pc[w] = Idle /\ MayAsk(s)
        /\ sess[s].state = "listed" /\ sess'[s].state = "listed" /\ sess'[s].sock = sess[s].sock
        /\ pc'[w].at = "find" /\ pc'[w].s = s /\ pc'[w].leg = "gnb"
        BY <1>12, <1>t, GnbSetupEffect
  <2>2. \A v \in Workers : pc[v].s = s => Opening(v) /\ pc[v].leg \in Side("upf")
        BY <2>1, SidesAre DEF MayAsk, Handles, Answered, Opening, Side, Legs
  <2>3. "gnb" \notin Side("upf") /\ \A l \in Side("upf") : Side(l) = Side("upf") /\ l \notin Side("gnb")
        BY DEF Side, Legs
  <2>4. ASSUME NEW v \in Workers, v # w PROVE OpenOk(v)'
    <3>1. Opening(v) =>
            /\ sess'[pc[v].s].state = "listed"
            /\ \A m \in Side(pc[v].leg) : sess'[pc[v].s].sock[m] = sess[pc[v].s].sock[m]
          BY <2>1, <1>i, <1>r DEF OthersRest, OpenOk
    <3>2. pc[v].s = s => pc'[w].leg \notin Side(pc[v].leg)
          BY <2>1, <2>2, <2>3
    <3>3. pc'[v] = pc[v]
          BY <2>1, <2>4 DEF OthersWork
    <3> QED
        BY <2>1, <2>4, <3>1, <3>2, <3>3, <1>i, OpenerLeft
  <2>5. OpenOk(w)'
        BY <2>1, <2>2, <2>3 DEF OpenOk, Opening, Handles, OthersWork
  <2> QED
      BY <2>4, <2>5 DEF OpenInv
\* An opener goes on, on its own side.
<1>13. ASSUME NEW w \in Workers, Opening(w), OthersWork(w), SameButSocks(pc[w].s),
              \A m \in Legs : m \notin Side(pc[w].leg) => sess'[pc[w].s].sock[m] = sess[pc[w].s].sock[m],
              \/ pc'[w] = Idle
              \/ /\ pc'[w].at \in {"find", "take"} /\ pc'[w].s = pc[w].s /\ pc'[w].leg \in Side(pc[w].leg)
                 /\ pc'[w].at = "take" \/ pc'[w].leg \in {"upf6", "gnb6"} =>
                      sess'[pc[w].s].sock[pc'[w].leg] = 0
                 /\ pc'[w].at = "take" /\ pc'[w].leg \in {"upf", "gnb"} =>
                      sess'[pc[w].s].sock[Sixth(pc'[w].leg)] = 0
       PROVE  OpenInv'
  <2> DEFINE s == pc[w].s
             l == pc[w].leg
  <2>1. s \in Sigs /\ l \in Legs /\ s # None /\ sess[s].state = "listed"
        BY <1>13, <1>r, <1>i DEF OpenOk
  <2>2. ASSUME NEW v \in Workers, v # w PROVE OpenOk(v)'
    <3>1. pc'[v] = pc[v]
          BY <1>13, <2>2 DEF OthersWork
    <3>2. CASE Opening(v) /\ pc[v].s = s
      <4>1. pc[v].leg \notin Side(l) /\ pc[v].leg \in Legs
            BY <1>13, <1>i, <1>r, <2>2, <3>2 DEF OpenOk, Handles
      <4>2. \A m \in Side(pc[v].leg) : m \in Legs /\ m \notin Side(l)
            BY <2>1, <4>1 DEF Side
      <4>3. pc'[w].leg \in Side(l) => pc'[w].leg \notin Side(pc[v].leg)
            BY <4>2
      <4>4. sess'[s].state = "listed"
            BY <1>13, <2>1 DEF SameButSocks
      <4>5. \A m \in Side(pc[v].leg) : sess'[pc[v].s].sock[m] = sess[pc[v].s].sock[m]
            BY <1>13, <3>2, <4>2
      <4>6. pc'[w].s = pc[v].s => pc'[w].at \in {"find", "take"} /\ pc'[w].leg \notin Side(pc[v].leg)
            BY <1>13, <2>1, <3>2, <4>3, IdleIsDoing
      <4> QED
          BY <1>13, <1>i, <2>2, <3>1, <3>2, <4>4, <4>5, <4>6, OpenerLeft
    <3>3. CASE Opening(v) /\ pc[v].s # s
      <4>1. sess'[pc[v].s] = sess[pc[v].s]
            BY <1>13, <1>r, <3>3 DEF SameButSocks, OthersRest
      <4>2. pc'[w].s # pc[v].s
            BY <1>13, <1>r, <3>3, IdleIsDoing
      <4> QED
          BY <1>13, <1>i, <2>2, <3>1, <3>3, <4>1, <4>2, OpenerLeft DEF OpenOk
    <3>4. CASE ~Opening(v)
          BY <3>1, <3>4 DEF OpenOk, Opening
    <3> QED
        BY <3>2, <3>3, <3>4
  <2>3. OpenOk(w)'
    <3>1. CASE pc'[w] = Idle
          BY <3>1, IdleIsDoing DEF OpenOk, Opening
    <3>2. CASE pc'[w].at \in {"find", "take"} /\ pc'[w].s = s /\ pc'[w].leg \in Side(l)
      <4>1. sess'[s].state = "listed"
            BY <1>13, <2>1 DEF SameButSocks
      <4>2. Side(pc'[w].leg) = Side(l)
            BY <3>2, <2>1 DEF Side
      <4>3. \A v \in Workers : v # w /\ pc'[v].s = s =>
              pc'[v].at \in {"find", "take"} /\ pc'[v].leg \notin Side(l)
            BY <1>13, <1>i DEF OpenOk, Handles, Opening, OthersWork
      <4>4. pc'[w] # Idle
            BY <3>2, IdleIsDoing
      <4> QED
          BY <1>13, <3>2, <4>1, <4>2, <4>3, <4>4 DEF OpenOk, Opening, Handles
    <3> QED
        BY <1>13, <3>1, <3>2
  <2> QED
      BY <2>2, <2>3 DEF OpenInv
<1>14. ASSUME NEW w \in Workers, FindNode(w) PROVE OpenInv'
  <2> DEFINE s == pc[w].s
             l == pc[w].leg
  <2>1. /\ pc[w].at = "find" /\ s \in Sigs /\ l \in Legs /\ OthersWork(w)
        /\ pc'[w].at = "take" /\ pc'[w].s = s /\ pc'[w].leg = l
        /\ SameButSocks(s)
        /\ \/ /\ l \in {"upf", "gnb"}
              /\ \A m \in Legs : sess'[s].sock[m] = IF m \in Side(l) THEN 0 ELSE sess[s].sock[m]
           \/ l \notin {"upf", "gnb"} /\ UNCHANGED sess
        BY <1>14, <1>t, FindEffect
  <2>2. l \in Side(l)
        BY <2>1 DEF Side
  <2>3. CASE l \in {"upf", "gnb"}
    <3>1. Sixth(l) \in Side(l) /\ Sixth(l) \in Legs
          BY <2>3, SidesAre, SixthLeg
    <3> QED
        BY <1>13, <2>1, <2>2, <2>3, <3>1 DEF Opening
  <2>4. CASE l \notin {"upf", "gnb"}
    <3>1. l \in {"upf6", "gnb6"} /\ UNCHANGED sess
          BY <2>1, <2>4 DEF Legs
    <3>2. sess[s].sock[l] = 0
          BY <2>1, <3>1, <1>i DEF OpenOk, Opening
    <3> QED
        BY <1>13, <2>1, <2>2, <2>4, <3>1, <3>2 DEF Opening
  <2> QED
      BY <2>3, <2>4
<1>15. ASSUME NEW w \in Workers, ShareNode(w) PROVE OpenInv'
  <2>1. /\ pc[w].at = "take" /\ pc[w].leg \in Legs /\ OthersWork(w) /\ pc'[w] = Idle
        /\ SameButSocks(pc[w].s)
        /\ \A m \in Legs : m # pc[w].leg => sess'[pc[w].s].sock[m] = sess[pc[w].s].sock[m]
        BY <1>15, <1>t, ShareEffect
  <2>2. pc[w].leg \in Side(pc[w].leg)
        BY <2>1 DEF Side
  <2> QED
      BY <1>13, <2>1, <2>2 DEF Opening
<1>16. ASSUME NEW w \in Workers, OpenNode(w) PROVE OpenInv'
  <2> DEFINE s == pc[w].s
             l == pc[w].leg
  <2>1. /\ pc[w].at = "take" /\ s \in Sigs /\ l \in Legs /\ OthersWork(w) /\ SameButSocks(s)
        /\ \/ pc'[w] = Idle
           \/ /\ l \in {"upf", "gnb"}
              /\ pc'[w].at = "find" /\ pc'[w].s = s /\ pc'[w].leg = Sixth(l)
        /\ \/ \E k \in FreeSocks : Opens(s, l, k)
           \/ UNCHANGED sess
        BY <1>16, <1>t, OpenEffect
  <2>2. \A m \in Legs : m # l => sess'[s].sock[m] = sess[s].sock[m]
        BY <2>1 DEF Opens
  <2>3. l \in Side(l)
        BY <2>1 DEF Side
  <2>4. CASE pc'[w] = Idle
        BY <1>13, <2>1, <2>2, <2>3, <2>4 DEF Opening
  <2>5. CASE l \in {"upf", "gnb"} /\ pc'[w].at = "find" /\ pc'[w].s = s /\ pc'[w].leg = Sixth(l)
    <3>1. Sixth(l) \in Side(l) /\ Sixth(l) # l /\ Sixth(l) \in Legs /\ Sixth(l) \in {"upf6", "gnb6"}
          BY <2>5, SidesAre, SixthLeg
    <3>2. sess[s].sock[Sixth(l)] = 0
          BY <2>1, <2>5, <1>i DEF OpenOk, Opening
    <3> QED
        BY <1>13, <2>1, <2>2, <2>3, <2>5, <3>1, <3>2 DEF Opening
  <2> QED
      BY <2>1, <2>4, <2>5
<1> QED
    BY <1>1, <1>2, <1>3, <1>5, <1>7, <1>8, <1>9, <1>10, <1>11, <1>12, <1>14, <1>15, <1>16, StepKinds

-----------------------------------------------------------------------------
(* Peers.  Unless a handler was overtaken, a leg's socket is connected to   *)
(* the leg's address, but for a moved UPF and a gNB being reopened; so is   *)
(* the node a search has found and its worker not yet taken.                *)

Reopens(w) == pc[w].at = "find" /\ pc[w].leg = "gnb"
Reopening(s) == \E w \in Workers : Handles(w, s) /\ Reopens(w)

LegOk(s, l) == \A n \in server_list_v2 : n.sock = sess[s].sock[l] =>
  \/ sess[s].peer[l] \in {None, n.peer}
  \/ sess[s].moved /\ l \in Side("upf")
  \/ Reopening(s) /\ l \in Side("gnb")

TakeOk(w) == \A n \in server_list_v2 : pc[w].at = "take" /\ n.sock = pc[w].node =>
  \/ sess[pc[w].s].peer[pc[w].leg] \in {None, n.peer}
  \/ sess[pc[w].s].moved /\ pc[w].leg \in Side("upf")

PeerInv == overtaken \/ ((\A s \in Sigs, l \in Legs : LegOk(s, l)) /\ (\A w \in Workers : TakeOk(w)))

\* Nodes of server_list_v2 keep their socket and their peer.
NodesKept == \A x \in server_list_v2' : \E n \in server_list_v2 : x.sock = n.sock /\ x.peer = n.peer

\* A leg is forgotten, left alone, or excused.
LegKept(s, l) ==
  \/ sess'[s].sock[l] = 0
  \/ /\ sess'[s].sock[l] = sess[s].sock[l] /\ sess'[s].peer[l] = sess[s].peer[l]
     /\ sess[s].moved => sess'[s].moved
  \/ sess'[s].moved /\ l \in Side("upf")
  \/ Reopening(s)' /\ l \in Side("gnb")

\* A leg that is kept stays right while those who reopen it do.
LEMMA LegStays ==
  ASSUME ListTypes', NodesKept, NEW s \in Sigs, NEW l \in Legs, LegOk(s, l), LegKept(s, l),
         Reopening(s) /\ l \in Side("gnb") /\ sess'[s].sock[l] # 0 => Reopening(s)'
  PROVE  LegOk(s, l)'
<1> SUFFICES ASSUME NEW x \in server_list_v2', x.sock = sess'[s].sock[l]
             PROVE  \/ sess'[s].peer[l] \in {None, x.peer}
                    \/ sess'[s].moved /\ l \in Side("upf")
                    \/ Reopening(s)' /\ l \in Side("gnb")
    BY DEF LegOk
<1>1. x.sock # 0
      BY Numbers DEF ListTypes, SharedSocket
<1>2. PICK n \in server_list_v2 : x.sock = n.sock /\ x.peer = n.peer
      BY DEF NodesKept
<1> QED
    BY <1>1, <1>2 DEF LegKept, LegOk

\* A worker that holds a node it found and whose session's address stays.
LEMMA TakeStays ==
  ASSUME NodesKept, NEW w \in Workers, TakeOk(w), pc'[w] = pc[w],
         pc[w].at = "take" =>
           \/ /\ sess'[pc[w].s].peer[pc[w].leg] = sess[pc[w].s].peer[pc[w].leg]
              /\ sess[pc[w].s].moved => sess'[pc[w].s].moved
           \/ sess'[pc[w].s].moved /\ pc[w].leg \in Side("upf")
  PROVE  TakeOk(w)'
<1> SUFFICES ASSUME NEW x \in server_list_v2', pc[w].at = "take", x.sock = pc[w].node
             PROVE  \/ sess'[pc[w].s].peer[pc[w].leg] \in {None, x.peer}
                    \/ sess'[pc[w].s].moved /\ pc[w].leg \in Side("upf")
    BY DEF TakeOk
<1>1. PICK n \in server_list_v2 : x.sock = n.sock /\ x.peer = n.peer
      BY DEF NodesKept
<1> QED
    BY <1>1 DEF TakeOk

\* A step in which nobody reopens, or takes what is found, who did not before.
LEMMA PeersStay ==
  ASSUME ListTypes', NodesKept, ~overtaken, PeerInv,
         \A s \in Sigs, l \in Legs : LegKept(s, l),
         \A v \in Workers : pc'[v] = pc[v] \/ (~Reopens(v) /\ pc'[v].at # "take"),
         \A v \in Workers : pc'[v] = pc[v] /\ pc[v].at = "take" =>
           \/ /\ sess'[pc[v].s].peer[pc[v].leg] = sess[pc[v].s].peer[pc[v].leg]
              /\ sess[pc[v].s].moved => sess'[pc[v].s].moved
           \/ sess'[pc[v].s].moved /\ pc[v].leg \in Side("upf")
  PROVE  PeerInv'
<1>1. ASSUME NEW s \in Sigs, NEW l \in Legs PROVE LegOk(s, l)'
  <2>1. Reopening(s) => Reopening(s)'
        BY DEF Reopening, Reopens, Handles
  <2> QED
      BY <2>1, LegStays DEF PeerInv
<1>2. ASSUME NEW v \in Workers PROVE TakeOk(v)'
  <2>1. CASE pc'[v] = pc[v]
        BY <2>1, TakeStays DEF PeerInv
  <2>2. CASE pc'[v].at # "take"
        BY <2>2 DEF TakeOk
  <2> QED
      BY <2>1, <2>2
<1> QED
    BY <1>1, <1>2 DEF PeerInv

\* Every step leaves the legs, and the nodes found for them, with the right peer.
LEMMA PeersKept ==
  ASSUME MediaInv, MediaInv', OpenInv, PeerInv, [Next]_vars
  PROVE  PeerInv'
<1>t. MediaTypes /\ ListTypes /\ ListTypes'
      BY DEF MediaInv, MediaTypes
<1>o. overtaken => overtaken'
      BY OpenKept
<1> SUFFICES ASSUME ~overtaken, overtaken' # TRUE PROVE PeerInv'
    BY <1>o DEF PeerInv
<1>i. \A w \in Workers : OpenOk(w)
      BY DEF OpenInv
<1>p. (\A s \in Sigs, l \in Legs : LegOk(s, l)) /\ (\A w \in Workers : TakeOk(w))
      BY DEF PeerInv
<1>r. \A v \in Workers : pc[v].at = "take" => pc[v].s \in Sigs /\ pc[v].leg \in Legs /\ sess[pc[v].s].state = "listed"
      BY <1>t, <1>i DEF OpenOk, Opening, MediaTypes, Doing
<1>u. server_list_v2' = server_list_v2 => NodesKept
      BY DEF NodesKept
<1>1. CASE UNCHANGED core
  <2>1. UNCHANGED <<sess, pc, server_list_v2>>
        BY <1>1 DEF core
  <2>2. \A t \in Sigs, l \in Legs : LegKept(t, l)
        BY <2>1 DEF LegKept
  <2> QED
      BY <2>1, <2>2, <1>t, <1>u, PeersStay
<1>2. ASSUME NEW s \in Sigs, FreeSession(s) PROVE PeerInv'
  <2>1. /\ UNCHANGED <<pc, server_list_v2>> /\ OthersRest(s) /\ sess[s].state = "unlisted"
        /\ \A l \in Legs : sess'[s].sock[l] = 0
        BY <1>2, <1>t, FreeEffect
  <2>2. \A v \in Workers : pc[v].at = "take" => sess'[pc[v].s] = sess[pc[v].s]
        BY <2>1, <1>r DEF OthersRest
  <2>3. \A t \in Sigs, l \in Legs : LegKept(t, l)
        BY <2>1 DEF LegKept, OthersRest
  <2> QED
      BY <2>1, <2>2, <2>3, <1>t, <1>u, PeersStay
<1>3. ASSUME NEW w \in Workers, NEW s \in Sigs, HandleUpfUpdate(w, s) PROVE PeerInv'
  <2>1. /\ UNCHANGED <<pc, server_list_v2>> /\ OthersRest(s)
        /\ sess'[s].sock = sess[s].sock /\ (sess[s].moved => sess'[s].moved)
        /\ \A m \in Legs : \/ sess'[s].peer[m] = sess[s].peer[m]
                           \/ m \in Side("upf") /\ sess'[s].moved
        BY <1>3, <1>t, UpfUpdateEffect
  <2>2. \A t \in Sigs, l \in Legs : LegKept(t, l)
        BY <2>1 DEF LegKept, OthersRest
  <2>3. ASSUME NEW v \in Workers, pc[v].at = "take"
        PROVE  \/ /\ sess'[pc[v].s].peer[pc[v].leg] = sess[pc[v].s].peer[pc[v].leg]
                  /\ sess[pc[v].s].moved => sess'[pc[v].s].moved
               \/ sess'[pc[v].s].moved /\ pc[v].leg \in Side("upf")
        BY <2>1, <2>3, <1>r DEF OthersRest
  <2> QED
      BY <2>1, <2>2, <2>3, <1>t, <1>u, PeersStay
\* A worker goes on without touching an address or a socket that anybody uses.
<1>4. ASSUME NEW w \in Workers, OthersWork(w), NodesKept, UNCHANGED sess,
             ~Reopens(w), pc'[w].at # "take"
      PROVE  PeerInv'
  <2>1. \A t \in Sigs, l \in Legs : LegKept(t, l)
        BY <1>4 DEF LegKept
  <2> QED
      BY <1>4, <2>1, <1>t, PeersStay DEF OthersWork
<1>5. ASSUME NEW w \in Workers, NEW s \in Sigs, HandleUpfSetup(w, s) PROVE PeerInv'
      BY <1>5, <1>t, <1>u, <1>4, SetupEffect, IdleIsDoing DEF Reopens
<1>6. ASSUME NEW w \in Workers, ClaimId(w) PROVE PeerInv'
  <2>1. /\ UNCHANGED <<sess, server_list_v2>> /\ OthersWork(w) /\ pc[w].at = "claim"
        /\ pc'[w].at \in {"claim", "install"}
        BY <1>6, <1>t, ClaimEffect
  <2> QED
      BY <2>1, <1>u, <1>4 DEF Reopens
<1>7. ASSUME NEW w \in Workers, NEW s \in Sigs, HandleRelease(w, s) PROVE PeerInv'
      BY <1>7, <1>t, <1>u, <1>4, ReleaseEffect, IdleIsDoing DEF Reopens
<1>8. ASSUME NEW w \in Workers, CloseLeg(w) PROVE PeerInv'
  <2>1. NodesKept
        BY <1>8, <1>t, CloseEffect, DropRefNodes DEF NodesKept
  <2>2. /\ UNCHANGED sess /\ OthersWork(w) /\ pc[w].at \in Legs
        /\ pc'[w].at \in Legs \cup {"unlist"}
        BY <1>8, <1>t, CloseEffect
  <2> QED
      BY <2>1, <2>2, <1>4 DEF Reopens, Legs
<1>9. ASSUME NEW w \in Workers, Unlist(w) PROVE PeerInv'
  <2>1. /\ UNCHANGED server_list_v2 /\ OthersWork(w) /\ pc[w].at = "unlist" /\ pc'[w].at = "idle"
        /\ pc[w].s \in Sigs /\ OthersRest(pc[w].s)
        /\ sess'[pc[w].s].sock = sess[pc[w].s].sock /\ sess'[pc[w].s].peer = sess[pc[w].s].peer
        /\ sess'[pc[w].s].moved = sess[pc[w].s].moved
        BY <1>9, <1>t, UnlistEffect, IdleIsDoing
  <2>2. \A t \in Sigs : sess'[t].sock = sess[t].sock /\ sess'[t].peer = sess[t].peer /\ sess'[t].moved = sess[t].moved
        BY <2>1 DEF OthersRest
  <2>3. \A t \in Sigs, l \in Legs : LegKept(t, l)
        BY <2>2 DEF LegKept
  <2>4. \A v \in Workers : pc'[v] = pc[v] \/ (~Reopens(v) /\ pc'[v].at # "take")
        BY <2>1 DEF OthersWork, Reopens
  <2> QED
      BY <2>1, <2>2, <2>3, <2>4, <1>r, <1>t, <1>u, PeersStay
<1>10. ASSUME NEW w \in Workers, InstallSession(w) PROVE PeerInv'
  <2>1. pc[w].at = "install" /\ pc[w].node \in Ids
        BY <1>10 DEF InstallSession, MediaInv, ClaimInv
  <2>2. /\ UNCHANGED server_list_v2 /\ OthersRest(pc[w].s) /\ OthersWork(w) /\ pc[w].s \in Sigs
        /\ \A l \in Legs : sess'[pc[w].s].sock[l] = 0
        /\ pc'[w].at = "find"
        BY <1>10, <1>t, <2>1, InstallEffect
  <2>3. sess[pc[w].s].state \in {"none", "freed"}
        BY <2>1 DEF MediaInv, StateInv
  <2>4. \A v \in Workers : pc[v].at = "take" => sess'[pc[v].s] = sess[pc[v].s]
        BY <2>2, <2>3, <1>r DEF OthersRest
  <2>5. \A t \in Sigs, l \in Legs : LegKept(t, l)
        BY <2>2 DEF LegKept, OthersRest
  <2>6. \A v \in Workers : pc'[v] = pc[v] \/ (~Reopens(v) /\ pc'[v].at # "take")
        BY <2>1, <2>2 DEF OthersWork, Reopens
  <2> QED
      BY <2>2, <2>4, <2>5, <2>6, <1>t, <1>u, PeersStay
<1>11. ASSUME NEW w \in Workers, NEW s \in Sigs, HandleGnbSetup(w, s) PROVE PeerInv'
  <2>1. /\ UNCHANGED server_list_v2 /\ OthersRest(s) /\ OthersWork(w) /\ pc[w] = Idle /\ MayAsk(s)
        /\ sess'[s].sock = sess[s].sock /\ sess'[s].moved = sess[s].moved
        /\ \A m \in Side("upf") : sess'[s].peer[m] = sess[s].peer[m]
        /\ pc'[w].at = "find" /\ pc'[w].s = s /\ pc'[w].leg = "gnb"
        BY <1>11, <1>t, GnbSetupEffect
  <2>2. Reopening(s)'
        BY <2>1 DEF Reopening, Reopens, Handles
  <2>3. \A l \in Legs : l \in Side("upf") \/ l \in Side("gnb")
        BY DEF Side, Legs
  <2>4. \A t \in Sigs, l \in Legs : LegKept(t, l)
        BY <2>1, <2>2, <2>3 DEF LegKept, OthersRest
  <2>5. \A v \in Workers : pc'[v] = pc[v] \/ (~Reopens(v) /\ pc'[v].at # "take")
        BY <2>1, IdleIsDoing DEF OthersWork, Reopens
  <2>6. \A v \in Workers : pc[v].s = s => pc[v].leg \in Side("upf")
        BY <2>1 DEF MayAsk, Handles, Answered, Side, Legs
  <2>7. ASSUME NEW v \in Workers, pc[v].at = "take"
        PROVE  /\ sess'[pc[v].s].peer[pc[v].leg] = sess[pc[v].s].peer[pc[v].leg]
               /\ sess[pc[v].s].moved => sess'[pc[v].s].moved
        BY <2>1, <2>6, <2>7, <1>r DEF OthersRest
  <2> QED
      BY <2>1, <2>4, <2>5, <2>7, <1>t, <1>u, PeersStay
<1>12. ASSUME NEW w \in Workers, FindNode(w) PROVE PeerInv'
  <2> DEFINE s == pc[w].s
             l == pc[w].leg
  <2>1. /\ pc[w].at = "find" /\ s \in Sigs /\ l \in Legs /\ OthersWork(w)
        /\ pc'[w].at = "take" /\ pc'[w].s = s /\ pc'[w].leg = l
        /\ \A n \in server_list_v2 : n.sock = pc'[w].node => sess[s].peer[l] \in {None, n.peer}
        /\ SameButSocks(s)
        /\ \/ /\ l \in {"upf", "gnb"} /\ server_list_v2' = Forget(s, l)
              /\ \A m \in Legs : sess'[s].sock[m] = IF m \in Side(l) THEN 0 ELSE sess[s].sock[m]
           \/ l \notin {"upf", "gnb"} /\ UNCHANGED <<server_list_v2, sess>>
        BY <1>12, <1>t, FindEffect
  <2>2. NodesKept
        BY <2>1, <1>t, <1>u, ForgetNodes DEF NodesKept
  <2>3. ASSUME NEW t \in Sigs, NEW m \in Legs PROVE LegOk(t, m)'
    <3>1. LegKept(t, m)
          BY <2>1 DEF LegKept, SameButSocks, OthersRest
    <3>2. Reopening(t) /\ m \in Side("gnb") /\ sess'[t].sock[m] # 0 => Reopening(t)'
      <4> SUFFICES ASSUME Reopening(t), m \in Side("gnb"), sess'[t].sock[m] # 0 PROVE Reopening(t)'
          OBVIOUS
      <4>1. PICK v \in Workers : Handles(v, t) /\ Reopens(v)
            BY DEF Reopening
      <4>2. v # w
            BY <2>1, <4>1 DEF Handles, Reopens
      <4> QED
          BY <2>1, <4>1, <4>2 DEF Reopening, Reopens, Handles, OthersWork
    <3> QED
        BY <3>1, <3>2, <2>2, <1>t, <1>p, LegStays
  <2>4. ASSUME NEW v \in Workers PROVE TakeOk(v)'
    <3>1. CASE v # w
      <4>1. pc'[v] = pc[v]
            BY <2>1, <3>1 DEF OthersWork
      <4>2. pc[v].at = "take" =>
              /\ sess'[pc[v].s].peer[pc[v].leg] = sess[pc[v].s].peer[pc[v].leg]
              /\ sess[pc[v].s].moved => sess'[pc[v].s].moved
            BY <2>1, <1>r DEF SameButSocks, OthersRest
      <4> QED
          BY <4>1, <4>2, <2>2, <1>p, TakeStays
    <3>2. CASE v = w
      <4>1. sess'[s].peer = sess[s].peer
            BY <2>1 DEF SameButSocks
      <4> QED
          BY <2>1, <2>2, <3>2, <4>1 DEF TakeOk, NodesKept
    <3> QED
        BY <3>1, <3>2
  <2> QED
      BY <2>3, <2>4 DEF PeerInv
\* A worker takes socket k for its leg.
<1>13. ASSUME NEW w \in Workers, NEW k, pc[w].at = "take", pc[w].s \in Sigs, pc[w].leg \in Legs,
              OthersWork(w), SameButSocks(pc[w].s), pc'[w].at # "take",
              \A m \in Legs : sess'[pc[w].s].sock[m] = IF m = pc[w].leg THEN k ELSE sess[pc[w].s].sock[m],
              \A x \in server_list_v2' : x.sock = k =>
                \/ sess[pc[w].s].peer[pc[w].leg] \in {None, x.peer}
                \/ sess[pc[w].s].moved /\ pc[w].leg \in Side("upf"),
              \A x \in server_list_v2' :
                \/ \E n \in server_list_v2 : x.sock = n.sock /\ x.peer = n.peer
                \/ /\ \A t \in Sigs, m \in Legs : x.sock # sess[t].sock[m]
                   /\ \A v \in Workers : x.sock # pc[v].node
       PROVE  PeerInv'
  <2>1. ASSUME NEW t \in Sigs, NEW m \in Legs, NEW x \in server_list_v2', x.sock = sess'[t].sock[m]
        PROVE  \/ sess'[t].peer[m] \in {None, x.peer}
               \/ sess'[t].moved /\ m \in Side("upf")
               \/ Reopening(t)' /\ m \in Side("gnb")
    <3>1. sess'[t].peer = sess[t].peer /\ sess'[t].moved = sess[t].moved
          BY <1>13 DEF SameButSocks, OthersRest
    <3>2. CASE t = pc[w].s /\ m = pc[w].leg
          BY <1>13, <2>1, <3>1, <3>2
    <3>3. CASE ~(t = pc[w].s /\ m = pc[w].leg)
      <4>1. sess'[t].sock[m] = sess[t].sock[m]
            BY <1>13, <3>3 DEF SameButSocks, OthersRest
      <4>2. PICK n \in server_list_v2 : x.sock = n.sock /\ x.peer = n.peer
            BY <1>13, <2>1, <4>1
      <4>3. LegOk(t, m)
            BY <1>p
      <4>4. Reopening(t) => Reopening(t)'
            BY <1>13 DEF Reopening, Reopens, Handles, OthersWork
      <4> QED
          BY <2>1, <3>1, <4>1, <4>2, <4>3, <4>4 DEF LegOk
    <3> QED
        BY <3>2, <3>3
  <2>2. ASSUME NEW v \in Workers, NEW x \in server_list_v2', pc'[v].at = "take", x.sock = pc'[v].node
        PROVE  \/ sess'[pc'[v].s].peer[pc'[v].leg] \in {None, x.peer}
               \/ sess'[pc'[v].s].moved /\ pc'[v].leg \in Side("upf")
    <3>1. v # w /\ pc'[v] = pc[v] /\ pc[v].s \in Sigs
          BY <1>13, <2>2, <1>r DEF OthersWork
    <3>2. sess'[pc[v].s].peer = sess[pc[v].s].peer /\ sess'[pc[v].s].moved = sess[pc[v].s].moved
          BY <1>13, <3>1 DEF SameButSocks, OthersRest
    <3>3. PICK n \in server_list_v2 : x.sock = n.sock /\ x.peer = n.peer
          BY <1>13, <2>2, <3>1
    <3> QED
        BY <2>2, <3>1, <3>2, <3>3, <1>p DEF TakeOk
  <2> QED
      BY <2>1, <2>2 DEF PeerInv, LegOk, TakeOk
<1>14. ASSUME NEW w \in Workers, ShareNode(w) PROVE PeerInv'
  <2>1. /\ pc[w].at = "take" /\ pc[w].s \in Sigs /\ pc[w].leg \in Legs /\ OthersWork(w)
        /\ pc'[w] = Idle /\ SameButSocks(pc[w].s)
        /\ \A m \in Legs : sess'[pc[w].s].sock[m] = IF m = pc[w].leg THEN pc[w].node ELSE sess[pc[w].s].sock[m]
        /\ pc[w].node \in Socks
        /\ server_list_v2' = Change(NodeOf(pc[w].node), [NodeOf(pc[w].node) EXCEPT !.ref = NodeOf(pc[w].node).ref + 1])
        BY <1>14, <1>t, ShareEffect
  <2>2. \A x \in server_list_v2' : \E n \in server_list_v2 : x.sock = n.sock /\ x.peer = n.peer
        BY <2>1, <1>t, ShareNodes
  <2>3. TakeOk(w)
        BY <1>p
  <2>4. ASSUME NEW x \in server_list_v2', x.sock = pc[w].node
        PROVE  \/ sess[pc[w].s].peer[pc[w].leg] \in {None, x.peer}
               \/ sess[pc[w].s].moved /\ pc[w].leg \in Side("upf")
        BY <2>1, <2>2, <2>3, <2>4 DEF TakeOk
  <2> QED
      BY <2>1, <2>2, <2>4, <1>13, IdleIsDoing
<1>15. ASSUME NEW w \in Workers, OpenNode(w) PROVE PeerInv'
  <2> DEFINE s == pc[w].s
             l == pc[w].leg
  <2>1. /\ pc[w].at = "take" /\ s \in Sigs /\ l \in Legs /\ OthersWork(w) /\ SameButSocks(s)
        /\ pc'[w].at # "take"
        /\ \/ \E k \in FreeSocks : Opens(s, l, k)
           \/ UNCHANGED <<server_list_v2, sess>>
        BY <1>15, <1>t, OpenEffect, IdleIsDoing
  <2>2. CASE UNCHANGED <<server_list_v2, sess>>
        BY <2>1, <2>2, <1>u, <1>4 DEF Reopens
  <2>3. ASSUME NEW k \in FreeSocks, Opens(s, l, k) PROVE PeerInv'
    <3>1. /\ \A t \in Sigs, m \in Legs : sess[t].sock[m] # k
          /\ \A v \in Workers : pc[v].node # k
          BY <1>t, FreeSocksAre
    <3>2. \A x \in server_list_v2' :
            \/ x \in server_list_v2 /\ x.sock # k
            \/ x.sock = k /\ x.peer = sess[s].peer[l]
          BY <1>t, <2>1, <2>3, OpenNodes
    <3>3. \A m \in Legs : sess'[s].sock[m] = IF m = l THEN k ELSE sess[s].sock[m]
          BY <2>3 DEF Opens
    <3>4. ASSUME NEW x \in server_list_v2', x.sock = k
          PROVE  \/ sess[pc[w].s].peer[pc[w].leg] \in {None, x.peer}
                 \/ sess[pc[w].s].moved /\ pc[w].leg \in Side("upf")
          BY <3>2, <3>4
    <3>5. ASSUME NEW x \in server_list_v2'
          PROVE  \/ \E n \in server_list_v2 : x.sock = n.sock /\ x.peer = n.peer
                 \/ /\ \A t \in Sigs, m \in Legs : x.sock # sess[t].sock[m]
                    /\ \A v \in Workers : x.sock # pc[v].node
          BY <3>1, <3>2, <3>5
    <3> QED
        BY <2>1, <3>3, <3>4, <3>5, <1>13
  <2> QED
      BY <2>1, <2>2, <2>3
<1> QED
    BY <1>1, <1>2, <1>3, <1>5, <1>6, <1>7, <1>8, <1>9, <1>10, <1>11, <1>12, <1>14, <1>15, StepKinds

-----------------------------------------------------------------------------
(* Counting.  A leg holds a reference while its session is listed and the   *)
(* session's release has not given it back.                                 *)

Holds(s, l) == /\ sess[s].state = "listed"
               /\ \A w \in Workers : Handles(w, s) => l \notin Given(w)
Stands(s, l, k) == Holds(s, l) /\ sess[s].sock[l] = k

CountInv == overtaken \/
  /\ \A n \in server_list_v2 : n.ref = Cardinality(Held(n.sock)) + n.lost
  /\ \A s \in Sigs, l \in Legs : Holds(s, l) /\ sess[s].sock[l] # 0 => sess[s].sock[l] \in Socks

\* Held(k) is the set of the legs that stand on k, and finite.
LEMMA HeldAre ==
  ASSUME NEW k
  PROVE  /\ \A s, l : <<s, l>> \in Held(k) <=> s \in Sigs /\ l \in Legs /\ Stands(s, l, k)
         /\ Held(k) \subseteq Sigs \X Legs
         /\ IsFiniteSet(Held(k)) /\ Cardinality(Held(k)) \in Nat
<1>1. /\ \A s, l : <<s, l>> \in Held(k) <=> s \in Sigs /\ l \in Legs /\ Stands(s, l, k)
      /\ Held(k) \subseteq Sigs \X Legs
      BY DEF Held, Stands, Holds
<1>2. IsFiniteSet(Legs)
  <2>1. IsFiniteSet({}) /\ IsFiniteSet({} \cup {"upf"})
        BY FS_EmptySet, FS_AddElement
  <2>2. IsFiniteSet(({} \cup {"upf"}) \cup {"upf6"})
        BY <2>1, FS_AddElement
  <2>3. IsFiniteSet((({} \cup {"upf"}) \cup {"upf6"}) \cup {"gnb"})
        BY <2>2, FS_AddElement
  <2>4. IsFiniteSet(((({} \cup {"upf"}) \cup {"upf6"}) \cup {"gnb"}) \cup {"gnb6"})
        BY <2>3, FS_AddElement
  <2>5. Legs = ((({} \cup {"upf"}) \cup {"upf6"}) \cup {"gnb"}) \cup {"gnb6"}
        BY DEF Legs
  <2> QED
      BY <2>4, <2>5
<1>3. IsFiniteSet(Sigs \X Legs)
      BY <1>2, MediaAssumption, FS_Product
<1>4. IsFiniteSet(Held(k))
      BY <1>1, <1>3, FS_Subset
<1> QED
    BY <1>1, <1>4, FS_CardinalityType

\* The same, of the next state.
LEMMA HeldNextAre ==
  ASSUME NEW k
  PROVE  /\ \A s, l : <<s, l>> \in Held(k)' <=> s \in Sigs /\ l \in Legs /\ Stands(s, l, k)'
         /\ Held(k)' \subseteq Sigs \X Legs
BY DEF Held, Stands, Holds

\* Legs that come, go or stay decide how many are held.
LEMMA HeldSame ==
  ASSUME NEW k, \A s \in Sigs, l \in Legs : Stands(s, l, k)' <=> Stands(s, l, k)
  PROVE  Held(k)' = Held(k)
<1>1. \A x \in Sigs \X Legs : x = <<x[1], x[2]>> /\ x[1] \in Sigs /\ x[2] \in Legs
      OBVIOUS
<1>2. ASSUME NEW s \in Sigs, NEW l \in Legs PROVE <<s, l>> \in Held(k)' <=> <<s, l>> \in Held(k)
      BY HeldAre, HeldNextAre
<1>3. Held(k) \subseteq Sigs \X Legs /\ Held(k)' \subseteq Sigs \X Legs
      BY HeldAre, HeldNextAre
<1> QED
    BY <1>1, <1>2, <1>3

\* One leg goes.
LEMMA HeldLess ==
  ASSUME NEW k, NEW t \in Sigs, NEW m \in Legs, Stands(t, m, k),
         \A s \in Sigs, l \in Legs : Stands(s, l, k)' <=> Stands(s, l, k) /\ ~(s = t /\ l = m)
  PROVE  Cardinality(Held(k)') = Cardinality(Held(k)) - 1 /\ IsFiniteSet(Held(k)')
<1>1. \A x \in Sigs \X Legs : x = <<x[1], x[2]>> /\ x[1] \in Sigs /\ x[2] \in Legs
      OBVIOUS
<1>2. Held(k)' = Held(k) \ {<<t, m>>}
      BY <1>1, HeldAre, HeldNextAre
<1>3. <<t, m>> \in Held(k)
      BY HeldAre
<1>4. IsFiniteSet(Held(k))
      BY HeldAre
<1> QED
    BY <1>2, <1>3, <1>4, FS_RemoveElement

\* One leg comes.
LEMMA HeldMore ==
  ASSUME NEW k, NEW t \in Sigs, NEW m \in Legs, ~Stands(t, m, k),
         \A s \in Sigs, l \in Legs : Stands(s, l, k)' <=> Stands(s, l, k) \/ (s = t /\ l = m)
  PROVE  Cardinality(Held(k)') = Cardinality(Held(k)) + 1
<1>1. \A x \in Sigs \X Legs : x = <<x[1], x[2]>> /\ x[1] \in Sigs /\ x[2] \in Legs
      OBVIOUS
<1>2. Held(k)' = Held(k) \cup {<<t, m>>}
      BY <1>1, HeldAre, HeldNextAre
<1>3. <<t, m>> \notin Held(k)
      BY HeldAre
<1>4. IsFiniteSet(Held(k))
      BY HeldAre
<1> QED
    BY <1>2, <1>3, <1>4, FS_AddElement

\* Nobody stands on it.
LEMMA HeldNone ==
  ASSUME NEW k, \A s \in Sigs, l \in Legs : ~Stands(s, l, k)
  PROVE  Cardinality(Held(k)) = 0
<1>1. \A x \in Sigs \X Legs : x = <<x[1], x[2]>> /\ x[1] \in Sigs /\ x[2] \in Legs
      OBVIOUS
<1>2. Held(k) = {}
      BY <1>1, HeldAre
<1> QED
    BY <1>2, FS_EmptySet

\* Only a worker in the middle of a release has given references back.
LEMMA GivenNone ==
  ASSUME NEW w \in Workers
  PROVE  /\ pc[w].at \notin {"upf6", "gnb", "gnb6", "unlist"} => Given(w) = {}
         /\ pc'[w].at \notin {"upf6", "gnb", "gnb6", "unlist"} => Given(w)' = {}
         /\ pc[w].at = "unlist" => Given(w) = Legs
         /\ pc[w].at \in Legs => pc[w].at \notin Given(w)
         /\ pc[w].at \in Legs /\ pc'[w].at = AfterClose[pc[w].at] =>
               \A l \in Legs : l \in Given(w)' <=> l \in Given(w) \/ l = pc[w].at
BY DEF Given, Legs, AfterClose

\* Who holds what stays in a step of a worker that gives nothing back and leaves
\* the session's state alone.
LEMMA HoldsStay ==
  ASSUME NEW s, sess'[s].state = sess[s].state,
         \A v \in Workers : pc'[v] = pc[v] \/ (Given(v) = {} /\ Given(v)' = {})
  PROVE  \A l \in Legs : Holds(s, l)' <=> Holds(s, l)
<1>1. \A v \in Workers : pc'[v] = pc[v] => Given(v)' = Given(v)
      BY DEF Given
<1> QED
    BY <1>1 DEF Holds, Handles

\* A session nobody handles, or whose sockets are being opened, holds all its legs.
LEMMA OpenerHolds ==
  ASSUME MediaTypes, OpenInv, ~overtaken, NEW w \in Workers, Opening(w)
  PROVE  \A m \in Legs : Holds(pc[w].s, m)
<1>1. OpenOk(w)
      BY DEF OpenInv
<1>2. \A v \in Workers : Handles(v, pc[w].s) => Given(v) = {}
      BY <1>1, GivenNone DEF OpenOk, Opening
<1> QED
    BY <1>1, <1>2 DEF Holds, OpenOk

\* A step that frees no node and changes nobody's standing on a socket.
LEMMA CountStays ==
  ASSUME ListTypes, CountInv, ~overtaken, MediaTypes', UNCHANGED server_list_v2,
         \A s \in Sigs, l \in Legs, k \in 1..MaxSock : Stands(s, l, k)' <=> Stands(s, l, k)
  PROVE  CountInv'
<1>1. \A n \in server_list_v2 : n.sock \in 1..MaxSock
      BY TheNode
<1>2. ASSUME NEW n \in server_list_v2 PROVE n.ref = Cardinality(Held(n.sock)') + n.lost
  <2>1. Held(n.sock)' = Held(n.sock)
        BY <1>1, HeldSame
  <2> QED
      BY <2>1 DEF CountInv
<1>3. ASSUME NEW s \in Sigs, NEW l \in Legs, Holds(s, l)', sess'[s].sock[l] # 0
      PROVE  sess'[s].sock[l] \in Socks
  <2>1. sess'[s].sock[l] \in 1..MaxSock
        BY <1>3, Numbers DEF MediaTypes, Session
  <2>2. Stands(s, l, sess'[s].sock[l])
        BY <2>1, <1>3 DEF Stands
  <2> QED
      BY <2>2, <1>3 DEF Stands, CountInv
<1>4. Socks' = Socks
      BY DEF Socks
<1>5. \A n \in server_list_v2' : n.ref = Cardinality(Held(n.sock))' + n.lost
      BY <1>2
<1> QED
    BY <1>3, <1>4, <1>5 DEF CountInv

\* A step that changes standings and counts: node by node.
LEMMA CountMoves ==
  ASSUME MediaTypes',
         \A x \in server_list_v2' : x.ref = Cardinality(Held(x.sock)') + x.lost,
         \A s \in Sigs, l \in Legs, k \in 1..MaxSock : Stands(s, l, k)' => k \in Socks'
  PROVE  CountInv'
<1>1. ASSUME NEW s \in Sigs, NEW l \in Legs, Holds(s, l)', sess'[s].sock[l] # 0
      PROVE  sess'[s].sock[l] \in Socks'
  <2>1. sess'[s].sock[l] \in 1..MaxSock
        BY <1>1, Numbers DEF MediaTypes, Session
  <2> QED
      BY <2>1, <1>1 DEF Stands
<1> QED
    BY <1>1 DEF CountInv

\* A search forgets both sockets of a side: as many legs stop standing on a socket
\* as are counted lost.
LEMMA Forgotten ==
  ASSUME NEW k \in 1..MaxSock, NEW s \in Sigs, NEW l \in {"upf", "gnb"},
         \A m \in Legs : Holds(s, m),
         \A t \in Sigs, m \in Legs : Stands(t, m, k)' <=> Stands(t, m, k) /\ ~(t = s /\ m \in Side(l))
  PROVE  Cardinality(Held(k)') + Cardinality(On(s, l, k)) = Cardinality(Held(k))
<1> DEFINE x == Sixth(l)
<1>1. Side(l) = {l, x} /\ x # l /\ l \in Legs /\ x \in Legs
      BY SidesAre, SixthLeg
<1>2. \A m \in Legs : Stands(s, m, k) <=> sess[s].sock[m] = k
      BY DEF Stands
<1>3. \A z \in Sigs \X Legs : z = <<z[1], z[2]>> /\ z[1] \in Sigs /\ z[2] \in Legs
      OBVIOUS
<1>4. IsFiniteSet(Held(k)) /\ Cardinality(Held(k)) \in Nat
      BY HeldAre
<1>5. Held(k)' = (Held(k) \ {<<s, l>>}) \ {<<s, x>>}
  <2>1. ASSUME NEW t \in Sigs, NEW m \in Legs
        PROVE  <<t, m>> \in Held(k)' <=> <<t, m>> \in (Held(k) \ {<<s, l>>}) \ {<<s, x>>}
        BY <1>1, HeldAre, HeldNextAre
  <2>2. Held(k) \subseteq Sigs \X Legs /\ Held(k)' \subseteq Sigs \X Legs
        BY HeldAre, HeldNextAre
  <2> QED
      BY <1>3, <2>1, <2>2
<1> HIDE DEF x
<1>6. CASE Stands(s, l, k)
  <2>1. /\ Cardinality(Held(k) \ {<<s, l>>}) = Cardinality(Held(k)) - 1
        /\ IsFiniteSet(Held(k) \ {<<s, l>>})
        BY <1>1, <1>4, <1>6, HeldAre, FS_RemoveElement
  <2>2. CASE Stands(s, x, k)
    <3>1. <<s, x>> \in Held(k) \ {<<s, l>>}
          BY <1>1, <2>2, HeldAre
    <3> DEFINE R == Held(k) \ {<<s, l>>}
    <3>2. Cardinality(R \ {<<s, x>>}) = Cardinality(R) - 1
      <4>1. IsFiniteSet(R) /\ <<s, x>> \in R
            BY <2>1, <3>1
      <4> HIDE DEF R
      <4> QED
          BY <4>1, FS_RemoveElement
    <3>3. On(s, l, k) = {l} \cup {x}
          BY <1>1, <1>2, <1>6, <2>2 DEF On, x
    <3>4. IsFiniteSet({l}) /\ Cardinality({l}) = 1
          BY FS_Singleton
    <3>5. Cardinality({l} \cup {x}) = 2
      <4>1. x \notin {l}
            BY <1>1
      <4>2. Cardinality({l} \cup {x}) = Cardinality({l}) + 1
            BY <3>4, <4>1, FS_AddElement
      <4> QED
          BY <3>4, <4>2
    <3>6. Cardinality(Held(k)') = Cardinality(R) - 1
          BY <1>5, <3>2
    <3>7. Cardinality(R) = Cardinality(Held(k)) - 1
          BY <2>1
    <3>8. Cardinality(On(s, l, k)) = 2
          BY <3>3, <3>5
    <3> HIDE DEF R
    <3> QED
        BY <3>6, <3>7, <3>8, <1>4
  <2>3. CASE ~Stands(s, x, k)
    <3>1. Held(k)' = Held(k) \ {<<s, l>>}
          BY <1>1, <1>5, <2>3, HeldAre
    <3>2. On(s, l, k) = {l}
          BY <1>1, <1>2, <1>6, <2>3 DEF On, x
    <3>3. Cardinality({l}) = 1
          BY FS_Singleton
    <3> QED
        BY <2>1, <3>1, <3>2, <3>3, <1>4
  <2> QED
      BY <2>2, <2>3
<1>7. CASE ~Stands(s, l, k)
  <2>1. Held(k)' = Held(k) \ {<<s, x>>}
        BY <1>1, <1>5, <1>7, HeldAre
  <2>2. CASE Stands(s, x, k)
    <3>1. Cardinality(Held(k)') = Cardinality(Held(k)) - 1
      <4>1. <<s, x>> \in Held(k)
            BY <1>1, <2>2, HeldAre
      <4>2. Cardinality(Held(k) \ {<<s, x>>}) = Cardinality(Held(k)) - 1
            BY <1>4, <4>1, FS_RemoveElement
      <4> QED
          BY <2>1, <4>2
    <3>2. On(s, l, k) = {x}
          BY <1>1, <1>2, <1>7, <2>2 DEF On, x
    <3>3. Cardinality({x}) = 1
          BY FS_Singleton
    <3> QED
        BY <3>1, <3>2, <3>3, <1>4
  <2>3. CASE ~Stands(s, x, k)
    <3>1. Held(k)' = Held(k)
          BY <1>1, <2>1, <2>3, HeldAre
    <3>2. On(s, l, k) = {}
          BY <1>1, <1>2, <1>7, <2>3 DEF On, x
    <3> QED
        BY <3>1, <3>2, <1>4, FS_EmptySet
  <2> QED
      BY <2>2, <2>3
<1> QED
    BY <1>6, <1>7

\* Every step keeps the count: a leg comes with a reference, leaves with one, or
\* is forgotten and its reference counted as lost.
LEMMA CountKept ==
  ASSUME MediaInv, MediaInv', OpenInv, CountInv, [Next]_vars
  PROVE  CountInv'
<1>t. MediaTypes /\ ListTypes /\ MediaTypes' /\ ListTypes'
      BY DEF MediaInv, MediaTypes
<1>o. overtaken => overtaken'
      BY OpenKept
<1> SUFFICES ASSUME ~overtaken, overtaken' # TRUE PROVE CountInv'
    BY <1>o DEF CountInv
<1>i. \A w \in Workers : OpenOk(w)
      BY DEF OpenInv
<1>c. /\ \A n \in server_list_v2 : n.ref = Cardinality(Held(n.sock)) + n.lost
      /\ \A s \in Sigs, l \in Legs, k \in 1..MaxSock : Stands(s, l, k) => k \in Socks
      BY Numbers DEF CountInv, Stands
<1>n. \A n \in server_list_v2 : n.sock \in 1..MaxSock /\ n.ref \in Nat /\ n.lost \in Nat
      BY <1>t DEF ListTypes, SharedSocket
<1>k. \A k : Cardinality(Held(k)) \in Nat
      BY HeldAre
\* A worker that gives nothing back and changes no socket.
<1>1. ASSUME NEW w \in Workers, OthersWork(w), UNCHANGED server_list_v2,
             Given(w) = {} /\ Given(w)' = {},
             \A s \in Sigs : sess'[s].state = sess[s].state /\ sess'[s].sock = sess[s].sock
      PROVE  CountInv'
  <2>1. \A v \in Workers : pc'[v] = pc[v] \/ (Given(v) = {} /\ Given(v)' = {})
        BY <1>1 DEF OthersWork
  <2>2. ASSUME NEW s \in Sigs, NEW l \in Legs, NEW k \in 1..MaxSock
        PROVE  Stands(s, l, k)' <=> Stands(s, l, k)
        BY <1>1, <2>1, HoldsStay DEF Stands
  <2> QED
      BY <1>1, <2>2, <1>t, CountStays
<1>2. CASE UNCHANGED core
  <2>1. ASSUME NEW s \in Sigs, NEW l \in Legs, NEW k \in 1..MaxSock
        PROVE  Stands(s, l, k)' <=> Stands(s, l, k)
        BY <1>2 DEF core, Stands, Holds, Handles, Given
  <2> QED
      BY <1>2, <2>1, <1>t, CountStays DEF core
<1>3. ASSUME NEW s \in Sigs, FreeSession(s) PROVE CountInv'
  <2>1. /\ UNCHANGED <<pc, server_list_v2>> /\ OthersRest(s)
        /\ sess[s].state = "unlisted" /\ sess'[s].state = "freed"
        BY <1>3, <1>t, FreeEffect
  <2>2. ASSUME NEW t \in Sigs, NEW l \in Legs, NEW k \in 1..MaxSock
        PROVE  Stands(t, l, k)' <=> Stands(t, l, k)
    <3>1. CASE t = s
          BY <2>1, <3>1 DEF Stands, Holds
    <3>2. CASE t # s
      <4>1. sess'[t] = sess[t]
            BY <2>1, <3>2 DEF OthersRest
      <4>2. Holds(t, l)' <=> Holds(t, l)
            BY <2>1, <4>1, HoldsStay
      <4> QED
          BY <4>1, <4>2 DEF Stands
    <3> QED
        BY <3>1, <3>2
  <2> QED
      BY <2>1, <2>2, <1>t, CountStays
<1>4. ASSUME NEW w \in Workers, NEW s \in Sigs, HandleUpfSetup(w, s) PROVE CountInv'
  <2>1. /\ UNCHANGED <<sess, server_list_v2>> /\ OthersWork(w)
        /\ pc[w] = Idle /\ pc'[w].at = "claim"
        BY <1>4, <1>t, SetupEffect
  <2>2. Given(w) = {} /\ Given(w)' = {}
        BY <2>1, IdleIsDoing, GivenNone
  <2> QED
      BY <2>1, <2>2, <1>1
<1>5. ASSUME NEW w \in Workers, NEW s \in Sigs, HandleGnbSetup(w, s) PROVE CountInv'
  <2>1. /\ UNCHANGED server_list_v2 /\ OthersWork(w) /\ pc[w] = Idle /\ pc'[w].at = "find"
        /\ OthersRest(s) /\ sess'[s].state = sess[s].state /\ sess'[s].sock = sess[s].sock
        BY <1>5, <1>t, GnbSetupEffect
  <2>2. Given(w) = {} /\ Given(w)' = {}
        BY <2>1, IdleIsDoing, GivenNone
  <2>3. \A t \in Sigs : sess'[t].state = sess[t].state /\ sess'[t].sock = sess[t].sock
        BY <2>1 DEF OthersRest
  <2> QED
      BY <2>1, <2>2, <2>3, <1>1
<1>6. ASSUME NEW w \in Workers, NEW s \in Sigs, HandleUpfUpdate(w, s) PROVE CountInv'
  <2>1. /\ UNCHANGED <<pc, server_list_v2>>
        /\ OthersRest(s) /\ sess'[s].state = sess[s].state /\ sess'[s].sock = sess[s].sock
        BY <1>6, <1>t, UpfUpdateEffect
  <2>2. \A t \in Sigs : sess'[t].state = sess[t].state /\ sess'[t].sock = sess[t].sock
        BY <2>1 DEF OthersRest
  <2>3. ASSUME NEW t \in Sigs, NEW l \in Legs, NEW k \in 1..MaxSock
        PROVE  Stands(t, l, k)' <=> Stands(t, l, k)
        BY <2>1, <2>2, HoldsStay DEF Stands
  <2> QED
      BY <2>1, <2>3, <1>t, CountStays
<1>7. ASSUME NEW w \in Workers, ClaimId(w) PROVE CountInv'
  <2>1. /\ UNCHANGED <<sess, server_list_v2>> /\ OthersWork(w) /\ pc[w].at = "claim"
        /\ pc'[w].at \in {"claim", "install"}
        BY <1>7, <1>t, ClaimEffect
  <2>2. Given(w) = {} /\ Given(w)' = {}
        BY <2>1, GivenNone
  <2> QED
      BY <2>1, <2>2, <1>1
<1>8. ASSUME NEW w \in Workers, NEW s \in Sigs, HandleRelease(w, s) PROVE CountInv'
  <2>1. /\ UNCHANGED <<sess, server_list_v2>> /\ OthersWork(w) /\ pc[w] = Idle /\ pc'[w].at = "upf"
        BY <1>8, <1>t, ReleaseEffect
  <2>2. Given(w) = {} /\ Given(w)' = {}
        BY <2>1, IdleIsDoing, GivenNone
  <2> QED
      BY <2>1, <2>2, <1>1
\* The sockets of a session that is entered are all to be opened.
<1>9. ASSUME NEW w \in Workers, InstallSession(w) PROVE CountInv'
  <2>1. pc[w].at = "install" /\ pc[w].node \in Ids
        BY <1>9 DEF InstallSession, MediaInv, ClaimInv
  <2>2. /\ UNCHANGED server_list_v2 /\ OthersRest(pc[w].s) /\ OthersWork(w) /\ pc[w].s \in Sigs
        /\ \A l \in Legs : sess'[pc[w].s].sock[l] = 0
        /\ pc'[w].at = "find"
        BY <1>9, <1>t, <2>1, InstallEffect
  <2>3. sess[pc[w].s].state # "listed"
        BY <2>1 DEF MediaInv, StateInv
  <2>4. \A v \in Workers : pc'[v] = pc[v] \/ (Given(v) = {} /\ Given(v)' = {})
        BY <2>1, <2>2, GivenNone DEF OthersWork
  <2>5. ASSUME NEW t \in Sigs, NEW l \in Legs, NEW k \in 1..MaxSock
        PROVE  Stands(t, l, k)' <=> Stands(t, l, k)
    <3>1. CASE t = pc[w].s
          BY <2>2, <2>3, <3>1 DEF Stands, Holds
    <3>2. CASE t # pc[w].s
      <4>1. sess'[t] = sess[t]
            BY <2>2, <3>2 DEF OthersRest
      <4>2. Holds(t, l)' <=> Holds(t, l)
            BY <2>4, <4>1, HoldsStay
      <4> QED
          BY <4>1, <4>2 DEF Stands
    <3> QED
        BY <3>1, <3>2
  <2> QED
      BY <2>2, <2>5, <1>t, CountStays
\* The session leaves the table when its release has given all legs back.
<1>10. ASSUME NEW w \in Workers, Unlist(w) PROVE CountInv'
  <2>1. /\ UNCHANGED server_list_v2 /\ OthersWork(w) /\ pc[w].at = "unlist" /\ pc'[w] = Idle
        /\ pc[w].s \in Sigs /\ OthersRest(pc[w].s) /\ sess'[pc[w].s].state = "unlisted"
        BY <1>10, <1>t, UnlistEffect
  <2>2. Given(w) = Legs /\ Given(w)' = {}
        BY <2>1, IdleIsDoing, GivenNone
  <2>3. ASSUME NEW t \in Sigs, NEW l \in Legs, NEW k \in 1..MaxSock
        PROVE  Stands(t, l, k)' <=> Stands(t, l, k)
    <3>1. CASE t = pc[w].s
          BY <2>1, <2>2, <3>1 DEF Stands, Holds, Handles
    <3>2. CASE t # pc[w].s
      <4>1. sess'[t] = sess[t]
            BY <2>1, <3>2 DEF OthersRest
      <4>2. \A v \in Workers : v # w => (Handles(v, t)' <=> Handles(v, t)) /\ Given(v)' = Given(v)
            BY <2>1 DEF OthersWork, Handles, Given
      <4>3. ~Handles(w, t) /\ ~Handles(w, t)'
            BY <2>1, <3>2, IdleIsDoing, MediaAssumption DEF Handles
      <4> QED
          BY <4>1, <4>2, <4>3 DEF Stands, Holds
    <3> QED
        BY <3>1, <3>2
  <2> QED
      BY <2>1, <2>3, <1>t, CountStays
\* A release gives one leg back.
<1>11. ASSUME NEW w \in Workers, CloseLeg(w) PROVE CountInv'
  <2> DEFINE s == pc[w].s
             l == pc[w].at
  <2>k. PICK k : k = sess[s].sock[l]
        OBVIOUS
  <2>1. /\ UNCHANGED sess /\ s \in Sigs /\ l \in Legs /\ server_list_v2' = DropRef(k)
        /\ OthersWork(w) /\ pc'[w].at = AfterClose[l] /\ pc'[w].s = s
        BY <1>11, <1>t, <2>k, CloseEffect
  <2>2. sess[s].state = "listed"
        BY <2>1 DEF MediaInv, StateInv
  <2>3. \A v \in Workers : v # w /\ Handles(v, s) => Given(v) = {}
    <3>1. ~Answered(w)
          BY <2>1 DEF Answered, Legs
    <3> QED
        BY <2>1, <3>1, <1>t, GivenNone DEF MediaInv, OneAtATime, Handles, Answered, MediaTypes, Legs
  <2>4. l \notin Given(w) /\ \A m \in Legs : m \in Given(w)' <=> m \in Given(w) \/ m = l
        BY <2>1, GivenNone
  <2>5. Stands(s, l, k)
        BY <2>k, <2>2, <2>3, <2>4 DEF Stands, Holds
  <2>6. ASSUME NEW t \in Sigs, NEW m \in Legs
        PROVE  Holds(t, m)' <=> Holds(t, m) /\ ~(t = s /\ m = l)
    <3>1. \A v \in Workers : v # w => (Handles(v, t)' <=> Handles(v, t)) /\ Given(v)' = Given(v)
          BY <2>1 DEF OthersWork, Handles, Given
    <3>2. (Handles(w, t)' <=> Handles(w, t)) /\ (Handles(w, t) <=> t = s)
          BY <2>1 DEF Handles
    <3>3. sess'[t].state = sess[t].state
          BY <2>1
    <3>4. \A v \in Workers : (Handles(v, t) => m \notin Given(v)) /\ ~(v = w /\ t = s /\ m = l)
                             <=> (Handles(v, t)' => m \notin Given(v)')
          BY <2>4, <3>1, <3>2
    <3> QED
        BY <2>1, <3>2, <3>3, <3>4 DEF Holds
  <2>7. ASSUME NEW t \in Sigs, NEW m \in Legs, NEW j
        PROVE  Stands(t, m, j)' <=> Stands(t, m, j) /\ ~(t = s /\ m = l)
        BY <2>1, <2>6 DEF Stands
  <2>8. /\ \A x \in server_list_v2' : \E n \in server_list_v2 :
             /\ x.sock = n.sock /\ x.peer = n.peer /\ x.lost = n.lost
             /\ x.ref = IF n.sock = k THEN n.ref - 1 ELSE n.ref
        /\ \A j \in Socks : j \notin Socks' => j = k /\ NodeOf(k).ref <= 1
        BY <2>1, <1>t, DropRefNodes
  <2>9. Cardinality(Held(k)') = Cardinality(Held(k)) - 1 /\ IsFiniteSet(Held(k)')
        BY <2>1, <2>5, <2>7, HeldLess
  <2>10. \A j : j # k => Held(j)' = Held(j)
    <3>1. ASSUME NEW j, j # k PROVE \A t \in Sigs, m \in Legs : Stands(t, m, j)' <=> Stands(t, m, j)
          BY <2>k, <2>7, <3>1 DEF Stands
    <3> QED
        BY <3>1, HeldSame
  <2>11. ASSUME NEW x \in server_list_v2' PROVE x.ref = Cardinality(Held(x.sock)') + x.lost
    <3>1. PICK n \in server_list_v2 :
             /\ x.sock = n.sock /\ x.lost = n.lost
             /\ x.ref = IF n.sock = k THEN n.ref - 1 ELSE n.ref
          BY <2>8
    <3>2. n.ref = Cardinality(Held(n.sock)) + n.lost /\ n.lost \in Nat /\ n.ref \in Nat
          BY <1>c, <1>n
    <3>3. CASE n.sock = k
          BY <2>9, <3>1, <3>2, <3>3, <1>k
    <3>4. CASE n.sock # k
          BY <2>10, <3>1, <3>2, <3>4
    <3> QED
        BY <3>3, <3>4
  <2>12. ASSUME NEW t \in Sigs, NEW m \in Legs, NEW j \in 1..MaxSock, Stands(t, m, j)'
         PROVE  j \in Socks'
    <3>1. j \in Socks
          BY <2>7, <2>12, <1>c
    <3> SUFFICES ASSUME j \notin Socks' PROVE FALSE
        OBVIOUS
    <3>2. j = k /\ NodeOf(k).ref <= 1
          BY <2>8, <3>1
    <3>3. NodeOf(k) \in server_list_v2 /\ NodeOf(k).sock = k
          BY <3>1, <3>2, <1>t, TheNode
    <3>4. Cardinality(Held(k)) <= 1
          BY <3>2, <3>3, <1>c, <1>n, <1>k
    <3>5. Cardinality(Held(k)') \in Nat
          BY <2>9, FS_CardinalityType
    <3>6. Cardinality(Held(k)') = 0
          BY <2>9, <3>4, <3>5, <1>k
    <3>7. <<t, m>> \in Held(k)'
          BY <2>12, <3>2, HeldNextAre
    <3> QED
        BY <2>9, <3>6, <3>7, FS_EmptySet
  <2> QED
      BY <2>11, <2>12, <1>t, CountMoves
\* A search forgets the sockets of its side.
<1>12. ASSUME NEW w \in Workers, FindNode(w) PROVE CountInv'
  <2> DEFINE s == pc[w].s
             l == pc[w].leg
  <2>1. /\ pc[w].at = "find" /\ s \in Sigs /\ l \in Legs /\ OthersWork(w) /\ pc'[w].at = "take"
        /\ SameButSocks(s)
        /\ \/ /\ l \in {"upf", "gnb"} /\ server_list_v2' = Forget(s, l)
              /\ \A m \in Legs : sess'[s].sock[m] = IF m \in Side(l) THEN 0 ELSE sess[s].sock[m]
           \/ l \notin {"upf", "gnb"} /\ UNCHANGED <<server_list_v2, sess>>
        BY <1>12, <1>t, FindEffect
  <2>2. Given(w) = {} /\ Given(w)' = {}
        BY <2>1, GivenNone
  <2>3. CASE UNCHANGED <<server_list_v2, sess>>
        BY <2>1, <2>2, <2>3, <1>1
  <2>4. CASE /\ l \in {"upf", "gnb"} /\ server_list_v2' = Forget(s, l)
             /\ \A m \in Legs : sess'[s].sock[m] = IF m \in Side(l) THEN 0 ELSE sess[s].sock[m]
    <3>1. \A m \in Legs : Holds(s, m)
          BY <2>1, <1>t, OpenerHolds DEF Opening
    <3>2. \A t \in Sigs, m \in Legs : Holds(t, m)' <=> Holds(t, m)
      <4>1. \A v \in Workers : pc'[v] = pc[v] \/ (Given(v) = {} /\ Given(v)' = {})
            BY <2>1, <2>2 DEF OthersWork
      <4>2. \A t \in Sigs : sess'[t].state = sess[t].state
            BY <2>1 DEF SameButSocks, OthersRest
      <4> QED
          BY <4>1, <4>2, HoldsStay
    <3>3. ASSUME NEW t \in Sigs, NEW m \in Legs, NEW k \in 1..MaxSock
          PROVE  Stands(t, m, k)' <=> Stands(t, m, k) /\ ~(t = s /\ m \in Side(l))
      <4>1. CASE t = s
        <5>1. sess'[s].sock[m] = IF m \in Side(l) THEN 0 ELSE sess[s].sock[m]
              BY <2>4
        <5>2. k # 0
              BY Numbers
        <5> QED
            BY <3>2, <4>1, <5>1, <5>2 DEF Stands
      <4>2. CASE t # s
            BY <2>1, <3>2, <4>2 DEF SameButSocks, OthersRest, Stands
      <4> QED
          BY <4>1, <4>2
    <3>4. /\ Socks' = Socks
          /\ \A x \in server_list_v2' : \E n \in server_list_v2 :
               /\ x.sock = n.sock /\ x.ref = n.ref
               /\ x.lost = n.lost + Cardinality(On(s, l, n.sock))
          BY <2>1, <2>4, <1>t, ForgetNodes
    <3>5. ASSUME NEW x \in server_list_v2' PROVE x.ref = Cardinality(Held(x.sock)') + x.lost
      <4>1. PICK n \in server_list_v2 :
               /\ x.sock = n.sock /\ x.ref = n.ref
               /\ x.lost = n.lost + Cardinality(On(s, l, n.sock))
            BY <3>4
      <4>2. n.ref = Cardinality(Held(n.sock)) + n.lost /\ n.lost \in Nat /\ n.sock \in 1..MaxSock
            BY <1>c, <1>n
      <4>3. Cardinality(Held(n.sock)') + Cardinality(On(s, l, n.sock)) = Cardinality(Held(n.sock))
        <5> DEFINE k == n.sock
        <5>1. k \in 1..MaxSock
              BY <4>2
        <5>2. \A t \in Sigs, m \in Legs : Stands(t, m, k)' <=> Stands(t, m, k) /\ ~(t = s /\ m \in Side(l))
              BY <3>3, <5>1
        <5> HIDE DEF k
        <5>3. Cardinality(Held(k)') + Cardinality(On(s, l, k)) = Cardinality(Held(k))
              BY <2>1, <2>4, <3>1, <5>1, <5>2, Forgotten
        <5> QED
            BY <5>3 DEF k
      <4>4. Cardinality(Held(n.sock)) \in Nat /\ Cardinality(On(s, l, n.sock)) \in Nat
            BY <1>k, OnFinite
      <4>5. IsFiniteSet(Held(n.sock)')
        <5>1. Held(n.sock)' \subseteq Held(n.sock)
          <6>1. \A z \in Sigs \X Legs : z = <<z[1], z[2]>> /\ z[1] \in Sigs /\ z[2] \in Legs
                OBVIOUS
          <6>2. ASSUME NEW t \in Sigs, NEW m \in Legs, <<t, m>> \in Held(n.sock)'
                PROVE  <<t, m>> \in Held(n.sock)
                BY <3>3, <4>2, <6>2, HeldAre, HeldNextAre
          <6>3. Held(n.sock)' \subseteq Sigs \X Legs
                BY HeldNextAre
          <6> QED
              BY <6>1, <6>2, <6>3
        <5> QED
            BY <5>1, HeldAre, FS_Subset
      <4>6. Cardinality(Held(n.sock)') \in Nat
            BY <4>5, FS_CardinalityType
      <4>7. x.ref = Cardinality(Held(n.sock)') + x.lost
            BY <4>1, <4>2, <4>3, <4>4, <4>6
      <4> QED
          BY <4>1, <4>7
    <3>6. \A t \in Sigs, m \in Legs, k \in 1..MaxSock : Stands(t, m, k)' => k \in Socks'
          BY <3>3, <3>4, <1>c
    <3> QED
        BY <3>5, <3>6, <1>t, CountMoves
  <2> QED
      BY <2>1, <2>3, <2>4
\* A leg of no socket comes to stand on socket k.
<1>13. ASSUME NEW w \in Workers, NEW k \in 1..MaxSock, pc[w].at = "take",
              pc[w].s \in Sigs, pc[w].leg \in Legs, OthersWork(w), SameButSocks(pc[w].s),
              pc'[w].at \in {"idle", "find"},
              \A m \in Legs : sess'[pc[w].s].sock[m] = IF m = pc[w].leg THEN k ELSE sess[pc[w].s].sock[m]
       PROVE  /\ Cardinality(Held(k)') = Cardinality(Held(k)) + 1
              /\ \A j \in 1..MaxSock : j # k => Held(j)' = Held(j)
              /\ \A t \in Sigs, m \in Legs, j \in 1..MaxSock :
                   Stands(t, m, j)' => Stands(t, m, j) \/ j = k
  <2> DEFINE s == pc[w].s
             l == pc[w].leg
  <2>1. sess[s].sock[l] = 0
        BY <1>13, <1>i DEF OpenOk, Opening
  <2>2. \A t \in Sigs, m \in Legs : Holds(t, m)' <=> Holds(t, m)
    <3>1. Given(w) = {} /\ Given(w)' = {}
          BY <1>13, GivenNone
    <3>2. \A v \in Workers : pc'[v] = pc[v] \/ (Given(v) = {} /\ Given(v)' = {})
          BY <1>13, <3>1 DEF OthersWork
    <3>3. \A t \in Sigs : sess'[t].state = sess[t].state
          BY <1>13 DEF SameButSocks, OthersRest
    <3> QED
        BY <3>2, <3>3, HoldsStay
  <2>3. Holds(s, l)
        BY <1>13, <1>t, OpenerHolds DEF Opening
  <2>4. k # 0 /\ ~Stands(s, l, k)
        BY <2>1, Numbers DEF Stands
  <2>5. ASSUME NEW t \in Sigs, NEW m \in Legs, NEW j \in 1..MaxSock
        PROVE  Stands(t, m, j)' <=> Stands(t, m, j) \/ (t = s /\ m = l /\ j = k)
    <3>1. CASE t = s
      <4>1. sess'[s].sock[m] = IF m = l THEN k ELSE sess[s].sock[m]
            BY <1>13
      <4>2. j # 0
            BY Numbers
      <4>3. Holds(t, m)' <=> Holds(t, m)
            BY <2>2
      <4>4. CASE m = l
            BY <2>1, <2>3, <3>1, <4>1, <4>2, <4>3, <4>4 DEF Stands
      <4>5. CASE m # l
            BY <3>1, <4>1, <4>3, <4>5 DEF Stands
      <4> QED
          BY <4>4, <4>5
    <3>2. CASE t # s
          BY <1>13, <2>2, <3>2 DEF SameButSocks, OthersRest, Stands
    <3> QED
        BY <3>1, <3>2
  <2>6. Cardinality(Held(k)') = Cardinality(Held(k)) + 1
    <3>1. \A t \in Sigs, m \in Legs : Stands(t, m, k)' <=> Stands(t, m, k) \/ (t = s /\ m = l)
          BY <2>5
    <3> QED
        BY <1>13, <2>4, <3>1, HeldMore
  <2>7. ASSUME NEW j \in 1..MaxSock, j # k PROVE Held(j)' = Held(j)
    <3>1. \A t \in Sigs, m \in Legs : Stands(t, m, j)' <=> Stands(t, m, j)
          BY <2>5, <2>7
    <3> QED
        BY <3>1, HeldSame
  <2> QED
      BY <2>5, <2>6, <2>7
<1>14. ASSUME NEW w \in Workers, ShareNode(w) PROVE CountInv'
  <2>k. PICK k : k = pc[w].node
        OBVIOUS
  <2>1. /\ pc[w].at = "take" /\ pc[w].s \in Sigs /\ pc[w].leg \in Legs /\ k \in 1..MaxSock
        /\ OthersWork(w) /\ pc'[w] = Idle /\ SameButSocks(pc[w].s)
        /\ \A m \in Legs : sess'[pc[w].s].sock[m] = IF m = pc[w].leg THEN k ELSE sess[pc[w].s].sock[m]
        /\ k \in Socks
        /\ server_list_v2' = Change(NodeOf(k), [NodeOf(k) EXCEPT !.ref = NodeOf(k).ref + 1])
        BY <2>k, <1>14, <1>t, ShareEffect
  <2>2. pc'[w].at \in {"idle", "find"}
        BY <2>1, IdleIsDoing
  <2>3. /\ Cardinality(Held(k)') = Cardinality(Held(k)) + 1
        /\ \A j \in 1..MaxSock : j # k => Held(j)' = Held(j)
        /\ \A t \in Sigs, m \in Legs, j \in 1..MaxSock : Stands(t, m, j)' => Stands(t, m, j) \/ j = k
        BY <2>1, <2>2, <1>13
  <2>4. /\ Socks' = Socks
        /\ \A x \in server_list_v2' : \E n \in server_list_v2 :
             /\ x.sock = n.sock /\ x.lost = n.lost
             /\ x.ref = IF n.sock = k THEN n.ref + 1 ELSE n.ref
        BY <2>1, <1>t, ShareNodes
  <2>5. ASSUME NEW x \in server_list_v2' PROVE x.ref = Cardinality(Held(x.sock)') + x.lost
    <3>1. PICK n \in server_list_v2 :
             /\ x.sock = n.sock /\ x.lost = n.lost
             /\ x.ref = IF n.sock = k THEN n.ref + 1 ELSE n.ref
          BY <2>4
    <3>2. n.ref = Cardinality(Held(n.sock)) + n.lost /\ n.lost \in Nat /\ n.ref \in Nat /\ n.sock \in 1..MaxSock
          BY <1>c, <1>n
    <3>3. CASE n.sock = k
          BY <2>3, <3>1, <3>2, <3>3, <1>k
    <3>4. CASE n.sock # k
          BY <2>3, <3>1, <3>2, <3>4
    <3> QED
        BY <3>3, <3>4
  <2>6. \A t \in Sigs, m \in Legs, j \in 1..MaxSock : Stands(t, m, j)' => j \in Socks'
        BY <2>1, <2>3, <2>4, <1>c
  <2> QED
      BY <2>5, <2>6, <1>t, CountMoves
<1>15. ASSUME NEW w \in Workers, OpenNode(w) PROVE CountInv'
  <2> DEFINE s == pc[w].s
             l == pc[w].leg
  <2>1. /\ pc[w].at = "take" /\ s \in Sigs /\ l \in Legs /\ OthersWork(w) /\ SameButSocks(s)
        /\ pc'[w].at \in {"idle", "find"}
        /\ \/ \E k \in FreeSocks : Opens(s, l, k)
           \/ UNCHANGED <<server_list_v2, sess>>
        BY <1>15, <1>t, OpenEffect, IdleIsDoing
  <2>2. CASE UNCHANGED <<server_list_v2, sess>>
    <3>1. Given(w) = {} /\ Given(w)' = {}
          BY <2>1, GivenNone
    <3> QED
        BY <2>1, <2>2, <3>1, <1>1
  <2>3. ASSUME NEW k \in FreeSocks, Opens(s, l, k) PROVE CountInv'
    <3>1. k \in 1..MaxSock /\ \A t \in Sigs, m \in Legs : sess[t].sock[m] # k
          BY <1>t, FreeSocksAre
    <3>2. /\ \A x \in server_list_v2' :
               \/ x \in server_list_v2 /\ x.sock # k
               \/ x.sock = k /\ x.ref = 1 /\ x.lost = 0
          /\ \A j : j \in Socks' <=> j \in Socks \/ j = k
          BY <1>t, <2>1, <2>3, OpenNodes
    <3>3. \A m \in Legs : sess'[s].sock[m] = IF m = l THEN k ELSE sess[s].sock[m]
          BY <2>3 DEF Opens
    <3>4. /\ Cardinality(Held(k)') = Cardinality(Held(k)) + 1
          /\ \A j \in 1..MaxSock : j # k => Held(j)' = Held(j)
          /\ \A t \in Sigs, m \in Legs, j \in 1..MaxSock : Stands(t, m, j)' => Stands(t, m, j) \/ j = k
          BY <2>1, <3>1, <3>3, <1>13
    <3>5. Cardinality(Held(k)) = 0
          BY <3>1, HeldNone DEF Stands
    <3>6. ASSUME NEW x \in server_list_v2' PROVE x.ref = Cardinality(Held(x.sock)') + x.lost
      <4>1. CASE x \in server_list_v2 /\ x.sock # k
            BY <3>4, <4>1, <1>c, <1>n
      <4>2. CASE x.sock = k /\ x.ref = 1 /\ x.lost = 0
            BY <3>4, <3>5, <4>2
      <4> QED
          BY <3>2, <4>1, <4>2
    <3>7. \A t \in Sigs, m \in Legs, j \in 1..MaxSock : Stands(t, m, j)' => j \in Socks'
          BY <3>2, <3>4, <1>c
    <3> QED
        BY <3>6, <3>7, <1>t, CountMoves
  <2> QED
      BY <2>1, <2>2, <2>3
<1> QED
    BY <1>2, <1>3, <1>4, <1>5, <1>6, <1>7, <1>8, <1>9, <1>10, <1>11, <1>12, <1>14, <1>15, StepKinds

-----------------------------------------------------------------------------
(* The theorems.                                                            *)

\* The invariants hold together.
LEMMA AllInvariants == Spec => [](MediaInv /\ OpenInv /\ PeerInv /\ CountInv)
<1>1. Init => OpenInv /\ PeerInv /\ CountInv
  <2> SUFFICES ASSUME Init PROVE OpenInv /\ PeerInv /\ CountInv
      OBVIOUS
  <2>1. /\ server_list_v2 = {} /\ \A w \in Workers : pc[w] = Idle
        /\ \A s \in Sigs : sess[s] = Fresh
        BY DEF Init
  <2>2. OpenInv
        BY <2>1, IdleIsDoing DEF OpenInv, OpenOk, Opening
  <2>3. PeerInv
        BY <2>1 DEF PeerInv, LegOk, TakeOk
  <2>4. CountInv
        BY <2>1, FreshSession DEF CountInv
  <2> QED
      BY <2>2, <2>3, <2>4
<1>2. MediaInv /\ MediaInv' /\ OpenInv /\ PeerInv /\ CountInv /\ [Next]_vars
      => OpenInv' /\ PeerInv' /\ CountInv'
      BY OpenKept, PeersKept, CountKept
<1> QED
    BY <1>1, <1>2, MediaInvariant, PTL DEF Spec

\* A node counts the legs that use its socket, and besides them only what a repeated
\* gNB setup forgot, for any number of sessions and workers: media_add_gtp_node_ref_v2
\* and media_del_gtp_node_ref_v2 balance, and no socket in use is closed.
THEOREM SocketsAlwaysCounted == Spec => []SocketsCounted
<1>1. CountInv => SocketsCounted
  <2> SUFFICES ASSUME CountInv, ~overtaken, NEW s \in Sigs, NEW l \in Legs,
                      <<s, l>> \in Held(sess[s].sock[l]), sess[s].sock[l] # 0
               PROVE  sess[s].sock[l] \in Socks
      BY DEF CountInv, SocketsCounted
  <2>1. Holds(s, l)
        BY HeldAre DEF Stands
  <2> QED
      BY <2>1 DEF CountInv
<1> QED
    BY <1>1, AllInvariants, PTL

\* What agc_gtp_add_message sends for a session at rest leaves on a socket connected
\* to the address the signalling gave for the leg.
THEOREM AlwaysForwardsToPeer == Spec => []ForwardsToPeer
<1>1. MediaInv /\ PeerInv /\ CountInv => ForwardsToPeer
  <2> SUFFICES ASSUME MediaInv, PeerInv, CountInv, ~overtaken,
                      NEW s \in Sigs, NEW l \in Legs, Calm(s), sess[s].peer[l] # None
               PROVE  \/ SendsTo(s, l) \in {None, sess[s].peer[l]}
                      \/ sess[s].moved /\ l \in {"upf", "upf6"}
      BY DEF ForwardsToPeer
  <2> DEFINE k == sess[s].sock[l]
  <2>1. CASE k = 0
        BY <2>1 DEF SendsTo
  <2>2. CASE k # 0
    <3>1. Holds(s, l)
          BY DEF Holds, Calm
    <3>2. k \in Socks
          BY <2>2, <3>1 DEF CountInv
    <3>3. NodeOf(k) \in server_list_v2 /\ NodeOf(k).sock = k
          BY <3>2, TheNode DEF MediaInv, MediaTypes
    <3>4. LegOk(s, l) /\ ~Reopening(s)
          BY DEF PeerInv, Calm, Reopening
    <3>5. SendsTo(s, l) = NodeOf(k).peer
          BY <2>2, <3>2 DEF SendsTo
    <3> QED
        BY <3>3, <3>4, <3>5 DEF LegOk, Side
  <2> QED
      BY <2>1, <2>2
<1> QED
    BY <1>1, AllInvariants, PTL

===============================================================================
