---------------------------- MODULE NgapProxyProofs ----------------------------
(***************************************************************************)
(* Proofs about the NGAP procedures: what is passed on carries the ids by   *)
(* which its receiver knows that very UE, and the two sides of a session    *)
(* are one UE's, for any number of gNBs, AMFs, UEs, numbers and messages    *)
(* under way, in any order (ProxyInv).                                      *)
(***************************************************************************)
EXTENDS NgapProxy, TLAPS

-----------------------------------------------------------------------------
(* Names and kinds of messages.                                            *)

GnbProcs == {"InitialUEMessage", "Uplink", "UEContextReleaseRequest", "UEContextReleaseComplete",
             "SetupResponse", "HandoverRequired", "HandoverRequestAck", "HandoverFailure",
             "HandoverNotify", "HandoverCancel", "UplinkRANStatusTransfer", "PathSwitchRequest"}
AmfProcs == {"Downlink", "SetupRequest", "UEContextReleaseCommand", "HandoverRequest",
             "PathSwitchRequestAck", "PathSwitchRequestFailure"}
OwnProcs == {"HandoverCommand", "HandoverPreparationFailure", "HandoverCancelAck",
             "DownlinkRANStatusTransfer"}
HeldUp   == {"SetupResponse", "HandoverRequestAck", "PathSwitchRequest"}
HeldDown == {"SetupRequest", "HandoverRequest"}

Formed(m) == m = Message(m.from, m.to, m.proc, m.ran, m.amf, m.ue, m.aim)
GnbMsg(m) ==
  /\ Formed(m) /\ m.from \in Gnbs /\ m.to = Gateway /\ m.proc \in GnbProcs /\ m.ue \in Ues
  /\ m.ran = <<m.from, m.ue>>
  /\ IF m.proc = "InitialUEMessage" THEN m.amf = NULL ELSE m.amf \in Ids
  /\ m.proc = "HandoverRequestAck" => m.aim = m.from
AmfMsg(m) ==
  /\ Formed(m) /\ m.from \in Amfs /\ m.to = Gateway /\ m.proc \in AmfProcs /\ m.ue \in Ues
  /\ m.amf = <<m.from, m.ue>>
  /\ IF m.proc = "HandoverRequest" THEN m.ran = NULL ELSE m.ran \in Ids
UpMsg(o, procs) ==
  /\ o.from = Gateway /\ o.ue \in Ues
  /\ o.to \in Amfs \cup {NULL} /\ o.ran \in Ids /\ o.proc \in procs
DownMsg(o, procs) ==
  /\ o.from = Gateway /\ o.ue \in Ues
  /\ o.to \in Gnbs /\ o.amf \in Ids /\ o.ran \in (Gnbs \X Ues) \cup {NULL} /\ o.proc \in procs
HeldMsg(o) == UpMsg(o, HeldUp) \/ DownMsg(o, HeldDown)
OutMsg(o)  ==
  \/ UpMsg(o, GnbProcs)
  \/ DownMsg(o, AmfProcs \cup OwnProcs) /\ (o.proc = "HandoverCommand" => o.aim \in Gnbs)

TableInv ==
  /\ esm_list \subseteq Gnbs /\ isNgSetup \subseteq Amfs
  /\ session_list \in [Ids -> Session \cup {NULL}]
  /\ m_containerMap \subseteq Ids /\ astray \subseteq Ids
PeerTypes(rn, cr, sv, hh) ==
  /\ rn \in [Gnbs \X Ues -> Ids \cup {NULL, "new"}]
  /\ cr \in [Amfs \X Ues -> Ids \cup {NULL, "new"}]
  /\ sv \in [Ues -> Gnbs \cup {NULL}]
  /\ hh \in [Ues -> Gnbs \cup {"none", "prepared"}]
MsgInv ==
  /\ \A m \in net : GnbMsg(m) \/ AmfMsg(m)
  /\ \A o \in held : HeldMsg(o)

\* A UE that attaches is at one gNB and wants no handover; where it is it has a context.
UeOk(u, rn, sv, hh) ==
  /\ \A g \in Gnbs : rn[<<g, u>>] = "new" => sv[u] = g /\ hh[u] = "none"
  /\ sv[u] # NULL => rn[<<sv[u], u>>] # NULL
  /\ sv[u] = NULL => hh[u] = "none"
PeersOk(rn, cr, sv, hh) == PeerTypes(rn, cr, sv, hh) /\ \A u \in Ues : UeOk(u, rn, sv, hh)

-----------------------------------------------------------------------------
(* What is about a number.                                                  *)

Steps == HandoverProcs \ {"UEContextReleaseComplete"}
About(i, M) == {m \in M : SessIdOf(m) = i}
\* UE u is at a gNB that knows it under number i; an AMF knows a UE under it.
Home(i, u, rn, sv) == sv[u] # NULL /\ rn[<<sv[u], u>>] = i
Served(i, cr) == \E t \in Amfs \X Ues : cr[t] = i
\* A target is being asked for; c is whether its container is still to be sent.
Asks(m, c) ==
  \/ m.proc = "PathSwitchRequest" /\ c
  \/ m.proc = "PathSwitchRequestAck" /\ c /\ m.from # Gateway
  \/ m.proc = "HandoverRequest"
  \/ m.proc \in {"PathSwitchRequestFailure", "HandoverRequestAck", "HandoverFailure"} /\ m.from # Gateway

\* What a message about number i of UE u says, s being the session.
FromAmfOk(m, i, s, cr) ==
  /\ m.from = s.amfId /\ s.gnbUeId # NULL
  /\ m.proc = "UEContextReleaseCommand" => ~Served(i, cr)
RequiredOk(i, u, s, rn, cr, sv) == s.gnbUeId # NULL /\ (Served(i, cr) => Home(i, u, rn, sv))
AckOk(m, i, u, s, cr, sv) ==
  IF s.eHandoverflag
    THEN m.from = s.TgtGnbId /\ (Served(i, cr) => m.from # sv[u])
    ELSE m.from = s.link /\ s.gnbUeId = NULL
NotifyOk(m, i, u, s, cr, sv) ==
  s.eHandoverflag =>
    /\ s.TgtGnbUeId = <<m.from, u>>
    /\ Served(i, cr) => sv[u] = m.from /\ s.link # m.from
FromGnbOk(m, i, u, s, E, rn, cr, sv) ==
  /\ s.amfUeId # NULL
  /\ m.proc = "HandoverRequired" => RequiredOk(i, u, s, rn, cr, sv)
  /\ m.proc = "HandoverRequestAck" => AckOk(m, i, u, s, cr, sv)
  /\ m.proc = "PathSwitchRequest" => m.from \in E
  /\ m.proc = "HandoverNotify" => NotifyOk(m, i, u, s, cr, sv)
\* What the gateway sends: to a gNB, to an AMF.
DownOk(o, i, u, s, A, cr, sv) ==
  /\ s.amfUeId # NULL
  /\ IF o.proc = "HandoverRequest"
       THEN IF s.eHandoverflag THEN o.to = s.TgtGnbId ELSE o.to = s.link /\ s.gnbUeId = NULL
       ELSE o.ran = <<o.to, u>> /\ s.gnbUeId # NULL
  /\ o.proc = "UEContextReleaseCommand" /\ Served(i, cr) => o.to # sv[u]
  /\ o.proc = "HandoverCommand" =>
       /\ s.eHandoverflag => s.TgtGnbUeId = <<o.aim, u>>
       /\ o.to = s.link /\ (Served(i, cr) => o.aim # sv[u])
       /\ \A q \in A : q.proc \notin Steps
UpOk(o, i, u, s, A, cr) ==
  /\ o.to = s.amfId
  /\ IF o.proc = "InitialUEMessage"
       THEN ~s.eHandoverflag /\ s.gnbUeId # NULL /\ A = {o}
       ELSE s.amfUeId # NULL /\ o.amf = <<o.to, u>>
  /\ o.proc = "PathSwitchRequest" => s.gnbUeId # NULL
  /\ o.proc = "HandoverRequestAck" =>
       /\ ~s.eHandoverflag /\ ~Served(i, cr) /\ s.gnbUeId # NULL
       /\ \A q \in A : q.from \notin Amfs
MsgOk(m, i, u, s, E, A, rn, cr, sv) ==
  /\ m.ue = u
  /\ m.from \in Amfs => FromAmfOk(m, i, s, cr)
  /\ m.from \in Gnbs => FromGnbOk(m, i, u, s, E, rn, cr, sv)
  /\ m.from = Gateway => IF m.to \in Gnbs THEN DownOk(m, i, u, s, A, cr, sv) ELSE UpOk(m, i, u, s, A, cr)

-----------------------------------------------------------------------------
(* A number and its UE.                                                     *)

\* The session's ids are the UE's; a handover has its target, or is asking for it, and
\* is that of the gNB the UE is at.
SessOk(i, u, s, E, c, A, rn, cr, sv) ==
  /\ s.link \in E /\ s.gnbUeId \in {NULL, <<s.link, u>>}
  /\ s.amfUeId # NULL => s.amfId \in Amfs /\ s.amfUeId = <<s.amfId, u>>
  /\ s.eHandoverflag =>
       /\ s.TgtGnbId \in E /\ s.gnbUeId # NULL /\ s.amfUeId # NULL
       /\ s.TgtGnbUeId = <<s.TgtGnbId, u>> \/ \E m \in A : Asks(m, c)
       /\ Served(i, cr) => Home(i, u, rn, sv)
\* Peers know the UE by the number only.
RanOk(i, u, s, A, rn) ==
  \A t \in Gnbs \X Ues : rn[t] = i =>
    /\ t[2] = u /\ s.amfUeId # NULL
    /\ s.gnbUeId = NULL => \E m \in A : m.proc = "HandoverRequestAck"
CoreOk(i, u, s, cr) ==
  \A t \in Amfs \X Ues : cr[t] = i => t = <<s.amfId, u>> /\ s.gnbUeId # NULL
\* One message of a handover at a time.
OneStep(A) == \A m, q \in A : m.proc \in Steps /\ q.proc \in Steps => m = q
\* A UE that is ordered to a gNB is expected there.
OrderOk(i, u, s, A, rn, cr, sv, hh) ==
  Home(i, u, rn, sv) /\ hh[u] \in Gnbs =>
    /\ \A m \in A : m.proc \in Steps => m.proc = "UplinkRANStatusTransfer"
    /\ s.eHandoverflag => s.TgtGnbUeId = <<hh[u], u>> /\ (Served(i, cr) => s.link # hh[u])

Agrees(i, u, s, E, c, A, rn, cr, sv, hh) ==
  /\ SessOk(i, u, s, E, c, A, rn, cr, sv)
  /\ RanOk(i, u, s, A, rn) /\ CoreOk(i, u, s, cr)
  /\ \A m \in A : MsgOk(m, i, u, s, E, A, rn, cr, sv)
  /\ OneStep(A)
  /\ OrderOk(i, u, s, A, rn, cr, sv, hh)
Unused(i, A, rn, cr) ==
  /\ A = {}
  /\ \A t \in Gnbs \X Ues : rn[t] # i
  /\ \A t \in Amfs \X Ues : cr[t] # i

GoodAt(i, s, E, c, A, rn, cr, sv, hh) ==
  IF s = NULL THEN Unused(i, A, rn, cr)
              ELSE \E u \in Ues : Agrees(i, u, s, E, c, A, rn, cr, sv, hh)
Good(i) ==
  /\ i \notin astray
  /\ GoodAt(i, session_list[i], esm_list, i \in m_containerMap, About(i, net \cup held),
            ran, core, serving, ho)

ProxyInv ==
  /\ TableInv /\ MsgInv /\ PeersOk(ran, core, serving, ho)
  /\ \A i \in Ids : i \notin doubtful => Good(i)

-----------------------------------------------------------------------------
(* Names.                                                                   *)

\* Gateway, NULL and the handover states are no peers.
LEMMA PeerNames ==
  /\ Gateway \notin Gnbs /\ Gateway \notin Amfs /\ NULL \notin Gnbs /\ NULL \notin Amfs
  /\ Gnbs \cap Amfs = {} /\ "none" \notin Gnbs /\ "prepared" \notin Gnbs
BY ProxyAssumption DEF Gateway

\* Numbers are no ids of peers.
LEMMA IdNames ==
  /\ NULL \notin Ids /\ "new" \notin Ids /\ "new" # NULL
  /\ \A t \in (Gnbs \X Ues) \cup (Amfs \X Ues) : t \notin Ids /\ t # NULL
BY ProxyAssumption

\* The number a message names.
LEMMA GnbNumber ==
  ASSUME NEW m, GnbMsg(m)
  PROVE  SessIdOf(m) = m.amf /\ (SessIdOf(m) \in Ids <=> m.proc # "InitialUEMessage")
<1>1. m.ran \in Gnbs \X Ues /\ m.ran \notin Ids
      BY IdNames DEF GnbMsg
<1> QED
    BY <1>1, IdNames DEF GnbMsg, SessIdOf

\* Likewise of an AMF's.
LEMMA AmfNumber ==
  ASSUME NEW m, AmfMsg(m)
  PROVE  IF m.proc = "HandoverRequest" THEN SessIdOf(m) = m.amf /\ m.amf \notin Ids
                                       ELSE SessIdOf(m) = m.ran /\ m.ran \in Ids
<1>1. m.amf \in Amfs \X Ues /\ m.amf \notin Ids
      BY IdNames DEF AmfMsg
<1> QED
    BY <1>1, IdNames DEF AmfMsg, SessIdOf

\* Likewise of what the gateway sends.
LEMMA OutNumber ==
  ASSUME NEW o
  PROVE  /\ \A P : UpMsg(o, P) => SessIdOf(o) = o.ran
         /\ \A P : DownMsg(o, P) => SessIdOf(o) = o.amf /\ o.ran \notin Ids
<1>1. \A P : UpMsg(o, P) => SessIdOf(o) = o.ran
      BY DEF UpMsg, SessIdOf
<1>2. ASSUME NEW P, DownMsg(o, P)
      PROVE  SessIdOf(o) = o.amf /\ o.ran \notin Ids
  <2>1. o.ran \notin Ids
        BY <1>2, IdNames DEF DownMsg
  <2> QED
      BY <2>1 DEF SessIdOf
<1> QED
    BY <1>1, <1>2

-----------------------------------------------------------------------------
(* Messages come and go, a session changes, peers change.                   *)

\* A message under way: a peer's, or one that waits for the media gateway.
Waits(m) == GnbMsg(m) \/ AmfMsg(m) \/ HeldMsg(m)

\* What the session says of a UE, for the messages about it.
Alike(s, r) ==
  /\ r.amfId = s.amfId /\ r.link = s.link /\ r.gnbUeId = s.gnbUeId
  /\ s.amfUeId # NULL => r.amfUeId = s.amfUeId
  /\ r.eHandoverflag = s.eHandoverflag /\ r.TgtGnbId = s.TgtGnbId /\ r.TgtGnbUeId = s.TgtGnbUeId

\* A message outside the handover stays right when the session keeps its AMF and its ids, and
\* no AMF learns the number.
LEMMA PlainStays ==
  ASSUME NEW m, NEW i, NEW u, NEW s, NEW r, NEW E, NEW A, NEW B, NEW rn, NEW cr, NEW sv,
         NEW rn2, NEW cr2, NEW sv2, Served(i, cr2) => Served(i, cr),
         MsgOk(m, i, u, s, E, A, rn, cr, sv), Waits(m), m.proc \notin Steps,
         r.amfId = s.amfId, s.gnbUeId # NULL => r.gnbUeId # NULL, s.amfUeId # NULL => r.amfUeId # NULL
  PROVE  MsgOk(m, i, u, r, E, B, rn2, cr2, sv2)
<1>1. m.proc \notin {"HandoverRequired", "HandoverRequestAck", "PathSwitchRequest", "HandoverNotify",
                     "HandoverRequest"}
      BY DEF Steps, HandoverProcs
<1>2. m.ue = u
      BY DEF MsgOk
<1>3. CASE m.from \in Amfs
  <2>1. FromAmfOk(m, i, s, cr)
        BY <1>3 DEF MsgOk
  <2>2. FromAmfOk(m, i, r, cr2)
        BY <2>1 DEF FromAmfOk
  <2> QED
      BY <1>2, <1>3, <2>2, PeerNames DEF MsgOk
<1>4. CASE m.from \in Gnbs
  <2>1. FromGnbOk(m, i, u, s, E, rn, cr, sv)
        BY <1>4 DEF MsgOk
  <2>2. FromGnbOk(m, i, u, r, E, rn2, cr2, sv2)
        BY <1>1, <2>1 DEF FromGnbOk
  <2> QED
      BY <1>2, <1>4, <2>2, PeerNames DEF MsgOk
<1>5. CASE m.from = Gateway
  <2>1. HeldMsg(m)
        BY <1>5, PeerNames DEF Waits, GnbMsg, AmfMsg
  <2>2. m.proc \in {"SetupRequest", "SetupResponse"}
        BY <1>1, <2>1 DEF HeldMsg, UpMsg, DownMsg, HeldUp, HeldDown
  <2>3. ASSUME m.to \in Gnbs
        PROVE  DownOk(m, i, u, r, B, cr2, sv2)
    <3>1. DownOk(m, i, u, s, A, cr, sv)
          BY <1>5, <2>3 DEF MsgOk
    <3> QED
        BY <1>1, <2>2, <3>1 DEF DownOk
  <2>4. ASSUME m.to \notin Gnbs
        PROVE  UpOk(m, i, u, r, B, cr2)
    <3>1. UpOk(m, i, u, s, A, cr)
          BY <1>5, <2>4 DEF MsgOk
    <3> QED
        BY <1>1, <2>2, <3>1 DEF UpOk
  <2> QED
      BY <1>2, <1>5, <2>3, <2>4, PeerNames DEF MsgOk
<1> QED
    BY <1>2, <1>3, <1>4, <1>5, PeerNames DEF MsgOk

\* So does any message when the session is alike and nothing new is from an AMF.
LEMMA AlikeStays ==
  ASSUME NEW m, NEW i, NEW u, NEW s, NEW r, NEW E, NEW A, NEW B, NEW rn, NEW cr, NEW sv,
         MsgOk(m, i, u, s, E, A, rn, cr, sv), Waits(m), Alike(s, r),
         m.proc = "HandoverRequestAck" /\ m.from = Gateway => \A q \in B : q \in A \/ q.from \notin Amfs
  PROVE  MsgOk(m, i, u, r, E, B, rn, cr, sv)
<1>a. /\ r.amfId = s.amfId /\ r.link = s.link /\ r.gnbUeId = s.gnbUeId
      /\ s.amfUeId # NULL => r.amfUeId = s.amfUeId
      /\ r.eHandoverflag = s.eHandoverflag /\ r.TgtGnbId = s.TgtGnbId /\ r.TgtGnbUeId = s.TgtGnbUeId
      BY DEF Alike
<1>2. m.ue = u
      BY DEF MsgOk
<1>3. CASE m.from \in Amfs
  <2>1. FromAmfOk(m, i, s, cr)
        BY <1>3 DEF MsgOk
  <2>2. FromAmfOk(m, i, r, cr)
        BY <1>a, <2>1 DEF FromAmfOk
  <2> QED
      BY <1>2, <1>3, <2>2, PeerNames DEF MsgOk
<1>4. CASE m.from \in Gnbs
  <2>1. FromGnbOk(m, i, u, s, E, rn, cr, sv)
        BY <1>4 DEF MsgOk
  <2>2. FromGnbOk(m, i, u, r, E, rn, cr, sv)
        BY <1>a, <2>1 DEF FromGnbOk, RequiredOk, AckOk, NotifyOk
  <2> QED
      BY <1>2, <1>4, <2>2, PeerNames DEF MsgOk
<1>5. CASE m.from = Gateway
  <2>1. HeldMsg(m)
        BY <1>5, PeerNames DEF Waits, GnbMsg, AmfMsg
  <2>2. m.proc \in HeldUp \cup HeldDown
        BY <2>1 DEF HeldMsg, UpMsg, DownMsg
  <2>3. ASSUME m.to \in Gnbs
        PROVE  DownOk(m, i, u, r, B, cr, sv)
    <3>1. DownOk(m, i, u, s, A, cr, sv)
          BY <1>5, <2>3 DEF MsgOk
    <3> QED
        BY <1>a, <2>2, <3>1 DEF DownOk, HeldUp, HeldDown
  <2>4. ASSUME m.to \notin Gnbs
        PROVE  UpOk(m, i, u, r, B, cr)
    <3>1. UpOk(m, i, u, s, A, cr)
          BY <1>5, <2>4 DEF MsgOk
    <3> QED
        BY <1>5, <1>a, <2>2, <3>1 DEF UpOk, HeldUp, HeldDown
  <2> QED
      BY <1>2, <1>5, <2>3, <2>4, PeerNames DEF MsgOk
<1> QED
    BY <1>2, <1>3, <1>4, <1>5, PeerNames DEF MsgOk

\* Message m is handled: the session becomes r, o is sent in its place.
LEMMA Handled ==
  ASSUME NEW i, NEW u, NEW s, NEW r, NEW E, NEW c, NEW d, NEW A, NEW B, NEW rn, NEW cr, NEW sv, NEW hh,
         NEW m \in A, NEW o, B = (A \ {m}) \cup {o}, \A q \in A \ {m} : Waits(q),
         Agrees(i, u, s, E, c, A, rn, cr, sv, hh),
         SessOk(i, u, r, E, d, B, rn, cr, sv), OrderOk(i, u, r, B, rn, cr, sv, hh),
         MsgOk(o, i, u, r, E, B, rn, cr, sv), o.from \notin Amfs \/ m.proc \in Steps,
         o.proc \in Steps => m.proc \in Steps,
         r.amfId = s.amfId, s.gnbUeId # NULL => r.gnbUeId # NULL, s.amfUeId # NULL => r.amfUeId # NULL,
         m.proc = "HandoverRequestAck" => r.gnbUeId # NULL,
         Alike(s, r) \/ m.proc \in Steps
  PROVE  Agrees(i, u, r, E, d, B, rn, cr, sv, hh)
<1>1. RanOk(i, u, r, B, rn)
  <2> SUFFICES ASSUME NEW t \in Gnbs \X Ues, rn[t] = i
               PROVE  /\ t[2] = u /\ r.amfUeId # NULL
                      /\ r.gnbUeId = NULL => \E q \in B : q.proc = "HandoverRequestAck"
      BY DEF RanOk
  <2>1. /\ t[2] = u /\ s.amfUeId # NULL
        /\ s.gnbUeId = NULL => \E q \in A : q.proc = "HandoverRequestAck"
        BY DEF Agrees, RanOk
  <2> QED
      BY <2>1
<1>2. CoreOk(i, u, r, cr)
      BY DEF Agrees, CoreOk
<1>3. OneStep(B)
      BY DEF Agrees, OneStep
<1>4. ASSUME NEW q \in B
      PROVE  MsgOk(q, i, u, r, E, B, rn, cr, sv)
  <2>1. CASE q = o
        BY <2>1
  <2>2. CASE q # o
    <3>1. q \in A /\ q # m
          BY <2>2
    <3>2. MsgOk(q, i, u, s, E, A, rn, cr, sv) /\ Waits(q)
          BY <3>1 DEF Agrees
    <3>3. CASE m.proc \notin Steps
      <4>1. (\A p \in B : p \in A \/ p.from \notin Amfs) /\ Alike(s, r)
            BY <3>3
      <4> QED
          BY <3>2, <4>1, AlikeStays
    <3>4. CASE m.proc \in Steps
      <4>1. q.proc \notin Steps
            BY <3>1, <3>4 DEF Agrees, OneStep
      <4> QED
          BY <3>2, <4>1, PlainStays
    <3> QED
        BY <3>3, <3>4
  <2> QED
      BY <2>1, <2>2
<1> QED
    BY <1>1, <1>2, <1>3, <1>4 DEF Agrees

\* While a message of the handover other than a status transfer is under way, nobody is
\* expected.
LEMMA NotOrdered ==
  ASSUME NEW i, NEW u, NEW s, NEW r, NEW E, NEW c, NEW A, NEW B, NEW rn, NEW cr, NEW sv, NEW hh,
         Agrees(i, u, s, E, c, A, rn, cr, sv, hh), NEW m \in A, m.proc \in Steps,
         m.proc # "UplinkRANStatusTransfer"
  PROVE  ~(Home(i, u, rn, sv) /\ hh[u] \in Gnbs) /\ OrderOk(i, u, r, B, rn, cr, sv, hh)
BY DEF Agrees, OrderOk

\* Message m is passed on as o, the session being alike.
LEMMA Relayed ==
  ASSUME NEW i, NEW u, NEW s, NEW r, NEW E, NEW c, NEW d, NEW A, NEW B, NEW rn, NEW cr, NEW sv, NEW hh,
         NEW m \in A, NEW o, B = (A \ {m}) \cup {o}, \A q \in A \ {m} : Waits(q),
         Agrees(i, u, s, E, c, A, rn, cr, sv, hh), Alike(s, r),
         r.amfUeId # NULL => r.amfId \in Amfs /\ r.amfUeId = <<r.amfId, u>>,
         MsgOk(o, i, u, r, E, B, rn, cr, sv), o.from \notin Amfs,
         o.proc = m.proc \/ o.proc \notin Steps,
         m.proc # "HandoverRequestAck",
         s.eHandoverflag => ~Asks(m, c) /\ (d = c \/ m.proc \in Steps)
  PROVE  Agrees(i, u, r, E, d, B, rn, cr, sv, hh)
<1>1. SessOk(i, u, r, E, d, B, rn, cr, sv)
  <2>1. SessOk(i, u, s, E, c, A, rn, cr, sv)
        BY DEF Agrees
  <2>2. ASSUME r.eHandoverflag
        PROVE  /\ r.TgtGnbId \in E /\ r.gnbUeId # NULL /\ r.amfUeId # NULL
               /\ r.TgtGnbUeId = <<r.TgtGnbId, u>> \/ \E q \in B : Asks(q, d)
               /\ Served(i, cr) => Home(i, u, rn, sv)
    <3>1. s.eHandoverflag
          BY <2>2 DEF Alike
    <3>2. /\ s.TgtGnbId \in E /\ s.gnbUeId # NULL /\ s.amfUeId # NULL
          /\ s.TgtGnbUeId = <<s.TgtGnbId, u>> \/ \E q \in A : Asks(q, c)
          /\ Served(i, cr) => Home(i, u, rn, sv)
          BY <2>1, <3>1 DEF SessOk
    <3>3. ASSUME NEW q \in A, Asks(q, c)
          PROVE  \E p \in B : Asks(p, d)
      <4>1. q # m
            BY <3>1, <3>3
      <4>2. q.proc \in Steps
            BY <3>3 DEF Asks, Steps, HandoverProcs
      <4>3. m.proc \notin Steps
            BY <4>1, <4>2 DEF Agrees, OneStep
      <4>4. q \in B /\ d = c
            BY <3>1, <4>1, <4>3
      <4> QED
          BY <3>3, <4>4
    <3> QED
        BY <3>2, <3>3 DEF Alike
  <2> QED
      BY <2>1, <2>2 DEF SessOk, Alike
<1>2. OrderOk(i, u, r, B, rn, cr, sv, hh)
  <2>1. OrderOk(i, u, s, A, rn, cr, sv, hh)
        BY DEF Agrees
  <2> QED
      BY <2>1 DEF OrderOk, Alike
<1>3. r.amfId = s.amfId /\ (s.gnbUeId # NULL => r.gnbUeId # NULL) /\ (s.amfUeId # NULL => r.amfUeId # NULL)
      BY DEF Alike
<1> QED
    BY <1>1, <1>2, <1>3, Handled

-----------------------------------------------------------------------------
(* Peers change.                                                            *)

\* Nothing new is known under number i, and its UE stays where it is.
Fades(i, u, rn, cr, sv, hh, rn2, cr2, sv2, hh2) ==
  /\ \A t \in Amfs \X Ues : cr2[t] = i => cr[t] = i
  /\ Served(i, cr2) /\ Home(i, u, rn, sv) => Home(i, u, rn2, sv2) /\ sv2[u] = sv[u]
  /\ Home(i, u, rn2, sv2) /\ hh2[u] \in Gnbs => Home(i, u, rn, sv) /\ hh2[u] = hh[u]

\* Messages stay right.
LEMMA MsgFades ==
  ASSUME NEW m, NEW i, NEW u, NEW s, NEW E, NEW A, NEW rn, NEW cr, NEW sv, NEW hh,
         NEW rn2, NEW cr2, NEW sv2, NEW hh2, Fades(i, u, rn, cr, sv, hh, rn2, cr2, sv2, hh2),
         MsgOk(m, i, u, s, E, A, rn, cr, sv), Waits(m),
         s.eHandoverflag => (Served(i, cr) => Home(i, u, rn, sv))
  PROVE  MsgOk(m, i, u, s, E, A, rn2, cr2, sv2)
<1>1. Served(i, cr2) => Served(i, cr)
      BY DEF Served, Fades
<1>h. Served(i, cr2) /\ Home(i, u, rn, sv) => Home(i, u, rn2, sv2) /\ sv2[u] = sv[u]
      BY DEF Fades
<1>2. m.ue = u
      BY DEF MsgOk
<1>3. CASE m.from \in Amfs
  <2>1. FromAmfOk(m, i, s, cr)
        BY <1>3 DEF MsgOk
  <2>2. FromAmfOk(m, i, s, cr2)
        BY <1>1, <2>1 DEF FromAmfOk
  <2> QED
      BY <1>2, <1>3, <2>2, PeerNames DEF MsgOk
<1>4. CASE m.from \in Gnbs
  <2>1. FromGnbOk(m, i, u, s, E, rn, cr, sv)
        BY <1>4 DEF MsgOk
  <2>2. RequiredOk(i, u, s, rn, cr, sv) => RequiredOk(i, u, s, rn2, cr2, sv2)
        BY <1>1, <1>h DEF RequiredOk
  <2>3. AckOk(m, i, u, s, cr, sv) => AckOk(m, i, u, s, cr2, sv2)
        BY <1>1, <1>h DEF AckOk
  <2>4. NotifyOk(m, i, u, s, cr, sv) => NotifyOk(m, i, u, s, cr2, sv2)
        BY <1>1, <1>h DEF NotifyOk
  <2>5. FromGnbOk(m, i, u, s, E, rn2, cr2, sv2)
        BY <2>1, <2>2, <2>3, <2>4 DEF FromGnbOk
  <2> QED
      BY <1>2, <1>4, <2>5, PeerNames DEF MsgOk
<1>5. CASE m.from = Gateway
  <2>1. HeldMsg(m)
        BY <1>5, PeerNames DEF Waits, GnbMsg, AmfMsg
  <2>2. m.proc \in HeldUp \cup HeldDown
        BY <2>1 DEF HeldMsg, UpMsg, DownMsg
  <2>3. ASSUME m.to \in Gnbs
        PROVE  DownOk(m, i, u, s, A, cr2, sv2)
    <3>1. DownOk(m, i, u, s, A, cr, sv)
          BY <1>5, <2>3 DEF MsgOk
    <3> QED
        BY <2>2, <3>1 DEF DownOk, HeldUp, HeldDown
  <2>4. ASSUME m.to \notin Gnbs
        PROVE  UpOk(m, i, u, s, A, cr2)
    <3>1. UpOk(m, i, u, s, A, cr)
          BY <1>5, <2>4 DEF MsgOk
    <3> QED
        BY <1>1, <2>2, <3>1 DEF UpOk, HeldUp, HeldDown
  <2> QED
      BY <1>2, <1>5, <2>3, <2>4, PeerNames DEF MsgOk
<1> QED
    BY <1>2, <1>3, <1>4, <1>5, PeerNames DEF MsgOk

\* So does what is known of the number.
LEMMA AgreesFades ==
  ASSUME NEW i, NEW u, NEW s, NEW E, NEW c, NEW A, NEW rn, NEW cr, NEW sv, NEW hh,
         NEW rn2, NEW cr2, NEW sv2, NEW hh2, Fades(i, u, rn, cr, sv, hh, rn2, cr2, sv2, hh2),
         Agrees(i, u, s, E, c, A, rn, cr, sv, hh), \A q \in A : Waits(q), RanOk(i, u, s, A, rn2)
  PROVE  Agrees(i, u, s, E, c, A, rn2, cr2, sv2, hh2)
<1>1. Served(i, cr2) => Served(i, cr)
      BY DEF Served, Fades
<1>h. Served(i, cr2) /\ Home(i, u, rn, sv) => Home(i, u, rn2, sv2) /\ sv2[u] = sv[u]
      BY DEF Fades
<1>2. SessOk(i, u, s, E, c, A, rn, cr, sv) /\ OrderOk(i, u, s, A, rn, cr, sv, hh) /\ CoreOk(i, u, s, cr)
      BY DEF Agrees
<1>3. SessOk(i, u, s, E, c, A, rn2, cr2, sv2)
      BY <1>1, <1>h, <1>2 DEF SessOk
<1>4. CoreOk(i, u, s, cr2)
      BY <1>2 DEF CoreOk, Fades
<1>5. OrderOk(i, u, s, A, rn2, cr2, sv2, hh2)
  <2>1. Home(i, u, rn2, sv2) /\ hh2[u] \in Gnbs => Home(i, u, rn, sv) /\ hh2[u] = hh[u]
        BY DEF Fades
  <2> QED
      BY <1>1, <1>2, <2>1 DEF OrderOk
<1>6. s.eHandoverflag => (Served(i, cr) => Home(i, u, rn, sv))
      BY <1>2 DEF SessOk
<1>7. \A m \in A : MsgOk(m, i, u, s, E, A, rn2, cr2, sv2)
  <2> SUFFICES ASSUME NEW m \in A
               PROVE  MsgOk(m, i, u, s, E, A, rn2, cr2, sv2)
      OBVIOUS
  <2>1. MsgOk(m, i, u, s, E, A, rn, cr, sv) /\ Waits(m)
        BY DEF Agrees
  <2> QED
      BY <1>6, <2>1, MsgFades
<1>8. OneStep(A)
      BY DEF Agrees
<1> QED
    BY <1>3, <1>4, <1>5, <1>7, <1>8 DEF Agrees

\* A message that asks for no target, and by which no gNB knows the UE first, may be gone.
LEMMA Shrinks ==
  ASSUME NEW i, NEW u, NEW s, NEW E, NEW c, NEW A, NEW B, NEW rn, NEW cr, NEW sv, NEW hh, NEW o,
         B \subseteq A, A \subseteq B \cup {o}, \A q \in B : Waits(q),
         Agrees(i, u, s, E, c, A, rn, cr, sv, hh),
         s.eHandoverflag => ~Asks(o, c), s.gnbUeId = NULL => o.proc # "HandoverRequestAck"
  PROVE  Agrees(i, u, s, E, c, B, rn, cr, sv, hh)
<1>1. SessOk(i, u, s, E, c, B, rn, cr, sv)
  <2>1. SessOk(i, u, s, E, c, A, rn, cr, sv)
        BY DEF Agrees
  <2>2. s.eHandoverflag => ((\E m \in A : Asks(m, c)) => \E m \in B : Asks(m, c))
        OBVIOUS
  <2> QED
      BY <2>1, <2>2 DEF SessOk
<1>2. RanOk(i, u, s, B, rn)
  <2>1. RanOk(i, u, s, A, rn)
        BY DEF Agrees
  <2>2. s.gnbUeId = NULL => ((\E m \in A : m.proc = "HandoverRequestAck")
                              => \E m \in B : m.proc = "HandoverRequestAck")
        OBVIOUS
  <2> QED
      BY <2>1, <2>2 DEF RanOk
<1>3. CoreOk(i, u, s, cr)
      BY DEF Agrees
<1>4. OneStep(B)
      BY DEF Agrees, OneStep
<1>5. OrderOk(i, u, s, B, rn, cr, sv, hh)
      BY DEF Agrees, OrderOk
<1>6. ASSUME NEW q \in B
      PROVE  MsgOk(q, i, u, s, E, B, rn, cr, sv)
  <2>1. MsgOk(q, i, u, s, E, A, rn, cr, sv) /\ Waits(q)
        BY DEF Agrees
  <2>2. Alike(s, s) /\ \A p \in B : p \in A \/ p.from \notin Amfs
        BY DEF Alike
  <2> QED
      BY <2>1, <2>2, AlikeStays
<1> QED
    BY <1>1, <1>2, <1>3, <1>4, <1>5, <1>6 DEF Agrees

\* A message comes: alone of its handover, and of an AMF only when none waits for it.
LEMMA Added ==
  ASSUME NEW i, NEW u, NEW s, NEW E, NEW c, NEW A, NEW B, NEW rn, NEW cr, NEW sv, NEW hh, NEW m,
         B = A \cup {m}, \A q \in A : Waits(q),
         Agrees(i, u, s, E, c, A, rn, cr, sv, hh),
         MsgOk(m, i, u, s, E, B, rn, cr, sv),
         m.proc \in Steps => \A q \in A : q.proc \notin Steps,
         m.proc \in Steps => ~(Home(i, u, rn, sv) /\ hh[u] \in Gnbs) \/ m.proc = "UplinkRANStatusTransfer",
         m.from \in Amfs => \A q \in A : q.from = Gateway => q.proc # "HandoverRequestAck"
  PROVE  Agrees(i, u, s, E, c, B, rn, cr, sv, hh)
<1>1. SessOk(i, u, s, E, c, B, rn, cr, sv)
  <2>1. SessOk(i, u, s, E, c, A, rn, cr, sv)
        BY DEF Agrees
  <2> QED
      BY <2>1 DEF SessOk
<1>2. RanOk(i, u, s, B, rn)
      BY DEF Agrees, RanOk
<1>3. CoreOk(i, u, s, cr)
      BY DEF Agrees
<1>4. OneStep(B)
      BY DEF Agrees, OneStep
<1>5. OrderOk(i, u, s, B, rn, cr, sv, hh)
      BY DEF Agrees, OrderOk
<1>6. ASSUME NEW q \in B
      PROVE  MsgOk(q, i, u, s, E, B, rn, cr, sv)
  <2>1. CASE q = m
        BY <2>1
  <2>2. CASE q # m
    <3>1. q \in A /\ MsgOk(q, i, u, s, E, A, rn, cr, sv) /\ Waits(q)
          BY <2>2 DEF Agrees
    <3>2. Alike(s, s) /\ (q.proc = "HandoverRequestAck" /\ q.from = Gateway
                          => \A p \in B : p \in A \/ p.from \notin Amfs)
          BY <3>1 DEF Alike
    <3> QED
        BY <3>1, <3>2, AlikeStays
  <2> QED
      BY <2>1, <2>2
<1> QED
    BY <1>1, <1>2, <1>3, <1>4, <1>5, <1>6 DEF Agrees

\* The session changes but for what the messages about it need.
LEMMA AgreesAlike ==
  ASSUME NEW i, NEW u, NEW s, NEW r, NEW E, NEW c, NEW A, NEW rn, NEW cr, NEW sv, NEW hh,
         \A q \in A : Waits(q), Agrees(i, u, s, E, c, A, rn, cr, sv, hh),
         Alike(s, r), r.amfUeId = s.amfUeId
  PROVE  Agrees(i, u, r, E, c, A, rn, cr, sv, hh)
<1>1. SessOk(i, u, r, E, c, A, rn, cr, sv)
      BY DEF Agrees, SessOk, Alike
<1>2. RanOk(i, u, r, A, rn)
      BY DEF Agrees, RanOk, Alike
<1>3. CoreOk(i, u, r, cr)
      BY DEF Agrees, CoreOk, Alike
<1>4. OneStep(A)
      BY DEF Agrees
<1>5. OrderOk(i, u, r, A, rn, cr, sv, hh)
      BY DEF Agrees, OrderOk, Alike
<1>6. ASSUME NEW q \in A
      PROVE  MsgOk(q, i, u, r, E, A, rn, cr, sv)
  <2>1. MsgOk(q, i, u, s, E, A, rn, cr, sv) /\ Waits(q)
        BY DEF Agrees
  <2> QED
      BY <2>1, AlikeStays
<1> QED
    BY <1>1, <1>2, <1>3, <1>4, <1>5, <1>6 DEF Agrees

\* With no message of a handover under way the UE may move, and the handover end.
LEMMA QuietMoves ==
  ASSUME NEW i, NEW u, NEW s, NEW r, NEW E, NEW c, NEW A, NEW B, NEW rn, NEW cr, NEW sv, NEW hh,
         NEW rn2, NEW cr2, NEW sv2, NEW hh2,
         \A q \in A : Waits(q), Agrees(i, u, s, E, c, A, rn, cr, sv, hh),
         B \subseteq A, \A q \in B : q.proc \notin Steps, \A q \in A : q.proc # "HandoverRequestAck",
         r.amfId = s.amfId, r.amfUeId = s.amfUeId, r.link = s.link, r.gnbUeId = s.gnbUeId,
         r.eHandoverflag =>
           /\ s.eHandoverflag /\ r.TgtGnbId = s.TgtGnbId /\ r.TgtGnbUeId = s.TgtGnbUeId
           /\ \A q \in A : q.proc \notin Steps
           /\ Served(i, cr2) => Home(i, u, rn2, sv2),
         \A t \in Gnbs \X Ues : rn2[t] = i => t[2] = u /\ \E w \in Gnbs \X Ues : rn[w] = i,
         \A t \in Amfs \X Ues : cr2[t] = i => cr[t] = i,
         Home(i, u, rn2, sv2) => hh2[u] \notin Gnbs \/ ~r.eHandoverflag
  PROVE  Agrees(i, u, r, E, c, B, rn2, cr2, sv2, hh2)
<1>0. Served(i, cr2) => Served(i, cr)
      BY DEF Served
<1>1. SessOk(i, u, r, E, c, B, rn2, cr2, sv2)
  <2>1. SessOk(i, u, s, E, c, A, rn, cr, sv)
        BY DEF Agrees
  <2>2. r.eHandoverflag => \A q \in A : ~Asks(q, c)
        BY DEF Asks, Steps, HandoverProcs
  <2> QED
      BY <2>1, <2>2 DEF SessOk
<1>2. RanOk(i, u, r, B, rn2)
  <2>1. \A t \in Gnbs \X Ues : rn[t] = i => s.amfUeId # NULL /\ s.gnbUeId # NULL
        BY DEF Agrees, RanOk
  <2> QED
      BY <2>1 DEF RanOk
<1>3. CoreOk(i, u, r, cr2)
      BY DEF Agrees, CoreOk
<1>4. OneStep(B)
      BY DEF OneStep
<1>5. OrderOk(i, u, r, B, rn2, cr2, sv2, hh2)
      BY DEF OrderOk
<1>6. ASSUME NEW q \in B
      PROVE  MsgOk(q, i, u, r, E, B, rn2, cr2, sv2)
  <2>1. MsgOk(q, i, u, s, E, A, rn, cr, sv) /\ Waits(q) /\ q.proc \notin Steps
        BY DEF Agrees
  <2> QED
      BY <1>0, <2>1, PlainStays
<1> QED
    BY <1>1, <1>2, <1>3, <1>4, <1>5, <1>6 DEF Agrees

-----------------------------------------------------------------------------
(* A peer takes a message.                                                  *)

\* The peer takes o and lets its state follow.
Taken(o, yes) ==
  /\ OutMsg(o) /\ SessIdOf(o) \in Ids /\ yes \in Choices(o)
  /\ o.to # NULL /\ ~Misaddressed(o) /\ ~Unknown(o)
  /\ o.proc = "HandoverRequest" /\ yes => o.aim = o.to /\ ran[<<o.to, o.ue>>] = NULL

\* To a gNB it is of the gNB's UE, which has no number yet or this one; to an AMF it is of
\* the AMF's UE.
LEMMA TakenIds ==
  ASSUME NEW o, NEW yes, Taken(o, yes)
  PROVE  /\ o.from = Gateway /\ o.ue \in Ues /\ o.to \in Gnbs \cup Amfs
         /\ o.to \in Gnbs => /\ o.to \notin Amfs /\ DownMsg(o, AmfProcs \cup OwnProcs) /\ SessIdOf(o) = o.amf
                             /\ o.proc = "HandoverCommand" => o.aim \in Gnbs
                             /\ o.proc # "HandoverRequest" =>
                                  o.ran = <<o.to, o.ue>> /\ ran[<<o.to, o.ue>>] \in {"new", o.amf}
         /\ o.to \in Amfs => /\ o.to \notin Gnbs /\ UpMsg(o, GnbProcs) /\ SessIdOf(o) = o.ran
                             /\ o.proc # "InitialUEMessage" => o.amf = <<o.to, o.ue>>
<1>1. (UpMsg(o, GnbProcs) \/ DownMsg(o, AmfProcs \cup OwnProcs)) /\ o.to # NULL
      BY DEF Taken, OutMsg
<1>2. CASE UpMsg(o, GnbProcs)
  <2>1. o.to \in Amfs /\ o.to \notin Gnbs /\ o.from = Gateway /\ o.ue \in Ues
        BY <1>1, <1>2, PeerNames DEF UpMsg
  <2>2. SessIdOf(o) = o.ran
        BY <1>2, OutNumber
  <2>3. o.proc # "InitialUEMessage" => o.amf = <<o.to, o.ue>>
        BY <2>1 DEF Taken, Misaddressed
  <2> QED
      BY <1>2, <2>1, <2>2, <2>3
<1>3. CASE DownMsg(o, AmfProcs \cup OwnProcs)
  <2>1. o.to \in Gnbs /\ o.to \notin Amfs /\ o.from = Gateway /\ o.ue \in Ues /\ o.proc # "InitialUEMessage"
        BY <1>3, PeerNames DEF DownMsg, AmfProcs, OwnProcs
  <2>2. SessIdOf(o) = o.amf
        BY <1>3, OutNumber
  <2>3. o.proc # "HandoverRequest" => o.ran = <<o.to, o.ue>>
        BY <2>1 DEF Taken, Misaddressed
  <2>4. o.proc # "HandoverRequest" => ran[<<o.to, o.ue>>] \in {"new", o.amf}
        BY <2>1, <2>3 DEF Taken, Unknown
  <2>5. o.proc = "HandoverCommand" => o.aim \in Gnbs
    <3>1. o.proc = "HandoverCommand" => ~UpMsg(o, GnbProcs)
          BY DEF UpMsg, GnbProcs
    <3> QED
        BY <3>1 DEF Taken, OutMsg
  <2> QED
      BY <1>3, <2>1, <2>2, <2>3, <2>4, <2>5
<1> QED
    BY <1>1, <1>2, <1>3

\* What the gNBs know then.
LEMMA RanTaken ==
  ASSUME NEW o, NEW yes, Taken(o, yes), ran \in [Gnbs \X Ues -> Ids \cup {NULL, "new"}]
  PROVE  LET t == <<o.to, o.ue>>
             to == o.to \in Gnbs IN
         /\ RanAfter(o, yes) \in [Gnbs \X Ues -> Ids \cup {NULL, "new"}]
         /\ to /\ o.proc = "UEContextReleaseCommand" => RanAfter(o, yes)[t] = NULL
         /\ to /\ o.proc = "HandoverRequest" => RanAfter(o, yes)[t] = IF yes THEN o.amf ELSE ran[t]
         /\ to /\ o.proc \notin {"UEContextReleaseCommand", "HandoverRequest"} => RanAfter(o, yes)[t] = o.amf
<1>1. CASE o.to \in Amfs
  <2>1. RanAfter(o, yes) = ran
        BY <1>1, TakenIds DEF RanAfter
  <2>2. o.to \notin Gnbs
        BY <1>1, TakenIds
  <2> QED
      BY <2>1, <2>2
<1>2. CASE o.to \in Gnbs
  <2>1. /\ <<o.to, o.ue>> \in Gnbs \X Ues /\ o.amf \in Ids
        /\ o.proc # "HandoverRequest" => o.ran = <<o.to, o.ue>> /\ ran[<<o.to, o.ue>>] \in {"new", o.amf}
        BY <1>2, TakenIds DEF DownMsg
  <2>2. CASE o.proc = "UEContextReleaseCommand"
    <3>1. RanAfter(o, yes) = [ran EXCEPT ![<<o.to, o.ue>>] = NULL]
          BY <1>2, <2>1, <2>2 DEF RanAfter
    <3> QED
        BY <2>1, <2>2, <3>1
  <2>3. CASE o.proc = "HandoverRequest"
    <3>1. RanAfter(o, yes) = IF yes THEN [ran EXCEPT ![<<o.to, o.ue>>] = o.amf] ELSE ran
          BY <1>2, <2>3 DEF RanAfter
    <3> QED
        BY <2>1, <2>3, <3>1
  <2>4. CASE o.proc \notin {"UEContextReleaseCommand", "HandoverRequest"}
    <3>1. RanAfter(o, yes) = IF ran[<<o.to, o.ue>>] = "new" THEN [ran EXCEPT ![<<o.to, o.ue>>] = o.amf] ELSE ran
          BY <1>2, <2>1, <2>4 DEF RanAfter
    <3> QED
        BY <2>1, <2>4, <3>1
  <2> QED
      BY <2>2, <2>3, <2>4
<1> QED
    BY <1>1, <1>2, TakenIds

\* Of another UE or another gNB nothing changes.
LEMMA RanKept ==
  ASSUME NEW o, NEW yes, Taken(o, yes), ran \in [Gnbs \X Ues -> Ids \cup {NULL, "new"}],
         NEW w \in Gnbs \X Ues, o.to \notin Gnbs \/ w # <<o.to, o.ue>>
  PROVE  RanAfter(o, yes)[w] = ran[w]
<1>1. CASE o.to \notin Gnbs
  <2>1. RanAfter(o, yes) = ran
        BY <1>1 DEF RanAfter
  <2> QED
      BY <2>1
<1>2. CASE o.to \in Gnbs
  <2>1. o.proc # "HandoverRequest" => o.ran = <<o.to, o.ue>>
        BY <1>2, TakenIds
  <2>2. RanAfter(o, yes) \in {ran} \cup {[ran EXCEPT ![<<o.to, o.ue>>] = x] : x \in {NULL, o.amf}}
        BY <1>2, <2>1 DEF RanAfter
  <2> QED
      BY <1>2, <2>2
<1> QED
    BY <1>1, <1>2

\* What the AMFs know.
LEMMA CoreTaken ==
  ASSUME NEW o, NEW yes, Taken(o, yes), core \in [Amfs \X Ues -> Ids \cup {NULL, "new"}]
  PROVE  LET t == <<o.to, o.ue>> IN
         /\ CoreAfter(o) \in [Amfs \X Ues -> Ids \cup {NULL, "new"}]
         /\ \A w \in Amfs \X Ues : o.to \notin Amfs \/ w # t => CoreAfter(o)[w] = core[w]
         /\ o.to \in Amfs => CoreAfter(o)[t] \in {core[t], NULL, o.ran}
         /\ o.proc \notin {"InitialUEMessage", "HandoverRequestAck"} =>
              \A w \in Amfs \X Ues : CoreAfter(o)[w] \in {core[w], NULL}
<1>1. CASE o.to \in Amfs
  <2>1. <<o.to, o.ue>> \in Amfs \X Ues /\ o.ran \in Ids
        BY <1>1, TakenIds DEF UpMsg
  <2>2. CASE o.proc = "InitialUEMessage" \/ (o.proc = "HandoverRequestAck" /\ core[<<o.to, o.ue>>] = "new")
    <3>1. CoreAfter(o) = [core EXCEPT ![<<o.to, o.ue>>] = o.ran]
          BY <1>1, <2>2 DEF CoreAfter
    <3> QED
        BY <2>1, <2>2, <3>1
  <2>3. CASE o.proc = "HandoverFailure"
    <3>1. CoreAfter(o) = [core EXCEPT ![<<o.to, o.ue>>] = NULL]
          BY <1>1, <2>3 DEF CoreAfter
    <3> QED
        BY <2>1, <2>3, <3>1
  <2>4. CASE ~(o.proc = "InitialUEMessage" \/ (o.proc = "HandoverRequestAck" /\ core[<<o.to, o.ue>>] = "new"))
             /\ o.proc # "HandoverFailure"
    <3>1. CoreAfter(o) = core
          BY <2>4 DEF CoreAfter
    <3> QED
        BY <3>1
  <2> QED
      BY <2>2, <2>3, <2>4
<1>2. CASE o.to \notin Amfs
  <2>1. CoreAfter(o) = core
        BY <1>2 DEF CoreAfter
  <2> QED
      BY <1>2, <2>1
<1> QED
    BY <1>1, <1>2

\* Where the UEs are, and are ordered to.
LEMMA UesTaken ==
  ASSUME NEW o, NEW yes, Taken(o, yes), PeersOk(ran, core, serving, ho)
  PROVE  LET left == o.proc = "UEContextReleaseCommand" /\ serving[o.ue] = o.to
             ordered == o.proc = "HandoverCommand" /\ serving[o.ue] = o.to /\ ho[o.ue] = "prepared" IN
         /\ ServingAfter(o) \in [Ues -> Gnbs \cup {NULL}]
         /\ HoAfter(o) \in [Ues -> Gnbs \cup {"none", "prepared"}]
         /\ \A v \in Ues : ~(left /\ v = o.ue) => ServingAfter(o)[v] = serving[v]
         /\ left => ServingAfter(o)[o.ue] = NULL /\ HoAfter(o)[o.ue] = "none"
         /\ \A v \in Ues : ~(ordered /\ v = o.ue) => HoAfter(o)[v] \in {ho[v], "none"}
         /\ ordered => HoAfter(o)[o.ue] = o.aim
<1>1. /\ serving \in [Ues -> Gnbs \cup {NULL}] /\ ho \in [Ues -> Gnbs \cup {"none", "prepared"}]
      /\ o.ue \in Ues
      BY TakenIds DEF PeersOk, PeerTypes
<1>2. o.proc = "HandoverCommand" => o.aim \in Gnbs
  <2>1. o.proc = "HandoverCommand" => ~UpMsg(o, GnbProcs)
        BY DEF UpMsg, GnbProcs
  <2> QED
      BY <2>1 DEF Taken, OutMsg
<1>3. CASE o.proc = "UEContextReleaseCommand"
  <2>1. /\ ServingAfter(o) = IF serving[o.ue] = o.to THEN [serving EXCEPT ![o.ue] = NULL] ELSE serving
        /\ HoAfter(o) = IF serving[o.ue] = o.to THEN [ho EXCEPT ![o.ue] = "none"] ELSE ho
        BY <1>3 DEF ServingAfter, HoAfter
  <2> QED
      BY <1>1, <1>3, <2>1
<1>4. CASE o.proc # "UEContextReleaseCommand"
  <2>1. ServingAfter(o) = serving
        BY <1>4 DEF ServingAfter
  <2>2. CASE o.proc = "HandoverCommand"
    <3>1. HoAfter(o) = IF serving[o.ue] = o.to /\ ho[o.ue] = "prepared" THEN [ho EXCEPT ![o.ue] = o.aim] ELSE ho
          BY <2>2 DEF HoAfter
    <3> QED
        BY <1>1, <1>2, <1>4, <2>1, <2>2, <3>1
  <2>3. CASE o.proc # "HandoverCommand"
    <3>1. HoAfter(o) \in {ho, [ho EXCEPT ![o.ue] = "none"]}
          BY <1>4, <2>3 DEF HoAfter
    <3> QED
        BY <1>1, <1>4, <2>1, <2>3, <3>1
  <2> QED
      BY <2>2, <2>3
<1> QED
    BY <1>3, <1>4

\* What the peer answers: a message of its own about the same UE and number.
AnswerProc(o, yes) ==
  CASE o.proc = "UEContextReleaseCommand" -> "UEContextReleaseComplete"
    [] o.proc = "SetupRequest" -> "SetupResponse"
    [] o.proc = "HandoverRequest" -> IF yes THEN "HandoverRequestAck" ELSE "HandoverFailure"
    [] o.proc = "PathSwitchRequest" -> IF yes THEN "PathSwitchRequestAck" ELSE "PathSwitchRequestFailure"

\* An answer as the peer gives it.
AnswerOf(o, yes, a) ==
  /\ GnbMsg(a) \/ AmfMsg(a)
  /\ SessIdOf(a) = SessIdOf(o) /\ a.from = o.to /\ a.ue = o.ue /\ a.proc = AnswerProc(o, yes)

\* Only four kinds are answered.
LEMMA AnswerTaken ==
  ASSUME NEW o, NEW yes, Taken(o, yes), PeersOk(ran, core, serving, ho)
  PROVE  IF o.proc \in {"UEContextReleaseCommand", "SetupRequest", "HandoverRequest", "PathSwitchRequest"}
           THEN \E a : Answer(o, yes) = {a} /\ AnswerOf(o, yes, a)
           ELSE Answer(o, yes) = {}
<1>1. CASE o.proc \in {"UEContextReleaseCommand", "SetupRequest"}
  <2>1. o.to \in Gnbs
        BY <1>1, TakenIds DEF UpMsg, GnbProcs
  <2>2. /\ o.ran = <<o.to, o.ue>> /\ ran[o.ran] \in {"new", o.amf} /\ o.amf \in Ids /\ o.ue \in Ues
        /\ SessIdOf(o) = o.amf
        BY <1>1, <2>1, TakenIds DEF DownMsg
  <2>3. ran[o.ran] # NULL
        BY <2>2, IdNames
  <2> DEFINE p == IF o.proc = "SetupRequest" THEN "SetupResponse" ELSE "UEContextReleaseComplete"
             a == Message(o.to, Gateway, p, o.ran, o.amf, o.ue, o.aim)
  <2>4. Answer(o, yes) = {a}
        BY <1>1, <2>3 DEF Answer
  <2>5. GnbMsg(a) /\ a.from = o.to /\ a.ue = o.ue /\ a.amf = o.amf /\ a.proc = p
        BY <1>1, <2>1, <2>2 DEF GnbMsg, Formed, Message, GnbProcs
  <2>6. SessIdOf(a) = o.amf
        BY <2>5, GnbNumber
  <2>7. p = AnswerProc(o, yes)
        BY <1>1 DEF AnswerProc
  <2> HIDE DEF a, p
  <2>8. AnswerOf(o, yes, a)
        BY <2>2, <2>5, <2>6, <2>7 DEF AnswerOf
  <2> QED
      BY <1>1, <2>4, <2>8
<1>2. CASE o.proc = "HandoverRequest"
  <2>1. o.to \in Gnbs
        BY <1>2, TakenIds DEF UpMsg, GnbProcs
  <2>2. o.amf \in Ids /\ o.ue \in Ues /\ SessIdOf(o) = o.amf /\ (yes => o.aim = o.to)
        BY <1>2, <2>1, TakenIds DEF DownMsg, Taken
  <2> DEFINE p == IF yes THEN "HandoverRequestAck" ELSE "HandoverFailure"
             a == Message(o.to, Gateway, p, <<o.to, o.ue>>, o.amf, o.ue, o.aim)
  <2>4. Answer(o, yes) = {a}
        BY <1>2 DEF Answer
  <2>5. GnbMsg(a) /\ a.from = o.to /\ a.ue = o.ue /\ a.amf = o.amf /\ a.proc = p
        BY <1>2, <2>1, <2>2 DEF GnbMsg, Formed, Message, GnbProcs
  <2>6. SessIdOf(a) = o.amf
        BY <2>5, GnbNumber
  <2>7. p = AnswerProc(o, yes)
        BY <1>2 DEF AnswerProc
  <2> HIDE DEF a, p
  <2>8. AnswerOf(o, yes, a)
        BY <2>2, <2>5, <2>6, <2>7 DEF AnswerOf
  <2> QED
      BY <1>2, <2>4, <2>8
<1>3. CASE o.proc = "PathSwitchRequest"
  <2>1. o.to \in Amfs
        BY <1>3, TakenIds DEF DownMsg, AmfProcs, OwnProcs
  <2>2. o.ran \in Ids /\ o.ue \in Ues /\ SessIdOf(o) = o.ran /\ o.amf = <<o.to, o.ue>>
        BY <1>3, <2>1, TakenIds DEF UpMsg
  <2> DEFINE p == IF yes THEN "PathSwitchRequestAck" ELSE "PathSwitchRequestFailure"
             a == Message(o.to, Gateway, p, o.ran, o.amf, o.ue, o.aim)
  <2>4. Answer(o, yes) = {a}
        BY <1>3 DEF Answer
  <2>5. AmfMsg(a) /\ a.from = o.to /\ a.ue = o.ue /\ a.ran = o.ran /\ a.proc = p
        BY <1>3, <2>1, <2>2 DEF AmfMsg, Formed, Message, AmfProcs
  <2>6. SessIdOf(a) = o.ran
        BY <2>5, AmfNumber
  <2>7. p = AnswerProc(o, yes)
        BY <1>3 DEF AnswerProc
  <2> HIDE DEF a, p
  <2>8. AnswerOf(o, yes, a)
        BY <2>2, <2>5, <2>6, <2>7 DEF AnswerOf
  <2> QED
      BY <1>3, <2>4, <2>8
<1>4. CASE o.proc \notin {"UEContextReleaseCommand", "SetupRequest", "HandoverRequest", "PathSwitchRequest"}
  <2>1. Answer(o, yes) = {}
        BY <1>4 DEF Answer
  <2> QED
      BY <1>4, <2>1
<1> QED
    BY <1>1, <1>2, <1>3, <1>4

\* The peers stay in states they can be in.
LEMMA PeersTaken ==
  ASSUME NEW o, NEW yes, Taken(o, yes), PeersOk(ran, core, serving, ho)
  PROVE  PeersOk(RanAfter(o, yes), CoreAfter(o), ServingAfter(o), HoAfter(o))
<1>1. ran \in [Gnbs \X Ues -> Ids \cup {NULL, "new"}] /\ core \in [Amfs \X Ues -> Ids \cup {NULL, "new"}]
      BY DEF PeersOk, PeerTypes
<1>2. PeerTypes(RanAfter(o, yes), CoreAfter(o), ServingAfter(o), HoAfter(o))
      BY <1>1, RanTaken, CoreTaken, UesTaken DEF PeerTypes
<1>3. ASSUME NEW u \in Ues
      PROVE  UeOk(u, RanAfter(o, yes), ServingAfter(o), HoAfter(o))
  <2>1. /\ \A g \in Gnbs : ran[<<g, u>>] = "new" => serving[u] = g /\ ho[u] = "none"
        /\ serving[u] # NULL => ran[<<serving[u], u>>] # NULL
        /\ serving[u] = NULL => ho[u] = "none"
        /\ serving[u] \in Gnbs \cup {NULL}
        BY DEF PeersOk, PeerTypes, UeOk
  <2> DEFINE left == o.proc = "UEContextReleaseCommand" /\ serving[o.ue] = o.to
             ordered == o.proc = "HandoverCommand" /\ serving[o.ue] = o.to /\ ho[o.ue] = "prepared"
             rn == RanAfter(o, yes)
             sv == ServingAfter(o)
             hh == HoAfter(o)
  <2>2. /\ ~(left /\ u = o.ue) => sv[u] = serving[u]
        /\ left /\ u = o.ue => sv[u] = NULL /\ hh[u] = "none"
        /\ ~(ordered /\ u = o.ue) => hh[u] \in {ho[u], "none"}
        BY UesTaken
  <2>3. \A g \in Gnbs : /\ o.to # g \/ o.ue # u \/ o.to \notin Gnbs => rn[<<g, u>>] = ran[<<g, u>>]
                        /\ o.to = g /\ o.ue = u /\ o.to \in Gnbs =>
                             /\ o.proc = "UEContextReleaseCommand" => rn[<<g, u>>] = NULL
                             /\ o.proc # "UEContextReleaseCommand" => rn[<<g, u>>] \in {ran[<<g, u>>], o.amf}
    <3>1. rn = RanAfter(o, yes)
          OBVIOUS
    <3> HIDE DEF rn
    <3> TAKE g \in Gnbs
    <3>2. ASSUME o.to # g \/ o.ue # u \/ o.to \notin Gnbs
          PROVE  rn[<<g, u>>] = ran[<<g, u>>]
      <4>1. <<g, u>> \in Gnbs \X Ues /\ (o.to \notin Gnbs \/ <<g, u>> # <<o.to, o.ue>>)
            BY <3>2
      <4> QED
          BY <1>1, <3>1, <4>1, RanKept
    <3>3. ASSUME o.to = g, o.ue = u
          PROVE  /\ o.proc = "UEContextReleaseCommand" => rn[<<g, u>>] = NULL
                 /\ o.proc # "UEContextReleaseCommand" => rn[<<g, u>>] \in {ran[<<g, u>>], o.amf}
          BY <1>1, <3>1, <3>3, RanTaken
    <3> QED
        BY <3>2, <3>3
  <2>4. o.to \in Gnbs => o.amf \in Ids
        BY TakenIds DEF DownMsg
  <2> HIDE DEF rn, sv, hh
  <2>5. ASSUME NEW g \in Gnbs, rn[<<g, u>>] = "new"
        PROVE  sv[u] = g /\ hh[u] = "none"
    <3>1. ran[<<g, u>>] = "new"
          BY <2>3, <2>4, <2>5, IdNames
    <3>2. serving[u] = g /\ ho[u] = "none"
          BY <2>1, <3>1
    <3>3. ~(left /\ u = o.ue)
          BY <2>3, <2>5, <3>2, IdNames
    <3> QED
        BY <2>2, <3>2, <3>3
  <2>6. sv[u] # NULL => rn[<<sv[u], u>>] # NULL
    <3> SUFFICES ASSUME sv[u] # NULL
                 PROVE  rn[<<sv[u], u>>] # NULL
        OBVIOUS
    <3>1. ~(left /\ u = o.ue) /\ sv[u] = serving[u] /\ serving[u] \in Gnbs /\ ran[<<serving[u], u>>] # NULL
          BY <2>1, <2>2
    <3> QED
        BY <2>3, <2>4, <3>1, IdNames
  <2>7. sv[u] = NULL => hh[u] = "none"
    <3>1. CASE left /\ u = o.ue
          BY <2>2, <3>1
    <3>2. CASE ~(left /\ u = o.ue)
      <4>1. sv[u] = NULL => ho[u] = "none"
            BY <2>1, <2>2, <3>2
      <4> QED
          BY <2>2, <4>1
    <3> QED
        BY <3>1, <3>2
  <2> QED
      BY <2>5, <2>6, <2>7 DEF UeOk, rn, sv, hh
<1> QED
    BY <1>2, <1>3 DEF PeersOk

\* What is about other numbers is left alone.
LEMMA OthersTaken ==
  ASSUME NEW o, NEW yes, Taken(o, yes), PeersOk(ran, core, serving, ho),
         NEW j \in Ids, j # SessIdOf(o)
  PROVE  /\ \A t \in Gnbs \X Ues : RanAfter(o, yes)[t] = j <=> ran[t] = j
         /\ \A t \in Amfs \X Ues : CoreAfter(o)[t] = j => core[t] = j
         /\ \A v \in Ues : Fades(j, v, ran, core, serving, ho,
                                 RanAfter(o, yes), CoreAfter(o), ServingAfter(o), HoAfter(o))
<1>0. /\ ran \in [Gnbs \X Ues -> Ids \cup {NULL, "new"}] /\ core \in [Amfs \X Ues -> Ids \cup {NULL, "new"}]
      /\ serving \in [Ues -> Gnbs \cup {NULL}]
      BY DEF PeersOk, PeerTypes
<1>n. j # NULL /\ j # "new"
      BY IdNames
<1> DEFINE rn == RanAfter(o, yes)
           cr == CoreAfter(o)
           sv == ServingAfter(o)
           hh == HoAfter(o)
           left == o.proc = "UEContextReleaseCommand" /\ serving[o.ue] = o.to
           ordered == o.proc = "HandoverCommand" /\ serving[o.ue] = o.to /\ ho[o.ue] = "prepared"
<1>1. o.to \in Gnbs => /\ o.amf # j /\ <<o.to, o.ue>> \in Gnbs \X Ues
                       /\ ran[<<o.to, o.ue>>] # j \/ rn = ran
                       /\ o.proc # "HandoverRequest" => ran[<<o.to, o.ue>>] # j
  <2> SUFFICES ASSUME o.to \in Gnbs
               PROVE  /\ o.amf # j /\ <<o.to, o.ue>> \in Gnbs \X Ues
                      /\ ran[<<o.to, o.ue>>] # j \/ rn = ran
                      /\ o.proc # "HandoverRequest" => ran[<<o.to, o.ue>>] # j
      OBVIOUS
  <2>1. o.amf # j /\ <<o.to, o.ue>> \in Gnbs \X Ues
        BY TakenIds
  <2>2. CASE o.proc = "HandoverRequest"
    <3>1. yes => ran[<<o.to, o.ue>>] = NULL
          BY <2>2 DEF Taken
    <3>2. ~yes => rn = ran
          BY <2>2 DEF RanAfter
    <3> QED
        BY <1>n, <2>1, <2>2, <3>1, <3>2
  <2>3. CASE o.proc # "HandoverRequest"
    <3>1. ran[<<o.to, o.ue>>] \in {"new", o.amf}
          BY <2>3, TakenIds
    <3> QED
        BY <1>n, <2>1, <2>3, <3>1
  <2> QED
      BY <2>2, <2>3
<1>2. ASSUME NEW t \in Gnbs \X Ues
      PROVE  rn[t] = j <=> ran[t] = j
  <2>1. CASE o.to \in Gnbs /\ t = <<o.to, o.ue>>
    <3>1. rn[t] \in {NULL, o.amf, ran[t]}
          BY <1>0, <2>1, RanTaken
    <3> QED
        BY <1>1, <1>n, <2>1, <3>1
  <2>2. CASE ~(o.to \in Gnbs /\ t = <<o.to, o.ue>>)
    <3>1. o.to \notin Gnbs \/ t # <<o.to, o.ue>>
          BY <2>2
    <3>2. rn[t] = ran[t]
          BY <1>0, <3>1, RanKept
    <3> QED
        BY <3>2
  <2> QED
      BY <2>1, <2>2
<1>3. ASSUME NEW t \in Amfs \X Ues, cr[t] = j
      PROVE  core[t] = j
  <2>1. CASE o.to \in Amfs /\ t = <<o.to, o.ue>>
    <3>1. cr[t] \in {core[t], NULL, o.ran} /\ o.ran # j
          BY <1>0, <2>1, CoreTaken, TakenIds
    <3> QED
        BY <1>3, <1>n, <3>1
  <2>2. CASE ~(o.to \in Amfs /\ t = <<o.to, o.ue>>)
    <3>1. cr[t] = core[t]
          BY <1>0, <2>2, CoreTaken
    <3> QED
        BY <1>3, <3>1
  <2> QED
      BY <2>1, <2>2
<1>4. ASSUME NEW v \in Ues
      PROVE  Fades(j, v, ran, core, serving, ho, rn, cr, sv, hh)
  <2>1. /\ ~(left /\ v = o.ue) => sv[v] = serving[v]
        /\ left /\ v = o.ue => sv[v] = NULL
        /\ ~(ordered /\ v = o.ue) => hh[v] \in {ho[v], "none"}
        BY UesTaken
  <2>2. serving[v] \in Gnbs \cup {NULL} /\ "none" \notin Gnbs /\ NULL \notin Gnbs
        BY <1>0, PeerNames
  <2> HIDE DEF rn, cr, sv, hh
  <2>3. ASSUME v = o.ue, serving[v] = o.to, serving[v] # NULL, o.proc # "HandoverRequest"
        PROVE  ~Home(j, v, ran, serving)
    <3>1. ran[<<o.to, o.ue>>] # j
          BY <1>1, <2>2, <2>3
    <3> QED
        BY <2>3, <3>1 DEF Home
  <2>4. ASSUME Home(j, v, ran, serving)
        PROVE  Home(j, v, rn, sv) /\ sv[v] = serving[v]
    <3>1. sv[v] = serving[v]
          BY <2>1, <2>3, <2>4 DEF Home
    <3> QED
        BY <1>2, <2>2, <2>4, <3>1 DEF Home
  <2>5. ASSUME Home(j, v, rn, sv), hh[v] \in Gnbs
        PROVE  Home(j, v, ran, serving) /\ hh[v] = ho[v]
    <3>1. sv[v] = serving[v]
          BY <2>1, <2>5 DEF Home
    <3>2. Home(j, v, ran, serving)
          BY <1>2, <2>2, <2>5, <3>1 DEF Home
    <3>3. ~(ordered /\ v = o.ue)
          BY <2>3, <3>2 DEF Home
    <3> QED
        BY <2>1, <2>2, <2>5, <3>2, <3>3
  <2> QED
      BY <1>3, <2>4, <2>5 DEF Fades
<1> QED
    BY <1>2, <1>3, <1>4

\* The message o is about session i of UE u; once it is taken B is left.
Own(o, yes, i, u, s, E, c, A, B) ==
  /\ Taken(o, yes) /\ PeersOk(ran, core, serving, ho) /\ i = SessIdOf(o) /\ u \in Ues
  /\ A = B \cup {o} /\ (\A q \in B : Waits(q)) /\ (o \in B => o.proc \notin Steps)
  /\ Agrees(i, u, s, E, c, A, ran, core, serving, ho)

\* What o says, then.
LEMMA OwnIds ==
  ASSUME NEW o, NEW yes, NEW i, NEW u, NEW s, NEW E, NEW c, NEW A, NEW B, Own(o, yes, i, u, s, E, c, A, B)
  PROVE  /\ o.ue = u /\ i \in Ids /\ MsgOk(o, i, u, s, E, A, ran, core, serving)
         /\ o.to \in Gnbs => o.amf = i /\ DownOk(o, i, u, s, A, core, serving)
         /\ o.to \in Amfs => o.ran = i /\ UpOk(o, i, u, s, A, core)
         /\ ran \in [Gnbs \X Ues -> Ids \cup {NULL, "new"}] /\ core \in [Amfs \X Ues -> Ids \cup {NULL, "new"}]
<1>1. Taken(o, yes) /\ i = SessIdOf(o) /\ MsgOk(o, i, u, s, E, A, ran, core, serving)
      BY DEF Own, Agrees
<1>2. o.ue = u /\ i \in Ids
      BY <1>1 DEF MsgOk, Taken
<1>3. o.to \in Gnbs => o.amf = i /\ DownOk(o, i, u, s, A, core, serving)
      BY <1>1, TakenIds DEF MsgOk
<1>4. o.to \in Amfs => o.ran = i /\ UpOk(o, i, u, s, A, core)
      BY <1>1, TakenIds DEF MsgOk
<1>5. ran \in [Gnbs \X Ues -> Ids \cup {NULL, "new"}] /\ core \in [Amfs \X Ues -> Ids \cup {NULL, "new"}]
      BY DEF Own, PeersOk, PeerTypes
<1> QED
    BY <1>1, <1>2, <1>3, <1>4, <1>5

\* A gNB that takes it learns the number of its UE, or forgets it.
LEMMA OwnRan ==
  ASSUME NEW o, NEW yes, NEW i, NEW u, NEW s, NEW E, NEW c, NEW A, NEW B, Own(o, yes, i, u, s, E, c, A, B),
         NEW D, \A q \in A : q.proc = "HandoverRequestAck" => \E p \in D : p.proc = "HandoverRequestAck",
         o.to \in Gnbs /\ o.proc = "HandoverRequest" /\ yes => \E p \in D : p.proc = "HandoverRequestAck"
  PROVE  RanOk(i, u, s, D, RanAfter(o, yes))
<1> SUFFICES ASSUME NEW t \in Gnbs \X Ues, RanAfter(o, yes)[t] = i
             PROVE  /\ t[2] = u /\ s.amfUeId # NULL
                    /\ s.gnbUeId = NULL => \E p \in D : p.proc = "HandoverRequestAck"
    BY DEF RanOk
<1>1. RanOk(i, u, s, A, ran) /\ Taken(o, yes)
      BY DEF Own, Agrees
<1>2. CASE ran[t] = i
      BY <1>1, <1>2 DEF RanOk
<1>3. CASE ran[t] # i
  <2>1. o.to \in Gnbs /\ t = <<o.to, o.ue>>
    <3>1. ran \in [Gnbs \X Ues -> Ids \cup {NULL, "new"}] /\ RanAfter(o, yes)[t] # ran[t]
          BY <1>3, OwnIds
    <3> QED
        BY <1>1, <3>1, RanKept
  <2>2. t[2] = u /\ DownOk(o, i, u, s, A, core, serving)
        BY <2>1, OwnIds
  <2>3. CASE o.proc = "HandoverRequest"
    <3>0. ran \in [Gnbs \X Ues -> Ids \cup {NULL, "new"}]
          BY OwnIds
    <3>1. RanAfter(o, yes)[t] = IF yes THEN o.amf ELSE ran[t]
          BY <1>1, <2>1, <2>3, <3>0, RanTaken
    <3> QED
        BY <1>3, <2>1, <2>2, <2>3, <3>1 DEF DownOk
  <2>4. CASE o.proc # "HandoverRequest"
        BY <2>2, <2>4 DEF DownOk
  <2> QED
      BY <2>3, <2>4
<1> QED
    BY <1>2, <1>3

\* An answer that is no step of a handover, or the message's own.
LEMMA AnswerOk ==
  ASSUME NEW a, NEW i, NEW u, NEW s, NEW E, NEW D, NEW rn, NEW cr, NEW sv,
         a.from \in Gnbs, a.ue = u, s.amfUeId # NULL,
         a.proc \in {"UEContextReleaseComplete", "SetupResponse", "HandoverFailure"}
  PROVE  MsgOk(a, i, u, s, E, D, rn, cr, sv)
BY PeerNames DEF MsgOk, FromGnbOk

\* The peers change as the message says; what is left of the messages stays right.
LEMMA OwnFades ==
  ASSUME NEW o, NEW yes, NEW i, NEW u, NEW s, NEW E, NEW c, NEW A, NEW B, Own(o, yes, i, u, s, E, c, A, B),
         o.proc \notin {"InitialUEMessage", "HandoverRequestAck"},
         o.proc = "HandoverCommand" => serving[u] # o.to \/ ho[u] # "prepared"
  PROVE  Fades(i, u, ran, core, serving, ho,
               RanAfter(o, yes), CoreAfter(o), ServingAfter(o), HoAfter(o))
<1>0. /\ Taken(o, yes) /\ PeersOk(ran, core, serving, ho) /\ u \in Ues /\ o.ue = u /\ i \in Ids
      /\ ran \in [Gnbs \X Ues -> Ids \cup {NULL, "new"}] /\ core \in [Amfs \X Ues -> Ids \cup {NULL, "new"}]
      BY OwnIds DEF Own
<1> DEFINE rn == RanAfter(o, yes)
           cr == CoreAfter(o)
           sv == ServingAfter(o)
           hh == HoAfter(o)
           left == o.proc = "UEContextReleaseCommand" /\ serving[o.ue] = o.to
<1>1. \A t \in Amfs \X Ues : cr[t] = i => core[t] = i
  <2> SUFFICES ASSUME NEW t \in Amfs \X Ues, cr[t] = i
               PROVE  core[t] = i
      OBVIOUS
  <2>1. cr[t] \in {core[t], NULL} /\ i # NULL
        BY <1>0, CoreTaken, IdNames
  <2> QED
      BY <2>1
<1>2. /\ ~left => sv[u] = serving[u]
      /\ left => sv[u] = NULL
      /\ hh[u] \in {ho[u], "none"}
      BY <1>0, UesTaken
<1>3. serving[u] \in Gnbs \cup {NULL} /\ "none" \notin Gnbs /\ NULL \notin Gnbs /\ UeOk(u, ran, serving, ho)
      BY <1>0, PeerNames DEF PeersOk, PeerTypes
<1>4. serving[u] \in Gnbs /\ ~left => \/ rn[<<serving[u], u>>] = ran[<<serving[u], u>>]
                                      \/ /\ rn[<<serving[u], u>>] = i
                                         /\ ran[<<serving[u], u>>] \in {"new", i, NULL}
  <2> SUFFICES ASSUME serving[u] \in Gnbs, ~left
               PROVE  \/ rn[<<serving[u], u>>] = ran[<<serving[u], u>>]
                      \/ /\ rn[<<serving[u], u>>] = i
                         /\ ran[<<serving[u], u>>] \in {"new", i, NULL}
      OBVIOUS
  <2>1. CASE o.to # serving[u]
    <3>1. <<serving[u], u>> \in Gnbs \X Ues /\ <<serving[u], u>> # <<o.to, o.ue>>
          BY <1>0, <2>1
    <3> QED
        BY <1>0, <3>1, RanKept
  <2>2. CASE o.to = serving[u]
    <3>1. o.to \in Gnbs /\ o.proc # "UEContextReleaseCommand" /\ o.amf = i
          BY <1>0, <2>2, OwnIds
    <3>2. CASE o.proc = "HandoverRequest"
      <4>1. rn[<<o.to, o.ue>>] = IF yes THEN o.amf ELSE ran[<<o.to, o.ue>>]
            BY <1>0, <3>1, <3>2, RanTaken
      <4>2. yes => ran[<<o.to, o.ue>>] = NULL
            BY <1>0, <3>2 DEF Taken
      <4> QED
          BY <1>0, <2>2, <3>1, <4>1, <4>2
    <3>3. CASE o.proc # "HandoverRequest"
      <4>1. rn[<<o.to, o.ue>>] = o.amf
            BY <1>0, <3>1, <3>3, RanTaken
      <4>2. ran[<<o.to, o.ue>>] \in {"new", o.amf}
            BY <1>0, <3>1, <3>3, TakenIds
      <4> QED
          BY <1>0, <2>2, <3>1, <4>1, <4>2
    <3> QED
        BY <3>2, <3>3
  <2> QED
      BY <2>1, <2>2
<1> HIDE DEF rn, cr, sv, hh
<1>5. ASSUME Served(i, cr), Home(i, u, ran, serving)
      PROVE  Home(i, u, rn, sv) /\ sv[u] = serving[u]
  <2>1. Served(i, core)
        BY <1>1, <1>5 DEF Served
  <2>2. ~left
    <3>1. o.proc = "UEContextReleaseCommand" => o.to \in Gnbs
          BY <1>0, TakenIds DEF UpMsg, GnbProcs
    <3>2. o.proc = "UEContextReleaseCommand" => o.to # serving[u]
          BY <2>1, <3>1, OwnIds DEF DownOk
    <3> QED
        BY <1>0, <3>2
  <2> QED
      BY <1>2, <1>3, <1>4, <1>5, <2>2 DEF Home
<1>6. ASSUME Home(i, u, rn, sv), hh[u] \in Gnbs
      PROVE  Home(i, u, ran, serving) /\ hh[u] = ho[u]
  <2>1. ~left /\ sv[u] = serving[u] /\ serving[u] \in Gnbs /\ hh[u] = ho[u] /\ ho[u] # "none"
        BY <1>2, <1>3, <1>6 DEF Home
  <2>2. ran[<<serving[u], u>>] \notin {"new", NULL}
        BY <1>3, <2>1 DEF UeOk
  <2> QED
      BY <1>4, <1>6, <2>1, <2>2 DEF Home
<1> QED
    BY <1>1, <1>5, <1>6 DEF Fades, rn, cr, sv, hh

\* A message that begins or answers no step of a handover.
LEMMA OwnPlain ==
  ASSUME NEW o, NEW yes, NEW i, NEW u, NEW s, NEW E, NEW c, NEW A, NEW B, Own(o, yes, i, u, s, E, c, A, B),
         o.proc \notin {"InitialUEMessage", "HandoverRequest", "HandoverRequestAck", "PathSwitchRequest"},
         o.proc = "HandoverCommand" => serving[u] # o.to \/ ho[u] # "prepared"
  PROVE  Agrees(i, u, s, E, c, B \cup Answer(o, yes),
                RanAfter(o, yes), CoreAfter(o), ServingAfter(o), HoAfter(o))
<1>0. /\ Taken(o, yes) /\ PeersOk(ran, core, serving, ho) /\ o.ue = u /\ i \in Ids /\ i = SessIdOf(o)
      /\ A = B \cup {o} /\ (\A q \in B : Waits(q)) /\ Agrees(i, u, s, E, c, A, ran, core, serving, ho)
      BY OwnIds DEF Own
<1> DEFINE rn == RanAfter(o, yes)
           cr == CoreAfter(o)
           sv == ServingAfter(o)
           hh == HoAfter(o)
<1>1. Agrees(i, u, s, E, c, B, ran, core, serving, ho)
  <2>1. ~Asks(o, c)
    <3>1. o.from = Gateway
          BY <1>0, TakenIds
    <3> QED
        BY <3>1 DEF Asks
  <2> QED
      BY <1>0, <2>1, Shrinks
<1>2. Fades(i, u, ran, core, serving, ho, rn, cr, sv, hh)
      BY OwnFades
<1>3. RanOk(i, u, s, B, rn)
  <2>1. \A q \in A : q.proc = "HandoverRequestAck" => \E p \in B : p.proc = "HandoverRequestAck"
        BY <1>0
  <2> QED
      BY <2>1, OwnRan
<1> HIDE DEF rn, cr, sv, hh
<1>4. Agrees(i, u, s, E, c, B, rn, cr, sv, hh)
      BY <1>0, <1>1, <1>2, <1>3, AgreesFades
<1>5. Agrees(i, u, s, E, c, B \cup Answer(o, yes), rn, cr, sv, hh)
  <2>1. CASE o.proc \in {"UEContextReleaseCommand", "SetupRequest"}
    <3>1. PICK a : Answer(o, yes) = {a} /\ AnswerOf(o, yes, a)
          BY <1>0, <2>1, AnswerTaken
    <3>2. o.to \in Gnbs /\ s.amfUeId # NULL
      <4>1. o.to \in Gnbs
            BY <1>0, <2>1, TakenIds DEF UpMsg, GnbProcs
      <4> QED
          BY <4>1, OwnIds DEF DownOk
    <3>3. a.from \in Gnbs /\ a.ue = u /\ a.proc \in {"UEContextReleaseComplete", "SetupResponse"}
          BY <1>0, <2>1, <3>1, <3>2 DEF AnswerOf, AnswerProc
    <3>4. MsgOk(a, i, u, s, E, B \cup {a}, rn, cr, sv)
          BY <3>2, <3>3, AnswerOk
    <3>5. a.proc \notin Steps /\ a.from \notin Amfs
          BY <3>3, PeerNames DEF Steps, HandoverProcs
    <3> QED
        BY <1>0, <1>4, <3>1, <3>4, <3>5, Added
  <2>2. CASE o.proc \notin {"UEContextReleaseCommand", "SetupRequest"}
    <3>1. Answer(o, yes) = {}
          BY <1>0, <2>2, AnswerTaken
    <3>2. B \cup Answer(o, yes) = B
          BY <3>1
    <3> QED
        BY <1>4, <3>2
  <2> QED
      BY <2>1, <2>2
<1> QED
    BY <1>5 DEF rn, cr, sv, hh

\* The source learns that the target has the UE's context: the UE is ordered there.
LEMMA OwnCommand ==
  ASSUME NEW o, NEW yes, NEW i, NEW u, NEW s, NEW E, NEW c, NEW A, NEW B, Own(o, yes, i, u, s, E, c, A, B),
         o.proc = "HandoverCommand", serving[u] = o.to, ho[u] = "prepared"
  PROVE  Agrees(i, u, s, E, c, B \cup Answer(o, yes),
                RanAfter(o, yes), CoreAfter(o), ServingAfter(o), HoAfter(o))
<1>0. /\ Taken(o, yes) /\ PeersOk(ran, core, serving, ho) /\ o.ue = u /\ i \in Ids /\ u \in Ues
      /\ A = B \cup {o} /\ (\A q \in B : Waits(q)) /\ Agrees(i, u, s, E, c, A, ran, core, serving, ho)
      BY OwnIds DEF Own
<1>1. o.to \in Gnbs /\ o.aim \in Gnbs /\ DownOk(o, i, u, s, A, core, serving) /\ o.from = Gateway
  <2>1. o.to \in Gnbs
        BY <1>0, TakenIds DEF UpMsg, GnbProcs
  <2>2. o.aim \in Gnbs /\ o.from = Gateway
        BY <1>0, <2>1, TakenIds
  <2>3. DownOk(o, i, u, s, A, core, serving)
        BY <2>1, OwnIds
  <2> QED
      BY <2>1, <2>2, <2>3
<1>2. B \cup Answer(o, yes) = B
  <2>1. Answer(o, yes) = {}
        BY <1>0, AnswerTaken
  <2> QED
      BY <2>1
<1>3. RanAfter(o, yes) = ran
  <2>1. o.ran = <<o.to, u>> /\ ran[<<o.to, u>>] # "new"
    <3>1. o.ran = <<o.to, u>>
          BY <1>0, <1>1, TakenIds
    <3>2. UeOk(u, ran, serving, ho)
          BY <1>0 DEF PeersOk
    <3>3. "prepared" # "none"
          OBVIOUS
    <3> QED
        BY <1>1, <3>1, <3>2, <3>3 DEF UeOk
  <2> QED
      BY <2>1 DEF RanAfter
<1>4. CoreAfter(o) = core
      BY DEF CoreAfter
<1>5. ServingAfter(o) = serving
      BY DEF ServingAfter
<1>6. HoAfter(o)[u] = o.aim
      BY <1>0, UesTaken
<1>7. Agrees(i, u, s, E, c, B, ran, core, serving, ho)
  <2>1. ~Asks(o, c)
        BY <1>1 DEF Asks
  <2> QED
      BY <1>0, <2>1, Shrinks
<1>8. OrderOk(i, u, s, B, ran, core, serving, HoAfter(o))
      BY <1>0, <1>1, <1>6 DEF OrderOk, DownOk
<1>9. Agrees(i, u, s, E, c, B, ran, core, serving, HoAfter(o))
      BY <1>7, <1>8 DEF Agrees
<1> QED
    BY <1>2, <1>3, <1>4, <1>5, <1>9

\* The target answers.
LEMMA OwnRequest ==
  ASSUME NEW o, NEW yes, NEW i, NEW u, NEW s, NEW E, NEW c, NEW A, NEW B, Own(o, yes, i, u, s, E, c, A, B),
         o.proc = "HandoverRequest"
  PROVE  Agrees(i, u, s, E, c, B \cup Answer(o, yes),
                RanAfter(o, yes), CoreAfter(o), ServingAfter(o), HoAfter(o))
<1>0. /\ Taken(o, yes) /\ PeersOk(ran, core, serving, ho) /\ o.ue = u /\ i \in Ids /\ u \in Ues
      /\ A = B \cup {o} /\ (\A q \in B : Waits(q)) /\ Agrees(i, u, s, E, c, A, ran, core, serving, ho)
      /\ o.proc \in Steps /\ o \notin B
      BY OwnIds DEF Own, Steps, HandoverProcs
<1>1. o.to \in Gnbs /\ DownOk(o, i, u, s, A, core, serving) /\ o.from = Gateway /\ o.amf = i
  <2>1. o.to \in Gnbs
        BY <1>0, TakenIds DEF UpMsg, GnbProcs
  <2>2. o.from = Gateway
        BY <1>0, TakenIds
  <2>3. DownOk(o, i, u, s, A, core, serving) /\ o.amf = i
        BY <2>1, OwnIds
  <2> QED
      BY <2>1, <2>2, <2>3
<1>2. PICK a : Answer(o, yes) = {a} /\ AnswerOf(o, yes, a)
      BY <1>0, AnswerTaken
<1> DEFINE D == B \cup {a}
<1>3. /\ a.from = o.to /\ a.ue = u /\ a.proc = IF yes THEN "HandoverRequestAck" ELSE "HandoverFailure"
      BY <1>0, <1>2 DEF AnswerOf, AnswerProc
<1>4. a.from \in Gnbs /\ a.from # Gateway /\ a.from \notin Amfs /\ a.proc \in Steps
      BY <1>1, <1>3, PeerNames DEF Steps, HandoverProcs
<1>5. MsgOk(a, i, u, s, E, D, ran, core, serving)
  <2>1. s.amfUeId # NULL
        BY <1>1 DEF DownOk
  <2>2. CASE ~yes
        BY <1>3, <1>4, <2>1, <2>2, AnswerOk
  <2>3. CASE yes
    <3>1. AckOk(a, i, u, s, core, serving)
      <4>1. CASE s.eHandoverflag
        <5>1. a.from = s.TgtGnbId
              BY <1>0, <1>1, <1>3, <4>1 DEF DownOk
        <5>2. Served(i, core) => Home(i, u, ran, serving)
              BY <1>0, <4>1 DEF Agrees, SessOk
        <5>3. ran[<<a.from, u>>] = NULL /\ i # NULL
              BY <1>0, <1>3, <2>3, IdNames DEF Taken
        <5>4. Served(i, core) => a.from # serving[u]
              BY <5>2, <5>3 DEF Home
        <5> QED
            BY <4>1, <5>1, <5>4 DEF AckOk
      <4>2. CASE ~s.eHandoverflag
            BY <1>0, <1>1, <1>3, <4>2 DEF DownOk, AckOk
      <4> QED
          BY <4>1, <4>2
    <3> QED
        BY <1>3, <1>4, <2>1, <2>3, <3>1 DEF MsgOk, FromGnbOk
  <2> QED
      BY <2>2, <2>3
<1>6. SessOk(i, u, s, E, c, D, ran, core, serving)
  <2>1. Asks(a, c)
        BY <1>3, <1>4 DEF Asks
  <2> QED
      BY <1>0, <2>1 DEF Agrees, SessOk
<1>7. OrderOk(i, u, s, D, ran, core, serving, ho)
      BY <1>0, NotOrdered
<1>8. Agrees(i, u, s, E, c, D, ran, core, serving, ho)
  <2>1. o \in A /\ D = (A \ {o}) \cup {a} /\ \A q \in A \ {o} : Waits(q)
        BY <1>0
  <2>2. Alike(s, s)
        BY DEF Alike
  <2> HIDE DEF D
  <2>3. o.proc # "HandoverRequestAck"
        OBVIOUS
  <2> QED
      BY <1>0, <1>4, <1>5, <1>6, <1>7, <2>1, <2>2, <2>3, Handled
<1>9. RanOk(i, u, s, D, RanAfter(o, yes))
  <2>1. \A q \in A : q.proc = "HandoverRequestAck" => \E p \in D : p.proc = "HandoverRequestAck"
        BY <1>0
  <2>2. yes => \E p \in D : p.proc = "HandoverRequestAck"
        BY <1>3
  <2> HIDE DEF D
  <2> QED
      BY <2>1, <2>2, OwnRan
<1>10. Fades(i, u, ran, core, serving, ho,
             RanAfter(o, yes), CoreAfter(o), ServingAfter(o), HoAfter(o))
       BY OwnFades
<1>11. \A q \in D : Waits(q)
       BY <1>0, <1>2 DEF AnswerOf, Waits
<1> HIDE DEF D
<1>12. Agrees(i, u, s, E, c, D, RanAfter(o, yes), CoreAfter(o), ServingAfter(o), HoAfter(o))
       BY <1>8, <1>9, <1>10, <1>11, AgreesFades
<1> QED
    BY <1>2, <1>12 DEF D

\* The AMF switches the path, or does not.
LEMMA OwnSwitch ==
  ASSUME NEW o, NEW yes, NEW i, NEW u, NEW s, NEW E, NEW c, NEW A, NEW B, Own(o, yes, i, u, s, E, c, A, B),
         o.proc = "PathSwitchRequest"
  PROVE  Agrees(i, u, s, E, c, B \cup Answer(o, yes),
                RanAfter(o, yes), CoreAfter(o), ServingAfter(o), HoAfter(o))
<1>0. /\ Taken(o, yes) /\ PeersOk(ran, core, serving, ho) /\ o.ue = u /\ i \in Ids /\ u \in Ues
      /\ A = B \cup {o} /\ (\A q \in B : Waits(q)) /\ Agrees(i, u, s, E, c, A, ran, core, serving, ho)
      /\ o.proc \in Steps /\ o \notin B
      BY OwnIds DEF Own, Steps, HandoverProcs
<1>1. o.to \in Amfs /\ UpOk(o, i, u, s, A, core)
  <2>1. o.to \in Amfs
        BY <1>0, TakenIds DEF DownMsg, AmfProcs, OwnProcs
  <2> QED
      BY <2>1, OwnIds
<1>2. PICK a : Answer(o, yes) = {a} /\ AnswerOf(o, yes, a)
      BY <1>0, AnswerTaken
<1> DEFINE D == B \cup {a}
<1>3. /\ a.from = o.to /\ a.ue = u
      /\ a.proc = IF yes THEN "PathSwitchRequestAck" ELSE "PathSwitchRequestFailure"
      BY <1>0, <1>2 DEF AnswerOf, AnswerProc
<1>4. a.from \in Amfs /\ a.from # Gateway /\ a.from \notin Gnbs /\ a.proc \in Steps
      BY <1>1, <1>3, PeerNames DEF Steps, HandoverProcs
<1>5. MsgOk(a, i, u, s, E, D, ran, core, serving)
      BY <1>1, <1>3, <1>4 DEF MsgOk, FromAmfOk, UpOk
<1>6. SessOk(i, u, s, E, c, D, ran, core, serving)
  <2>1. Asks(o, c) => Asks(a, c)
        BY <1>3, <1>4 DEF Asks
  <2> QED
      BY <1>0, <2>1 DEF Agrees, SessOk
<1>7. OrderOk(i, u, s, D, ran, core, serving, ho)
      BY <1>0, NotOrdered
<1>8. Agrees(i, u, s, E, c, D, ran, core, serving, ho)
  <2>1. o \in A /\ D = (A \ {o}) \cup {a} /\ \A q \in A \ {o} : Waits(q)
        BY <1>0
  <2>2. Alike(s, s)
        BY DEF Alike
  <2> HIDE DEF D
  <2>3. o.proc # "HandoverRequestAck"
        OBVIOUS
  <2> QED
      BY <1>0, <1>4, <1>5, <1>6, <1>7, <2>1, <2>2, <2>3, Handled
<1>9. RanAfter(o, yes) = ran
      BY <1>1, <1>0, TakenIds DEF RanAfter
<1>10. CoreAfter(o) = core
       BY DEF CoreAfter
<1>11. ServingAfter(o) = serving /\ HoAfter(o) = ho
       BY DEF ServingAfter, HoAfter
<1> HIDE DEF D
<1> QED
    BY <1>2, <1>8, <1>9, <1>10, <1>11 DEF D

\* The AMF learns the number of a UE that attaches.
LEMMA OwnInitial ==
  ASSUME NEW o, NEW yes, NEW i, NEW u, NEW s, NEW E, NEW c, NEW A, NEW B, Own(o, yes, i, u, s, E, c, A, B),
         o.proc = "InitialUEMessage"
  PROVE  Agrees(i, u, s, E, c, B \cup Answer(o, yes),
                RanAfter(o, yes), CoreAfter(o), ServingAfter(o), HoAfter(o))
<1>0. /\ Taken(o, yes) /\ PeersOk(ran, core, serving, ho) /\ o.ue = u /\ i \in Ids /\ u \in Ues
      /\ A = B \cup {o} /\ (\A q \in B : Waits(q)) /\ Agrees(i, u, s, E, c, A, ran, core, serving, ho)
      BY OwnIds DEF Own
<1>1. o.to \in Amfs /\ UpOk(o, i, u, s, A, core) /\ o.from = Gateway
  <2>1. o.to \in Amfs
        BY <1>0, TakenIds DEF DownMsg, AmfProcs, OwnProcs
  <2>2. UpOk(o, i, u, s, A, core)
        BY <2>1, OwnIds
  <2> QED
      BY <1>0, <2>1, <2>2, TakenIds
<1>2. ~s.eHandoverflag /\ s.gnbUeId # NULL /\ A = {o} /\ o.to = s.amfId
      BY <1>1 DEF UpOk
<1>3. B = {} /\ Answer(o, yes) = {}
  <2>1. Answer(o, yes) = {}
        BY <1>0, AnswerTaken
  <2>2. o \notin B
    <3>1. ~Waits(o)
      <4>1. ~GnbMsg(o) /\ ~AmfMsg(o)
            BY <1>1, PeerNames DEF GnbMsg, AmfMsg
      <4>2. ~HeldMsg(o)
            BY DEF HeldMsg, UpMsg, DownMsg, HeldUp, HeldDown
      <4> QED
          BY <4>1, <4>2 DEF Waits
    <3> QED
        BY <1>0, <3>1
  <2> QED
      BY <1>0, <1>2, <2>1, <2>2
<1>4. RanAfter(o, yes) = ran
      BY <1>1, <1>0, TakenIds DEF RanAfter
<1>5. ServingAfter(o) = serving /\ HoAfter(o) = ho
      BY DEF ServingAfter, HoAfter
<1> DEFINE cr == CoreAfter(o)
<1>6. CoreOk(i, u, s, cr)
  <2> SUFFICES ASSUME NEW t \in Amfs \X Ues, cr[t] = i
               PROVE  t = <<s.amfId, u>>
      BY <1>2 DEF CoreOk
  <2>1. CASE t = <<o.to, o.ue>>
        BY <1>0, <1>2, <2>1
  <2>2. CASE t # <<o.to, o.ue>>
    <3>1. cr[t] = core[t]
          BY <1>0, <2>2, CoreTaken DEF PeersOk, PeerTypes
    <3> QED
        BY <1>0, <3>1 DEF Agrees, CoreOk
  <2> QED
      BY <2>1, <2>2
<1> HIDE DEF cr
<1>7. SessOk(i, u, s, E, c, {}, ran, cr, serving)
      BY <1>0, <1>2 DEF Agrees, SessOk
<1>8. RanOk(i, u, s, {}, ran)
      BY <1>0, <1>2 DEF Agrees, RanOk
<1>9. OrderOk(i, u, s, {}, ran, cr, serving, ho)
      BY <1>2 DEF OrderOk
<1>10. Agrees(i, u, s, E, c, {}, ran, cr, serving, ho)
       BY <1>6, <1>7, <1>8, <1>9 DEF Agrees, OneStep
<1> QED
    BY <1>3, <1>4, <1>5, <1>10 DEF cr

\* The AMF learns the number of a UE that comes from another gateway.
LEMMA OwnAck ==
  ASSUME NEW o, NEW yes, NEW i, NEW u, NEW s, NEW E, NEW c, NEW A, NEW B, Own(o, yes, i, u, s, E, c, A, B),
         o.proc = "HandoverRequestAck"
  PROVE  Agrees(i, u, s, E, c, B \cup Answer(o, yes),
                RanAfter(o, yes), CoreAfter(o), ServingAfter(o), HoAfter(o))
<1>0. /\ Taken(o, yes) /\ PeersOk(ran, core, serving, ho) /\ o.ue = u /\ i \in Ids /\ u \in Ues
      /\ A = B \cup {o} /\ (\A q \in B : Waits(q)) /\ Agrees(i, u, s, E, c, A, ran, core, serving, ho)
      /\ o \notin B /\ o.proc \in Steps
      BY OwnIds DEF Own, Steps, HandoverProcs
<1>1. o.to \in Amfs /\ UpOk(o, i, u, s, A, core) /\ o.from = Gateway
  <2>1. o.to \in Amfs
        BY <1>0, TakenIds DEF DownMsg, AmfProcs, OwnProcs
  <2>2. UpOk(o, i, u, s, A, core)
        BY <2>1, OwnIds
  <2> QED
      BY <1>0, <2>1, <2>2, TakenIds
<1>2. /\ ~s.eHandoverflag /\ s.gnbUeId # NULL /\ o.to = s.amfId
      /\ \A q \in A : q.from \notin Amfs
      BY <1>1 DEF UpOk
<1>3. B \cup Answer(o, yes) = B
  <2>1. Answer(o, yes) = {}
        BY <1>0, AnswerTaken
  <2> QED
      BY <2>1
<1>4. RanAfter(o, yes) = ran
      BY <1>1, <1>0, TakenIds DEF RanAfter
<1>5. ServingAfter(o) = serving /\ HoAfter(o) = ho
      BY DEF ServingAfter, HoAfter
<1> DEFINE cr == CoreAfter(o)
<1>6. CoreOk(i, u, s, cr)
  <2> SUFFICES ASSUME NEW t \in Amfs \X Ues, cr[t] = i
               PROVE  t = <<s.amfId, u>>
      BY <1>2 DEF CoreOk
  <2>1. CASE t = <<o.to, o.ue>>
        BY <1>0, <1>2, <2>1
  <2>2. CASE t # <<o.to, o.ue>>
    <3>1. cr[t] = core[t]
          BY <1>0, <2>2, CoreTaken DEF PeersOk, PeerTypes
    <3> QED
        BY <1>0, <3>1 DEF Agrees, CoreOk
  <2> QED
      BY <2>1, <2>2
<1> HIDE DEF cr
<1>7. SessOk(i, u, s, E, c, B, ran, cr, serving)
      BY <1>0, <1>2 DEF Agrees, SessOk
<1>8. RanOk(i, u, s, B, ran)
      BY <1>0, <1>2 DEF Agrees, RanOk
<1>9. OrderOk(i, u, s, B, ran, cr, serving, ho)
      BY <1>0, <1>2, NotOrdered DEF OrderOk
<1>10. OneStep(B)
       BY <1>0 DEF Agrees, OneStep
<1>11. ASSUME NEW q \in B
       PROVE  MsgOk(q, i, u, s, E, B, ran, cr, serving)
  <2>1. q.proc \notin Steps /\ q.from \notin Amfs /\ Waits(q) /\ MsgOk(q, i, u, s, E, A, ran, core, serving)
        BY <1>0, <1>2 DEF Agrees, OneStep
  <2>2. CASE q.from \in Gnbs
    <3>1. FromGnbOk(q, i, u, s, E, ran, core, serving)
          BY <2>1, <2>2 DEF MsgOk
    <3>2. q.proc \notin {"HandoverRequired", "HandoverRequestAck", "PathSwitchRequest", "HandoverNotify"}
          BY <2>1 DEF Steps, HandoverProcs
    <3>3. FromGnbOk(q, i, u, s, E, ran, cr, serving)
          BY <3>1, <3>2 DEF FromGnbOk
    <3> QED
        BY <2>1, <2>2, <3>3, PeerNames DEF MsgOk
  <2>3. CASE q.from = Gateway
    <3>1. HeldMsg(q) /\ q.proc \in {"SetupRequest", "SetupResponse"}
      <4>1. HeldMsg(q)
            BY <2>1, <2>3, PeerNames DEF Waits, GnbMsg, AmfMsg
      <4> QED
          BY <2>1, <4>1 DEF HeldMsg, UpMsg, DownMsg, HeldUp, HeldDown, Steps, HandoverProcs
    <3>2. q.to \in Gnbs => DownOk(q, i, u, s, B, cr, serving)
      <4> SUFFICES ASSUME q.to \in Gnbs
                   PROVE  DownOk(q, i, u, s, B, cr, serving)
          OBVIOUS
      <4>1. DownOk(q, i, u, s, A, core, serving)
            BY <2>1, <2>3 DEF MsgOk
      <4> QED
          BY <3>1, <4>1 DEF DownOk
    <3>3. q.to \notin Gnbs => UpOk(q, i, u, s, B, cr)
      <4> SUFFICES ASSUME q.to \notin Gnbs
                   PROVE  UpOk(q, i, u, s, B, cr)
          OBVIOUS
      <4>1. UpOk(q, i, u, s, A, core)
            BY <2>1, <2>3 DEF MsgOk
      <4> QED
          BY <3>1, <4>1 DEF UpOk
    <3> QED
        BY <2>1, <2>3, <3>2, <3>3, PeerNames DEF MsgOk
  <2> QED
      BY <2>1, <2>2, <2>3 DEF MsgOk
<1>12. Agrees(i, u, s, E, c, B, ran, cr, serving, ho)
       BY <1>6, <1>7, <1>8, <1>9, <1>10, <1>11 DEF Agrees
<1> QED
    BY <1>3, <1>4, <1>5, <1>12 DEF cr

\* Whatever the message is.
LEMMA OwnTaken ==
  ASSUME NEW o, NEW yes, NEW i, NEW u, NEW s, NEW E, NEW c, NEW A, NEW B, Own(o, yes, i, u, s, E, c, A, B)
  PROVE  Agrees(i, u, s, E, c, B \cup Answer(o, yes),
                RanAfter(o, yes), CoreAfter(o), ServingAfter(o), HoAfter(o))
BY OwnPlain, OwnCommand, OwnRequest, OwnSwitch, OwnInitial, OwnAck

-----------------------------------------------------------------------------
(* What follows from sending a message.                                     *)

\* What is sent about a session is right leads to its UE.
LEMMA Addressed ==
  ASSUME NEW o, NEW i, NEW u, NEW s, NEW E, NEW A, NEW rn, NEW cr, NEW sv, OutMsg(o),
         MsgOk(o, i, u, s, E, A, rn, cr, sv)
  PROVE  ~Misaddressed(o)
<1>1. o.ue = u /\ o.from = Gateway
      BY DEF MsgOk, OutMsg, UpMsg, DownMsg
<1>2. CASE UpMsg(o, GnbProcs)
  <2>1. o.to \notin Gnbs
        BY <1>2, PeerNames DEF UpMsg
  <2>2. UpOk(o, i, u, s, A, cr)
        BY <1>1, <2>1 DEF MsgOk
  <2> QED
      BY <1>1, <2>1, <2>2 DEF UpOk, Misaddressed
<1>3. CASE DownMsg(o, AmfProcs \cup OwnProcs)
  <2>1. o.to \in Gnbs /\ o.to \notin Amfs
        BY <1>3, PeerNames DEF DownMsg
  <2>2. DownOk(o, i, u, s, A, cr, sv)
        BY <1>1, <2>1 DEF MsgOk
  <2> QED
      BY <1>1, <2>1, <2>2 DEF DownOk, Misaddressed
<1> QED
    BY <1>2, <1>3 DEF OutMsg

\* What nobody takes may be lost.
LEMMA Lost ==
  ASSUME NEW o, NEW i, NEW u, NEW s, NEW E, NEW c, NEW A, NEW B, NEW rn, NEW cr, NEW sv, NEW hh,
         OutMsg(o), A = B \cup {o}, \A q \in B : Waits(q),
         Agrees(i, u, s, E, c, A, rn, cr, sv, hh), o.to = NULL \/ Unknown(o)
  PROVE  Agrees(i, u, s, E, c, B, rn, cr, sv, hh)
<1>1. o.from = Gateway /\ MsgOk(o, i, u, s, E, A, rn, cr, sv) /\ SessOk(i, u, s, E, c, A, rn, cr, sv)
      BY DEF OutMsg, UpMsg, DownMsg, Agrees
<1>2. o.to = NULL => UpOk(o, i, u, s, A, cr) /\ o.proc \in GnbProcs
      BY <1>1, PeerNames DEF MsgOk, OutMsg, UpMsg, DownMsg
<1>3. Unknown(o) => o.proc \in (AmfProcs \cup OwnProcs) \ {"HandoverRequest"}
      BY PeerNames DEF Unknown, OutMsg, UpMsg, DownMsg
<1>4. s.eHandoverflag => ~Asks(o, c)
  <2> SUFFICES ASSUME s.eHandoverflag
               PROVE  ~Asks(o, c)
      OBVIOUS
  <2>1. s.amfId # NULL
        BY <1>1, PeerNames DEF SessOk
  <2>2. o.to = NULL => FALSE
        BY <1>2, <2>1 DEF UpOk
  <2> QED
      BY <1>1, <1>3, <2>2 DEF Asks, AmfProcs, OwnProcs
<1>5. s.gnbUeId = NULL => o.proc # "HandoverRequestAck"
      BY <1>2, <1>3 DEF UpOk, AmfProcs, OwnProcs
<1> QED
    BY <1>4, <1>5, Shrinks

\* What the delivery of o about number k brings about, rest being the other messages under
\* way and H those that wait then: only o leaves, and what it stands for is taken.
Brings(o, k, rest, H, E) ==
  /\ PeersOk(ran', core', serving', ho')
  /\ \A q \in net' : GnbMsg(q) \/ AmfMsg(q)
  /\ astray' \subseteq astray \cup {k}
  /\ \A j \in Ids \ {k} : \A s, c :
       GoodAt(j, s, E, c, About(j, rest \cup H), ran, core, serving, ho)
       => GoodAt(j, s, E, c, About(j, net' \cup H), ran', core', serving', ho')
  /\ \A u \in Ues : \A s, c :
       Agrees(k, u, s, E, c, About(k, rest \cup H) \cup {o}, ran, core, serving, ho)
       /\ (o \in H => o.proc \notin Steps)
       => /\ astray' = astray
          /\ Agrees(k, u, s, E, c, About(k, net' \cup H), ran', core', serving', ho')

\* A message of the gateway is delivered.
LEMMA Delivered ==
  ASSUME NEW o, NEW rest, NEW H, NEW E, NEW k \in Ids, Deliver(o, rest), OutMsg(o), SessIdOf(o) = k,
         PeersOk(ran, core, serving, ho), \A q \in rest : GnbMsg(q) \/ AmfMsg(q), \A q \in H : HeldMsg(q)
  PROVE  Brings(o, k, rest, H, E)
<1>a. astray' = IF Misaddressed(o) THEN astray \cup {k} ELSE astray
      BY DEF Deliver
<1>w. \A j : \A q \in About(j, rest \cup H) : Waits(q)
      BY DEF About, Waits
<1>m. ASSUME NEW u, NEW s, NEW c,
             Agrees(k, u, s, E, c, About(k, rest \cup H) \cup {o}, ran, core, serving, ho)
      PROVE  ~Misaddressed(o)
  <2>1. MsgOk(o, k, u, s, E, About(k, rest \cup H) \cup {o}, ran, core, serving)
        BY <1>m DEF Agrees
  <2> QED
      BY <2>1, Addressed
<1>1. CASE (o.to = NULL \/ Misaddressed(o) \/ Unknown(o)) /\ net' = rest /\ UNCHANGED peers
  <2>1. ran' = ran /\ core' = core /\ serving' = serving /\ ho' = ho
        BY <1>1 DEF peers
  <2>2. ASSUME NEW u \in Ues, NEW s, NEW c, o \in H => o.proc \notin Steps,
               Agrees(k, u, s, E, c, About(k, rest \cup H) \cup {o}, ran, core, serving, ho)
        PROVE  /\ astray' = astray
               /\ Agrees(k, u, s, E, c, About(k, net' \cup H), ran', core', serving', ho')
    <3>1. ~Misaddressed(o)
          BY <1>m, <2>2
    <3>2. Agrees(k, u, s, E, c, About(k, rest \cup H), ran, core, serving, ho)
          BY <1>1, <1>w, <2>2, <3>1, Lost
    <3> QED
        BY <1>1, <1>a, <2>1, <3>1, <3>2
  <2>3. astray' \subseteq astray \cup {k}
        BY <1>a
  <2> QED
      BY <1>1, <2>1, <2>2, <2>3 DEF Brings
<1>2. ASSUME NEW yes \in Choices(o), ~(o.to = NULL \/ Misaddressed(o) \/ Unknown(o)),
             o.proc = "HandoverRequest" /\ yes => o.aim = o.to /\ ran[<<o.to, o.ue>>] = NULL,
             net' = rest \cup Answer(o, yes), ran' = RanAfter(o, yes), core' = CoreAfter(o),
             serving' = ServingAfter(o), ho' = HoAfter(o)
      PROVE  Brings(o, k, rest, H, E)
  <2>1. Taken(o, yes)
        BY <1>2 DEF Taken
  <2>2. \A a \in Answer(o, yes) : AnswerOf(o, yes, a)
        BY <2>1, AnswerTaken
  <2>3. \A q \in net' : GnbMsg(q) \/ AmfMsg(q)
        BY <1>2, <2>2 DEF AnswerOf
  <2>4. About(k, net' \cup H) = About(k, rest \cup H) \cup Answer(o, yes)
        BY <1>2, <2>2 DEF About, AnswerOf
  <2>5. PeersOk(ran', core', serving', ho')
        BY <1>2, <2>1, PeersTaken
  <2>6. ASSUME NEW j \in Ids, j # k, NEW s, NEW c,
               GoodAt(j, s, E, c, About(j, rest \cup H), ran, core, serving, ho)
        PROVE  GoodAt(j, s, E, c, About(j, net' \cup H), ran', core', serving', ho')
    <3>1. About(j, net' \cup H) = About(j, rest \cup H)
          BY <1>2, <2>2, <2>6 DEF About, AnswerOf
    <3>2. /\ \A t \in Gnbs \X Ues : ran'[t] = j <=> ran[t] = j
          /\ \A t \in Amfs \X Ues : core'[t] = j => core[t] = j
          /\ \A v \in Ues : Fades(j, v, ran, core, serving, ho, ran', core', serving', ho')
          BY <1>2, <2>1, <2>6, OthersTaken
    <3>3. CASE s = NULL
          BY <2>6, <3>1, <3>2, <3>3 DEF GoodAt, Unused
    <3>4. CASE s # NULL
      <4>1. PICK v \in Ues : Agrees(j, v, s, E, c, About(j, rest \cup H), ran, core, serving, ho)
            BY <2>6, <3>4 DEF GoodAt
      <4>2. RanOk(j, v, s, About(j, rest \cup H), ran')
            BY <3>2, <4>1 DEF Agrees, RanOk
      <4>3. Agrees(j, v, s, E, c, About(j, rest \cup H), ran', core', serving', ho')
            BY <1>w, <3>2, <4>1, <4>2, AgreesFades
      <4> QED
          BY <3>1, <3>4, <4>3 DEF GoodAt
    <3> QED
        BY <3>3, <3>4
  <2>7. ASSUME NEW u \in Ues, NEW s, NEW c, o \in H => o.proc \notin Steps,
               Agrees(k, u, s, E, c, About(k, rest \cup H) \cup {o}, ran, core, serving, ho)
        PROVE  Agrees(k, u, s, E, c, About(k, net' \cup H), ran', core', serving', ho')
    <3>1. o \notin rest
          BY PeerNames DEF OutMsg, UpMsg, DownMsg, GnbMsg, AmfMsg
    <3>2. Own(o, yes, k, u, s, E, c, About(k, rest \cup H) \cup {o}, About(k, rest \cup H))
          BY <1>w, <2>1, <2>7, <3>1 DEF Own, About
    <3>3. Agrees(k, u, s, E, c, About(k, rest \cup H) \cup Answer(o, yes),
                 RanAfter(o, yes), CoreAfter(o), ServingAfter(o), HoAfter(o))
          BY <3>2, OwnTaken
    <3> QED
        BY <1>2, <2>4, <3>3
  <2>8. astray' = astray
        BY <1>2, <1>a
  <2> QED
      BY <2>3, <2>5, <2>6, <2>7, <2>8 DEF Brings
<1>3. \E yes \in Choices(o) :
        /\ o.proc = "HandoverRequest" /\ yes => o.aim = o.to /\ ran[<<o.to, o.ue>>] = NULL
        /\ IF o.to = NULL \/ Misaddressed(o) \/ Unknown(o)
             THEN net' = rest /\ UNCHANGED peers
             ELSE /\ net' = rest \cup Answer(o, yes)
                  /\ ran' = RanAfter(o, yes) /\ core' = CoreAfter(o)
                  /\ serving' = ServingAfter(o) /\ ho' = HoAfter(o)
      BY DEF Deliver
<1> QED
    BY <1>1, <1>2, <1>3

-----------------------------------------------------------------------------
(* Handlers in general.                                                     *)

\* A handler changes session k to s and nothing else of the tables, but for k's container.
Changes(k, s) ==
  /\ esm_list' = esm_list /\ isNgSetup' = isNgSetup
  /\ session_list' = [session_list EXCEPT ![k] = s]
  /\ m_containerMap' \subseteq Ids /\ \A j \in Ids \ {k} : j \in m_containerMap' <=> j \in m_containerMap

\* With o in the place of m all that is known of number k agrees, the session being s.
Turned(m, o, k, s, d) ==
  \E u \in Ues : Agrees(k, u, s, esm_list, d, (About(k, net \cup held) \ {m}) \cup {o}, ran, core, serving, ho)

\* Types and other numbers.
LEMMA InvParts ==
  ASSUME ProxyInv
  PROVE  /\ TableInv /\ MsgInv /\ PeersOk(ran, core, serving, ho) /\ esm_list \subseteq Gnbs
         /\ \A m \in net : GnbMsg(m) \/ AmfMsg(m)
         /\ \A o \in held : HeldMsg(o)
         /\ \A m \in net \cup held : Waits(m)
         /\ \A m \in net : m \notin held
         /\ session_list \in [Ids -> Session \cup {NULL}]
         /\ m_containerMap \subseteq Ids
<1>1. \A m \in net : m \notin held
      BY PeerNames DEF ProxyInv, MsgInv, GnbMsg, AmfMsg, HeldMsg, UpMsg, DownMsg
<1> QED
    BY <1>1 DEF ProxyInv, MsgInv, TableInv, Waits

\* Types of the tables.
LEMMA ChangesTypes ==
  ASSUME TableInv, NEW k \in Ids, NEW s \in Session, Changes(k, s), astray' \subseteq Ids
  PROVE  TableInv'
BY DEF TableInv, Changes

\* The handler of m ends having sent o.
LEMMA ReplyKeeps ==
  ASSUME ProxyInv, NEW m \in net, NEW k \in Ids, NEW o, NEW s \in Session,
         Reply(m, o), Changes(k, s), OutMsg(o), SessIdOf(o) = k,
         SessIdOf(m) \in Ids => SessIdOf(m) = k,
         k \notin doubtful =>
           Turned(m, o, k, s, k \in m_containerMap') /\ (o \in held => o.proc \notin Steps)
  PROVE  ProxyInv'
<1> USE InvParts
<1>0. /\ Deliver(o, net \ {m}) /\ held' = held /\ doubtful' = doubtful
      /\ esm_list' = esm_list /\ session_list' = [session_list EXCEPT ![k] = s]
      /\ \A j \in Ids \ {k} : j \in m_containerMap' <=> j \in m_containerMap
      BY DEF Reply, Changes
<1> DEFINE rest == net \ {m}
<1>1. \A q \in rest : GnbMsg(q) \/ AmfMsg(q)
      OBVIOUS
<1>2. Brings(o, k, rest, held, esm_list)
      BY <1>0, <1>1, Delivered
<1>3. MsgInv'
      BY <1>0, <1>2 DEF MsgInv, Brings
<1>4. TableInv'
  <2>1. astray' \subseteq Ids
        BY <1>2 DEF TableInv, Brings
  <2> QED
      BY <2>1, ChangesTypes
<1>5. ASSUME NEW j \in Ids, j \notin doubtful, j # k
      PROVE  Good(j)'
  <2>1. Good(j)
        BY <1>5 DEF ProxyInv
  <2>2. About(j, rest \cup held) = About(j, net \cup held)
        BY <1>5 DEF About
  <2>3. session_list'[j] = session_list[j] /\ (j \in m_containerMap' <=> j \in m_containerMap) /\ j \notin astray'
        BY <1>0, <1>2, <1>5, <2>1 DEF Good, Brings
  <2>4. GoodAt(j, session_list[j], esm_list, j \in m_containerMap, About(j, net' \cup held),
               ran', core', serving', ho')
        BY <1>2, <1>5, <2>1, <2>2 DEF Good, Brings
  <2>5. (j \in m_containerMap') = (j \in m_containerMap)
        BY <2>3
  <2> QED
      BY <1>0, <2>3, <2>4, <2>5 DEF Good
<1>6. ASSUME k \notin doubtful
      PROVE  Good(k)'
  <2>1. PICK u \in Ues : Agrees(k, u, s, esm_list, k \in m_containerMap',
                                (About(k, net \cup held) \ {m}) \cup {o}, ran, core, serving, ho)
        BY <1>6 DEF Turned
  <2>2. About(k, rest \cup held) = About(k, net \cup held) \ {m}
        BY DEF About
  <2>3. /\ astray' = astray
        /\ Agrees(k, u, s, esm_list, k \in m_containerMap', About(k, net' \cup held), ran', core', serving', ho')
        BY <1>2, <1>6, <2>1, <2>2 DEF Brings
  <2>4. session_list'[k] = s /\ s # NULL
    <3>1. s # NULL
          BY ProxyAssumption DEF Session
    <3> QED
        BY <1>0, <3>1
  <2>5. k \notin astray
        BY <1>6 DEF ProxyInv, Good
  <2> QED
      BY <1>0, <2>3, <2>4, <2>5 DEF Good, GoodAt
<1> QED
    BY <1>0, <1>2, <1>3, <1>4, <1>5, <1>6 DEF ProxyInv, Brings

\* The handler of m asks the media gateway first, o waits.
LEMMA HoldKeeps ==
  ASSUME ProxyInv, NEW m \in net, NEW k \in Ids, NEW o, NEW s \in Session,
         Hold(m, o), Changes(k, s), HeldMsg(o), SessIdOf(o) = k,
         SessIdOf(m) \in Ids => SessIdOf(m) = k,
         k \notin doubtful => Turned(m, o, k, s, k \in m_containerMap')
  PROVE  ProxyInv'
<1> USE InvParts
<1>0. /\ held' = held \cup {o} /\ net' = net \ {m} /\ doubtful' = doubtful /\ astray' = astray
      /\ ran' = ran /\ core' = core /\ serving' = serving /\ ho' = ho
      /\ esm_list' = esm_list /\ session_list' = [session_list EXCEPT ![k] = s]
      /\ \A j \in Ids \ {k} : j \in m_containerMap' <=> j \in m_containerMap
      BY DEF Hold, Changes, peers
<1>1. MsgInv'
      BY <1>0 DEF MsgInv
<1>2. TableInv'
  <2>1. astray' \subseteq Ids
        BY <1>0 DEF TableInv
  <2> QED
      BY <2>1, ChangesTypes
<1>3. ASSUME NEW j \in Ids, j \notin doubtful, j # k
      PROVE  Good(j)'
  <2>1. Good(j)
        BY <1>3 DEF ProxyInv
  <2>2. About(j, net' \cup held') = About(j, net \cup held)
        BY <1>0, <1>3 DEF About
  <2>3. session_list'[j] = session_list[j] /\ (j \in m_containerMap') = (j \in m_containerMap)
        BY <1>0, <1>3
  <2> QED
      BY <1>0, <2>1, <2>2, <2>3 DEF Good
<1>4. ASSUME k \notin doubtful
      PROVE  Good(k)'
  <2>1. PICK u \in Ues : Agrees(k, u, s, esm_list, k \in m_containerMap',
                                (About(k, net \cup held) \ {m}) \cup {o}, ran, core, serving, ho)
        BY <1>4 DEF Turned
  <2>2. About(k, net' \cup held') = (About(k, net \cup held) \ {m}) \cup {o}
        BY <1>0 DEF About
  <2>3. session_list'[k] = s /\ s # NULL
    <3>1. s # NULL
          BY ProxyAssumption
    <3> QED
        BY <1>0, <3>1
  <2>4. k \notin astray
        BY <1>4 DEF ProxyInv, Good
  <2> QED
      BY <1>0, <2>1, <2>2, <2>3, <2>4 DEF Good, GoodAt
<1>5. PeersOk(ran', core', serving', ho')
      BY <1>0
<1> QED
    BY <1>0, <1>1, <1>2, <1>3, <1>4, <1>5 DEF ProxyInv

\* The media gateway has answered.
LEMMA MediaKeeps ==
  ASSUME ProxyInv, NEW o \in held, ByMedia(o)
  PROVE  ProxyInv'
<1>i. /\ (\A q \in net : GnbMsg(q) \/ AmfMsg(q)) /\ (\A q \in held : HeldMsg(q) /\ q \notin net)
      /\ TableInv /\ PeersOk(ran, core, serving, ho)
      BY InvParts
<1>0. /\ Deliver(o, net) /\ held' = held \ {o} /\ doubtful' = doubtful
      /\ esm_list' = esm_list /\ session_list' = session_list /\ m_containerMap' = m_containerMap
      /\ isNgSetup' = isNgSetup
      BY DEF ByMedia, table
<1>1. HeldMsg(o) /\ OutMsg(o)
      BY <1>i DEF HeldMsg, OutMsg, UpMsg, DownMsg, HeldUp, HeldDown, GnbProcs, AmfProcs
<1>2. PICK k \in Ids : SessIdOf(o) = k
      BY <1>1, OutNumber DEF HeldMsg, UpMsg, DownMsg
<1>3. Brings(o, k, net, held', esm_list)
  <2>1. \A q \in held' : HeldMsg(q)
        BY <1>i, <1>0
  <2> QED
      BY <1>i, <1>0, <1>1, <1>2, <2>1, Delivered
<1>4. MsgInv'
      BY <1>i, <1>0, <1>3 DEF MsgInv, Brings
<1>5. TableInv'
      BY <1>i, <1>0, <1>3 DEF TableInv, Brings
<1>6. ASSUME NEW j \in Ids, j \notin doubtful, j # k
      PROVE  Good(j)'
  <2>1. Good(j)
        BY <1>6 DEF ProxyInv
  <2>2. About(j, net \cup held') = About(j, net \cup held)
        BY <1>0, <1>2, <1>6 DEF About
  <2>3. GoodAt(j, session_list[j], esm_list, j \in m_containerMap, About(j, net' \cup held'),
               ran', core', serving', ho')
        BY <1>3, <1>6, <2>1, <2>2 DEF Good, Brings
  <2>4. j \notin astray'
        BY <1>3, <1>6, <2>1 DEF Good, Brings
  <2> QED
      BY <1>0, <2>3, <2>4 DEF Good
<1>7. ASSUME k \notin doubtful
      PROVE  Good(k)'
  <2>1. Good(k)
        BY <1>7 DEF ProxyInv
  <2>2. o \in About(k, net \cup held) /\ About(k, net \cup held') \cup {o} = About(k, net \cup held) /\ o \notin held'
        BY <1>i, <1>0, <1>2 DEF About
  <2>3. session_list[k] # NULL
        BY <2>1, <2>2 DEF Good, GoodAt, Unused
  <2>4. PICK u \in Ues : Agrees(k, u, session_list[k], esm_list, k \in m_containerMap,
                                About(k, net \cup held), ran, core, serving, ho)
        BY <2>1, <2>3 DEF Good, GoodAt
  <2>5. /\ astray' = astray
        /\ Agrees(k, u, session_list[k], esm_list, k \in m_containerMap, About(k, net' \cup held'),
                  ran', core', serving', ho')
        BY <1>3, <2>2, <2>4 DEF Brings
  <2> QED
      BY <1>0, <2>1, <2>3, <2>5 DEF Good, GoodAt
<1> QED
    BY <1>0, <1>3, <1>4, <1>5, <1>6, <1>7 DEF ProxyInv, Brings

\* A message is dropped only when its number is doubtful or it has none.
LEMMA DropKeeps ==
  ASSUME ProxyInv, NEW m \in net, Drop(m), SessIdOf(m) \in Ids => SessIdOf(m) \in doubtful
  PROVE  ProxyInv'
<1> USE InvParts
<1>0. /\ held' = held /\ net' = net \ {m} /\ doubtful' = doubtful /\ astray' = astray
      /\ ran' = ran /\ core' = core /\ serving' = serving /\ ho' = ho
      /\ esm_list' = esm_list /\ session_list' = session_list /\ m_containerMap' = m_containerMap
      /\ isNgSetup' = isNgSetup
      BY DEF Drop, Silent, peers, table
<1>1. MsgInv'
      BY <1>0 DEF MsgInv
<1>2. TableInv'
      BY <1>0 DEF TableInv
<1>3. ASSUME NEW j \in Ids, j \notin doubtful
      PROVE  Good(j)'
  <2>1. Good(j)
        BY <1>3 DEF ProxyInv
  <2>2. About(j, net' \cup held') = About(j, net \cup held)
        BY <1>0, <1>3 DEF About
  <2> QED
      BY <1>0, <2>1, <2>2 DEF Good
<1>4. PeersOk(ran', core', serving', ho')
      BY <1>0
<1> QED
    BY <1>0, <1>1, <1>2, <1>3, <1>4 DEF ProxyInv

\* Of a number that is not doubtful a message finds the session.
LEMMA Finds ==
  ASSUME ProxyInv, NEW m \in net, NEW k \in Ids, SessIdOf(m) = k, k \notin doubtful
  PROVE  /\ session_list[k] # NULL /\ session_list[k] \in Session /\ session_list[k].link \in esm_list
         /\ m \in About(k, net \cup held)
         /\ \A q \in About(k, net \cup held) : Waits(q)
         /\ \E u \in Ues : Agrees(k, u, session_list[k], esm_list, k \in m_containerMap,
                                  About(k, net \cup held), ran, core, serving, ho)
<1>1. Good(k) /\ m \in About(k, net \cup held) /\ session_list[k] \in Session \cup {NULL}
      BY InvParts DEF ProxyInv, About
<1>2. session_list[k] # NULL
      BY <1>1 DEF Good, GoodAt, Unused
<1>3. PICK u \in Ues : Agrees(k, u, session_list[k], esm_list, k \in m_containerMap,
                              About(k, net \cup held), ran, core, serving, ho)
      BY <1>1, <1>2 DEF Good, GoodAt
<1>4. session_list[k].link \in esm_list
      BY <1>3 DEF Agrees, SessOk
<1> QED
    BY <1>1, <1>2, <1>3, <1>4, InvParts DEF About

\* What is sent in the place of a message of the handover is not under way already.
LEMMA HeldSteps ==
  ASSUME ProxyInv, NEW m \in net, NEW k \in Ids, SessIdOf(m) = k, k \notin doubtful, NEW o \in held,
         SessIdOf(o) = k, o.proc \in Steps => m.proc \in Steps
  PROVE  o.proc \notin Steps
<1>1. o \in About(k, net \cup held) /\ m \in About(k, net \cup held) /\ o # m
      BY InvParts DEF About
<1>2. OneStep(About(k, net \cup held))
      BY Finds DEF Agrees
<1> QED
    BY <1>1, <1>2 DEF OneStep

\* The handler of m ends having sent o, a step of the handover only if m was one.
LEMMA SendKeeps ==
  ASSUME ProxyInv, NEW m \in net, NEW k \in Ids, NEW o, NEW s \in Session,
         Reply(m, o) \/ (Hold(m, o) /\ HeldMsg(o)), Changes(k, s), OutMsg(o), SessIdOf(o) = k,
         SessIdOf(m) = k, o.proc \in Steps => m.proc \in Steps,
         k \notin doubtful => Turned(m, o, k, s, k \in m_containerMap')
  PROVE  ProxyInv'
<1>1. k \notin doubtful /\ o \in held => o.proc \notin Steps
      BY HeldSteps
<1>2. CASE Reply(m, o)
      BY <1>1, <1>2, ReplyKeeps
<1>3. CASE Hold(m, o) /\ HeldMsg(o)
      BY <1>3, HoldKeeps
<1> QED
    BY <1>2, <1>3

-----------------------------------------------------------------------------
(* The handlers of what gNBs send.                                          *)

\* What is passed on to the AMF.
LEMMA UpTypes ==
  ASSUME ProxyInv, NEW m \in net, m.from \in Gnbs, m.proc # "InitialUEMessage", Found(m.amf)
  PROVE  LET s == session_list[m.amf]
             o == GNB_ConvertNgapId(m) IN
         /\ GnbMsg(m) /\ m.amf \in Ids /\ SessIdOf(m) = m.amf /\ s \in Session
         /\ UpMsg(o, {m.proc}) /\ OutMsg(o) /\ SessIdOf(o) = m.amf
         /\ o.from = Gateway /\ o.to = s.amfId /\ o.ran = m.amf /\ o.amf = s.amfUeId
         /\ o.proc = m.proc /\ o.ue = m.ue
<1>1. GnbMsg(m)
      BY InvParts, PeerNames DEF AmfMsg
<1>2. m.amf \in Ids /\ SessIdOf(m) = m.amf /\ m.proc \in GnbProcs /\ m.ue \in Ues /\ Formed(m)
      BY <1>1, GnbNumber DEF GnbMsg
<1>3. session_list[m.amf] \in Session
      BY <1>2, InvParts DEF Found
<1> DEFINE s == session_list[m.amf]
           o == GNB_ConvertNgapId(m)
<1>4. /\ o.from = Gateway /\ o.to = s.amfId /\ o.ran = m.amf /\ o.amf = s.amfUeId
      /\ o.proc = m.proc /\ o.ue = m.ue
      BY <1>2 DEF GNB_ConvertNgapId, Formed, Message
<1> HIDE DEF o
<1>5. UpMsg(o, {m.proc}) /\ UpMsg(o, GnbProcs)
  <2>1. s.amfId \in Amfs \cup {NULL}
        BY <1>3 DEF Session
  <2> QED
      BY <1>2, <1>4, <2>1 DEF UpMsg
<1>6. SessIdOf(o) = m.amf
      BY <1>4, <1>5, OutNumber
<1> QED
    BY <1>1, <1>2, <1>3, <1>4, <1>5, <1>6 DEF OutMsg, o

\* It is right.
LEMMA UpTurned ==
  ASSUME ProxyInv, NEW m \in net, m.from \in Gnbs, m.amf \notin doubtful, Found(m.amf),
         m.proc \notin {"InitialUEMessage", "PathSwitchRequest", "HandoverRequestAck"},
         m.proc = "HandoverFailure" => ~session_list[m.amf].eHandoverflag,
         NEW r, Alike(session_list[m.amf], r), r.amfUeId = session_list[m.amf].amfUeId
  PROVE  Turned(m, GNB_ConvertNgapId(m), m.amf, r, m.amf \in m_containerMap)
<1> DEFINE k == m.amf
           s == session_list[k]
           o == GNB_ConvertNgapId(m)
           A == About(k, net \cup held)
           B == (A \ {m}) \cup {o}
<1>1. /\ k \in Ids /\ SessIdOf(m) = k /\ o.from = Gateway /\ o.to = s.amfId /\ o.ran = k /\ o.amf = s.amfUeId
      /\ o.proc = m.proc /\ o.ue = m.ue /\ o.to \in Amfs \cup {NULL}
      BY UpTypes DEF UpMsg
<1>2. PICK u \in Ues : Agrees(k, u, s, esm_list, k \in m_containerMap, A, ran, core, serving, ho)
      BY <1>1, Finds
<1>3. m \in A /\ \A q \in A \ {m} : Waits(q)
      BY <1>1, Finds
<1>4. MsgOk(m, k, u, s, esm_list, A, ran, core, serving) /\ SessOk(k, u, s, esm_list, k \in m_containerMap, A, ran, core, serving)
      BY <1>2, <1>3 DEF Agrees
<1>5. s.amfUeId # NULL /\ m.ue = u
      BY <1>4 DEF MsgOk, FromGnbOk
<1>6. r.amfUeId # NULL => r.amfId \in Amfs /\ r.amfUeId = <<r.amfId, u>>
      BY <1>4 DEF SessOk, Alike
<1> HIDE DEF o, A, k
<1>7. MsgOk(o, k, u, r, esm_list, B, ran, core, serving)
  <2>1. UpOk(o, k, u, r, B, core)
        BY <1>1, <1>5, <1>6, <1>4 DEF UpOk, Alike, SessOk, k
  <2> QED
      BY <1>1, <1>5, <2>1, PeerNames DEF MsgOk
<1>8. s.eHandoverflag => ~Asks(m, k \in m_containerMap)
  <2>1. m.proc \in GnbProcs
        BY UpTypes DEF GnbMsg
  <2> QED
      BY <2>1 DEF Asks, GnbProcs, k
<1>9. o.from \notin Amfs /\ m.proc # "HandoverRequestAck" /\ B = (A \ {m}) \cup {o}
      BY <1>1, PeerNames
<1>10. Alike(s, r)
       BY DEF k
<1> HIDE DEF s, B
<1>11. Agrees(k, u, r, esm_list, k \in m_containerMap, B, ran, core, serving, ho)
       BY <1>1, <1>2, <1>3, <1>6, <1>7, <1>8, <1>9, <1>10, Relayed
<1> QED
    BY <1>11 DEF Turned, k, A, B, o

\* Nothing is changed but the session, if at all.
LEMMA SetChanges ==
  ASSUME ProxyInv, NEW k \in Ids, NEW s, UNCHANGED <<esm_list, isNgSetup, m_containerMap>>,
         Set(k, s) \/ (UNCHANGED session_list /\ s = session_list[k])
  PROVE  Changes(k, s)
BY InvParts DEF Changes, Set

\* A message that finds no session is about a doubtful number.
LEMMA NotFoundKeeps ==
  ASSUME ProxyInv, NEW m \in net, Drop(m),
         SessIdOf(m) \in Ids => ~Found(SessIdOf(m)) \/ session_list[SessIdOf(m)].link \notin esm_list
  PROVE  ProxyInv'
BY Finds, DropKeeps DEF Found

\* Likewise of a gNB's.
LEMMA GnbDropKeeps ==
  ASSUME ProxyInv, NEW m \in net, m.from \in Gnbs, Drop(m),
         ~Found(m.amf) \/ ~GNB_Known(m) \/ m.proc = "InitialUEMessage"
  PROVE  ProxyInv'
<1>1. GnbMsg(m)
      BY InvParts, PeerNames DEF AmfMsg
<1>2. SessIdOf(m) = m.amf /\ (SessIdOf(m) \in Ids <=> m.proc # "InitialUEMessage")
      BY <1>1, GnbNumber
<1> QED
    BY <1>2, NotFoundKeeps DEF GNB_Known

\* Plain relays to the AMF.
LEMMA RelayUpKeeps ==
  ASSUME ProxyInv, NEW m \in net, m.from \in Gnbs, RelayUp(m),
         m.proc \notin {"InitialUEMessage", "PathSwitchRequest", "HandoverRequestAck"},
         m.proc = "HandoverFailure" => ~session_list[m.amf].eHandoverflag
  PROVE  ProxyInv'
<1>1. CASE Found(m.amf) /\ Reply(m, GNB_ConvertNgapId(m)) /\ UNCHANGED table
  <2> DEFINE s == session_list[m.amf]
             o == GNB_ConvertNgapId(m)
  <2>1. m.amf \in Ids /\ SessIdOf(m) = m.amf /\ s \in Session /\ OutMsg(o) /\ SessIdOf(o) = m.amf /\ o.proc = m.proc
        BY <1>1, UpTypes
  <2>2. Changes(m.amf, s) /\ m_containerMap' = m_containerMap
        BY <1>1, <2>1, SetChanges DEF table
  <2>3. m.amf \notin doubtful => Turned(m, o, m.amf, s, m.amf \in m_containerMap')
    <3>1. Alike(s, s)
          BY DEF Alike
    <3> QED
        BY <1>1, <2>2, <3>1, UpTurned
  <2>4. m.amf \notin doubtful /\ o \in held => o.proc \notin Steps
        BY <1>1, <2>1, HeldSteps
  <2> QED
      BY <1>1, <2>1, <2>2, <2>3, <2>4, ReplyKeeps
<1>2. CASE ~Found(m.amf) /\ Drop(m)
      BY <1>2, GnbDropKeeps
<1> QED
    BY <1>1, <1>2 DEF RelayUp

\* The session changes but for what is said of it, the message is passed on to the AMF.
LEMMA PassUpKeeps ==
  ASSUME ProxyInv, NEW m \in net, m.from \in Gnbs, Found(m.amf),
         m.proc \notin {"InitialUEMessage", "PathSwitchRequest", "HandoverRequestAck", "HandoverFailure"},
         NEW s \in Session, Alike(session_list[m.amf], s), s.amfUeId = session_list[m.amf].amfUeId,
         Changes(m.amf, s), m_containerMap' = m_containerMap,
         \/ Reply(m, GNB_ConvertNgapId(m))
         \/ m.proc = "SetupResponse" /\ Hold(m, GNB_ConvertNgapId(m))
  PROVE  ProxyInv'
<1> DEFINE o == GNB_ConvertNgapId(m)
<1>1. /\ m.amf \in Ids /\ SessIdOf(m) = m.amf /\ OutMsg(o) /\ SessIdOf(o) = m.amf /\ o.proc = m.proc
      /\ UpMsg(o, {m.proc})
      BY UpTypes
<1>2. m.amf \notin doubtful => Turned(m, o, m.amf, s, m.amf \in m_containerMap')
      BY UpTurned
<1>3. m.proc = "SetupResponse" => HeldMsg(o)
      BY <1>1 DEF HeldMsg, UpMsg, HeldUp
<1> HIDE DEF o
<1> QED
    BY <1>1, <1>2, <1>3, SendKeeps DEF o

\* Only flags that no message depends on change.
LEMMA FlagsAlike ==
  ASSUME NEW s \in Session
  PROVE  \A r \in {s, DeleteNgapSession(s), StopNgapSessCheck(s), DeleteNgapSession(StopNgapSessCheck(s))} :
           r \in Session /\ Alike(s, r) /\ r.amfUeId = s.amfUeId
BY DEF Session, Alike, DeleteNgapSession, StopNgapSessCheck

\* A gNB asks to release the UE.
LEMMA ReleaseReqKeeps ==
  ASSUME ProxyInv, NEW m \in net, m.from \in Gnbs, GNB_UEContextReleaseReq(m)
  PROVE  ProxyInv'
<1>0. m.proc = "UEContextReleaseRequest"
      BY DEF GNB_UEContextReleaseReq
<1>1. CASE /\ Found(m.amf) /\ Set(m.amf, DeleteNgapSession(session_list[m.amf]))
           /\ Reply(m, GNB_ConvertNgapId(m)) /\ UNCHANGED <<esm_list, isNgSetup, m_containerMap>>
  <2>1. m.amf \in Ids /\ session_list[m.amf] \in Session
        BY <1>0, <1>1, UpTypes
  <2> DEFINE s == DeleteNgapSession(session_list[m.amf])
  <2>2. s \in Session /\ Alike(session_list[m.amf], s) /\ s.amfUeId = session_list[m.amf].amfUeId
        BY <2>1, FlagsAlike
  <2>3. Changes(m.amf, s) /\ m_containerMap' = m_containerMap
        BY <1>1, <2>1, SetChanges
  <2> HIDE DEF s
  <2> QED
      BY <1>0, <1>1, <2>2, <2>3, PassUpKeeps
<1>2. CASE ~Found(m.amf) /\ Drop(m)
      BY <1>2, GnbDropKeeps
<1> QED
    BY <1>1, <1>2 DEF GNB_UEContextReleaseReq

\* PDU sessions are set up.
LEMMA SetupRspKeeps ==
  ASSUME ProxyInv, NEW m \in net, m.from \in Gnbs,
         GNB_PDUSessionSetupRsp(m) \/ GNB_InitialContextSetupSuccessRsp(m)
  PROVE  ProxyInv'
<1>0. m.proc = "SetupResponse"
      BY DEF GNB_PDUSessionSetupRsp, GNB_InitialContextSetupSuccessRsp
<1>1. ASSUME NEW s, s \in {session_list[m.amf], StopNgapSessCheck(session_list[m.amf])},
             Found(m.amf), UNCHANGED <<esm_list, isNgSetup, m_containerMap>>,
             Set(m.amf, s) \/ (UNCHANGED session_list /\ s = session_list[m.amf]),
             Reply(m, GNB_ConvertNgapId(m)) \/ Hold(m, GNB_ConvertNgapId(m))
      PROVE  ProxyInv'
  <2>1. m.amf \in Ids /\ session_list[m.amf] \in Session
        BY <1>0, <1>1, UpTypes
  <2>2. s \in Session /\ Alike(session_list[m.amf], s) /\ s.amfUeId = session_list[m.amf].amfUeId
        BY <1>1, <2>1, FlagsAlike
  <2>3. Changes(m.amf, s) /\ m_containerMap' = m_containerMap
        BY <1>1, <2>1, SetChanges
  <2> QED
      BY <1>0, <1>1, <2>2, <2>3, PassUpKeeps
<1>2. CASE ~Found(m.amf) /\ Drop(m)
      BY <1>2, GnbDropKeeps
<1> QED
    BY <1>1, <1>2 DEF GNB_PDUSessionSetupRsp, GNB_InitialContextSetupSuccessRsp, table

\* Messages that are only passed on.
LEMMA UplinkKeeps ==
  ASSUME ProxyInv, NEW m \in net, m.from \in Gnbs, GNB_Uplink(m)
  PROVE  ProxyInv'
<1>1. m.proc = "Uplink"
      BY DEF GNB_Uplink
<1>2. RelayUp(m)
      BY DEF GNB_Uplink, GNB_PDUSessionModifyRsp, GNB_PDUSessionModifyInd, GNB_PDUSessionReleaseRsp,
             GNB_PDUSessionRsrNotify, GNB_UEContextModificationSuccessRsp,
             GNB_UEContextModificationFailureRsp, GNB_UplinkNASTransport, GNB_UERadioCapInfoInd,
             GNB_NASNonDeliveryIndication, GNB_RRCInactTrstRpt, GNB_ErrorIndication,
             GNB_LocationReport, GNB_InitialContextSetupFailureRsp
<1> QED
    BY <1>1, <1>2, RelayUpKeeps

\* A message of a gNB about a session that is not doubtful, for its handler.
LEMMA GnbFinds ==
  ASSUME ProxyInv, NEW m \in net, m.from \in Gnbs, m.proc # "InitialUEMessage", m.amf \notin doubtful
  PROVE  LET k == m.amf
             s == session_list[k]
             c == k \in m_containerMap
             A == About(k, net \cup held) IN
         /\ k \in Ids /\ SessIdOf(m) = k /\ m \in A /\ (\A q \in A \ {m} : Waits(q))
         /\ \E u \in Ues :
              /\ Agrees(k, u, s, esm_list, c, A, ran, core, serving, ho)
              /\ m.ran = <<m.from, u>> /\ m.ue = u
              /\ SessOk(k, u, s, esm_list, c, A, ran, core, serving)
              /\ FromGnbOk(m, k, u, s, esm_list, ran, core, serving)
              /\ m.proc \in Steps => \A q \in A : q # m => q.proc \notin Steps
<1>1. GnbMsg(m)
      BY InvParts, PeerNames DEF AmfMsg
<1>2. SessIdOf(m) = m.amf /\ m.amf \in Ids /\ m.ran = <<m.from, m.ue>>
      BY <1>1, GnbNumber DEF GnbMsg
<1> DEFINE k == m.amf
           s == session_list[k]
           c == k \in m_containerMap
           A == About(k, net \cup held)
<1>3. m \in A /\ (\A q \in A \ {m} : Waits(q))
      BY <1>2, Finds
<1>4. PICK u \in Ues : Agrees(k, u, s, esm_list, c, A, ran, core, serving, ho)
      BY <1>2, Finds
<1> HIDE DEF A, c, s, k
<1>5. /\ SessOk(k, u, s, esm_list, c, A, ran, core, serving)
      /\ MsgOk(m, k, u, s, esm_list, A, ran, core, serving)
      /\ OneStep(A)
      BY <1>3, <1>4 DEF Agrees
<1>6. m.ue = u /\ FromGnbOk(m, k, u, s, esm_list, ran, core, serving)
      BY <1>5 DEF MsgOk
<1>7. m.proc \in Steps => \A q \in A : q # m => q.proc \notin Steps
      BY <1>3, <1>5 DEF OneStep
<1> QED
    BY <1>2, <1>3, <1>4, <1>5, <1>6, <1>7 DEF A, c, s, k

\* Ids of UEs at gNBs.
RanIds == (Gnbs \X Ues) \cup {NULL}

\* What the gateway sends to a gNB in the place of m.
LEMMA DownMade ==
  ASSUME NEW m, NEW k \in Ids, NEW p \in Gnbs, NEW proc \in AmfProcs \cup OwnProcs,
         NEW r \in RanIds, NEW o, o = SendTo(p, proc, r, k, m), m.ue \in Ues,
         proc = "HandoverCommand" => m.aim \in Gnbs
  PROVE  /\ OutMsg(o) /\ SessIdOf(o) = k
         /\ o.from = Gateway /\ o.to = p /\ o.proc = proc /\ o.ran = r /\ o.amf = k
         /\ o.ue = m.ue /\ o.aim = m.aim
<1>1. /\ o.from = Gateway /\ o.to = p /\ o.proc = proc /\ o.ran = r /\ o.amf = k
      /\ o.ue = m.ue /\ o.aim = m.aim
      BY DEF SendTo, Message
<1>2. DownMsg(o, AmfProcs \cup OwnProcs)
      BY <1>1 DEF DownMsg, RanIds
<1>3. SessIdOf(o) = k
      BY <1>1, <1>2, OutNumber
<1> QED
    BY <1>1, <1>2, <1>3 DEF OutMsg

\* A handler of the gateway's own handover: o takes the place of m, a step of it.
LEMMA StepTurned ==
  ASSUME NEW i \in Ids, NEW u \in Ues, NEW s, NEW r, NEW c, NEW d, NEW m, NEW o,
         m \in About(i, net \cup held), \A q \in About(i, net \cup held) \ {m} : Waits(q),
         Agrees(i, u, s, esm_list, c, About(i, net \cup held), ran, core, serving, ho),
         m.proc \in Steps, m.proc # "UplinkRANStatusTransfer",
         SessOk(i, u, r, esm_list, d, (About(i, net \cup held) \ {m}) \cup {o}, ran, core, serving),
         MsgOk(o, i, u, r, esm_list, (About(i, net \cup held) \ {m}) \cup {o}, ran, core, serving),
         r.amfId = s.amfId, s.gnbUeId # NULL => r.gnbUeId # NULL, s.amfUeId # NULL => r.amfUeId # NULL,
         m.proc = "HandoverRequestAck" => r.gnbUeId # NULL
  PROVE  Turned(m, o, i, r, d)
<1> DEFINE A == About(i, net \cup held)
           B == (A \ {m}) \cup {o}
<1>1. OrderOk(i, u, r, B, ran, core, serving, ho)
      BY NotOrdered
<1>2. B = (A \ {m}) \cup {o}
      OBVIOUS
<1> HIDE DEF B, A
<1>3. Agrees(i, u, r, esm_list, d, B, ran, core, serving, ho)
      BY <1>1, <1>2, Handled DEF A, B
<1> QED
    BY <1>3 DEF Turned, A, B

\* A handover within the gateway is wanted.
LEMMA RequiredKeeps ==
  ASSUME ProxyInv, NEW m \in net, m.from \in Gnbs, GNB_HandoverRequired(m)
  PROVE  ProxyInv'
<1>0. m.proc = "HandoverRequired"
      BY DEF GNB_HandoverRequired
<1>1. ASSUME Found(m.amf), m.aim \in esm_list, m_containerMap' = m_containerMap \cup {m.amf},
             Set(m.amf, [session_list[m.amf] EXCEPT !.eHandoverflag = TRUE, !.TgtGnbId = m.aim]),
             Reply(m, SendPathSwithRequest(m)), UNCHANGED <<esm_list, isNgSetup>>
      PROVE  ProxyInv'
  <2> DEFINE k == m.amf
             s == session_list[k]
             r == [s EXCEPT !.eHandoverflag = TRUE, !.TgtGnbId = m.aim]
             o == SendPathSwithRequest(m)
             A == About(k, net \cup held)
             B == (A \ {m}) \cup {o}
  <2>1. /\ GnbMsg(m) /\ k \in Ids /\ SessIdOf(m) = k /\ s \in Session
        /\ UpMsg(GNB_ConvertNgapId(m), {m.proc}) /\ GNB_ConvertNgapId(m).amf = s.amfUeId
        /\ GNB_ConvertNgapId(m).to = s.amfId /\ GNB_ConvertNgapId(m).ran = k /\ GNB_ConvertNgapId(m).ue = m.ue
        BY <1>0, <1>1, UpTypes
  <2>2. /\ o.from = Gateway /\ o.to = s.amfId /\ o.ran = k /\ o.amf = s.amfUeId
        /\ o.proc = "PathSwitchRequest" /\ o.ue = m.ue
        BY <2>1 DEF SendPathSwithRequest, GNB_ConvertNgapId, GnbMsg, Formed, Message
  <2>3. /\ r \in Session /\ r.eHandoverflag /\ r.TgtGnbId = m.aim /\ r.amfId = s.amfId /\ r.amfUeId = s.amfUeId
        /\ r.gnbUeId = s.gnbUeId /\ r.link = s.link /\ r.TgtGnbUeId = s.TgtGnbUeId
    <3>1. m.aim \in Gnbs
          BY <1>1, InvParts
    <3> QED
        BY <2>1, <3>1 DEF Session
  <2>4. OutMsg(o) /\ SessIdOf(o) = k
    <3>1. UpMsg(o, GnbProcs)
          BY <2>1, <2>2 DEF UpMsg, GnbProcs
    <3> QED
        BY <2>2, <3>1, OutNumber DEF OutMsg
  <2>5. Changes(k, r) /\ (k \in m_containerMap') = TRUE
        BY <1>1, <2>1, InvParts DEF Changes, Set
  <2> HIDE DEF o, r
  <2>6. ASSUME k \notin doubtful
        PROVE  Turned(m, o, k, r, TRUE)
    <3>1. m \in A /\ \A q \in A \ {m} : Waits(q)
          BY <1>0, <2>6, GnbFinds
    <3>2. PICK u \in Ues :
            /\ Agrees(k, u, s, esm_list, k \in m_containerMap, A, ran, core, serving, ho)
            /\ m.ue = u
            /\ SessOk(k, u, s, esm_list, k \in m_containerMap, A, ran, core, serving)
            /\ FromGnbOk(m, k, u, s, esm_list, ran, core, serving)
          BY <1>0, <2>6, GnbFinds
    <3> HIDE DEF A, s, k
    <3>3. s.amfUeId # NULL /\ s.gnbUeId # NULL /\ (Served(k, core) => Home(k, u, ran, serving))
          BY <1>0, <3>2 DEF FromGnbOk, RequiredOk
    <3>4. SessOk(k, u, r, esm_list, TRUE, B, ran, core, serving)
      <4>1. Asks(o, TRUE)
            BY <2>2 DEF Asks
      <4> QED
          BY <1>1, <2>3, <3>2, <3>3, <4>1 DEF SessOk
    <3>5. MsgOk(o, k, u, r, esm_list, B, ran, core, serving)
      <4>1. UpOk(o, k, u, r, B, core)
            BY <2>2, <2>3, <3>2, <3>3 DEF UpOk, SessOk
      <4>2. o.to \notin Gnbs
            BY <2>2, <3>2, <3>3, PeerNames DEF SessOk
      <4> QED
          BY <2>2, <3>2, <4>1, <4>2, PeerNames DEF MsgOk
    <3>6. m.proc \in Steps /\ m.proc # "UplinkRANStatusTransfer" /\ m.proc # "HandoverRequestAck"
          BY <1>0 DEF Steps, HandoverProcs
    <3> QED
        BY <2>1, <2>3, <3>1, <3>2, <3>4, <3>5, <3>6, StepTurned DEF A, B
  <2>7. m.proc \in Steps
        BY <1>0 DEF Steps, HandoverProcs
  <2> QED
      BY <1>1, <2>1, <2>3, <2>4, <2>5, <2>6, <2>7, SendKeeps DEF o, r
<1>2. CASE RelayUp(m)
      BY <1>0, <1>2, RelayUpKeeps
<1>3. CASE ~Found(m.amf) /\ Drop(m)
      BY <1>3, GnbDropKeeps
<1> QED
    BY <1>1, <1>2, <1>3 DEF GNB_HandoverRequired

\* The target has the UE's context.
LEMMA AckKeeps ==
  ASSUME ProxyInv, NEW m \in net, m.from \in Gnbs, GNB_HandoverReqAck(m)
  PROVE  ProxyInv'
<1> DEFINE k == m.amf
           s == session_list[k]
           A == About(k, net \cup held)
<1>0. m.proc = "HandoverRequestAck" /\ m.proc \in Steps /\ m.proc # "UplinkRANStatusTransfer"
      BY DEF GNB_HandoverReqAck, Steps, HandoverProcs
<1>g. Found(k) => /\ GnbMsg(m) /\ k \in Ids /\ SessIdOf(m) = k /\ s \in Session
                  /\ m.ran \in Gnbs \X Ues /\ m.aim = m.from /\ m.ue \in Ues
  <2> SUFFICES ASSUME Found(k)
               PROVE  /\ GnbMsg(m) /\ k \in Ids /\ SessIdOf(m) = k /\ s \in Session
                      /\ m.ran \in Gnbs \X Ues /\ m.aim = m.from /\ m.ue \in Ues
      OBVIOUS
  <2>1. GnbMsg(m) /\ k \in Ids /\ SessIdOf(m) = k /\ s \in Session
        BY <1>0, UpTypes
  <2> QED
      BY <1>0, <2>1 DEF GnbMsg
<1>1. ASSUME Ours(m), Set(k, [s EXCEPT !.TgtGnbUeId = m.ran]), Reply(m, SendHandoverCommand(m)),
             UNCHANGED <<esm_list, isNgSetup, m_containerMap>>
      PROVE  ProxyInv'
  <2> DEFINE r == [s EXCEPT !.TgtGnbUeId = m.ran]
             o == SendHandoverCommand(m)
             B == (A \ {m}) \cup {o}
  <2>1. Found(k) /\ s.eHandoverflag
        BY <1>1 DEF Ours, GNB_Known
  <2>2. s \in Session /\ s.link \in Gnbs /\ s.gnbUeId \in (Gnbs \X Ues) \cup {NULL}
        BY <1>g, <2>1 DEF Session
  <2>3. /\ OutMsg(o) /\ SessIdOf(o) = k
        /\ o.from = Gateway /\ o.to = s.link /\ o.proc = "HandoverCommand" /\ o.ran = s.gnbUeId /\ o.amf = k
        /\ o.ue = m.ue /\ o.aim = m.from
    <3>1. o = SendTo(s.link, "HandoverCommand", s.gnbUeId, k, m) /\ "HandoverCommand" \in AmfProcs \cup OwnProcs
          BY DEF SendHandoverCommand, OwnProcs
    <3>2. k \in Ids /\ m.ue \in Ues /\ m.aim \in Gnbs /\ m.aim = m.from /\ s.gnbUeId \in RanIds
          BY <1>g, <2>1, <2>2 DEF RanIds
    <3> HIDE DEF o, s, k
    <3> QED
        BY <2>2, <3>1, <3>2, DownMade
  <2>4. /\ r \in Session /\ r.eHandoverflag /\ r.TgtGnbId = s.TgtGnbId /\ r.amfId = s.amfId /\ r.amfUeId = s.amfUeId
        /\ r.gnbUeId = s.gnbUeId /\ r.link = s.link /\ r.TgtGnbUeId = m.ran
        BY <1>g, <2>1 DEF Session
  <2>5. Changes(k, r) /\ m_containerMap' = m_containerMap
        BY <1>1, <1>g, <2>1, SetChanges
  <2> HIDE DEF o, r
  <2>6. ASSUME k \notin doubtful
        PROVE  Turned(m, o, k, r, k \in m_containerMap)
    <3>1. m \in A /\ \A q \in A \ {m} : Waits(q)
          BY <1>0, <2>6, GnbFinds
    <3>2. PICK u \in Ues :
            /\ Agrees(k, u, s, esm_list, k \in m_containerMap, A, ran, core, serving, ho)
            /\ m.ue = u /\ m.ran = <<m.from, u>>
            /\ SessOk(k, u, s, esm_list, k \in m_containerMap, A, ran, core, serving)
            /\ FromGnbOk(m, k, u, s, esm_list, ran, core, serving)
            /\ \A q \in A : q # m => q.proc \notin Steps
          BY <1>0, <2>6, GnbFinds
    <3> HIDE DEF A, s, k
    <3>3. s.amfUeId # NULL /\ m.from = s.TgtGnbId /\ (Served(k, core) => m.from # serving[u])
          BY <1>0, <2>1, <3>2 DEF FromGnbOk, AckOk
    <3>4. SessOk(k, u, r, esm_list, k \in m_containerMap, B, ran, core, serving)
          BY <2>1, <2>4, <3>2, <3>3 DEF SessOk
    <3>5. MsgOk(o, k, u, r, esm_list, B, ran, core, serving)
      <4>1. \A q \in B : q.proc \notin Steps
            BY <2>3, <3>2 DEF Steps, HandoverProcs
      <4>2. o.ran = <<o.to, u>> /\ s.gnbUeId # NULL
            BY <2>1, <2>3, <3>2 DEF SessOk
      <4> HIDE DEF B
      <4>3. DownOk(o, k, u, r, B, core, serving)
            BY <2>3, <2>4, <3>2, <3>3, <4>1, <4>2 DEF DownOk
      <4> QED
          BY <2>2, <2>3, <3>2, <4>3, PeerNames DEF MsgOk
    <3>6. s.gnbUeId # NULL
          BY <2>1, <3>2 DEF SessOk
    <3> QED
        BY <1>0, <1>g, <2>1, <2>4, <3>1, <3>2, <3>4, <3>5, <3>6, StepTurned DEF A, B
  <2> QED
      BY <1>0, <1>1, <1>g, <2>1, <2>3, <2>4, <2>5, <2>6, SendKeeps DEF o, r
<1>2. ASSUME Theirs(m), Set(k, [s EXCEPT !.gnbUeId = m.ran]),
             Reply(m, GNB_ConvertNgapId(m)) \/ Hold(m, GNB_ConvertNgapId(m)),
             UNCHANGED <<esm_list, isNgSetup, m_containerMap>>
      PROVE  ProxyInv'
  <2> DEFINE r == [s EXCEPT !.gnbUeId = m.ran]
             o == GNB_ConvertNgapId(m)
             B == (A \ {m}) \cup {o}
  <2>1. Found(k) /\ ~s.eHandoverflag
        BY <1>2 DEF Theirs, GNB_Known
  <2>2. /\ UpMsg(o, {m.proc}) /\ OutMsg(o) /\ SessIdOf(o) = k
        /\ o.from = Gateway /\ o.to = s.amfId /\ o.ran = k /\ o.amf = s.amfUeId
        /\ o.proc = m.proc /\ o.ue = m.ue
        BY <1>0, <2>1, UpTypes
  <2>3. HeldMsg(o)
        BY <1>0, <2>2 DEF HeldMsg, UpMsg, HeldUp
  <2>4. /\ r \in Session /\ ~r.eHandoverflag /\ r.amfId = s.amfId /\ r.amfUeId = s.amfUeId
        /\ r.gnbUeId = m.ran /\ r.link = s.link
        BY <1>g, <2>1 DEF Session
  <2>5. Changes(k, r) /\ m_containerMap' = m_containerMap
        BY <1>2, <1>g, <2>1, SetChanges
  <2> HIDE DEF o, r
  <2>6. ASSUME k \notin doubtful
        PROVE  Turned(m, o, k, r, k \in m_containerMap)
    <3>1. m \in A /\ \A q \in A \ {m} : Waits(q)
          BY <1>0, <2>6, GnbFinds
    <3>2. PICK u \in Ues :
            /\ Agrees(k, u, s, esm_list, k \in m_containerMap, A, ran, core, serving, ho)
            /\ m.ue = u /\ m.ran = <<m.from, u>>
            /\ SessOk(k, u, s, esm_list, k \in m_containerMap, A, ran, core, serving)
            /\ FromGnbOk(m, k, u, s, esm_list, ran, core, serving)
          BY <1>0, <2>6, GnbFinds
    <3> HIDE DEF A, s, k
    <3>3. s.amfUeId # NULL /\ m.from = s.link /\ s.gnbUeId = NULL
          BY <1>0, <2>1, <3>2 DEF FromGnbOk, AckOk
    <3>4. SessOk(k, u, r, esm_list, k \in m_containerMap, B, ran, core, serving)
          BY <2>4, <3>2, <3>3 DEF SessOk
    <3>5. MsgOk(o, k, u, r, esm_list, B, ran, core, serving)
      <4>1. ~Served(k, core)
            BY <3>2, <3>3 DEF Agrees, CoreOk, Served
      <4>2. \A q \in B : q.from \notin Amfs
        <5> SUFFICES ASSUME NEW q \in B, q.from \in Amfs
                     PROVE  FALSE
            OBVIOUS
        <5>1. q \in A
              BY <2>2, PeerNames
        <5>2. FromAmfOk(q, k, s, core)
              BY <3>2, <5>1 DEF Agrees, MsgOk
        <5> QED
            BY <3>3, <5>2 DEF FromAmfOk
      <4>3. m.ran # NULL
            BY <1>g, <2>1, IdNames DEF k
      <4> HIDE DEF B
      <4>4. UpOk(o, k, u, r, B, core)
            BY <1>0, <2>2, <2>4, <3>2, <3>3, <4>1, <4>2, <4>3 DEF UpOk, SessOk
      <4>5. o.to \notin Gnbs
            BY <2>2, <3>2, <3>3, PeerNames DEF SessOk
      <4> QED
          BY <2>2, <3>2, <4>4, <4>5, PeerNames DEF MsgOk
    <3>6. r.gnbUeId # NULL
          BY <1>g, <2>1, <2>4, IdNames DEF k
    <3> QED
        BY <1>0, <1>g, <2>1, <2>4, <3>1, <3>2, <3>4, <3>5, <3>6, StepTurned DEF A, B
  <2> QED
      BY <1>0, <1>2, <1>g, <2>1, <2>2, <2>3, <2>4, <2>5, <2>6, SendKeeps DEF o, r
<1>3. CASE ~GNB_Known(m) /\ Drop(m)
      BY <1>3, GnbDropKeeps
<1> QED
    BY <1>1, <1>2, <1>3 DEF GNB_HandoverReqAck

\* A handover ends with nothing else under way of it.
LEMMA ResetOk ==
  ASSUME NEW i, NEW u, NEW s \in Session, NEW E, NEW c, NEW A, NEW B, NEW rn, NEW cr, NEW sv,
         SessOk(i, u, s, E, c, A, rn, cr, sv)
  PROVE  LET r == ResetHandoverInfo(s) IN
         /\ r \in Session /\ ~r.eHandoverflag /\ r.amfId = s.amfId /\ r.amfUeId = s.amfUeId
         /\ r.gnbUeId = s.gnbUeId /\ r.link = s.link
         /\ SessOk(i, u, r, E, c, B, rn, cr, sv)
<1> DEFINE r == ResetHandoverInfo(s)
<1>1. /\ r \in Session /\ ~r.eHandoverflag /\ r.amfId = s.amfId /\ r.amfUeId = s.amfUeId
      /\ r.gnbUeId = s.gnbUeId /\ r.link = s.link
      BY DEF ResetHandoverInfo, Session
<1> HIDE DEF r
<1>2. SessOk(i, u, r, E, c, B, rn, cr, sv)
      BY <1>1 DEF SessOk
<1> QED
    BY <1>1, <1>2 DEF r

\* The gateway's own handover ends, a gNB that has the UE is told.
LEMMA ResetKeeps ==
  ASSUME ProxyInv, NEW m \in net, m.from \in Gnbs, Found(m.amf), session_list[m.amf].eHandoverflag,
         m.proc \in {"HandoverFailure", "HandoverCancel"}, NEW p \in Gnbs, NEW proc,
         NEW ran_id \in (Gnbs \X Ues) \cup {NULL},
         proc \in {"HandoverPreparationFailure", "HandoverCancelAck"},
         \/ p = session_list[m.amf].link /\ ran_id = session_list[m.amf].gnbUeId
         \/ p = m.from /\ ran_id = m.ran,
         Set(m.amf, ResetHandoverInfo(session_list[m.amf])), Reply(m, SendTo(p, proc, ran_id, m.amf, m)),
         UNCHANGED <<esm_list, isNgSetup, m_containerMap>>
  PROVE  ProxyInv'
<1> DEFINE k == m.amf
           s == session_list[k]
           A == About(k, net \cup held)
           r == ResetHandoverInfo(s)
           o == SendTo(p, proc, ran_id, k, m)
           B == (A \ {m}) \cup {o}
<1>0. m.proc \in Steps /\ m.proc # "UplinkRANStatusTransfer" /\ m.proc # "HandoverRequestAck"
      /\ m.proc # "InitialUEMessage"
      BY DEF Steps, HandoverProcs
<1>1. GnbMsg(m) /\ k \in Ids /\ SessIdOf(m) = k /\ s \in Session /\ m.ue \in Ues
      BY <1>0, UpTypes DEF GnbMsg
<1>2. /\ OutMsg(o) /\ SessIdOf(o) = k
      /\ o.from = Gateway /\ o.to = p /\ o.proc = proc /\ o.ran = ran_id /\ o.amf = k /\ o.ue = m.ue
  <2>1. proc \in AmfProcs \cup OwnProcs /\ proc # "HandoverCommand" /\ k \in Ids /\ m.ue \in Ues /\ ran_id \in RanIds
        BY <1>1 DEF OwnProcs, RanIds
  <2> HIDE DEF k
  <2> QED
      BY <2>1, DownMade
<1>3. r \in Session
      BY <1>1 DEF ResetHandoverInfo, Session
<1>4. Changes(k, r) /\ m_containerMap' = m_containerMap
      BY <1>1, SetChanges
<1> HIDE DEF o, r
<1>5. ASSUME k \notin doubtful
      PROVE  Turned(m, o, k, r, k \in m_containerMap)
  <2>1. m \in A /\ \A q \in A \ {m} : Waits(q)
        BY <1>0, <1>5, GnbFinds
  <2>2. PICK u \in Ues :
          /\ Agrees(k, u, s, esm_list, k \in m_containerMap, A, ran, core, serving, ho)
          /\ m.ue = u /\ m.ran = <<m.from, u>>
          /\ SessOk(k, u, s, esm_list, k \in m_containerMap, A, ran, core, serving)
        BY <1>0, <1>5, GnbFinds
  <2> HIDE DEF A
  <2>3. /\ ~r.eHandoverflag /\ r.amfId = s.amfId /\ r.amfUeId = s.amfUeId
        /\ r.gnbUeId = s.gnbUeId /\ r.link = s.link
        /\ SessOk(k, u, r, esm_list, k \in m_containerMap, B, ran, core, serving)
        BY <1>1, <2>2, ResetOk DEF r
  <2>4. s.amfUeId # NULL /\ s.gnbUeId = <<s.link, u>> /\ s.gnbUeId # NULL
        BY <2>2 DEF SessOk
  <2>5. MsgOk(o, k, u, r, esm_list, B, ran, core, serving)
    <3>1. DownOk(o, k, u, r, B, core, serving)
          BY <1>2, <2>2, <2>3, <2>4 DEF DownOk
    <3> QED
        BY <1>2, <2>2, <3>1, PeerNames DEF MsgOk
  <2> HIDE DEF B, s, k
  <2> QED
      BY <1>0, <1>1, <2>1, <2>2, <2>3, <2>4, <2>5, StepTurned DEF A, B
<1> QED
    BY <1>0, <1>1, <1>2, <1>3, <1>4, <1>5, SendKeeps DEF o, r

\* The target refuses.
LEMMA FailureKeeps ==
  ASSUME ProxyInv, NEW m \in net, m.from \in Gnbs, GNB_HandoverFailure(m)
  PROVE  ProxyInv'
<1>0. m.proc = "HandoverFailure"
      BY DEF GNB_HandoverFailure
<1>1. ASSUME Ours(m), Set(m.amf, ResetHandoverInfo(session_list[m.amf])),
             Reply(m, SendHOPrepareFailure(m.amf, m)), UNCHANGED <<esm_list, isNgSetup, m_containerMap>>
      PROVE  ProxyInv'
  <2>1. Found(m.amf) /\ session_list[m.amf].eHandoverflag
        BY <1>1 DEF Ours, GNB_Known
  <2>2. session_list[m.amf] \in Session
        BY <1>0, <2>1, UpTypes
  <2>3. session_list[m.amf].link \in Gnbs /\ session_list[m.amf].gnbUeId \in (Gnbs \X Ues) \cup {NULL}
        BY <2>2 DEF Session
  <2> QED
      BY <1>0, <1>1, <2>1, <2>3, ResetKeeps DEF SendHOPrepareFailure
<1>2. CASE Theirs(m) /\ RelayUp(m)
      BY <1>0, <1>2, RelayUpKeeps DEF Theirs
<1>3. CASE ~GNB_Known(m) /\ Drop(m)
      BY <1>3, GnbDropKeeps
<1> QED
    BY <1>1, <1>2, <1>3 DEF GNB_HandoverFailure

\* The source gives up.
LEMMA CancelKeeps ==
  ASSUME ProxyInv, NEW m \in net, m.from \in Gnbs, GNB_HandoverCancel(m)
  PROVE  ProxyInv'
<1>0. m.proc = "HandoverCancel"
      BY DEF GNB_HandoverCancel
<1>1. ASSUME Found(m.amf), session_list[m.amf].eHandoverflag,
             Set(m.amf, ResetHandoverInfo(session_list[m.amf])),
             Reply(m, SendHandoverCancelAck(m)), UNCHANGED <<esm_list, isNgSetup, m_containerMap>>
      PROVE  ProxyInv'
  <2>1. m.ran \in (Gnbs \X Ues) \cup {NULL}
    <3>1. GnbMsg(m)
          BY <1>0, <1>1, UpTypes
    <3> QED
        BY <3>1 DEF GnbMsg
  <2> QED
      BY <1>0, <1>1, <2>1, ResetKeeps DEF SendHandoverCancelAck
<1>2. CASE RelayUp(m)
      BY <1>0, <1>2, RelayUpKeeps
<1>3. CASE ~Found(m.amf) /\ Drop(m)
      BY <1>3, GnbDropKeeps
<1> QED
    BY <1>1, <1>2, <1>3 DEF GNB_HandoverCancel

\* The UE has arrived at the target.
LEMMA NotifyKeeps ==
  ASSUME ProxyInv, NEW m \in net, m.from \in Gnbs, GNB_HandoverNotify(m)
  PROVE  ProxyInv'
<1> DEFINE k == m.amf
           s == session_list[k]
           A == About(k, net \cup held)
           r == [s EXCEPT !.gnbUeId = s.TgtGnbUeId, !.link = m.from, !.waitRelComplete = TRUE]
           o == SendUCRelCommand(m)
           B == (A \ {m}) \cup {o}
<1>0. m.proc = "HandoverNotify" /\ m.proc \in Steps /\ m.proc # "UplinkRANStatusTransfer"
      /\ m.proc # "HandoverRequestAck"
      BY DEF GNB_HandoverNotify, Steps, HandoverProcs
<1>1. ASSUME Ours(m), Set(k, r), Reply(m, o), UNCHANGED <<esm_list, isNgSetup, m_containerMap>>
      PROVE  ProxyInv'
  <2>1. Found(k) /\ s.eHandoverflag
        BY <1>1 DEF Ours, GNB_Known
  <2>2. k \in Ids /\ SessIdOf(m) = k /\ s \in Session /\ m.ue \in Ues
    <3>1. GnbMsg(m) /\ k \in Ids /\ SessIdOf(m) = k /\ s \in Session
          BY <1>0, <2>1, UpTypes
    <3> QED
        BY <3>1 DEF GnbMsg
  <2>3. s.link \in Gnbs /\ s.gnbUeId \in RanIds
        BY <2>2 DEF Session, RanIds
  <2>4. /\ OutMsg(o) /\ SessIdOf(o) = k
        /\ o.from = Gateway /\ o.to = s.link /\ o.proc = "UEContextReleaseCommand" /\ o.ran = s.gnbUeId
        /\ o.amf = k /\ o.ue = m.ue
    <3>1. o = SendTo(s.link, "UEContextReleaseCommand", s.gnbUeId, k, m)
          BY DEF SendUCRelCommand
    <3>2. "UEContextReleaseCommand" \in AmfProcs \cup OwnProcs
          BY DEF AmfProcs
    <3> HIDE DEF o, s, k
    <3> QED
        BY <2>2, <2>3, <3>1, <3>2, DownMade
  <2>5. /\ r \in Session /\ r.eHandoverflag = s.eHandoverflag /\ r.TgtGnbId = s.TgtGnbId
        /\ r.TgtGnbUeId = s.TgtGnbUeId /\ r.amfId = s.amfId /\ r.amfUeId = s.amfUeId
        /\ r.gnbUeId = s.TgtGnbUeId /\ r.link = m.from
        BY <2>2 DEF Session
  <2>6. Changes(k, r) /\ m_containerMap' = m_containerMap
        BY <1>1, <2>2, SetChanges
  <2> HIDE DEF o, r
  <2>7. ASSUME k \notin doubtful
        PROVE  Turned(m, o, k, r, k \in m_containerMap)
    <3>1. m \in A /\ \A q \in A \ {m} : Waits(q)
          BY <1>0, <2>7, GnbFinds
    <3>2. PICK u \in Ues :
            /\ Agrees(k, u, s, esm_list, k \in m_containerMap, A, ran, core, serving, ho)
            /\ m.ue = u
            /\ SessOk(k, u, s, esm_list, k \in m_containerMap, A, ran, core, serving)
            /\ FromGnbOk(m, k, u, s, esm_list, ran, core, serving)
            /\ \A q \in A : q # m => q.proc \notin Steps
          BY <1>0, <2>7, GnbFinds
    <3> HIDE DEF A, s, k
    <3>3. /\ s.amfUeId # NULL /\ s.TgtGnbUeId = <<m.from, u>>
          /\ Served(k, core) => serving[u] = m.from /\ s.link # m.from
          BY <1>0, <2>1, <3>2 DEF FromGnbOk, NotifyOk
    <3>4. \A q \in A : ~Asks(q, k \in m_containerMap)
          BY <1>0, <3>2 DEF Asks, Steps, HandoverProcs
    <3>5. s.TgtGnbUeId = <<s.TgtGnbId, u>> /\ s.TgtGnbId \in esm_list /\ s.gnbUeId = <<s.link, u>>
          /\ s.gnbUeId # NULL /\ (Served(k, core) => Home(k, u, ran, serving))
          BY <2>1, <3>2, <3>4 DEF SessOk
    <3>6. m.from = s.TgtGnbId /\ s.TgtGnbUeId # NULL
      <4>1. <<m.from, u>> # NULL
            BY IdNames
      <4> QED
          BY <3>3, <3>5, <4>1
    <3>7. SessOk(k, u, r, esm_list, k \in m_containerMap, B, ran, core, serving)
          BY <2>5, <3>2, <3>3, <3>5, <3>6 DEF SessOk
    <3>8. MsgOk(o, k, u, r, esm_list, B, ran, core, serving)
      <4>1. DownOk(o, k, u, r, B, core, serving)
            BY <2>4, <2>5, <3>2, <3>3, <3>5, <3>6 DEF DownOk
      <4> QED
          BY <2>3, <2>4, <3>2, <4>1, PeerNames DEF MsgOk
    <3> QED
        BY <1>0, <2>2, <2>5, <3>1, <3>2, <3>6, <3>7, <3>8, StepTurned DEF A, B
  <2> QED
      BY <1>0, <1>1, <2>2, <2>4, <2>5, <2>6, <2>7, SendKeeps DEF o, r
<1>2. CASE Theirs(m) /\ RelayUp(m)
      BY <1>0, <1>2, RelayUpKeeps
<1>3. CASE ~GNB_Known(m) /\ Drop(m)
      BY <1>3, GnbDropKeeps
<1> QED
    BY <1>1, <1>2, <1>3 DEF GNB_HandoverNotify

\* The status of a UE that is ordered to the target.
LEMMA StatusKeeps ==
  ASSUME ProxyInv, NEW m \in net, m.from \in Gnbs, GNB_ULRanStatusTsfer(m)
  PROVE  ProxyInv'
<1> DEFINE k == m.amf
           s == session_list[k]
           A == About(k, net \cup held)
           o == SendDLRanStatusTsfer(m)
           B == (A \ {m}) \cup {o}
           p == IF s.TgtGnbId \in esm_list THEN s.TgtGnbId ELSE m.from
<1>0. m.proc = "UplinkRANStatusTransfer" /\ m.proc \in Steps
      BY DEF GNB_ULRanStatusTsfer, Steps, HandoverProcs
<1>1. ASSUME Found(k), s.eHandoverflag, Reply(m, o), UNCHANGED table
      PROVE  ProxyInv'
  <2>1. k \in Ids /\ SessIdOf(m) = k /\ s \in Session /\ m.ue \in Ues
    <3>1. GnbMsg(m) /\ k \in Ids /\ SessIdOf(m) = k /\ s \in Session
          BY <1>0, <1>1, UpTypes
    <3> QED
        BY <3>1 DEF GnbMsg
  <2>2. p \in Gnbs /\ s.TgtGnbUeId \in RanIds
        BY <2>1, InvParts DEF Session, RanIds
  <2>3. /\ OutMsg(o) /\ SessIdOf(o) = k
        /\ o.from = Gateway /\ o.to = p /\ o.proc = "DownlinkRANStatusTransfer" /\ o.ran = s.TgtGnbUeId
        /\ o.amf = k /\ o.ue = m.ue
    <3>1. o = SendTo(p, "DownlinkRANStatusTransfer", s.TgtGnbUeId, k, m)
          BY DEF SendDLRanStatusTsfer
    <3>2. "DownlinkRANStatusTransfer" \in AmfProcs \cup OwnProcs
          BY DEF OwnProcs
    <3> HIDE DEF o, s, k, p
    <3> QED
        BY <2>1, <2>2, <3>1, <3>2, DownMade
  <2>4. Changes(k, s) /\ m_containerMap' = m_containerMap
        BY <1>1, <2>1, SetChanges DEF table
  <2> HIDE DEF o
  <2>5. o.proc \notin Steps
        BY <2>3 DEF Steps, HandoverProcs
  <2>6. ASSUME k \notin doubtful
        PROVE  Turned(m, o, k, s, k \in m_containerMap)
    <3>1. m \in A /\ \A q \in A \ {m} : Waits(q)
          BY <1>0, <2>6, GnbFinds
    <3>2. PICK u \in Ues :
            /\ Agrees(k, u, s, esm_list, k \in m_containerMap, A, ran, core, serving, ho)
            /\ m.ue = u
            /\ SessOk(k, u, s, esm_list, k \in m_containerMap, A, ran, core, serving)
            /\ FromGnbOk(m, k, u, s, esm_list, ran, core, serving)
            /\ \A q \in A : q # m => q.proc \notin Steps
          BY <1>0, <2>6, GnbFinds
    <3> HIDE DEF A, s, k
    <3>3. \A q \in A : ~Asks(q, k \in m_containerMap)
          BY <1>0, <3>2 DEF Asks, Steps, HandoverProcs
    <3>4. s.TgtGnbUeId = <<s.TgtGnbId, u>> /\ s.TgtGnbId \in esm_list /\ s.gnbUeId # NULL /\ s.amfUeId # NULL
          BY <1>1, <3>2, <3>3 DEF SessOk
    <3>5. MsgOk(o, k, u, s, esm_list, B, ran, core, serving)
      <4>1. DownOk(o, k, u, s, B, core, serving)
            BY <2>3, <3>2, <3>4 DEF DownOk
      <4> QED
          BY <2>2, <2>3, <3>2, <4>1, PeerNames DEF MsgOk
    <3>6. /\ Alike(s, s) /\ o.from \notin Amfs /\ m.proc # "HandoverRequestAck"
          /\ s.amfUeId # NULL => s.amfId \in Amfs /\ s.amfUeId = <<s.amfId, u>>
          BY <1>0, <2>3, <3>2, PeerNames DEF Alike, SessOk
    <3>7. B = (A \ {m}) \cup {o}
          OBVIOUS
    <3> HIDE DEF B
    <3>8. Agrees(k, u, s, esm_list, k \in m_containerMap, B, ran, core, serving, ho)
          BY <2>5, <3>1, <3>2, <3>3, <3>5, <3>6, <3>7, Relayed
    <3> QED
        BY <3>8 DEF Turned, A, B
  <2> QED
      BY <1>1, <2>1, <2>3, <2>4, <2>5, <2>6, SendKeeps DEF o
<1>2. CASE RelayUp(m)
      BY <1>0, <1>2, RelayUpKeeps
<1>3. CASE ~Found(m.amf) /\ Drop(m)
      BY <1>3, GnbDropKeeps
<1> QED
    BY <1>1, <1>2, <1>3 DEF GNB_ULRanStatusTsfer

\* The UE is at another gNB already.
LEMMA SwitchKeeps ==
  ASSUME ProxyInv, NEW m \in net, m.from \in Gnbs, GNB_PathSwitchRequest(m)
  PROVE  ProxyInv'
<1> DEFINE k == m.amf
           s == session_list[k]
           A == About(k, net \cup held)
           r == [s EXCEPT !.gnbUeId = m.ran, !.link = m.from]
           o == GNB_ConvertNgapId(m)
           B == (A \ {m}) \cup {o}
<1>0. m.proc = "PathSwitchRequest" /\ m.proc \in Steps /\ m.proc # "UplinkRANStatusTransfer"
      /\ m.proc # "HandoverRequestAck"
      BY DEF GNB_PathSwitchRequest, Steps, HandoverProcs
<1>1. ASSUME Found(k), Set(k, r), Hold(m, o), UNCHANGED <<esm_list, isNgSetup, m_containerMap>>
      PROVE  ProxyInv'
  <2>1. /\ GnbMsg(m) /\ k \in Ids /\ SessIdOf(m) = k /\ s \in Session
        /\ UpMsg(o, {m.proc}) /\ OutMsg(o) /\ SessIdOf(o) = k
        /\ o.from = Gateway /\ o.to = s.amfId /\ o.ran = k /\ o.amf = s.amfUeId
        /\ o.proc = m.proc /\ o.ue = m.ue
        BY <1>0, <1>1, UpTypes
  <2>2. m.ran \in Gnbs \X Ues /\ m.ran # NULL
        BY <2>1, IdNames DEF GnbMsg
  <2>3. /\ r \in Session /\ r.eHandoverflag = s.eHandoverflag /\ r.TgtGnbId = s.TgtGnbId
        /\ r.TgtGnbUeId = s.TgtGnbUeId /\ r.amfId = s.amfId /\ r.amfUeId = s.amfUeId
        /\ r.gnbUeId = m.ran /\ r.link = m.from
        BY <2>1, <2>2 DEF Session
  <2>4. Changes(k, r) /\ m_containerMap' = m_containerMap
        BY <1>1, <2>1, SetChanges
  <2>5. HeldMsg(o)
        BY <1>0, <2>1 DEF HeldMsg, UpMsg, HeldUp
  <2> HIDE DEF o, r
  <2>6. ASSUME k \notin doubtful
        PROVE  Turned(m, o, k, r, k \in m_containerMap)
    <3>1. m \in A /\ \A q \in A \ {m} : Waits(q)
          BY <1>0, <2>6, GnbFinds
    <3>2. PICK u \in Ues :
            /\ Agrees(k, u, s, esm_list, k \in m_containerMap, A, ran, core, serving, ho)
            /\ m.ue = u /\ m.ran = <<m.from, u>>
            /\ SessOk(k, u, s, esm_list, k \in m_containerMap, A, ran, core, serving)
            /\ FromGnbOk(m, k, u, s, esm_list, ran, core, serving)
          BY <1>0, <2>6, GnbFinds
    <3> HIDE DEF A, s, k
    <3>3. s.amfUeId # NULL /\ m.from \in esm_list
          BY <1>0, <3>2 DEF FromGnbOk
    <3>4. SessOk(k, u, r, esm_list, k \in m_containerMap, B, ran, core, serving)
      <4>1. Asks(m, k \in m_containerMap) => Asks(o, k \in m_containerMap)
            BY <1>0, <2>1 DEF Asks
      <4>2. (\E q \in A : Asks(q, k \in m_containerMap)) => \E q \in B : Asks(q, k \in m_containerMap)
            BY <4>1
      <4> HIDE DEF B
      <4> QED
          BY <2>2, <2>3, <3>2, <3>3, <4>2 DEF SessOk
    <3>5. MsgOk(o, k, u, r, esm_list, B, ran, core, serving)
      <4>1. UpOk(o, k, u, r, B, core)
            BY <1>0, <2>1, <2>2, <2>3, <3>2, <3>3 DEF UpOk, SessOk
      <4>2. o.to \notin Gnbs
            BY <2>1, <3>2, <3>3, PeerNames DEF SessOk
      <4> QED
          BY <2>1, <3>2, <4>1, <4>2, PeerNames DEF MsgOk
    <3> QED
        BY <1>0, <2>1, <2>2, <2>3, <3>1, <3>2, <3>4, <3>5, StepTurned DEF A, B
  <2> QED
      BY <1>0, <1>1, <2>1, <2>3, <2>4, <2>5, <2>6, SendKeeps DEF o, r
<1>2. CASE ~Found(m.amf) /\ Drop(m)
      BY <1>2, GnbDropKeeps
<1> QED
    BY <1>1, <1>2 DEF GNB_PathSwitchRequest

\* A number without a session is unknown to everyone.
LEMMA Free ==
  ASSUME ProxyInv, NEW i \in Ids, i \notin doubtful, ~Found(i)
  PROVE  /\ About(i, net \cup held) = {} /\ i \notin astray
         /\ \A t \in Gnbs \X Ues : ran[t] # i
         /\ \A t \in Amfs \X Ues : core[t] # i
         /\ \A u \in Ues : ~Home(i, u, ran, serving)
<1>1. Good(i) /\ session_list[i] = NULL
      BY DEF ProxyInv, Found
<1>2. Unused(i, About(i, net \cup held), ran, core) /\ i \notin astray
      BY <1>1 DEF Good, GoodAt
<1>3. \A u \in Ues : serving[u] # NULL => <<serving[u], u>> \in Gnbs \X Ues
      BY InvParts DEF PeersOk, PeerTypes
<1> QED
    BY <1>2, <1>3 DEF Unused, Home

\* A session begins with the message o.
LEMMA Begins ==
  ASSUME ProxyInv, NEW i \in Ids, i \notin doubtful, ~Found(i), NEW u \in Ues, NEW s, NEW d, NEW m, NEW o,
         s.link \in esm_list, s.gnbUeId \in {NULL, <<s.link, u>>}, ~s.eHandoverflag,
         s.amfUeId # NULL => s.amfId \in Amfs /\ s.amfUeId = <<s.amfId, u>>,
         MsgOk(o, i, u, s, esm_list, {o}, ran, core, serving)
  PROVE  Turned(m, o, i, s, d) /\ \A q \in net \cup held : SessIdOf(q) # i
<1>1. /\ About(i, net \cup held) = {}
      /\ \A t \in Gnbs \X Ues : ran[t] # i
      /\ \A t \in Amfs \X Ues : core[t] # i
      /\ ~Home(i, u, ran, serving)
      BY Free
<1>2. SessOk(i, u, s, esm_list, d, {o}, ran, core, serving)
      BY DEF SessOk
<1>3. RanOk(i, u, s, {o}, ran) /\ CoreOk(i, u, s, core) /\ OneStep({o})
      BY <1>1 DEF RanOk, CoreOk, OneStep
<1>4. OrderOk(i, u, s, {o}, ran, core, serving, ho)
      BY <1>1 DEF OrderOk
<1>5. Agrees(i, u, s, esm_list, d, {o}, ran, core, serving, ho)
      BY <1>2, <1>3, <1>4 DEF Agrees
<1>6. (About(i, net \cup held) \ {m}) \cup {o} = {o}
      BY <1>1
<1>7. \A q \in net \cup held : SessIdOf(q) # i
      BY <1>1 DEF About
<1> QED
    BY <1>5, <1>6, <1>7 DEF Turned

\* A UE attaches.
LEMMA InitialKeeps ==
  ASSUME ProxyInv, NEW m \in net, m.from \in Gnbs, GNB_InitialUEMessage(m)
  PROVE  ProxyInv'
<1>0. m.proc = "InitialUEMessage" /\ GnbMsg(m)
      BY InvParts, PeerNames DEF GNB_InitialUEMessage, AmfMsg
<1>1. SessIdOf(m) \notin Ids /\ m.ran = <<m.from, m.ue>> /\ m.ue \in Ues /\ m.amf = NULL /\ Formed(m)
      BY <1>0, GnbNumber DEF GnbMsg
<1>2. ASSUME NEW i \in Ids, NEW a \in Amfs \cup {NULL}, m.from \in esm_list, ~Found(i), SelectAmf(a),
             Set(i, NewSession(a, m.from, m.ran, TRUE)),
             Reply(m, [m EXCEPT !.from = Gateway, !.to = a, !.ran = i]),
             UNCHANGED <<esm_list, isNgSetup, m_containerMap>>
      PROVE  ProxyInv'
  <2> DEFINE s == NewSession(a, m.from, m.ran, TRUE)
             o == [m EXCEPT !.from = Gateway, !.to = a, !.ran = i]
  <2>1. o.from = Gateway /\ o.to = a /\ o.ran = i /\ o.ue = m.ue /\ o.proc = "InitialUEMessage"
        BY <1>0, <1>1 DEF Formed, Message
  <2>2. /\ s \in Session /\ s.link = m.from /\ s.gnbUeId = m.ran /\ ~s.eHandoverflag /\ s.amfUeId = NULL
        /\ s.amfId = a
        BY <1>1 DEF NewSession, Session
  <2>3. Changes(i, s) /\ m_containerMap' = m_containerMap
        BY <1>2, SetChanges
  <2> HIDE DEF o, s
  <2>4. OutMsg(o) /\ SessIdOf(o) = i
    <3>1. UpMsg(o, GnbProcs)
          BY <1>1, <2>1 DEF UpMsg, GnbProcs
    <3> QED
        BY <2>1, <3>1, OutNumber DEF OutMsg
  <2>5. m.ran # NULL
        BY <1>1, IdNames
  <2>6. MsgOk(o, i, m.ue, s, esm_list, {o}, ran, core, serving)
    <3>1. UpOk(o, i, m.ue, s, {o}, core)
          BY <2>1, <2>2, <2>5 DEF UpOk
    <3> QED
        BY <2>1, <3>1, PeerNames DEF MsgOk
  <2>7. i \notin doubtful => Turned(m, o, i, s, i \in m_containerMap') /\ o.proc \notin Steps
    <3>1. o.proc \notin Steps
          BY <2>1 DEF Steps, HandoverProcs
    <3> QED
        BY <1>1, <1>2, <2>2, <2>6, <3>1, Begins
  <2> QED
      BY <1>1, <1>2, <2>2, <2>3, <2>4, <2>7, ReplyKeeps DEF o, s
<1>3. CASE Drop(m)
      BY <1>0, <1>3, GnbDropKeeps
<1> QED
    BY <1>2, <1>3 DEF GNB_InitialUEMessage

\* The source has let the UE go.
LEMMA CompleteKeeps ==
  ASSUME ProxyInv, NEW m \in net, m.from \in Gnbs, GNB_UEContextReleaseComplete(m)
  PROVE  ProxyInv'
<1> DEFINE k == m.amf
           s == session_list[k]
           A == About(k, net \cup held)
           r == ResetHandoverInfo(s)
<1>0. m.proc = "UEContextReleaseComplete"
      BY DEF GNB_UEContextReleaseComplete
<1>1. ASSUME Found(k), Set(k, r), net' = net \ {m},
             doubtful' = IF HandoverAmong(k, (net \ {m}) \cup held) THEN doubtful \cup {k} ELSE doubtful,
             UNCHANGED <<esm_list, isNgSetup, m_containerMap, peers, held, astray>>
      PROVE  ProxyInv'
  <2>1. k \in Ids /\ SessIdOf(m) = k /\ s \in Session
        BY <1>0, <1>1, UpTypes
  <2>2. /\ r \in Session /\ ~r.eHandoverflag /\ r.amfId = s.amfId /\ r.amfUeId = s.amfUeId
        /\ r.link = s.link /\ r.gnbUeId = s.gnbUeId
        BY <2>1 DEF ResetHandoverInfo, Session
  <2>3. Changes(k, r) /\ m_containerMap' = m_containerMap
        BY <1>1, <2>1, SetChanges
  <2> HIDE DEF r
  <2>4. /\ held' = held /\ astray' = astray /\ ran' = ran /\ core' = core /\ serving' = serving /\ ho' = ho
        /\ esm_list' = esm_list /\ session_list' = [session_list EXCEPT ![k] = r]
        BY <1>1, <2>3 DEF peers, Changes
  <2>5. TableInv'
    <3>1. astray' \subseteq Ids
          BY <2>4, InvParts DEF TableInv
    <3> QED
        BY <2>1, <2>2, <2>3, <3>1, InvParts, ChangesTypes
  <2>6. MsgInv' /\ PeersOk(ran', core', serving', ho')
        BY <1>1, <2>4, InvParts DEF MsgInv
  <2>7. ASSUME NEW j \in Ids, j \notin doubtful', j # k
        PROVE  Good(j)'
    <3>1. j \notin doubtful
          BY <1>1, <2>7
    <3>2. Good(j)
          BY <3>1 DEF ProxyInv
    <3>3. About(j, net' \cup held') = About(j, net \cup held)
          BY <1>1, <2>1, <2>4, <2>7 DEF About
    <3>4. session_list'[j] = session_list[j]
          BY <2>4, <2>7
    <3> QED
        BY <2>3, <2>4, <3>2, <3>3, <3>4 DEF Good
  <2>8. ASSUME k \notin doubtful'
        PROVE  Good(k)'
    <3>1. k \notin doubtful /\ ~HandoverAmong(k, (net \ {m}) \cup held)
          BY <1>1, <2>8
    <3>2. PICK u \in Ues : Agrees(k, u, s, esm_list, k \in m_containerMap, A, ran, core, serving, ho)
          BY <2>1, <3>1, Finds
    <3>3. \A q \in A : Waits(q)
          BY <2>1, <3>1, Finds
    <3>4. About(k, net' \cup held') = A \ {m}
          BY <1>1, <2>4, InvParts DEF About
    <3>5. \A q \in A \ {m} : q.proc \notin HandoverProcs
          BY <3>1 DEF About, HandoverAmong
    <3>6. \A q \in A : q.proc \notin Steps /\ q.proc # "HandoverRequestAck"
          BY <1>0, <3>5 DEF Steps, HandoverProcs
    <3> DEFINE B == A \ {m}
    <3>7. B \subseteq A /\ \A q \in B : q.proc \notin Steps
          BY <3>6
    <3>8. \A t \in Gnbs \X Ues : ran[t] = k => t[2] = u /\ \E w \in Gnbs \X Ues : ran[w] = k
          BY <3>2 DEF Agrees, RanOk
    <3> HIDE DEF A, B, s, k
    <3>9. Agrees(k, u, r, esm_list, k \in m_containerMap, B, ran, core, serving, ho)
          BY <2>2, <3>2, <3>3, <3>6, <3>7, <3>8, QuietMoves
    <3>10. session_list'[k] = r /\ r # NULL
      <4>1. r # NULL
            BY <2>2, ProxyAssumption
      <4> QED
          BY <2>1, <2>4, <4>1, InvParts
    <3>11. k \notin astray
           BY <2>1, <3>1 DEF ProxyInv, Good
    <3> QED
        BY <2>3, <2>4, <3>4, <3>9, <3>10, <3>11 DEF Good, GoodAt, B
  <2> QED
      BY <2>5, <2>6, <2>7, <2>8 DEF ProxyInv
<1>2. CASE RelayUp(m)
      BY <1>0, <1>2, RelayUpKeeps
<1> QED
    BY <1>1, <1>2 DEF GNB_UEContextReleaseComplete

\* Whatever a gNB sends.
LEMMA GnbKeeps ==
  ASSUME ProxyInv, NEW m \in net, GnbMessage(m)
  PROVE  ProxyInv'
BY UplinkKeeps, InitialKeeps, ReleaseReqKeeps, CompleteKeeps, SetupRspKeeps, RequiredKeeps, AckKeeps,
   FailureKeeps, NotifyKeeps, CancelKeeps, StatusKeeps, SwitchKeeps DEF GnbMessage

-----------------------------------------------------------------------------
(* The handlers of what AMFs send.                                          *)

\* What is passed on to the gNB, and what the session learns.
LEMMA DownTypes ==
  ASSUME ProxyInv, NEW m \in net, m.from \in Amfs, m.proc # "HandoverRequest", AMF_Known(m)
  PROVE  LET k == m.ran
             s == session_list[k]
             r == AMF_Learned(m)
             o == AMF_ConvertNgapId(m) IN
         /\ AmfMsg(m) /\ k \in Ids /\ SessIdOf(m) = k /\ s \in Session /\ s.link \in esm_list /\ s.link \in Gnbs
         /\ s.gnbUeId \in RanIds /\ m.ue \in Ues
         /\ o.from = Gateway /\ o.to = s.link /\ o.proc = m.proc /\ o.ran = s.gnbUeId /\ o.amf = k /\ o.ue = m.ue
         /\ DownMsg(o, {m.proc}) /\ OutMsg(o) /\ SessIdOf(o) = k
         /\ r \in Session /\ r.amfUeId = m.amf /\ r.amfId = s.amfId /\ r.link = s.link /\ r.gnbUeId = s.gnbUeId
         /\ r.eHandoverflag = s.eHandoverflag /\ r.TgtGnbId = s.TgtGnbId /\ r.TgtGnbUeId = s.TgtGnbUeId
<1> DEFINE k == m.ran
           s == session_list[k]
           r == AMF_Learned(m)
           o == AMF_ConvertNgapId(m)
<1>1. AmfMsg(m)
      BY InvParts, PeerNames DEF GnbMsg
<1>2. k \in Ids /\ SessIdOf(m) = k /\ m.ue \in Ues /\ m.proc \in AmfProcs /\ m.amf \in Amfs \X Ues /\ Formed(m)
      BY <1>1, AmfNumber DEF AmfMsg
<1>3. s \in Session /\ s.link \in esm_list
      BY <1>2, InvParts DEF AMF_Known, Found
<1>4. s.link \in Gnbs /\ s.gnbUeId \in RanIds
      BY <1>3 DEF Session, RanIds
<1>5. o.from = Gateway /\ o.to = s.link /\ o.proc = m.proc /\ o.ran = s.gnbUeId /\ o.amf = k /\ o.ue = m.ue
      BY <1>2 DEF AMF_ConvertNgapId, Formed, Message
<1>6. /\ r \in Session /\ r.amfUeId = m.amf /\ r.amfId = s.amfId /\ r.link = s.link /\ r.gnbUeId = s.gnbUeId
      /\ r.eHandoverflag = s.eHandoverflag /\ r.TgtGnbId = s.TgtGnbId /\ r.TgtGnbUeId = s.TgtGnbUeId
      BY <1>2, <1>3 DEF AMF_Learned, Session
<1> HIDE DEF o, r, s, k
<1>7. DownMsg(o, {m.proc}) /\ DownMsg(o, AmfProcs \cup OwnProcs) /\ o.proc # "HandoverCommand"
      BY <1>2, <1>4, <1>5 DEF DownMsg, RanIds, AmfProcs
<1>8. OutMsg(o) /\ SessIdOf(o) = k
      BY <1>5, <1>7, OutNumber DEF OutMsg
<1> QED
    BY <1>1, <1>2, <1>3, <1>4, <1>5, <1>6, <1>7, <1>8 DEF o, r, s, k

\* A message of an AMF about a session that is not doubtful, for its handler.
LEMMA AmfFinds ==
  ASSUME ProxyInv, NEW m \in net, m.from \in Amfs, m.proc # "HandoverRequest", m.ran \notin doubtful
  PROVE  LET k == m.ran
             s == session_list[k]
             c == k \in m_containerMap
             A == About(k, net \cup held) IN
         /\ m \in A /\ (\A q \in A \ {m} : Waits(q))
         /\ \E u \in Ues :
              /\ Agrees(k, u, s, esm_list, c, A, ran, core, serving, ho)
              /\ m.amf = <<s.amfId, u>> /\ m.ue = u /\ s.amfId \in Amfs /\ s.gnbUeId = <<s.link, u>>
              /\ s.gnbUeId # NULL /\ m.amf # NULL
              /\ SessOk(k, u, s, esm_list, c, A, ran, core, serving)
              /\ FromAmfOk(m, k, s, core)
<1>1. AmfMsg(m)
      BY InvParts, PeerNames DEF GnbMsg
<1>2. SessIdOf(m) = m.ran /\ m.ran \in Ids /\ m.amf = <<m.from, m.ue>> /\ m.ue \in Ues
      BY <1>1, AmfNumber DEF AmfMsg
<1> DEFINE k == m.ran
           s == session_list[k]
           c == k \in m_containerMap
           A == About(k, net \cup held)
<1>3. m \in A /\ (\A q \in A \ {m} : Waits(q))
      BY <1>2, Finds
<1>4. PICK u \in Ues : Agrees(k, u, s, esm_list, c, A, ran, core, serving, ho)
      BY <1>2, Finds
<1> HIDE DEF A, c, s, k
<1>5. /\ SessOk(k, u, s, esm_list, c, A, ran, core, serving)
      /\ MsgOk(m, k, u, s, esm_list, A, ran, core, serving)
      BY <1>3, <1>4 DEF Agrees
<1>6. m.ue = u /\ FromAmfOk(m, k, s, core)
      BY <1>5 DEF MsgOk
<1>7. m.from = s.amfId /\ s.gnbUeId # NULL /\ s.gnbUeId = <<s.link, u>>
      BY <1>5, <1>6 DEF FromAmfOk, SessOk
<1>8. m.amf # NULL
      BY <1>2, IdNames
<1> QED
    BY <1>2, <1>3, <1>4, <1>5, <1>6, <1>7, <1>8 DEF A, c, s, k

\* What is passed on is right.
LEMMA DownTurned ==
  ASSUME ProxyInv, NEW m \in net, m.from \in Amfs, m.proc # "HandoverRequest", AMF_Known(m), m.ran \notin doubtful,
         NEW r, Alike(AMF_Learned(m), r), r.amfUeId = m.amf, NEW d,
         session_list[m.ran].eHandoverflag =>
           \/ m.proc \in {"Downlink", "SetupRequest", "UEContextReleaseCommand"} /\ d = (m.ran \in m_containerMap)
           \/ m.proc = "PathSwitchRequestAck" /\ m.ran \notin m_containerMap
  PROVE  Turned(m, AMF_ConvertNgapId(m), m.ran, r, d)
<1> DEFINE k == m.ran
           s == session_list[k]
           o == AMF_ConvertNgapId(m)
           A == About(k, net \cup held)
           c == k \in m_containerMap
           B == (A \ {m}) \cup {o}
<1>1. /\ k \in Ids /\ SessIdOf(m) = k /\ o.from = Gateway /\ o.to = s.link /\ o.ran = s.gnbUeId
      /\ o.proc = m.proc /\ o.ue = m.ue /\ o.to \in Gnbs
      BY DownTypes
<1>2. /\ r.amfId = s.amfId /\ r.link = s.link /\ r.gnbUeId = s.gnbUeId
      /\ r.eHandoverflag = s.eHandoverflag /\ r.TgtGnbId = s.TgtGnbId /\ r.TgtGnbUeId = s.TgtGnbUeId
      BY DownTypes DEF Alike
<1>3. m \in A /\ \A q \in A \ {m} : Waits(q)
      BY AmfFinds
<1>4. PICK u \in Ues :
        /\ Agrees(k, u, s, esm_list, c, A, ran, core, serving, ho)
        /\ m.amf = <<s.amfId, u>> /\ m.ue = u /\ s.amfId \in Amfs /\ s.gnbUeId = <<s.link, u>>
        /\ s.gnbUeId # NULL /\ m.amf # NULL
        /\ SessOk(k, u, s, esm_list, c, A, ran, core, serving)
        /\ FromAmfOk(m, k, s, core)
      BY AmfFinds
<1>a. AmfMsg(m)
      BY DownTypes
<1>b. m.proc # "HandoverCommand" /\ m.proc # "HandoverRequestAck"
      BY <1>a DEF AmfMsg, AmfProcs
<1>h. s.eHandoverflag => ~Asks(m, c) /\ (d = c \/ m.proc \in Steps)
      BY DEF Asks, Steps, HandoverProcs
<1> HIDE DEF o, A, s, k, c
<1>5. Alike(s, r)
      BY <1>2, <1>4 DEF Alike, SessOk
<1>6. MsgOk(o, k, u, r, esm_list, B, ran, core, serving)
  <2>1. DownOk(o, k, u, r, B, core, serving)
        BY <1>1, <1>2, <1>4, <1>b DEF DownOk, FromAmfOk
  <2> QED
      BY <1>1, <1>4, <2>1, PeerNames DEF MsgOk
<1>7. o.from \notin Amfs /\ B = (A \ {m}) \cup {o}
      BY <1>1, PeerNames
<1> HIDE DEF B
<1>8. Agrees(k, u, r, esm_list, d, B, ran, core, serving, ho)
      BY <1>1, <1>2, <1>3, <1>4, <1>5, <1>6, <1>7, <1>b, <1>h, Relayed
<1> QED
    BY <1>8 DEF Turned, A, B, o, k

\* The session learns the AMF's id, the message is passed on to the gNB.
LEMMA LearnKeeps ==
  ASSUME ProxyInv, NEW m \in net, m.from \in Amfs, AMF_Known(m),
         m.proc \in {"Downlink", "SetupRequest", "UEContextReleaseCommand"},
         NEW r, r \in {AMF_Learned(m), DeleteNgapSession(AMF_Learned(m)), StopNgapSessCheck(AMF_Learned(m))},
         Set(m.ran, r), UNCHANGED <<esm_list, isNgSetup, m_containerMap>>,
         \/ Reply(m, AMF_ConvertNgapId(m))
         \/ m.proc = "SetupRequest" /\ Hold(m, AMF_ConvertNgapId(m))
  PROVE  ProxyInv'
<1> DEFINE k == m.ran
           o == AMF_ConvertNgapId(m)
<1>1. /\ k \in Ids /\ SessIdOf(m) = k /\ OutMsg(o) /\ SessIdOf(o) = k /\ o.proc = m.proc /\ DownMsg(o, {m.proc})
      /\ AMF_Learned(m) \in Session /\ AMF_Learned(m).amfUeId = m.amf
      BY DownTypes
<1>2. r \in Session /\ Alike(AMF_Learned(m), r) /\ r.amfUeId = m.amf
      BY <1>1, FlagsAlike
<1>3. Changes(k, r) /\ m_containerMap' = m_containerMap
      BY <1>1, SetChanges
<1>4. k \notin doubtful => Turned(m, o, k, r, k \in m_containerMap)
      BY <1>2, DownTurned
<1>5. m.proc = "SetupRequest" => HeldMsg(o)
      BY <1>1 DEF HeldMsg, DownMsg, HeldDown
<1> HIDE DEF o, k
<1>6. k \notin doubtful => Turned(m, o, k, r, k \in m_containerMap')
      BY <1>3, <1>4
<1> QED
    BY <1>1, <1>2, <1>3, <1>5, <1>6, SendKeeps DEF o

\* An AMF's message that finds no session or no gNB is about a doubtful number.
LEMMA AmfDropKeeps ==
  ASSUME ProxyInv, NEW m \in net, m.from \in Amfs, Drop(m), ~AMF_Known(m) \/ m.proc = "HandoverRequest"
  PROVE  ProxyInv'
<1>1. AmfMsg(m)
      BY InvParts, PeerNames DEF GnbMsg
<1>2. IF m.proc = "HandoverRequest" THEN SessIdOf(m) \notin Ids ELSE SessIdOf(m) = m.ran
      BY <1>1, AmfNumber
<1> QED
    BY <1>2, NotFoundKeeps DEF AMF_Known

\* Messages that are only passed on, or release or set up.
LEMMA DownlinkKeeps ==
  ASSUME ProxyInv, NEW m \in net, m.from \in Amfs,
         AMF_Downlink(m) \/ AMF_UEContextReleaseCommand(m) \/ AMF_PDUSessionResourceSetupReq(m)
           \/ AMF_InitialContextSetupReq(m)
  PROVE  ProxyInv'
<1>1. CASE AMF_Downlink(m)
  <2>1. m.proc = "Downlink"
        BY <1>1 DEF AMF_Downlink
  <2>2. RelayDown(m) \/ AMF_DownlinkNASTransport(m)
        BY <1>1 DEF AMF_Downlink, AMF_PDUSessionResourceModifyReq, AMF_PDUSessionResourceReleaseCmd,
             AMF_UEContextModificationReq, AMF_HandoverCommand, AMF_HandoverPreparationFailure,
             AMF_HandoverCancelAck, AMF_DLRanStatusTsfer, AMF_ErrorIndication,
             AMF_UERadioCapabilityCheckReq, AMF_PDUSessionResourceModifyConfirm, AMF_TraceStart,
             AMF_DeActTrace, AMF_LocRepCtr, AMF_UETNLABindingRelReq, AMF_DLUEAsNRPPaTrspt, AMF_RerouteNASReq
  <2>3. CASE RelayDown(m)
        BY <2>1, <2>3, LearnKeeps, AmfDropKeeps DEF RelayDown
  <2>4. CASE AMF_DownlinkNASTransport(m)
        BY <2>1, <2>4, LearnKeeps, AmfDropKeeps DEF AMF_DownlinkNASTransport
  <2> QED
      BY <2>2, <2>3, <2>4
<1>2. CASE AMF_UEContextReleaseCommand(m)
      BY <1>2, LearnKeeps, AmfDropKeeps DEF AMF_UEContextReleaseCommand
<1>3. CASE AMF_PDUSessionResourceSetupReq(m) \/ AMF_InitialContextSetupReq(m)
  <2>1. m.proc = "SetupRequest" /\ AMF_SetupRequest(m, AMF_Learned(m))
        BY <1>3 DEF AMF_PDUSessionResourceSetupReq, AMF_InitialContextSetupReq
  <2> QED
      BY <2>1, LearnKeeps, AmfDropKeeps DEF AMF_SetupRequest
<1> QED
    BY <1>1, <1>2, <1>3

\* The AMF has switched the path: the target is asked, or the gNB is told.
LEMMA SwitchAckKeeps ==
  ASSUME ProxyInv, NEW m \in net, m.from \in Amfs, AMF_PathSwitchReqAck(m)
  PROVE  ProxyInv'
<1> DEFINE k == m.ran
           s == session_list[k]
           r == AMF_Learned(m)
           A == About(k, net \cup held)
<1>0. m.proc = "PathSwitchRequestAck" /\ m.proc \in Steps /\ m.proc # "UplinkRANStatusTransfer"
      BY DEF AMF_PathSwitchReqAck, Steps, HandoverProcs
<1>1. AMF_Known(m) =>
        /\ k \in Ids /\ SessIdOf(m) = k /\ s \in Session /\ m.ue \in Ues
        /\ r \in Session /\ r.amfUeId = m.amf /\ r.amfId = s.amfId /\ r.link = s.link /\ r.gnbUeId = s.gnbUeId
        /\ r.eHandoverflag = s.eHandoverflag /\ r.TgtGnbId = s.TgtGnbId /\ r.TgtGnbUeId = s.TgtGnbUeId
      BY <1>0, DownTypes
<1>2. ASSUME AMF_Known(m), Set(k, r), m_containerMap' = m_containerMap \ {k}, UNCHANGED <<esm_list, isNgSetup>>
      PROVE  Changes(k, r) /\ (k \in m_containerMap') = FALSE
  <2> HIDE DEF r, k
  <2> QED
      BY <1>2, InvParts DEF Changes, Set
<1>3. ASSUME AMF_Known(m), Set(k, r), m_containerMap' = m_containerMap \ {k}, UNCHANGED <<esm_list, isNgSetup>>,
             s.eHandoverflag, s.TgtGnbId \in esm_list, Reply(m, SendHandoverRequest(m))
      PROVE  ProxyInv'
  <2> DEFINE o == SendHandoverRequest(m)
             B == (A \ {m}) \cup {o}
  <2>1. Changes(k, r) /\ (k \in m_containerMap') = FALSE
        BY <1>2, <1>3
  <2>2. /\ OutMsg(o) /\ SessIdOf(o) = k
        /\ o.from = Gateway /\ o.to = s.TgtGnbId /\ o.proc = "HandoverRequest" /\ o.amf = k /\ o.ue = m.ue
    <3>1. o = SendTo(s.TgtGnbId, "HandoverRequest", NULL, k, m) /\ "HandoverRequest" \in AmfProcs \cup OwnProcs
          BY DEF SendHandoverRequest, AmfProcs
    <3>2. k \in Ids /\ m.ue \in Ues /\ NULL \in RanIds /\ s.TgtGnbId \in Gnbs
          BY <1>1, <1>3, InvParts DEF RanIds
    <3> HIDE DEF o, s, k
    <3> QED
        BY <3>1, <3>2, DownMade
  <2> HIDE DEF o
  <2>3. ASSUME k \notin doubtful
        PROVE  Turned(m, o, k, r, FALSE)
    <3>1. m \in A /\ \A q \in A \ {m} : Waits(q)
          BY <1>0, <2>3, AmfFinds
    <3>2. PICK u \in Ues :
            /\ Agrees(k, u, s, esm_list, k \in m_containerMap, A, ran, core, serving, ho)
            /\ m.amf = <<s.amfId, u>> /\ m.ue = u /\ s.amfId \in Amfs
            /\ m.amf # NULL
            /\ SessOk(k, u, s, esm_list, k \in m_containerMap, A, ran, core, serving)
          BY <1>0, <2>3, AmfFinds
    <3> HIDE DEF A, s, k, r
    <3>3. SessOk(k, u, r, esm_list, FALSE, B, ran, core, serving)
      <4>1. Asks(o, FALSE)
            BY <2>2 DEF Asks
      <4> QED
          BY <1>1, <1>3, <3>2, <4>1 DEF SessOk
    <3>4. MsgOk(o, k, u, r, esm_list, B, ran, core, serving)
      <4>1. DownOk(o, k, u, r, B, core, serving)
            BY <1>1, <1>3, <2>2, <3>2 DEF DownOk
      <4>2. o.to \in Gnbs
            BY <1>3, <2>2, InvParts
      <4> QED
          BY <2>2, <3>2, <4>1, <4>2, PeerNames DEF MsgOk
    <3> QED
        BY <1>0, <1>1, <1>3, <3>1, <3>2, <3>3, <3>4, StepTurned DEF A, B
  <2> HIDE DEF r, k
  <2> QED
      BY <1>0, <1>1, <1>3, <2>1, <2>2, <2>3, SendKeeps DEF o
<1>4. ASSUME AMF_Known(m), Set(k, r), m_containerMap' = m_containerMap \ {k}, UNCHANGED <<esm_list, isNgSetup>>,
             ~(s.eHandoverflag /\ k \in m_containerMap), Reply(m, AMF_ConvertNgapId(m))
      PROVE  ProxyInv'
  <2> DEFINE o == AMF_ConvertNgapId(m)
  <2>1. Changes(k, r) /\ (k \in m_containerMap') = FALSE
        BY <1>2, <1>4
  <2>2. OutMsg(o) /\ SessIdOf(o) = k
        BY <1>0, <1>4, DownTypes
  <2>3. k \notin doubtful => Turned(m, o, k, r, FALSE)
    <3>1. Alike(AMF_Learned(m), r)
          BY DEF Alike
    <3> QED
        BY <1>0, <1>1, <1>4, <3>1, DownTurned
  <2> HIDE DEF o, r, k
  <2> QED
      BY <1>0, <1>1, <1>4, <2>1, <2>2, <2>3, SendKeeps DEF o
<1>5. CASE ~AMF_Known(m) /\ Drop(m)
      BY <1>5, AmfDropKeeps
<1> QED
    BY <1>3, <1>4, <1>5 DEF AMF_PathSwitchReqAck

\* The AMF has not switched it: the source is told.
LEMMA SwitchFailureKeeps ==
  ASSUME ProxyInv, NEW m \in net, m.from \in Amfs, AMF_PathSwitchReqFailure(m)
  PROVE  ProxyInv'
<1> DEFINE k == m.ran
           s == session_list[k]
           l == AMF_Learned(m)
           A == About(k, net \cup held)
<1>0. m.proc = "PathSwitchRequestFailure" /\ m.proc \in Steps /\ m.proc # "UplinkRANStatusTransfer"
      BY DEF AMF_PathSwitchReqFailure, Steps, HandoverProcs
<1>1. AMF_Known(m) =>
        /\ k \in Ids /\ SessIdOf(m) = k /\ s \in Session /\ m.ue \in Ues /\ s.link \in Gnbs /\ s.gnbUeId \in RanIds
        /\ l \in Session /\ l.amfUeId = m.amf /\ l.amfId = s.amfId /\ l.link = s.link /\ l.gnbUeId = s.gnbUeId
        /\ l.eHandoverflag = s.eHandoverflag /\ l.TgtGnbId = s.TgtGnbId /\ l.TgtGnbUeId = s.TgtGnbUeId
      BY <1>0, DownTypes
<1>2. ASSUME AMF_Known(m), s.eHandoverflag, Set(k, ResetHandoverInfo(l)), Reply(m, SendHOPrepareFailure(k, m)),
             UNCHANGED <<esm_list, isNgSetup, m_containerMap>>
      PROVE  ProxyInv'
  <2> DEFINE r == ResetHandoverInfo(l)
             o == SendHOPrepareFailure(k, m)
             B == (A \ {m}) \cup {o}
  <2>1. Changes(k, r) /\ m_containerMap' = m_containerMap
        BY <1>1, <1>2, SetChanges
  <2>2. r \in Session
    <3>1. l \in Session
          BY <1>1, <1>2
    <3> HIDE DEF l
    <3> QED
        BY <3>1 DEF ResetHandoverInfo, Session
  <2>3. /\ OutMsg(o) /\ SessIdOf(o) = k
        /\ o.from = Gateway /\ o.to = s.link /\ o.proc = "HandoverPreparationFailure" /\ o.amf = k /\ o.ue = m.ue
        /\ o.ran = s.gnbUeId
    <3>1. /\ o = SendTo(s.link, "HandoverPreparationFailure", s.gnbUeId, k, m)
          /\ "HandoverPreparationFailure" \in AmfProcs \cup OwnProcs
          BY DEF SendHOPrepareFailure, OwnProcs
    <3> HIDE DEF o, s, k, l
    <3> QED
        BY <1>1, <1>2, <3>1, DownMade
  <2> HIDE DEF o, r
  <2>4. ASSUME k \notin doubtful
        PROVE  Turned(m, o, k, r, k \in m_containerMap)
    <3>1. m \in A /\ \A q \in A \ {m} : Waits(q)
          BY <1>0, <2>4, AmfFinds
    <3>2. PICK u \in Ues :
            /\ Agrees(k, u, s, esm_list, k \in m_containerMap, A, ran, core, serving, ho)
            /\ m.amf = <<s.amfId, u>> /\ m.ue = u /\ s.amfId \in Amfs /\ s.gnbUeId = <<s.link, u>>
            /\ s.gnbUeId # NULL /\ m.amf # NULL
            /\ SessOk(k, u, s, esm_list, k \in m_containerMap, A, ran, core, serving)
          BY <1>0, <2>4, AmfFinds
    <3> HIDE DEF A, s, k, l
    <3>3. SessOk(k, u, l, esm_list, k \in m_containerMap, A, ran, core, serving)
          BY <1>1, <1>2, <3>2 DEF SessOk
    <3>4. /\ ~r.eHandoverflag /\ r.amfId = s.amfId /\ r.amfUeId = m.amf
          /\ r.gnbUeId = s.gnbUeId /\ r.link = s.link
          /\ SessOk(k, u, r, esm_list, k \in m_containerMap, B, ran, core, serving)
          BY <1>1, <1>2, <3>3, ResetOk DEF r
    <3>5. MsgOk(o, k, u, r, esm_list, B, ran, core, serving)
      <4>1. DownOk(o, k, u, r, B, core, serving)
            BY <2>3, <3>2, <3>4 DEF DownOk
      <4> QED
          BY <1>1, <1>2, <2>3, <3>2, <4>1, PeerNames DEF MsgOk
    <3> QED
        BY <1>0, <1>1, <1>2, <3>1, <3>2, <3>4, <3>5, StepTurned DEF A, B
  <2> HIDE DEF k, l
  <2> QED
      BY <1>0, <1>1, <1>2, <2>1, <2>2, <2>3, <2>4, SendKeeps DEF o, r
<1>3. ASSUME AMF_Known(m), ~s.eHandoverflag, Set(k, l), Reply(m, AMF_ConvertNgapId(m)),
             UNCHANGED <<esm_list, isNgSetup, m_containerMap>>
      PROVE  ProxyInv'
  <2> DEFINE o == AMF_ConvertNgapId(m)
  <2>1. Changes(k, l) /\ m_containerMap' = m_containerMap
        BY <1>1, <1>3, SetChanges
  <2>2. OutMsg(o) /\ SessIdOf(o) = k
        BY <1>0, <1>3, DownTypes
  <2>3. k \notin doubtful => Turned(m, o, k, l, k \in m_containerMap')
    <3>1. Alike(AMF_Learned(m), l)
          BY DEF Alike
    <3> QED
        BY <1>0, <1>1, <1>3, <3>1, DownTurned
  <2> HIDE DEF o, l, k
  <2> QED
      BY <1>0, <1>1, <1>3, <2>1, <2>2, <2>3, SendKeeps DEF o
<1>4. CASE ~AMF_Known(m) /\ Drop(m)
      BY <1>4, AmfDropKeeps
<1> QED
    BY <1>2, <1>3, <1>4 DEF AMF_PathSwitchReqFailure

\* A UE is to come from another gateway.
LEMMA ComesKeeps ==
  ASSUME ProxyInv, NEW m \in net, m.from \in Amfs, AMF_HandoverReq(m)
  PROVE  ProxyInv'
<1>0. m.proc = "HandoverRequest" /\ AmfMsg(m)
      BY InvParts, PeerNames DEF AMF_HandoverReq, GnbMsg
<1>1. SessIdOf(m) \notin Ids /\ m.ue \in Ues /\ m.amf = <<m.from, m.ue>> /\ m.amf # NULL
      BY <1>0, AmfNumber, IdNames DEF AmfMsg
<1>2. ASSUME NEW i \in Ids, NEW g \in esm_list, ~Found(i),
             Set(i, [NewSession(m.from, g, NULL, FALSE) EXCEPT !.amfUeId = m.amf]),
             Reply(m, SendTo(g, "HandoverRequest", NULL, i, m)) \/ Hold(m, SendTo(g, "HandoverRequest", NULL, i, m)),
             UNCHANGED <<esm_list, isNgSetup, m_containerMap>>
      PROVE  ProxyInv'
  <2> DEFINE s == [NewSession(m.from, g, NULL, FALSE) EXCEPT !.amfUeId = m.amf]
             o == SendTo(g, "HandoverRequest", NULL, i, m)
  <2>0. g \in Gnbs
        BY InvParts
  <2>1. /\ s \in Session /\ s.link = g /\ s.gnbUeId = NULL /\ ~s.eHandoverflag /\ s.amfUeId = m.amf
        /\ s.amfId = m.from
    <3> DEFINE n == NewSession(m.from, g, NULL, FALSE)
    <3>1. n \in Session /\ n.link = g /\ n.gnbUeId = NULL /\ ~n.eHandoverflag /\ n.amfId = m.from
          BY <2>0 DEF NewSession, Session
    <3>2. m.amf \in (Amfs \X Ues) \cup {NULL}
          BY <1>1
    <3> HIDE DEF n
    <3>3. s = [n EXCEPT !.amfUeId = m.amf]
          BY DEF n
    <3>4. ASSUME NEW x \in (Amfs \X Ues) \cup {NULL}
          PROVE  LET r == [n EXCEPT !.amfUeId = x] IN
                 /\ r \in Session /\ r.link = n.link /\ r.gnbUeId = n.gnbUeId /\ r.amfUeId = x
                 /\ r.eHandoverflag = n.eHandoverflag /\ r.amfId = n.amfId
          BY <3>1 DEF Session
    <3> HIDE DEF s
    <3> QED
        BY <3>1, <3>2, <3>3, <3>4
  <2>2. Changes(i, s) /\ m_containerMap' = m_containerMap
        BY <1>2, SetChanges
  <2>3. /\ OutMsg(o) /\ SessIdOf(o) = i
        /\ o.from = Gateway /\ o.to = g /\ o.proc = "HandoverRequest" /\ o.amf = i /\ o.ue = m.ue /\ o.ran = NULL
    <3>1. "HandoverRequest" \in AmfProcs \cup OwnProcs /\ NULL \in RanIds
          BY DEF AmfProcs, RanIds
    <3>2. o = SendTo(g, "HandoverRequest", NULL, i, m)
          OBVIOUS
    <3> HIDE DEF o
    <3> QED
        BY <1>1, <2>0, <3>1, <3>2, DownMade
  <2> HIDE DEF o, s
  <2>4. HeldMsg(o)
        BY <1>1, <2>0, <2>3 DEF HeldMsg, DownMsg, HeldDown
  <2>5. MsgOk(o, i, m.ue, s, esm_list, {o}, ran, core, serving)
    <3>1. DownOk(o, i, m.ue, s, {o}, core, serving)
          BY <1>1, <2>1, <2>3 DEF DownOk
    <3> QED
        BY <2>0, <2>3, <3>1, PeerNames DEF MsgOk
  <2>6. i \notin doubtful => Turned(m, o, i, s, i \in m_containerMap') /\ o \notin held
        BY <1>1, <1>2, <2>1, <2>3, <2>5, Begins
  <2>7. CASE Reply(m, o)
        BY <1>1, <2>1, <2>2, <2>3, <2>6, <2>7, ReplyKeeps
  <2>8. CASE Hold(m, o)
        BY <1>1, <2>1, <2>2, <2>3, <2>4, <2>6, <2>8, HoldKeeps
  <2> QED
      BY <1>2, <2>7, <2>8 DEF o
<1>3. CASE Drop(m)
      BY <1>0, <1>3, AmfDropKeeps
<1> QED
    BY <1>2, <1>3 DEF AMF_HandoverReq

\* Whatever an AMF sends.
LEMMA AmfKeeps ==
  ASSUME ProxyInv, NEW m \in net, AmfMessage(m)
  PROVE  ProxyInv'
BY DownlinkKeeps, ComesKeeps, SwitchAckKeeps, SwitchFailureKeeps DEF AmfMessage

\* Whatever waited for the media gateway.
LEMMA MediaAnswerKeeps ==
  ASSUME ProxyInv, NEW o \in held, MediaAnswer(o)
  PROVE  ProxyInv'
<1>1. ByMedia(o)
      BY DEF MediaAnswer, AMF_PDUSessionResourceSetupReqByMedia, AMF_InitialContextSetupReqByMedia,
             AMF_HandoverReqByMedia, GNB_PDUSessionSetupRspByMedia, GNB_InitialContextSetupSuccessRspByMedia,
             GNB_HandoverReqAckMedia, GNB_PathSwitchRequestByMedia
<1> QED
    BY <1>1, MediaKeeps

-----------------------------------------------------------------------------
(* Timers, set-ups, resets.                                                 *)

\* Sessions change only in what no message depends on.
LEMMA AlikeKeeps ==
  ASSUME ProxyInv, UNCHANGED <<peers, held, net, astray, doubtful, esm_list, m_containerMap>>,
         isNgSetup' \subseteq Amfs, session_list' \in [Ids -> Session \cup {NULL}],
         \A j \in Ids : \/ session_list'[j] = session_list[j]
                        \/ /\ session_list[j] # NULL /\ session_list'[j] # NULL
                           /\ Alike(session_list[j], session_list'[j])
                           /\ session_list'[j].amfUeId = session_list[j].amfUeId
  PROVE  ProxyInv'
<1>0. /\ held' = held /\ net' = net /\ astray' = astray /\ doubtful' = doubtful /\ esm_list' = esm_list
      /\ m_containerMap' = m_containerMap /\ ran' = ran /\ core' = core /\ serving' = serving /\ ho' = ho
      BY DEF peers
<1>1. TableInv'
      BY <1>0, InvParts DEF TableInv
<1>2. MsgInv' /\ PeersOk(ran', core', serving', ho')
      BY <1>0, InvParts DEF MsgInv
<1>3. ASSUME NEW j \in Ids, j \notin doubtful
      PROVE  Good(j)'
  <2>1. Good(j)
        BY <1>3 DEF ProxyInv
  <2>2. CASE session_list'[j] = session_list[j]
        BY <1>0, <2>1, <2>2 DEF Good
  <2>3. CASE /\ session_list[j] # NULL /\ session_list'[j] # NULL
             /\ Alike(session_list[j], session_list'[j])
             /\ session_list'[j].amfUeId = session_list[j].amfUeId
    <3> DEFINE A == About(j, net \cup held)
               c == j \in m_containerMap
    <3>1. PICK u \in Ues : Agrees(j, u, session_list[j], esm_list, c, A, ran, core, serving, ho)
          BY <2>1, <2>3 DEF Good, GoodAt
    <3>2. \A q \in A : Waits(q)
          BY InvParts DEF About
    <3> HIDE DEF A, c
    <3>3. Agrees(j, u, session_list'[j], esm_list, c, A, ran, core, serving, ho)
          BY <2>3, <3>1, <3>2, AgreesAlike
    <3> QED
        BY <1>0, <2>1, <2>3, <3>3 DEF Good, GoodAt, A, c
  <2> QED
      BY <1>3, <2>2, <2>3
<1> QED
    BY <1>0, <1>1, <1>2, <1>3 DEF ProxyInv

\* No answer of the AMF in time.
LEMMA TimeoutKeeps ==
  ASSUME ProxyInv, NEW i \in Ids, handleSessTimeout(i)
  PROVE  ProxyInv'
<1> DEFINE r == DeleteNgapSession(StopNgapSessCheck(session_list[i]))
<1>1. session_list[i] \in Session /\ session_list[i] # NULL
      BY InvParts DEF handleSessTimeout, Found
<1>2. r \in Session /\ Alike(session_list[i], r) /\ r.amfUeId = session_list[i].amfUeId
      BY <1>1, FlagsAlike
<1>3. session_list' = [session_list EXCEPT ![i] = r]
      BY DEF handleSessTimeout, Set
<1> HIDE DEF r
<1>4. r # NULL
      BY <1>2, ProxyAssumption
<1>5. session_list' \in [Ids -> Session \cup {NULL}]
      BY <1>2, <1>3, InvParts
<1>6. \A j \in Ids : session_list'[j] = IF j = i THEN r ELSE session_list[j]
      BY <1>3, InvParts
<1>7. isNgSetup' \subseteq Amfs
      BY InvParts DEF handleSessTimeout, TableInv
<1>8. UNCHANGED <<peers, held, net, astray, doubtful, esm_list, m_containerMap>>
      BY DEF handleSessTimeout
<1> QED
    BY <1>1, <1>2, <1>4, <1>5, <1>6, <1>7, <1>8, AlikeKeeps

\* The sessions of an AMF leave.
LEMMA Leave ==
  ASSUME ProxyInv, NEW a,
         session_list' = [i \in Ids |->
           IF Found(i) /\ session_list[i].amfId = a THEN DeleteNgapSession(session_list[i]) ELSE session_list[i]]
  PROVE  /\ session_list' \in [Ids -> Session \cup {NULL}]
         /\ \A j \in Ids : \/ session_list'[j] = session_list[j]
                           \/ /\ session_list[j] # NULL /\ session_list'[j] # NULL
                              /\ Alike(session_list[j], session_list'[j])
                              /\ session_list'[j].amfUeId = session_list[j].amfUeId
<1>1. ASSUME NEW j \in Ids
      PROVE  /\ session_list'[j] \in Session \cup {NULL}
             /\ \/ session_list'[j] = session_list[j]
                \/ /\ session_list[j] # NULL /\ session_list'[j] # NULL
                   /\ Alike(session_list[j], session_list'[j])
                   /\ session_list'[j].amfUeId = session_list[j].amfUeId
  <2> DEFINE s == session_list[j]
  <2>0. s \in Session \cup {NULL} /\ session_list'[j] = IF Found(j) /\ s.amfId = a THEN DeleteNgapSession(s) ELSE s
        BY InvParts
  <2> HIDE DEF s
  <2>1. CASE Found(j) /\ s.amfId = a
    <3>1. s \in Session /\ s # NULL
          BY <2>0, <2>1 DEF Found, s
    <3>2. session_list'[j] \in Session /\ Alike(s, session_list'[j]) /\ session_list'[j].amfUeId = s.amfUeId
          BY <2>0, <2>1, <3>1, FlagsAlike
    <3>3. session_list'[j] # NULL
          BY <3>2, ProxyAssumption
    <3> QED
        BY <3>1, <3>2, <3>3 DEF s
  <2>2. CASE ~(Found(j) /\ s.amfId = a)
        BY <2>0, <2>2 DEF s
  <2> QED
      BY <2>1, <2>2
<1> QED
    BY <1>1

\* The link to an AMF breaks.
LEMMA BreakKeeps ==
  ASSUME ProxyInv, NEW a \in Amfs, handle_amf_sctp_err(a)
  PROVE  ProxyInv'
<1>1. UNCHANGED <<peers, held, net, astray, doubtful, esm_list, m_containerMap>> /\ isNgSetup' \subseteq Amfs
      BY InvParts DEF handle_amf_sctp_err, TableInv
<1>2. session_list' = [i \in Ids |->
        IF Found(i) /\ session_list[i].amfId = a THEN DeleteNgapSession(session_list[i]) ELSE session_list[i]]
      BY DEF handle_amf_sctp_err
<1> QED
    BY <1>1, <1>2, Leave, AlikeKeeps

\* An AMF is set up.
LEMMA AmfSetupKeeps ==
  ASSUME ProxyInv, NEW a \in Amfs, AMF_NgSetupResponse(a)
  PROVE  ProxyInv'
<1>1. UNCHANGED <<peers, held, net, astray, doubtful, esm_list, m_containerMap>> /\ isNgSetup' \subseteq Amfs
      BY InvParts DEF AMF_NgSetupResponse, TableInv
<1>2. session_list' = session_list
      BY DEF AMF_NgSetupResponse
<1> QED
    BY <1>1, <1>2, InvParts, AlikeKeeps

\* More gNBs have a context.
LEMMA AgreesMore ==
  ASSUME NEW i, NEW u, NEW s, NEW E, NEW F, E \subseteq F, NEW c, NEW A, NEW rn, NEW cr, NEW sv, NEW hh,
         Agrees(i, u, s, E, c, A, rn, cr, sv, hh)
  PROVE  Agrees(i, u, s, F, c, A, rn, cr, sv, hh)
<1>1. SessOk(i, u, s, F, c, A, rn, cr, sv)
      BY DEF Agrees, SessOk
<1>2. ASSUME NEW q \in A
      PROVE  MsgOk(q, i, u, s, F, A, rn, cr, sv)
  <2>1. MsgOk(q, i, u, s, E, A, rn, cr, sv)
        BY DEF Agrees
  <2>2. FromGnbOk(q, i, u, s, E, rn, cr, sv) => FromGnbOk(q, i, u, s, F, rn, cr, sv)
        BY DEF FromGnbOk
  <2> QED
      BY <2>1, <2>2 DEF MsgOk
<1> QED
    BY <1>1, <1>2 DEF Agrees

\* A gNB is set up.
LEMMA GnbSetupKeeps ==
  ASSUME ProxyInv, NEW g \in Gnbs, GNB_SetupReq(g)
  PROVE  ProxyInv'
<1>0. /\ held' = held /\ net' = net /\ astray' = astray /\ doubtful' = doubtful /\ esm_list' = esm_list \cup {g}
      /\ m_containerMap' = m_containerMap /\ ran' = ran /\ core' = core /\ serving' = serving /\ ho' = ho
      /\ session_list' = session_list /\ isNgSetup' = isNgSetup
      BY DEF GNB_SetupReq, peers
<1>1. TableInv'
      BY <1>0, InvParts DEF TableInv
<1>2. MsgInv' /\ PeersOk(ran', core', serving', ho')
      BY <1>0, InvParts DEF MsgInv
<1>3. ASSUME NEW j \in Ids, j \notin doubtful
      PROVE  Good(j)'
  <2>1. Good(j)
        BY <1>3 DEF ProxyInv
  <2>2. CASE session_list[j] = NULL
        BY <1>0, <2>1, <2>2 DEF Good, GoodAt
  <2>3. CASE session_list[j] # NULL
    <3> DEFINE A == About(j, net \cup held)
               c == j \in m_containerMap
    <3>1. PICK u \in Ues : Agrees(j, u, session_list[j], esm_list, c, A, ran, core, serving, ho)
          BY <2>1, <2>3 DEF Good, GoodAt
    <3> HIDE DEF A, c
    <3>2. Agrees(j, u, session_list[j], esm_list', c, A, ran, core, serving, ho)
          BY <1>0, <3>1, AgreesMore
    <3> QED
        BY <1>0, <2>1, <2>3, <3>2 DEF Good, GoodAt, A, c
  <2> QED
      BY <2>2, <2>3
<1> QED
    BY <1>0, <1>1, <1>2, <1>3 DEF ProxyInv

\* A number is free again.
LEMMA FreedKeeps ==
  ASSUME ProxyInv, NEW i \in Ids, onSessReleaseTimer(i)
  PROVE  ProxyInv'
<1>0. /\ held' = held /\ net' = net /\ astray' = astray \ {i} /\ esm_list' = esm_list
      /\ m_containerMap' = m_containerMap /\ ran' = ran /\ core' = core /\ serving' = serving /\ ho' = ho
      /\ session_list' = [session_list EXCEPT ![i] = NULL] /\ isNgSetup' = isNgSetup
      /\ doubtful' = IF InUse(i) THEN doubtful \cup {i} ELSE doubtful \ {i}
      BY DEF onSessReleaseTimer, peers, Set
<1>1. TableInv'
      BY <1>0, InvParts DEF TableInv
<1>2. MsgInv' /\ PeersOk(ran', core', serving', ho')
      BY <1>0, InvParts DEF MsgInv
<1>3. ASSUME NEW j \in Ids, j \notin doubtful', j # i
      PROVE  Good(j)'
  <2>1. Good(j)
        BY <1>0, <1>3 DEF ProxyInv
  <2>2. session_list'[j] = session_list[j]
        BY <1>0, <1>3
  <2> QED
      BY <1>0, <2>1, <2>2 DEF Good
<1>4. ASSUME i \notin doubtful'
      PROVE  Good(i)'
  <2>1. ~InUse(i)
        BY <1>0, <1>4
  <2>2. ran \in [Gnbs \X Ues -> Ids \cup {NULL, "new"}] /\ core \in [Amfs \X Ues -> Ids \cup {NULL, "new"}]
        BY InvParts DEF PeersOk, PeerTypes
  <2>3. Unused(i, About(i, net \cup held), ran, core)
        BY <2>1, <2>2 DEF InUse, Unused, About
  <2>4. session_list'[i] = NULL
        BY <1>0, InvParts
  <2> QED
      BY <1>0, <2>3, <2>4 DEF Good, GoodAt
<1> QED
    BY <1>1, <1>2, <1>3, <1>4 DEF ProxyInv

\* An AMF resets its links.
LEMMA ResetsKeeps ==
  ASSUME ProxyInv, NEW a \in Amfs, AMF_Reset(a)
  PROVE  ProxyInv'
<1>0. /\ held' = held /\ net' = net /\ astray' = astray /\ esm_list' = esm_list
      /\ m_containerMap' = m_containerMap /\ isNgSetup' = isNgSetup
      /\ ran' = [t \in DOMAIN ran |-> IF t[1] \in esm_list THEN NULL ELSE ran[t]]
      /\ core' = [t \in DOMAIN core |-> IF t[1] = a THEN NULL ELSE core[t]]
      /\ serving' = [u \in Ues |-> IF serving[u] \in esm_list THEN NULL ELSE serving[u]]
      /\ ho' = [u \in Ues |-> "none"]
      /\ doubtful' = doubtful \cup {i \in Ids : Found(i) /\
                       (session_list[i].eHandoverflag \/ HandoverAmong(i, net \cup held))}
      /\ session_list' = [i \in Ids |->
           IF Found(i) /\ session_list[i].amfId = a THEN DeleteNgapSession(session_list[i]) ELSE session_list[i]]
      BY DEF AMF_Reset
<1>p. /\ ran \in [Gnbs \X Ues -> Ids \cup {NULL, "new"}] /\ core \in [Amfs \X Ues -> Ids \cup {NULL, "new"}]
      /\ serving \in [Ues -> Gnbs \cup {NULL}]
      BY InvParts DEF PeersOk, PeerTypes
<1>l. /\ session_list' \in [Ids -> Session \cup {NULL}]
      /\ \A j \in Ids : \/ session_list'[j] = session_list[j]
                        \/ /\ session_list[j] # NULL /\ session_list'[j] # NULL
                           /\ Alike(session_list[j], session_list'[j])
                           /\ session_list'[j].amfUeId = session_list[j].amfUeId
      BY <1>0, Leave
<1>1. TableInv'
      BY <1>0, <1>l, InvParts DEF TableInv
<1>2. MsgInv'
      BY <1>0, InvParts DEF MsgInv
<1>3. /\ \A t \in Gnbs \X Ues : ran'[t] = IF t[1] \in esm_list THEN NULL ELSE ran[t]
      /\ \A t \in Amfs \X Ues : core'[t] \in {NULL, core[t]}
      /\ \A u \in Ues : serving'[u] = (IF serving[u] \in esm_list THEN NULL ELSE serving[u]) /\ ho'[u] = "none"
      BY <1>0, <1>p
<1>4. PeersOk(ran', core', serving', ho')
  <2>1. PeerTypes(ran', core', serving', ho')
        BY <1>0, <1>p DEF PeerTypes
  <2>2. ASSUME NEW u \in Ues
        PROVE  UeOk(u, ran', serving', ho')
    <3>1. UeOk(u, ran, serving, ho) /\ serving[u] \in Gnbs \cup {NULL}
          BY <1>p, InvParts DEF PeersOk
    <3>2. \A g \in Gnbs : ran'[<<g, u>>] = IF g \in esm_list THEN NULL ELSE ran[<<g, u>>]
          BY <1>3
    <3>3. serving'[u] = (IF serving[u] \in esm_list THEN NULL ELSE serving[u]) /\ ho'[u] = "none"
          BY <1>3
    <3>4. "new" # NULL
          BY IdNames
    <3> QED
        BY <3>1, <3>2, <3>3, <3>4 DEF UeOk
  <2> QED
      BY <2>1, <2>2 DEF PeersOk
<1>5. ASSUME NEW j \in Ids, j \notin doubtful'
      PROVE  Good(j)'
  <2> DEFINE A == About(j, net \cup held)
             c == j \in m_containerMap
             s == session_list[j]
             r == session_list'[j]
  <2>0. j # NULL /\ j # "new"
        BY IdNames
  <2>1. Good(j) /\ (Found(j) => ~s.eHandoverflag /\ ~HandoverAmong(j, net \cup held))
        BY <1>0, <1>5 DEF ProxyInv
  <2>2. (\A t \in Gnbs \X Ues : ran'[t] = j => ran[t] = j) /\ (\A t \in Amfs \X Ues : core'[t] = j => core[t] = j)
        BY <1>3, <2>0
  <2>3. CASE s = NULL
    <3>1. r = NULL
          BY <1>l, <2>3
    <3> QED
        BY <1>0, <2>1, <2>2, <2>3, <3>1 DEF Good, GoodAt, Unused
  <2>4. CASE s # NULL
    <3>1. PICK u \in Ues : Agrees(j, u, s, esm_list, c, A, ran, core, serving, ho)
          BY <2>1, <2>4 DEF Good, GoodAt
    <3>2. \A q \in A : Waits(q)
          BY InvParts DEF About
    <3>3. \A q \in A : q.proc \notin Steps /\ q.proc # "HandoverRequestAck"
          BY <2>1, <2>4 DEF About, HandoverAmong, Steps, HandoverProcs, Found
    <3>4. /\ r # NULL /\ r.amfId = s.amfId /\ r.amfUeId = s.amfUeId /\ r.link = s.link
          /\ r.gnbUeId = s.gnbUeId /\ ~r.eHandoverflag
      <4>1. ~s.eHandoverflag
            BY <2>1, <2>4 DEF Found
      <4> QED
          BY <1>l, <2>4, <4>1 DEF Alike
    <3>5. \A t \in Gnbs \X Ues : ran'[t] = j => t[2] = u /\ \E w \in Gnbs \X Ues : ran[w] = j
          BY <2>2, <3>1 DEF Agrees, RanOk
    <3> HIDE DEF A, c, s, r
    <3>6. Agrees(j, u, r, esm_list, c, A, ran', core', serving', ho')
          BY <2>2, <3>1, <3>2, <3>3, <3>4, <3>5, QuietMoves
    <3> QED
        BY <1>0, <2>1, <3>4, <3>6 DEF Good, GoodAt, A, c, r
  <2> QED
      BY <2>3, <2>4
<1> QED
    BY <1>1, <1>2, <1>4, <1>5 DEF ProxyInv

-----------------------------------------------------------------------------
(* What peers send unasked.                                                 *)

\* What is about number j stays right when the peers change.
Bears(j) ==
  /\ \A t \in Gnbs \X Ues : ran'[t] = j => ran[t] = j
  /\ \A t \in Amfs \X Ues : core'[t] = j => core[t] = j
  /\ \A v \in Ues : Fades(j, v, ran, core, serving, ho, ran', core', serving', ho')

\* All that is known of number k agrees, A being the messages about it.
Settled(k, A, rn, cr, sv, hh) ==
  session_list[k] # NULL
  /\ \E u \in Ues : Agrees(k, u, session_list[k], esm_list, k \in m_containerMap, A, rn, cr, sv, hh)

\* A number that the peers' changes leave alone.
LEMMA BearsGood ==
  ASSUME ProxyInv, NEW j \in Ids, Good(j), Bears(j), UNCHANGED table, j \notin astray',
         About(j, net' \cup held') = About(j, net \cup held)
  PROVE  Good(j)'
<1> DEFINE A == About(j, net \cup held)
           c == j \in m_containerMap
           s == session_list[j]
<1>0. /\ session_list' = session_list /\ esm_list' = esm_list /\ m_containerMap' = m_containerMap
      BY DEF table
<1>1. CASE s = NULL
      BY <1>0, <1>1 DEF Good, GoodAt, Unused, Bears
<1>2. CASE s # NULL
  <2>1. PICK u \in Ues : Agrees(j, u, s, esm_list, c, A, ran, core, serving, ho)
        BY <1>2 DEF Good, GoodAt
  <2>2. \A q \in A : Waits(q)
        BY InvParts DEF About
  <2> HIDE DEF A, c, s
  <2>3. RanOk(j, u, s, A, ran')
        BY <2>1 DEF Agrees, RanOk, Bears
  <2>4. Fades(j, u, ran, core, serving, ho, ran', core', serving', ho')
        BY DEF Bears
  <2>5. Agrees(j, u, s, esm_list, c, A, ran', core', serving', ho')
        BY <2>1, <2>2, <2>3, <2>4, AgreesFades
  <2> QED
      BY <1>0, <1>2, <2>5 DEF Good, GoodAt, A, c, s
<1> QED
    BY <1>1, <1>2

\* A peer says m.
LEMMA SaysKeeps ==
  ASSUME ProxyInv, NEW peer, NEW proc, NEW ran_id, NEW amf_id, NEW u, NEW aim, NEW m,
         Says(peer, proc, ran_id, amf_id, u, aim), m = Message(peer, Gateway, proc, ran_id, amf_id, u, aim),
         GnbMsg(m) \/ AmfMsg(m), PeersOk(ran', core', serving', ho'),
         \A j \in Ids : j # SessIdOf(m) => Bears(j),
         SessIdOf(m) \in Ids /\ SessIdOf(m) \notin doubtful'
           => Settled(SessIdOf(m), About(SessIdOf(m), net \cup held) \cup {m}, ran', core', serving', ho')
  PROVE  ProxyInv'
<1>0. /\ net' = net \cup {m} /\ held' = held /\ astray' = astray /\ UNCHANGED table
      /\ \A j \in Ids : j \notin doubtful' => j \notin doubtful
      BY DEF Says
<1>1. TableInv'
      BY <1>0, InvParts DEF TableInv, table
<1>2. MsgInv'
      BY <1>0, InvParts DEF MsgInv
<1>3. ASSUME NEW j \in Ids, j \notin doubtful'
      PROVE  Good(j)'
  <2>1. Good(j) /\ j \notin astray'
        BY <1>0, <1>3 DEF ProxyInv, Good
  <2>2. CASE j # SessIdOf(m)
    <3>1. About(j, net' \cup held') = About(j, net \cup held)
          BY <1>0, <2>2 DEF About
    <3> QED
        BY <1>0, <2>1, <2>2, <3>1, BearsGood
  <2>3. CASE j = SessIdOf(m)
    <3>1. About(j, net' \cup held') = About(j, net \cup held) \cup {m}
          BY <1>0, <2>3 DEF About
    <3>2. Settled(j, About(j, net \cup held) \cup {m}, ran', core', serving', ho')
          BY <1>3, <2>3
    <3>3. /\ session_list' = session_list /\ esm_list' = esm_list /\ m_containerMap' = m_containerMap
          BY <1>0 DEF table
    <3> QED
        BY <2>1, <3>1, <3>2, <3>3 DEF Settled, Good, GoodAt
  <2> QED
      BY <2>2, <2>3
<1> QED
    BY <1>1, <1>2, <1>3 DEF ProxyInv

\* If m is a message of a handover, it is said while no other about the number is under way.
LEMMA SaysAlone ==
  ASSUME NEW peer, NEW proc, NEW ran_id, NEW amf_id, NEW u, NEW aim, NEW k \in Ids,
         Says(peer, proc, ran_id, amf_id, u, aim), k \notin doubtful',
         k = SessIdOf(Message(peer, Gateway, proc, ran_id, amf_id, u, aim))
  PROVE  /\ k \notin doubtful
         /\ proc \in HandoverProcs =>
              \A q \in About(k, net \cup held) :
                q.proc \notin HandoverProcs /\ q.proc \notin Steps /\ q.proc # "HandoverRequestAck"
<1>1. k \notin doubtful /\ (proc \in HandoverProcs => ~HandoverAmong(k, net \cup held))
      BY DEF Says
<1>2. "HandoverRequestAck" \in HandoverProcs /\ Steps \subseteq HandoverProcs
      BY DEF HandoverProcs, Steps
<1> QED
    BY <1>1, <1>2 DEF HandoverAmong, About

\* What a gNB says of its UE is about the UE's session.
LEMMA GnbKnows ==
  ASSUME ProxyInv, NEW k \in Ids, k \notin doubtful, NEW g \in Gnbs, NEW u \in Ues, ran[<<g, u>>] = k
  PROVE  LET s == session_list[k]
             A == About(k, net \cup held) IN
         /\ s # NULL /\ s.amfUeId # NULL /\ (\A q \in A : Waits(q))
         /\ s.gnbUeId = NULL => \E q \in A : q.proc = "HandoverRequestAck"
         /\ Agrees(k, u, s, esm_list, k \in m_containerMap, A, ran, core, serving, ho)
<1> DEFINE s == session_list[k]
           A == About(k, net \cup held)
           t == <<g, u>>
<1>1. Good(k) /\ t \in Gnbs \X Ues /\ t[2] = u /\ ran[t] = k
      BY DEF ProxyInv
<1>2. \A q \in A : Waits(q)
      BY InvParts DEF About
<1> HIDE DEF A, t
<1>3. s # NULL
      BY <1>1 DEF Good, GoodAt, Unused
<1>4. PICK v \in Ues : Agrees(k, v, s, esm_list, k \in m_containerMap, A, ran, core, serving, ho)
      BY <1>1, <1>3 DEF Good, GoodAt, A
<1> HIDE DEF s
<1>5. RanOk(k, v, s, A, ran)
      BY <1>4 DEF Agrees
<1>6. v = u /\ s.amfUeId # NULL /\ (s.gnbUeId = NULL => \E q \in A : q.proc = "HandoverRequestAck")
      BY <1>1, <1>5 DEF RanOk
<1> QED
    BY <1>2, <1>3, <1>4, <1>6 DEF A, s

\* Likewise what an AMF says; nothing of the number waits to reach the AMF first.
LEMMA AmfKnows ==
  ASSUME ProxyInv, NEW k \in Ids, k \notin doubtful, NEW a \in Amfs, NEW u \in Ues, core[<<a, u>>] = k
  PROVE  LET s == session_list[k]
             A == About(k, net \cup held) IN
         /\ s # NULL /\ s.amfId = a /\ s.gnbUeId # NULL /\ (\A q \in A : Waits(q))
         /\ Agrees(k, u, s, esm_list, k \in m_containerMap, A, ran, core, serving, ho)
         /\ \A t \in Amfs \X Ues : core[t] = k => t = <<a, u>>
         /\ \A q \in A : q.from = Gateway => q.proc # "HandoverRequestAck"
<1> DEFINE s == session_list[k]
           A == About(k, net \cup held)
           t == <<a, u>>
<1>1. Good(k) /\ t \in Amfs \X Ues /\ core[t] = k
      BY DEF ProxyInv
<1>2. \A q \in A : Waits(q)
      BY InvParts DEF About
<1> HIDE DEF A
<1>3. s # NULL
      BY <1>1 DEF Good, GoodAt, Unused
<1>4. PICK v \in Ues : Agrees(k, v, s, esm_list, k \in m_containerMap, A, ran, core, serving, ho)
      BY <1>1, <1>3 DEF Good, GoodAt, A
<1> HIDE DEF s
<1>5. \A w \in Amfs \X Ues : core[w] = k => w = <<s.amfId, v>> /\ s.gnbUeId # NULL
      BY <1>4 DEF Agrees, CoreOk
<1>6. v = u /\ s.amfId = a /\ s.gnbUeId # NULL
      BY <1>1, <1>5
<1>7. ASSUME NEW q \in A, q.from = Gateway, q.proc = "HandoverRequestAck"
      PROVE  FALSE
  <2>1. HeldMsg(q)
        BY <1>2, <1>7, PeerNames DEF Waits, GnbMsg, AmfMsg
  <2>2. q.to \notin Gnbs
        BY <1>7, <2>1, PeerNames DEF HeldMsg, UpMsg, DownMsg, HeldUp, HeldDown
  <2>3. UpOk(q, k, v, s, A, core)
        BY <1>4, <1>7, <2>2 DEF Agrees, MsgOk
  <2>4. ~Served(k, core)
        BY <1>7, <2>3 DEF UpOk
  <2> QED
      BY <1>1, <2>4 DEF Served
<1> QED
    BY <1>2, <1>3, <1>4, <1>5, <1>6, <1>7 DEF A, s

\* The names of the peers' variables.
LEMMA PeersParts ==
  ASSUME ProxyInv
  PROVE  /\ ran \in [Gnbs \X Ues -> Ids \cup {NULL, "new"}] /\ core \in [Amfs \X Ues -> Ids \cup {NULL, "new"}]
         /\ serving \in [Ues -> Gnbs \cup {NULL}] /\ ho \in [Ues -> Gnbs \cup {"none", "prepared"}]
         /\ \A u \in Ues : /\ UeOk(u, ran, serving, ho)
                           /\ serving[u] = NULL => ho[u] = "none"
                           /\ \A g \in Gnbs : ran[<<g, u>>] = "new" => serving[u] = g /\ ho[u] = "none"
                           /\ serving[u] # NULL => serving[u] \in Gnbs /\ ran[<<serving[u], u>>] # NULL
BY InvParts DEF PeersOk, PeerTypes, UeOk

\* A UE attaches.
LEMMA AttachKeeps ==
  ASSUME ProxyInv, NEW g \in Gnbs, NEW u \in Ues, UeAttaches(g, u)
  PROVE  ProxyInv'
<1> DEFINE m == Message(g, Gateway, "InitialUEMessage", <<g, u>>, NULL, u, NULL)
<1>0. /\ ran' = [ran EXCEPT ![<<g, u>>] = "new"] /\ serving' = [serving EXCEPT ![u] = g]
      /\ core' = core /\ ho' = ho /\ Says(g, "InitialUEMessage", <<g, u>>, NULL, u, NULL)
      /\ \A h \in Gnbs : ran[<<h, u>>] = NULL
      BY DEF UeAttaches, Absent
<1>1. GnbMsg(m)
      BY DEF GnbMsg, Formed, Message, GnbProcs
<1>2. SessIdOf(m) \notin Ids
      BY <1>1, GnbNumber DEF Message
<1>3. serving[u] = NULL /\ ho[u] = "none"
      BY <1>0, PeersParts
<1>4. PeersOk(ran', core', serving', ho')
  <2>1. PeerTypes(ran', core', serving', ho')
        BY <1>0, PeersParts DEF PeerTypes
  <2>2. ASSUME NEW v \in Ues
        PROVE  UeOk(v, ran', serving', ho')
    <3>1. CASE v = u
      <4>1. /\ \A h \in Gnbs : ran'[<<h, u>>] = IF h = g THEN "new" ELSE NULL
            /\ serving'[u] = g /\ ho'[u] = "none"
            BY <1>0, <1>3, PeersParts
      <4> QED
          BY <3>1, <4>1, IdNames, PeerNames DEF UeOk
    <3>2. CASE v # u
      <4>1. /\ \A h \in Gnbs : ran'[<<h, v>>] = ran[<<h, v>>]
            /\ serving'[v] = serving[v] /\ ho'[v] = ho[v] /\ UeOk(v, ran, serving, ho)
            /\ serving[v] \in Gnbs \cup {NULL}
            BY <1>0, <3>2, PeersParts
      <4> QED
          BY <4>1 DEF UeOk
    <3> QED
        BY <3>1, <3>2
  <2> QED
      BY <2>1, <2>2 DEF PeersOk
<1>5. ASSUME NEW j \in Ids
      PROVE  Bears(j)
  <2>0. j # NULL /\ j # "new"
        BY IdNames
  <2>1. \A t \in Gnbs \X Ues : ran'[t] = j => ran[t] = j
        BY <1>0, <2>0, PeersParts
  <2>2. ASSUME NEW v \in Ues
        PROVE  Fades(j, v, ran, core, serving, ho, ran', core', serving', ho')
    <3>1. CASE v = u
      <4>1. ~Home(j, v, ran, serving) /\ ho'[v] = "none" /\ "none" \notin Gnbs
            BY <1>0, <1>3, <3>1, PeerNames DEF Home
      <4> QED
          BY <1>0, <4>1 DEF Fades
    <3>2. CASE v # u
      <4>1. /\ \A h \in Gnbs : ran'[<<h, v>>] = ran[<<h, v>>]
            /\ serving'[v] = serving[v] /\ ho'[v] = ho[v] /\ serving[v] \in Gnbs \cup {NULL}
            BY <1>0, <3>2, PeersParts
      <4> QED
          BY <1>0, <4>1 DEF Fades, Home
    <3> QED
        BY <3>1, <3>2
  <2> QED
      BY <1>0, <2>1, <2>2 DEF Bears
<1> HIDE DEF m
<1> QED
    BY <1>0, <1>1, <1>2, <1>4, <1>5, SaysKeeps DEF m

\* The gNB that a UE is at says something about it, and the UE's handover begins or ends.
LEMMA GnbSaysKeeps ==
  ASSUME ProxyInv, NEW u \in Ues, NEW proc, NEW aim, GnbSays(proc, u, aim),
         proc \in {"Uplink", "UEContextReleaseRequest", "HandoverRequired", "HandoverCancel",
                   "UplinkRANStatusTransfer"},
         ran' = ran, core' = core, serving' = serving,
         ho' = ho \/ ho' = [ho EXCEPT ![u] = "prepared"] \/ ho' = [ho EXCEPT ![u] = "none"],
         proc \in {"HandoverRequired", "HandoverCancel"} => ho' # ho
  PROVE  ProxyInv'
<1> DEFINE g == serving[u]
           k == ran[<<g, u>>]
           m == Message(g, Gateway, proc, <<g, u>>, k, u, aim)
           s == session_list[k]
           A == About(k, net \cup held)
           c == k \in m_containerMap
<1>0. g \in Gnbs /\ k \in Ids /\ Says(g, proc, <<g, u>>, k, u, aim)
      BY PeersParts DEF GnbSays, At
<1>1. GnbMsg(m) /\ m.from = g /\ m.ue = u /\ m.proc = proc
      BY <1>0 DEF GnbMsg, Formed, Message, GnbProcs
<1>2. SessIdOf(m) = k
      BY <1>1, GnbNumber DEF Message
<1>3. /\ ho' \in [Ues -> Gnbs \cup {"none", "prepared"}]
      /\ \A v \in Ues : ho'[v] = ho[v] \/ ho'[v] \notin Gnbs
      /\ proc \in {"HandoverRequired", "HandoverCancel"} => ho'[u] \notin Gnbs
      /\ \A v \in Ues : v # u => ho'[v] = ho[v]
      BY PeersParts, PeerNames
<1>4. PeersOk(ran', core', serving', ho')
  <2>1. PeerTypes(ran', core', serving', ho')
        BY <1>3, PeersParts DEF PeerTypes
  <2>2. ASSUME NEW v \in Ues
        PROVE  UeOk(v, ran', serving', ho')
    <3>1. UeOk(v, ran, serving, ho)
          BY PeersParts
    <3>2. CASE v = u
      <4>1. serving[u] # NULL /\ ran[<<serving[u], u>>] # "new"
            BY <1>0, PeerNames, IdNames
      <4> QED
          BY <3>1, <3>2, <4>1 DEF UeOk
    <3>3. CASE v # u
          BY <1>3, <3>1, <3>3 DEF UeOk
    <3> QED
        BY <3>2, <3>3
  <2> QED
      BY <2>1, <2>2 DEF PeersOk
<1>5. ASSUME NEW j \in Ids
      PROVE  Bears(j)
      BY <1>3 DEF Bears, Fades, Home
<1>6. ASSUME k \notin doubtful'
      PROVE  Settled(k, A \cup {m}, ran', core', serving', ho')
  <2>1. /\ k \notin doubtful
        /\ proc \in HandoverProcs => \A q \in A : q.proc \notin Steps /\ q.proc # "HandoverRequestAck"
    <3> HIDE DEF g, k
    <3> QED
        BY <1>0, <1>2, <1>6, SaysAlone
  <2>2. /\ s # NULL /\ s.amfUeId # NULL /\ (\A q \in A : Waits(q))
        /\ s.gnbUeId = NULL => \E q \in A : q.proc = "HandoverRequestAck"
        /\ Agrees(k, u, s, esm_list, c, A, ran, core, serving, ho)
        BY <1>0, <2>1, GnbKnows
  <2>3. Home(k, u, ran, serving)
        BY <1>0, PeerNames DEF Home
  <2>4. proc \in {"HandoverRequired", "HandoverCancel", "UplinkRANStatusTransfer"} => proc \in HandoverProcs
        BY DEF HandoverProcs
  <2>5. proc \in Steps => proc \in HandoverProcs
        BY DEF Steps
  <2>6. proc \in {"Uplink", "UEContextReleaseRequest"} => proc \notin Steps
        BY DEF Steps, HandoverProcs
  <2>7. Fades(k, u, ran, core, serving, ho, ran', core', serving', ho')
        BY <1>0, <1>5 DEF Bears
  <2> DEFINE B == A \cup {m}
  <2> HIDE DEF A, c, s, k, m, g
  <2>8. Agrees(k, u, s, esm_list, c, A, ran', core', serving', ho')
    <3>1. RanOk(k, u, s, A, ran')
          BY <2>2 DEF Agrees
    <3> QED
        BY <2>2, <2>7, <3>1, AgreesFades
  <2>9. MsgOk(m, k, u, s, esm_list, B, ran', core', serving')
    <3>1. proc = "HandoverRequired" => RequiredOk(k, u, s, ran', core', serving')
          BY <2>1, <2>2, <2>3, <2>4 DEF RequiredOk
    <3>2. FromGnbOk(m, k, u, s, esm_list, ran', core', serving')
          BY <1>1, <2>2, <3>1 DEF FromGnbOk
    <3> QED
        BY <1>0, <1>1, <3>2, PeerNames DEF MsgOk
  <2>10. B = A \cup {m} /\ m.from \notin Amfs
         BY <1>0, <1>1, PeerNames
  <2> HIDE DEF B
  <2>11. m.proc \in Steps => \A q \in A : q.proc \notin Steps
         BY <1>1, <2>1, <2>5
  <2>12. m.proc \in Steps => ~(Home(k, u, ran', serving') /\ ho'[u] \in Gnbs) \/ m.proc = "UplinkRANStatusTransfer"
         BY <1>1, <1>3, <2>6
  <2>13. Agrees(k, u, s, esm_list, c, B, ran', core', serving', ho')
         BY <2>2, <2>8, <2>9, <2>10, <2>11, <2>12, Added
  <2> QED
      BY <2>2, <2>10, <2>13 DEF Settled, c, s
<1> HIDE DEF m, k, g
<1> QED
    BY <1>0, <1>1, <1>2, <1>4, <1>5, <1>6, SaysKeeps DEF m, k, g

\* Whatever it says.
LEMMA SpeaksKeeps ==
  ASSUME ProxyInv, NEW u \in Ues,
         \/ GnbSpeaks(u) \/ GnbCancels(u) \/ GnbPassesStatus(u)
         \/ \E h \in Gnbs : GnbHandsOver(h, u)
  PROVE  ProxyInv'
<1>h. ho \in [Ues -> Gnbs \cup {"none", "prepared"}]
      BY PeersParts
<1>1. CASE GnbSpeaks(u)
  <2>1. PICK proc \in {"Uplink", "UEContextReleaseRequest"} : GnbSays(proc, u, NULL)
        BY <1>1 DEF GnbSpeaks
  <2>2. ran' = ran /\ core' = core /\ serving' = serving /\ ho' = ho
        BY <1>1 DEF GnbSpeaks, peers
  <2>3. proc \notin {"HandoverRequired", "HandoverCancel"}
        OBVIOUS
  <2> QED
      BY <2>1, <2>2, <2>3, GnbSaysKeeps
<1>2. CASE GnbCancels(u)
  <2>1. /\ GnbSays("HandoverCancel", u, NULL) /\ ran' = ran /\ core' = core /\ serving' = serving
        /\ ho' = [ho EXCEPT ![u] = "none"] /\ ho[u] # "none"
        BY <1>2 DEF GnbCancels
  <2>2. ho' # ho
        BY <1>h, <2>1
  <2> QED
      BY <2>1, <2>2, GnbSaysKeeps
<1>3. CASE GnbPassesStatus(u)
  <2>1. /\ GnbSays("UplinkRANStatusTransfer", u, NULL) /\ ran' = ran /\ core' = core /\ serving' = serving
        /\ ho' = ho
        BY <1>3 DEF GnbPassesStatus, peers
  <2> QED
      BY <2>1, GnbSaysKeeps
<1>4. ASSUME NEW h \in Gnbs, GnbHandsOver(h, u)
      PROVE  ProxyInv'
  <2>1. /\ GnbSays("HandoverRequired", u, h) /\ ran' = ran /\ core' = core /\ serving' = serving
        /\ ho' = [ho EXCEPT ![u] = "prepared"] /\ ho[u] = "none"
        BY <1>4 DEF GnbHandsOver
  <2>2. ho' # ho
        BY <1>h, <2>1
  <2> QED
      BY <2>1, <2>2, GnbSaysKeeps
<1> QED
    BY <1>1, <1>2, <1>3, <1>4

\* The UE arrives at the gNB that it is expected at, or from another gateway.
LEMMA ArrivesKeeps ==
  ASSUME ProxyInv, NEW h \in Gnbs, NEW u \in Ues, UeArrives(h, u)
  PROVE  ProxyInv'
<1> DEFINE k == ran[<<h, u>>]
           m == Message(h, Gateway, "HandoverNotify", <<h, u>>, k, u, NULL)
           s == session_list[k]
           A == About(k, net \cup held)
           c == k \in m_containerMap
<1>0. /\ k \in Ids /\ ran' = ran /\ core' = core /\ serving' = [serving EXCEPT ![u] = h]
      /\ ho' = [ho EXCEPT ![u] = "none"] /\ Says(h, "HandoverNotify", <<h, u>>, k, u, NULL)
      BY DEF UeArrives, At
<1>1. GnbMsg(m) /\ m.from = h /\ m.ue = u /\ m.proc = "HandoverNotify"
      BY <1>0 DEF GnbMsg, Formed, Message, GnbProcs
<1>2. SessIdOf(m) = k
      BY <1>1, GnbNumber DEF Message
<1>3. /\ serving'[u] = h /\ ho'[u] = "none" /\ "none" \notin Gnbs
      /\ \A v \in Ues : v # u => serving'[v] = serving[v] /\ ho'[v] = ho[v]
      BY <1>0, PeersParts, PeerNames
<1>4. \/ serving[u] = NULL /\ Served(k, core)
      \/ serving[u] \in Gnbs /\ ho[u] = h /\ ran[<<serving[u], u>>] = k
  <2>1. CASE serving[u] = NULL /\ \E a \in Amfs : core[<<a, u>>] = k
        BY <2>1 DEF Served
  <2>2. CASE ho[u] = h /\ ran[<<serving[u], u>>] = k
        BY <1>3, <2>2, PeersParts
  <2> QED
      BY <2>1, <2>2 DEF UeArrives
<1>5. PeersOk(ran', core', serving', ho')
  <2>1. PeerTypes(ran', core', serving', ho')
        BY <1>0, PeersParts DEF PeerTypes
  <2>2. ASSUME NEW v \in Ues
        PROVE  UeOk(v, ran', serving', ho')
    <3>1. CASE v = u
      <4>1. \A g \in Gnbs : ran[<<g, u>>] # "new"
            BY <1>3, <1>4, PeersParts, PeerNames
      <4>2. k # NULL /\ serving'[u] # NULL
            BY <1>0, <1>3, IdNames, PeerNames
      <4> QED
          BY <1>0, <1>3, <3>1, <4>1, <4>2 DEF UeOk
    <3>2. CASE v # u
          BY <1>0, <1>3, <3>2, PeersParts DEF UeOk
    <3> QED
        BY <3>1, <3>2
  <2> QED
      BY <2>1, <2>2 DEF PeersOk
<1>6. ASSUME NEW j \in Ids, j # k
      PROVE  Bears(j)
  <2>1. ASSUME NEW v \in Ues
        PROVE  Fades(j, v, ran, core, serving, ho, ran', core', serving', ho')
    <3>1. CASE v = u
      <4>1. ~Home(j, u, ran, serving) /\ ~Home(j, u, ran', serving')
            BY <1>0, <1>3, <1>4, <1>6 DEF Home
      <4> QED
          BY <1>0, <3>1, <4>1 DEF Fades
    <3>2. CASE v # u
          BY <1>0, <1>3, <3>2 DEF Fades, Home
    <3> QED
        BY <3>1, <3>2
  <2> QED
      BY <1>0, <2>1 DEF Bears
<1>7. ASSUME k \notin doubtful'
      PROVE  Settled(k, A \cup {m}, ran', core', serving', ho')
  <2>0. "HandoverNotify" \in HandoverProcs
        BY DEF HandoverProcs
  <2>1. k \notin doubtful /\ \A q \in A : q.proc \notin Steps /\ q.proc # "HandoverRequestAck"
    <3> HIDE DEF k
    <3> QED
        BY <1>0, <1>2, <1>7, <2>0, SaysAlone
  <2>2. /\ s # NULL /\ s.amfUeId # NULL /\ (\A q \in A : Waits(q))
        /\ s.gnbUeId = NULL => \E q \in A : q.proc = "HandoverRequestAck"
        /\ Agrees(k, u, s, esm_list, c, A, ran, core, serving, ho)
        BY <1>0, <2>1, GnbKnows
  <2>t. \A t \in Gnbs \X Ues : ran[t] = k => t[2] = u
        BY <2>2 DEF Agrees, RanOk
  <2>3. Home(k, u, ran', serving') /\ \E w \in Gnbs \X Ues : ran[w] = k
        BY <1>0, <1>3, PeerNames DEF Home
  <2>4. NotifyOk(m, k, u, s, core', serving')
    <3>1. CASE serving[u] = NULL /\ Served(k, core)
      <4>1. ~s.eHandoverflag
            BY <2>2, <3>1 DEF Agrees, SessOk, Home
      <4> QED
          BY <4>1 DEF NotifyOk
    <3>2. CASE serving[u] \in Gnbs /\ ho[u] = h /\ ran[<<serving[u], u>>] = k
      <4>1. Home(k, u, ran, serving)
            BY <3>2, PeerNames DEF Home
      <4>2. s.eHandoverflag => s.TgtGnbUeId = <<h, u>> /\ (Served(k, core) => s.link # h)
            BY <2>2, <3>2, <4>1 DEF Agrees, OrderOk
      <4> QED
          BY <1>0, <1>1, <1>3, <4>2 DEF NotifyOk
    <3> QED
        BY <1>4, <3>1, <3>2
  <2> DEFINE B == A \cup {m}
  <2> HIDE DEF A, c, s, k, m
  <2>5. Agrees(k, u, s, esm_list, c, A, ran', core', serving', ho')
    <3>1. \A t \in Gnbs \X Ues : ran'[t] = k => t[2] = u /\ \E w \in Gnbs \X Ues : ran[w] = k
          BY <1>0, <2>t, <2>3
    <3>2. \A t \in Amfs \X Ues : core'[t] = k => core[t] = k
          BY <1>0
    <3>3. Home(k, u, ran', serving') => ho'[u] \notin Gnbs \/ ~s.eHandoverflag
          BY <1>3
    <3> QED
        BY <2>1, <2>2, <2>3, <3>1, <3>2, <3>3, QuietMoves
  <2>6. MsgOk(m, k, u, s, esm_list, B, ran', core', serving')
    <3>1. FromGnbOk(m, k, u, s, esm_list, ran', core', serving')
          BY <1>1, <2>2, <2>4 DEF FromGnbOk
    <3> QED
        BY <1>1, <3>1, PeerNames DEF MsgOk
  <2>7. B = A \cup {m} /\ m.from \notin Amfs
        BY <1>1, PeerNames
  <2> HIDE DEF B
  <2>8. Agrees(k, u, s, esm_list, c, B, ran', core', serving', ho')
        BY <1>3, <2>1, <2>2, <2>5, <2>6, <2>7, Added
  <2> QED
      BY <2>2, <2>7, <2>8 DEF Settled, c, s
<1> HIDE DEF m, k
<1> QED
    BY <1>0, <1>1, <1>2, <1>5, <1>6, <1>7, SaysKeeps DEF m, k

\* A target gives up a UE.
LEMMA ForgetsKeeps ==
  ASSUME ProxyInv, NEW h \in Gnbs, NEW u \in Ues, TargetForgets(h, u)
  PROVE  ProxyInv'
<1>0. /\ ran' = [ran EXCEPT ![<<h, u>>] = NULL] /\ core' = core /\ serving' = serving /\ ho' = ho
      /\ net' = net /\ held' = held /\ astray' = astray /\ doubtful' = doubtful /\ UNCHANGED table
      /\ serving[u] # h
      BY DEF TargetForgets
<1>1. /\ \A t \in Gnbs \X Ues : ran'[t] = IF t = <<h, u>> THEN NULL ELSE ran[t]
      /\ \A v \in Ues : serving[v] # NULL => ran'[<<serving[v], v>>] = ran[<<serving[v], v>>]
      BY <1>0, PeersParts
<1>2. PeersOk(ran', core', serving', ho')
  <2>1. PeerTypes(ran', core', serving', ho')
        BY <1>0, PeersParts DEF PeerTypes
  <2>2. ASSUME NEW v \in Ues
        PROVE  UeOk(v, ran', serving', ho')
    <3>1. \A g \in Gnbs : ran'[<<g, v>>] = "new" => ran[<<g, v>>] = "new"
          BY <1>1, IdNames
    <3> QED
        BY <1>0, <1>1, <3>1, PeersParts DEF UeOk
  <2> QED
      BY <2>1, <2>2 DEF PeersOk
<1>3. ASSUME NEW j \in Ids
      PROVE  Bears(j)
      BY <1>0, <1>1, IdNames DEF Bears, Fades, Home
<1>4. TableInv' /\ MsgInv'
      BY <1>0, InvParts DEF TableInv, MsgInv, table
<1>5. ASSUME NEW j \in Ids, j \notin doubtful'
      PROVE  Good(j)'
  <2>1. Good(j) /\ j \notin astray'
        BY <1>0, <1>5 DEF ProxyInv, Good
  <2>2. About(j, net' \cup held') = About(j, net \cup held)
        BY <1>0 DEF About
  <2> QED
      BY <1>0, <1>3, <2>1, <2>2, BearsGood
<1> QED
    BY <1>2, <1>4, <1>5 DEF ProxyInv

\* A UE moves to another gNB without the gateway.
LEMMA MovesKeeps ==
  ASSUME ProxyInv, NEW h \in Gnbs, NEW u \in Ues, UeMoves(h, u)
  PROVE  ProxyInv'
<1> DEFINE g == serving[u]
           k == ran[<<g, u>>]
           m == Message(h, Gateway, "PathSwitchRequest", <<h, u>>, k, u, NULL)
           s == session_list[k]
           A == About(k, net \cup held)
           c == k \in m_containerMap
<1>0. /\ g \in Gnbs /\ k \in Ids /\ h \in esm_list /\ ran[<<h, u>>] = NULL /\ ho[u] = "none"
      /\ ran' = [ran EXCEPT ![<<g, u>>] = NULL, ![<<h, u>>] = k]
      /\ core' = core /\ serving' = [serving EXCEPT ![u] = h] /\ ho' = ho
      /\ Says(h, "PathSwitchRequest", <<h, u>>, k, u, NULL)
      BY PeersParts DEF UeMoves, At
<1>1. GnbMsg(m) /\ m.from = h /\ m.ue = u /\ m.proc = "PathSwitchRequest"
      BY <1>0 DEF GnbMsg, Formed, Message, GnbProcs
<1>2. SessIdOf(m) = k
      BY <1>1, GnbNumber DEF Message
<1>3. /\ serving'[u] = h /\ "none" \notin Gnbs
      /\ \A v \in Ues : v # u => serving'[v] = serving[v]
      /\ \A t \in Gnbs \X Ues : ran'[t] = IF t = <<h, u>> THEN k ELSE IF t = <<g, u>> THEN NULL ELSE ran[t]
      BY <1>0, PeersParts, PeerNames
<1>5. PeersOk(ran', core', serving', ho')
  <2>1. PeerTypes(ran', core', serving', ho')
        BY <1>0, PeersParts DEF PeerTypes
  <2>2. ASSUME NEW v \in Ues
        PROVE  UeOk(v, ran', serving', ho')
    <3>1. CASE v = u
      <4>1. \A f \in Gnbs : ran'[<<f, u>>] # "new"
            BY <1>0, <1>3, PeersParts, IdNames
      <4>2. ran'[<<h, u>>] # NULL /\ serving'[u] # NULL
            BY <1>0, <1>3, IdNames, PeerNames
      <4> QED
          BY <1>0, <1>3, <3>1, <4>1, <4>2 DEF UeOk
    <3>2. CASE v # u
      <4>1. \A f \in Gnbs : ran'[<<f, v>>] = ran[<<f, v>>]
            BY <1>3, <3>2
      <4> QED
          BY <1>0, <1>3, <3>2, <4>1, PeersParts DEF UeOk
    <3> QED
        BY <3>1, <3>2
  <2> QED
      BY <2>1, <2>2 DEF PeersOk
<1>6. ASSUME NEW j \in Ids, j # k
      PROVE  Bears(j)
  <2>1. \A t \in Gnbs \X Ues : ran'[t] = j => ran[t] = j
        BY <1>3, <1>6, IdNames
  <2>2. ASSUME NEW v \in Ues
        PROVE  Fades(j, v, ran, core, serving, ho, ran', core', serving', ho')
    <3>1. CASE v = u
      <4>1. ~Home(j, u, ran, serving) /\ ~Home(j, u, ran', serving')
            BY <1>0, <1>3, <1>6 DEF Home
      <4> QED
          BY <1>0, <3>1, <4>1 DEF Fades
    <3>2. CASE v # u
      <4>1. serving[v] # NULL => ran'[<<serving[v], v>>] = ran[<<serving[v], v>>]
            BY <1>3, <3>2, PeersParts
      <4> QED
          BY <1>0, <1>3, <3>2, <4>1 DEF Fades, Home
    <3> QED
        BY <3>1, <3>2
  <2> QED
      BY <1>0, <2>1, <2>2 DEF Bears
<1>7. ASSUME k \notin doubtful'
      PROVE  Settled(k, A \cup {m}, ran', core', serving', ho')
  <2>0. "PathSwitchRequest" \in HandoverProcs
        BY DEF HandoverProcs
  <2>1. k \notin doubtful /\ \A q \in A : q.proc \notin Steps /\ q.proc # "HandoverRequestAck"
    <3> HIDE DEF k
    <3> QED
        BY <1>0, <1>2, <1>7, <2>0, SaysAlone
  <2>2. /\ s # NULL /\ s.amfUeId # NULL /\ (\A q \in A : Waits(q))
        /\ Agrees(k, u, s, esm_list, c, A, ran, core, serving, ho)
        BY <1>0, <2>1, GnbKnows
  <2>t. \A t \in Gnbs \X Ues : ran[t] = k => t[2] = u
        BY <2>2 DEF Agrees, RanOk
  <2>3. Home(k, u, ran', serving') /\ \E w \in Gnbs \X Ues : ran[w] = k
        BY <1>0, <1>3, PeerNames DEF Home
  <2>4. \A t \in Gnbs \X Ues : ran'[t] = k => t[2] = u
        BY <1>0, <1>3, <2>t
  <2> DEFINE B == A \cup {m}
  <2> HIDE DEF A, c, s, k, m, g
  <2>5. Agrees(k, u, s, esm_list, c, A, ran', core', serving', ho')
    <3>1. \A t \in Gnbs \X Ues : ran'[t] = k => t[2] = u /\ \E w \in Gnbs \X Ues : ran[w] = k
          BY <2>3, <2>4
    <3>2. \A t \in Amfs \X Ues : core'[t] = k => core[t] = k
          BY <1>0
    <3>3. Home(k, u, ran', serving') => ho'[u] \notin Gnbs \/ ~s.eHandoverflag
          BY <1>0, <1>3
    <3> QED
        BY <2>1, <2>2, <2>3, <3>1, <3>2, <3>3, QuietMoves
  <2>6. MsgOk(m, k, u, s, esm_list, B, ran', core', serving')
    <3>1. FromGnbOk(m, k, u, s, esm_list, ran', core', serving')
          BY <1>0, <1>1, <2>2 DEF FromGnbOk
    <3> QED
        BY <1>1, <3>1, PeerNames DEF MsgOk
  <2>7. B = A \cup {m} /\ m.from \notin Amfs /\ ho'[u] \notin Gnbs
        BY <1>0, <1>1, <1>3, PeerNames
  <2> HIDE DEF B
  <2>8. Agrees(k, u, s, esm_list, c, B, ran', core', serving', ho')
        BY <2>1, <2>2, <2>5, <2>6, <2>7, Added
  <2> QED
      BY <2>2, <2>7, <2>8 DEF Settled, c, s
<1> HIDE DEF m, k, g
<1> QED
    BY <1>0, <1>1, <1>2, <1>5, <1>6, <1>7, SaysKeeps DEF m, k

\* An AMF about a UE that it has.
LEMMA AmfSpeaksKeeps ==
  ASSUME ProxyInv, NEW a \in Amfs, NEW u \in Ues, AmfSpeaks(a, u) \/ AmfReleases(a, u)
  PROVE  ProxyInv'
<1> DEFINE k == core[<<a, u>>]
           s == session_list[k]
           A == About(k, net \cup held)
           c == k \in m_containerMap
<1>0. PICK proc \in {"Downlink", "SetupRequest", "UEContextReleaseCommand"} :
        /\ k \in Ids /\ Says(a, proc, k, <<a, u>>, u, NULL)
        /\ ran' = ran /\ serving' = serving /\ ho' = ho
        /\ IF proc = "UEContextReleaseCommand" THEN core' = [core EXCEPT ![<<a, u>>] = NULL] ELSE core' = core
  <2>1. CASE AmfSpeaks(a, u)
        BY <2>1 DEF AmfSpeaks, peers
  <2>2. CASE AmfReleases(a, u)
        BY <2>2 DEF AmfReleases
  <2> QED
      BY <2>1, <2>2
<1> DEFINE m == Message(a, Gateway, proc, k, <<a, u>>, u, NULL)
<1>1. AmfMsg(m) /\ m.from = a /\ m.ue = u /\ m.proc = proc
      BY <1>0 DEF AmfMsg, Formed, Message, AmfProcs
<1>2. SessIdOf(m) = k
      BY <1>1, AmfNumber DEF Message
<1>3. /\ \A t \in Amfs \X Ues : core'[t] = core[t] \/ core'[t] = NULL
      /\ proc = "UEContextReleaseCommand" => core'[<<a, u>>] = NULL
      BY <1>0, PeersParts
<1>4. \A j \in Ids, t \in Amfs \X Ues : core'[t] = j => core[t] = j
      BY <1>3, IdNames
<1>5. PeersOk(ran', core', serving', ho')
  <2>1. PeerTypes(ran', core', serving', ho')
        BY <1>0, PeersParts DEF PeerTypes
  <2>2. \A v \in Ues : UeOk(v, ran', serving', ho')
        BY <1>0, PeersParts
  <2> QED
      BY <2>1, <2>2 DEF PeersOk
<1>6. ASSUME NEW j \in Ids
      PROVE  Bears(j)
      BY <1>0, <1>4 DEF Bears, Fades, Home
<1>7. ASSUME k \notin doubtful'
      PROVE  Settled(k, A \cup {m}, ran', core', serving', ho')
  <2>1. k \notin doubtful
    <3> HIDE DEF k
    <3> QED
        BY <1>0, <1>2, <1>7, SaysAlone
  <2>2. /\ s # NULL /\ s.amfId = a /\ s.gnbUeId # NULL /\ (\A q \in A : Waits(q))
        /\ Agrees(k, u, s, esm_list, c, A, ran, core, serving, ho)
        /\ \A q \in A : q.from = Gateway => q.proc # "HandoverRequestAck"
        BY <1>0, <2>1, AmfKnows
  <2>3. proc = "UEContextReleaseCommand" => ~Served(k, core')
    <3>1. \A t \in Amfs \X Ues : core[t] = k => t = <<a, u>>
          BY <2>2 DEF Agrees, CoreOk
    <3> QED
        BY <1>0, <1>3, <1>4, <3>1, IdNames DEF Served
  <2>4. proc \notin Steps
        BY DEF Steps, HandoverProcs
  <2> DEFINE B == A \cup {m}
  <2> HIDE DEF A, c, s, k, m
  <2>5. Agrees(k, u, s, esm_list, c, A, ran', core', serving', ho')
    <3>1. RanOk(k, u, s, A, ran')
          BY <1>0, <2>2 DEF Agrees
    <3>2. Fades(k, u, ran, core, serving, ho, ran', core', serving', ho')
          BY <1>0, <1>6 DEF Bears
    <3> QED
        BY <2>2, <3>1, <3>2, AgreesFades
  <2>6. MsgOk(m, k, u, s, esm_list, B, ran', core', serving')
    <3>1. FromAmfOk(m, k, s, core')
          BY <1>1, <2>2, <2>3 DEF FromAmfOk
    <3> QED
        BY <1>1, <3>1, PeerNames DEF MsgOk
  <2>7. B = A \cup {m} /\ m.proc \notin Steps
        BY <1>1, <2>4
  <2> HIDE DEF B
  <2>8. Agrees(k, u, s, esm_list, c, B, ran', core', serving', ho')
        BY <2>2, <2>5, <2>6, <2>7, Added
  <2> QED
      BY <2>2, <2>7, <2>8 DEF Settled, c, s
<1> HIDE DEF m, k
<1> QED
    BY <1>0, <1>1, <1>2, <1>5, <1>6, <1>7, SaysKeeps DEF m

\* An AMF announces a UE from another gateway.
LEMMA AmfHandsKeeps ==
  ASSUME ProxyInv, NEW a \in Amfs, NEW h \in Gnbs, NEW u \in Ues, AmfHandsOver(a, h, u)
  PROVE  ProxyInv'
<1> DEFINE m == Message(a, Gateway, "HandoverRequest", NULL, <<a, u>>, u, h)
<1>0. /\ core' = [core EXCEPT ![<<a, u>>] = "new"] /\ ran' = ran /\ serving' = serving /\ ho' = ho
      /\ Says(a, "HandoverRequest", NULL, <<a, u>>, u, h)
      BY DEF AmfHandsOver
<1>1. AmfMsg(m) /\ m.proc = "HandoverRequest"
      BY DEF AmfMsg, Formed, Message, AmfProcs
<1>2. SessIdOf(m) \notin Ids
      BY <1>1, AmfNumber
<1>3. \A j \in Ids, t \in Amfs \X Ues : core'[t] = j => core[t] = j
      BY <1>0, PeersParts, IdNames
<1>4. PeersOk(ran', core', serving', ho')
  <2>1. PeerTypes(ran', core', serving', ho')
        BY <1>0, PeersParts DEF PeerTypes
  <2>2. \A v \in Ues : UeOk(v, ran', serving', ho')
        BY <1>0, PeersParts
  <2> QED
      BY <2>1, <2>2 DEF PeersOk
<1>5. ASSUME NEW j \in Ids
      PROVE  Bears(j)
      BY <1>0, <1>3 DEF Bears, Fades, Home
<1> HIDE DEF m
<1> QED
    BY <1>0, <1>1, <1>2, <1>4, <1>5, SaysKeeps DEF m

\* The peers.
LEMMA PeersKeep ==
  ASSUME ProxyInv, Peers
  PROVE  ProxyInv'
BY SpeaksKeeps, AttachKeeps, ArrivesKeeps, ForgetsKeeps, MovesKeeps, AmfSpeaksKeeps, AmfHandsKeeps DEF Peers

-----------------------------------------------------------------------------
(* The theorems.                                                            *)

\* At the start nothing is known or under way.
LEMMA ProxyStarts == Init => ProxyInv
<1> SUFFICES ASSUME Init
             PROVE  ProxyInv
    OBVIOUS
<1>1. TableInv /\ MsgInv
      BY DEF Init, TableInv, MsgInv
<1>2. PeersOk(ran, core, serving, ho)
      BY IdNames DEF Init, PeersOk, PeerTypes, UeOk
<1>3. ASSUME NEW i \in Ids
      PROVE  Good(i)
      BY <1>3, IdNames DEF Init, Good, GoodAt, Unused, About
<1> QED
    BY <1>1, <1>2, <1>3 DEF ProxyInv

\* Whatever happens.
LEMMA ProxyKept == ProxyInv /\ [Next]_vars => ProxyInv'
<1> SUFFICES ASSUME ProxyInv, [Next]_vars
             PROVE  ProxyInv'
    OBVIOUS
<1>1. ASSUME NEW m \in net, GnbMessage(m) \/ AmfMessage(m)
      PROVE  ProxyInv'
      BY <1>1, GnbKeeps, AmfKeeps
<1>2. ASSUME NEW o \in held, MediaAnswer(o)
      PROVE  ProxyInv'
      BY <1>2, MediaAnswerKeeps
<1>3. ASSUME NEW i \in Ids, handleSessTimeout(i) \/ onSessReleaseTimer(i)
      PROVE  ProxyInv'
      BY <1>3, TimeoutKeeps, FreedKeeps
<1>4. ASSUME NEW g \in Gnbs, GNB_SetupReq(g)
      PROVE  ProxyInv'
      BY <1>4, GnbSetupKeeps
<1>5. ASSUME NEW a \in Amfs, AMF_NgSetupResponse(a) \/ AMF_Reset(a) \/ handle_amf_sctp_err(a)
      PROVE  ProxyInv'
      BY <1>5, AmfSetupKeeps, ResetsKeeps, BreakKeeps
<1>6. CASE Peers
      BY <1>6, PeersKeep
<1>7. CASE UNCHANGED vars
  <2>1. /\ esm_list' = esm_list /\ isNgSetup' = isNgSetup /\ session_list' = session_list
        /\ m_containerMap' = m_containerMap /\ ran' = ran /\ core' = core /\ serving' = serving
        /\ ho' = ho /\ held' = held /\ net' = net /\ astray' = astray /\ doubtful' = doubtful
        BY <1>7 DEF vars, table, peers
  <2> QED
      BY <2>1 DEF ProxyInv, TableInv, MsgInv, Good, About
<1> QED
    BY <1>1, <1>2, <1>3, <1>4, <1>5, <1>6, <1>7 DEF Next

\* NgapSessManager, EpmManager, ApmManager: what is known of a number that is not doubtful
\* agrees at all times.
THEOREM ProxyHolds == Spec => []ProxyInv
BY ProxyStarts, ProxyKept, PTL DEF Spec

\* ConvertNgapId, EsmManager's messages: what is passed on reaches its own UE.
THEOREM UesReached == Spec => []ReachesOwnUe
<1>1. ProxyInv => ReachesOwnUe
      BY DEF ProxyInv, TableInv, Good, ReachesOwnUe
<1> QED
    BY <1>1, ProxyHolds, PTL

\* NgapSessManager: the two sides of a session are one UE's.
THEOREM SidesOfOneUe == Spec => []SidesAgree
<1>1. ASSUME ProxyInv, NEW i \in Ids \ doubtful, Found(i), session_list[i].gnbUeId # NULL
      PROVE  LET s == session_list[i] IN
             s.gnbUeId[1] = s.link /\ (s.amfUeId # NULL => s.amfUeId = <<s.amfId, s.gnbUeId[2]>>)
  <2> DEFINE s == session_list[i]
             A == About(i, net \cup held)
             c == i \in m_containerMap
  <2>1. PICK u \in Ues : Agrees(i, u, s, esm_list, c, A, ran, core, serving, ho)
        BY <1>1 DEF ProxyInv, Good, GoodAt, Found
  <2>2. SessOk(i, u, s, esm_list, c, A, ran, core, serving)
        BY <2>1 DEF Agrees
  <2> QED
      BY <1>1, <2>2 DEF SessOk
<1>2. ProxyInv => SidesAgree
      BY <1>1 DEF SidesAgree
<1> QED
    BY <1>2, ProxyHolds, PTL
================================================================================
