----------------------------- MODULE PduSessProofs -----------------------------
(***************************************************************************)
(* Proofs about the PDU sessions: the map leads a UE to its own session    *)
(* (MapInv), and a kept message is passed on early, or thrown away, only   *)
(* for the reasons PduSess names (PassInv), for any number of UEs, PDU     *)
(* sessions, messages and events under way, in any order.  Where a UE's    *)
(* procedures follow one another the kept messages wait for their answers  *)
(* and the media gateway follows the signalling gateway (CalmInv).         *)
(***************************************************************************)
EXTENDS PduSess, TLAPS, FiniteSetTheorems, WellFoundedInduction

(* The invariants.                                                         *)

Events == {"UPF_SETUP_REQ", "UPF_UPDATE_REQ", "GNB_SETUP_REQ", "RELEASE_REQ",
           "UPF_SETUP_RSP", "UPF_UPDATE_RSP", "GNB_SETUP_RSP"}
PduRec   == [st : {"none", "live", "deleted"}, sig : Ids, ngap : NgapIds \cup {0}, res : Pdus \cup {NULL},
             media : MediaIds \cup {NULL}, gnb : GnbEnds \cup {NULL}]
NgapRec  == [up : BOOLEAN, vec : SUBSET Pdus, count : Nat, rsp : Nat, cur : Msgs \cup {NoMsg},
             stray : BOOLEAN, ho : Nat]
Work     == [k : Msgs \cup {NoMsg}, todo : SUBSET Pdus, bMedia : BOOLEAN]
Event    == [type : Events, sig : Ids, media : MediaIds \cup {NULL}, gnb : GnbEnds \cup {NULL},
             for : Msgs \cup {NoMsg}, obj : Objects]

TypeInv ==
  /\ m_currentSessId \in Ids
  /\ session_list \in [Ids -> Objects \cup {NULL}]
  /\ session_id_map \in [Pdus \X NgapIds -> Ids \cup {INVALIDE_ID}]
  /\ ngap_msg_list \in [Slots -> Msgs \cup {NoMsg}]
  /\ pdu \in [Objects -> PduRec]
  /\ timers \in [Objects -> Nat]
  /\ ngap \in [NgapIds -> NgapRec]
  /\ th \in [NgapIds -> Work]
  /\ net \subseteq Event
  /\ media \in [MediaIds -> MediaSess \cup {NULL}]
  /\ msg \in [Msgs -> Message]

\* The session an id leads to is alive and knows the id; the map leads to such an id.
ListInv == \A i \in Ids : session_list[i] # NULL =>
  LET s == pdu[session_list[i]] IN s.st = "live" /\ s.sig = i /\ s.ngap \in NgapIds
LeadInv == failed = {} => \A n \in NgapIds, r \in Pdus :
  LET i == session_id_map[<<r, n>>] IN
  i # INVALIDE_ID => /\ session_list[i] # NULL
                     /\ pdu[session_list[i]].ngap = n /\ pdu[session_list[i]].res = r

\* Numbers are given out in turn; a message is kept in one place.
UsedInv == \E u \in 0 .. MaxMsg : \A k \in Msgs : msg[k].fate # "none" <=> k <= u
KeptInv ==
  /\ \A i \in Slots : ngap_msg_list[i] # NoMsg => msg[ngap_msg_list[i]].fate = "kept"
  /\ \A i, j \in Slots : ngap_msg_list[i] # NoMsg /\ ngap_msg_list[i] = ngap_msg_list[j] => i = j
\* A handler works on the last message of its UE.
HandlerInv == \A n \in NgapIds :
  /\ ngap[n].cur # NoMsg => msg[ngap[n].cur].ngap = n /\ msg[ngap[n].cur].fate # "none"
  /\ th[n].k # NoMsg => th[n].k = ngap[n].cur
  /\ th[n].k = NoMsg => th[n].todo = {}
\* Only a message that is kept, or was, is asked for.
AskedInv == \A m \in net : m.for # NoMsg =>
  /\ msg[m.for].fate \notin {"none", "handled"}
  /\ msg[m.for].dir = IF m.type = "GNB_SETUP_REQ" \/ m.type = "GNB_SETUP_RSP" THEN "gnb" ELSE "amf"

\* What is on the way for message k and will be counted.
Counting(k) == {m \in net : m.for = k /\ m.type \notin {"UPF_UPDATE_REQ", "UPF_UPDATE_RSP"}}
OwedInv == \A k \in Msgs : IsFiniteSet(Counting(k)) /\ Cardinality(Counting(k)) <= msg[k].owed
\* While nothing stray was counted, what is counted and what is owed do not exceed the count.
CountInv == \A n \in NgapIds : ~ngap[n].stray /\ ngap[n].cur # NoMsg =>
  msg[ngap[n].cur].owed + ngap[n].rsp <= ngap[n].count - Cardinality(th[n].todo)
\* An older message that is still kept under its NGAP session's id: the handler of the last
\* one has an update under way, or nothing at all.
OlderInv == \A n \in NgapIds :
  LET k == ngap_msg_list[n]  c == ngap[n].cur IN
  k # NoMsg /\ k # c /\ c # NoMsg /\ msg[k].ngap = n =>
    \/ Cardinality(Counting(c)) < msg[c].owed
    \/ Counting(c) = {} /\ (th[n].k = NoMsg \/ msg[c].fate = "handled")

\* What the map rests on, and what the kept messages rest on.
MapInv  == TypeInv /\ ListInv /\ LeadInv
PassInv == /\ UsedInv /\ KeptInv /\ HandlerInv /\ AskedInv
           /\ OwedInv /\ CountInv /\ OlderInv

-----------------------------------------------------------------------------
(* Types.                                                                  *)

\* Indexes of the tables.
LEMMA SlotsAre == Ids \subseteq Slots /\ NgapIds \subseteq Slots /\ INVALIDE_ID \notin Ids /\ 0 \in Ids
BY PduSessAssumption DEF Slots, Ids, INVALIDE_ID

\* SIG_NEXT_ID gives an id that may be handed out.
LEMMA NextIdIs == ASSUME TypeInv, NEW j \in Nat \ {0} PROVE NextId(j) \in Ids /\ NextId(j) > 0
<1>1. m_currentSessId \in Nat /\ MAX_PDU_SESSIONS - 1 \in Nat /\ MAX_PDU_SESSIONS - 1 > 0
      BY PduSessAssumption DEF TypeInv, Ids
<1>2. m_currentSessId - 1 + j \in Nat
      BY <1>1
<1>3. (m_currentSessId - 1 + j) % (MAX_PDU_SESSIONS - 1) \in 0 .. (MAX_PDU_SESSIONS - 1) - 1
      BY <1>1, <1>2
<1> QED
    BY <1>1, <1>3, PduSessAssumption DEF NextId, Ids

\* The search finds a free id where there is one.
LEMMA FreeIdIs ==
  ASSUME TypeInv, FreeSteps # {}, NEW j, j = CHOOSE x \in FreeSteps : \A y \in FreeSteps : x <= y
  PROVE  NextId(j) \in Ids /\ session_list[NextId(j)] = NULL
<1>1. FreeSteps \subseteq Nat \ {0}
      BY PduSessAssumption DEF FreeSteps
<1>r. PICK R : R = OpToRel(<, Nat)
      OBVIOUS
<1>2. IsWellFoundedOn(R, Nat)
      BY <1>r, NatLessThanWellFounded, Zenon
<1>3. PICK x \in FreeSteps : \A y \in FreeSteps : ~(<<y, x>> \in R)
      BY <1>1, <1>2, WFMin
<1>4. ASSUME NEW y \in FreeSteps
      PROVE  x <= y
  <2>1. x \in Nat /\ y \in Nat
        BY <1>1
  <2>2. ~(<<y, x>> \in R)
        BY <1>3
  <2>3. ~(y < x)
        BY <1>r, <2>1, <2>2, Zenon DEF OpToRel
  <2> QED
      BY <2>1, <2>3
<1>5. j \in FreeSteps
      BY <1>4
<1> QED
    BY <1>1, <1>5, NextIdIs DEF FreeSteps

\* What the tables lead to.
LEMMA ReachIs ==
  ASSUME TypeInv, NEW n \in NgapIds, NEW r \in Pdus
  PROVE  /\ getPduSess(n, r) \in Objects \cup {NULL}
         /\ getPduSess(n, r) # NULL => /\ session_id_map[<<r, n>>] \in Ids
                                       /\ session_list[session_id_map[<<r, n>>]] = getPduSess(n, r)
BY DEF TypeInv, getPduSess

\* Requests, answers.
LEMMA RequestsAre ==
  ASSUME TypeInv, NEW o \in Objects, NEW k \in Msgs \cup {NoMsg}
  PROVE  /\ UpfSetupReq(o, k) \in Event /\ UpfUpdateReq(o, k) \in Event /\ ReleaseReq(o) \in Event
         /\ \A i \in Ids : [UpfSetupReq(o, k) EXCEPT !.sig = i] \in Event
         /\ \A g \in GnbEnds : GnbSetupReq(o, g, k) \in Event
<1>1. pdu[o] \in PduRec /\ NoMsg \in Msgs \cup {NoMsg}
      BY DEF TypeInv
<1> QED
    BY <1>1 DEF UpfSetupReq, UpfUpdateReq, ReleaseReq, GnbSetupReq, Req, Event, Events, PduRec
\* An answer is an event about the message its request was about.
LEMMA AnswersAre ==
  ASSUME NEW m \in Event, NEW t \in Events, NEW s \in Ids, NEW i \in MediaIds
  PROVE  /\ Answer(m, t, s, i) \in Event
         /\ Answer(m, t, s, i).for = m.for /\ Answer(m, t, s, i).type = t
BY DEF Answer, Event

\* A message moves into a slot.
LEMMA SavedIs ==
  ASSUME TypeInv, NEW k \in Msgs, NEW i \in Slots, Saved(k, i)
  PROVE  /\ ngap_msg_list' \in [Slots -> Msgs \cup {NoMsg}] /\ msg' \in [Msgs -> Message]
         /\ msg'[k].owed = msg[k].owed + 1
         /\ \A q \in Msgs : /\ q # k => msg'[q].owed = msg[q].owed
                            /\ msg'[q].ngap = msg[q].ngap /\ msg'[q].dir = msg[q].dir
         /\ msg[k].fate # "handled" => /\ ngap_msg_list' = ngap_msg_list
                                       /\ \A q \in Msgs : msg'[q].fate = msg[q].fate
         /\ msg[k].fate = "handled" =>
              /\ ngap_msg_list' = [ngap_msg_list EXCEPT ![i] = k] /\ msg'[k].fate = "kept"
              /\ \A q \in Msgs : q # k => msg'[q].fate = IF q = ngap_msg_list[i] THEN "lost" ELSE msg[q].fate
<1>0. msg \in [Msgs -> Message] /\ msg[k] \in Message /\ ngap_msg_list[i] \in Msgs \cup {NoMsg} /\ NoMsg \notin Msgs
      BY PduSessAssumption DEF TypeInv, NoMsg, Msgs
<1>1. CASE msg[k].fate # "handled"
  <2>1. msg' = [msg EXCEPT ![k] = [msg[k] EXCEPT !.owed = msg[k].owed + 1]]
        BY <1>1 DEF Saved
  <2>2. [msg[k] EXCEPT !.owed = msg[k].owed + 1] \in Message
        BY <1>0 DEF Message
  <2>3. msg' \in [Msgs -> Message]
        BY <1>0, <2>1, <2>2
  <2>4. \A q \in Msgs : q # k => msg'[q] = msg[q]
        BY <1>0, <2>1
  <2>5. msg'[k] = [msg[k] EXCEPT !.owed = msg[k].owed + 1]
        BY <1>0, <2>1
  <2>6. /\ msg'[k].owed = msg[k].owed + 1 /\ msg'[k].ngap = msg[k].ngap /\ msg'[k].dir = msg[k].dir
        /\ msg'[k].fate = msg[k].fate
        BY <1>0, <2>5 DEF Message
  <2>7. ngap_msg_list' = ngap_msg_list
        BY <1>1 DEF Saved
  <2> QED
      BY <1>1, <2>3, <2>4, <2>6, <2>7 DEF TypeInv
<1>2. CASE msg[k].fate = "handled"
  <2>t. PICK T : T = Thrown(msg, i)
        OBVIOUS
  <2>1. T \in [Msgs -> Message] /\ \A q \in Msgs :
          /\ T[q].owed = msg[q].owed /\ T[q].ngap = msg[q].ngap /\ T[q].dir = msg[q].dir
          /\ T[q].fate = IF q = ngap_msg_list[i] THEN "lost" ELSE msg[q].fate
    <3>1. CASE ngap_msg_list[i] = NoMsg
          BY <1>0, <2>t, <3>1 DEF Thrown
    <3>2. CASE ngap_msg_list[i] # NoMsg
      <4>p. PICK p \in Msgs : p = ngap_msg_list[i]
            BY <1>0, <3>2
      <4>1. T = [msg EXCEPT ![p] = [msg[p] EXCEPT !.fate = "lost"]]
            BY <2>t, <3>2, <4>p DEF Thrown
      <4>2. [msg[p] EXCEPT !.fate = "lost"] \in Message
            BY <1>0 DEF Message
      <4>3. T \in [Msgs -> Message] /\ T[p] = [msg[p] EXCEPT !.fate = "lost"] /\ \A q \in Msgs : q # p => T[q] = msg[q]
            BY <1>0, <4>1, <4>2
      <4>4. T[p].owed = msg[p].owed /\ T[p].ngap = msg[p].ngap /\ T[p].dir = msg[p].dir /\ T[p].fate = "lost"
            BY <1>0, <4>3 DEF Message
      <4> QED
          BY <4>p, <4>3, <4>4
    <3> QED
        BY <3>1, <3>2
  <2>2. ngap_msg_list' = [ngap_msg_list EXCEPT ![i] = k]
        BY <1>2 DEF Saved
  <2>3. msg' = [T EXCEPT ![k] = [T[k] EXCEPT !.fate = "kept", !.owed = T[k].owed + 1]]
    <3>1. msg' = [T EXCEPT ![k].fate = "kept", ![k].owed = @ + 1]
          BY <1>2, <2>t DEF Saved
    <3>2. T \in [Msgs -> Message]
          BY <2>1
    <3> QED
        BY <3>1, <3>2 DEF Message
  <2>4. T[k] \in Message
        BY <2>1
  <2>d. PICK d : d = [T[k] EXCEPT !.fate = "kept", !.owed = T[k].owed + 1]
        OBVIOUS
  <2>e. PICK e : e = [T[k] EXCEPT !.fate = "kept"]
        OBVIOUS
  <2>a. e \in Message /\ e.fate = "kept" /\ e.owed = T[k].owed /\ e.ngap = T[k].ngap /\ e.dir = T[k].dir
        BY <2>4, <2>e DEF Message
  <2>b. d = [e EXCEPT !.owed = e.owed + 1] /\ e.owed + 1 \in Nat
        BY <2>4, <2>d, <2>e, <2>a DEF Message
  <2>5. d \in Message /\ d.fate = "kept" /\ d.owed = T[k].owed + 1 /\ d.ngap = T[k].ngap /\ d.dir = T[k].dir
        BY <2>a, <2>b DEF Message
  <2>6. msg' \in [Msgs -> Message] /\ msg'[k] = d /\ \A q \in Msgs : q # k => msg'[q] = T[q]
        BY <2>1, <2>3, <2>5, <2>d
  <2>7. /\ msg'[k].owed = msg[k].owed + 1 /\ msg'[k].ngap = msg[k].ngap /\ msg'[k].dir = msg[k].dir
        /\ msg'[k].fate = "kept"
        BY <2>1, <2>5, <2>6
  <2>8. ngap_msg_list' \in [Slots -> Msgs \cup {NoMsg}]
        BY <2>2 DEF TypeInv
  <2>9. \A q \in Msgs : q # k =>
          /\ msg'[q].owed = msg[q].owed /\ msg'[q].ngap = msg[q].ngap /\ msg'[q].dir = msg[q].dir
          /\ msg'[q].fate = IF q = ngap_msg_list[i] THEN "lost" ELSE msg[q].fate
        BY <2>1, <2>6
  <2> QED
      BY <1>2, <2>2, <2>6, <2>7, <2>8, <2>9
<1> QED
    BY <1>1, <1>2

-----------------------------------------------------------------------------
(* What is on the way.                                                     *)

\* 0 is no message.
LEMMA NoMsgIs == NoMsg \notin Msgs /\ Msgs \subseteq Nat
BY PduSessAssumption DEF NoMsg, Msgs

\* Whether an event is about a gNB's message.
Gnbs(m) == m.type = "GNB_SETUP_REQ" \/ m.type = "GNB_SETUP_RSP"
Updates(m) == m.type = "UPF_UPDATE_REQ" \/ m.type = "UPF_UPDATE_RSP"
\* The events under way change: nothing is asked anew, one message is paid.
Pays(paid) ==
  /\ \A k \in Msgs : IsFiniteSet(Counting(k)) =>
       /\ IsFiniteSet(Counting(k)')
       /\ Cardinality(Counting(k)') + (IF k = paid THEN 1 ELSE 0) <= Cardinality(Counting(k))
  /\ \A m \in net' : m.for # NoMsg => \E q \in net : q.for = m.for /\ (Gnbs(m) <=> Gnbs(q))

\* An event is taken.
LEMMA GonePays ==
  ASSUME NEW m \in net, net' = net \ {m}
  PROVE  Pays(NoMsg) /\ (~Updates(m) => Pays(m.for))
<1>1. \A k \in Msgs : Counting(k)' = Counting(k) \ {m}
      BY DEF Counting
<1>2. ASSUME NEW k \in Msgs, IsFiniteSet(Counting(k))
      PROVE  /\ IsFiniteSet(Counting(k)') /\ Cardinality(Counting(k)') <= Cardinality(Counting(k))
             /\ ~Updates(m) /\ k = m.for => Cardinality(Counting(k)') + 1 <= Cardinality(Counting(k))
  <2>1. /\ IsFiniteSet(Counting(k) \ {m})
        /\ Cardinality(Counting(k) \ {m}) = IF m \in Counting(k) THEN Cardinality(Counting(k)) - 1
                                            ELSE Cardinality(Counting(k))
        BY <1>2, FS_RemoveElement
  <2>2. Cardinality(Counting(k)) \in Nat
        BY <1>2, FS_CardinalityType
  <2>3. ~Updates(m) /\ k = m.for => m \in Counting(k)
        BY DEF Counting, Updates
  <2> QED
      BY <1>1, <2>1, <2>2, <2>3
<1>3. \A q \in net' : q.for # NoMsg => \E p \in net : p.for = q.for /\ (Gnbs(q) <=> Gnbs(p))
      OBVIOUS
<1>4. Pays(NoMsg)
  <2>1. ASSUME NEW k \in Msgs, IsFiniteSet(Counting(k))
        PROVE  /\ IsFiniteSet(Counting(k)')
               /\ Cardinality(Counting(k)') + (IF k = NoMsg THEN 1 ELSE 0) <= Cardinality(Counting(k))
    <3>1. k # NoMsg
          BY NoMsgIs
    <3>2. Cardinality(Counting(k)') \in Nat
          BY <1>2, <2>1, FS_CardinalityType
    <3> QED
        BY <1>2, <2>1, <3>1, <3>2
  <2> QED
      BY <1>3, <2>1 DEF Pays
<1>5. ASSUME ~Updates(m)
      PROVE  Pays(m.for)
  <2>1. ASSUME NEW k \in Msgs, IsFiniteSet(Counting(k))
        PROVE  /\ IsFiniteSet(Counting(k)')
               /\ Cardinality(Counting(k)') + (IF k = m.for THEN 1 ELSE 0) <= Cardinality(Counting(k))
    <3>1. Cardinality(Counting(k)') \in Nat
          BY <1>2, <2>1, FS_CardinalityType
    <3> QED
        BY <1>2, <1>5, <2>1, <3>1
  <2> QED
      BY <1>3, <2>1 DEF Pays
<1> QED
    BY <1>4, <1>5

\* A request is answered.
LEMMA AnswerPays ==
  ASSUME NEW m \in net, NEW a, net' = (net \ {m}) \cup {a}, a.for = m.for,
         Updates(a) <=> Updates(m), Gnbs(a) <=> Gnbs(m)
  PROVE  Pays(NoMsg)
<1>1. ASSUME NEW k \in Msgs, IsFiniteSet(Counting(k))
      PROVE  /\ IsFiniteSet(Counting(k)')
             /\ Cardinality(Counting(k)') + (IF k = NoMsg THEN 1 ELSE 0) <= Cardinality(Counting(k))
  <2>1. /\ IsFiniteSet(Counting(k) \ {m})
        /\ Cardinality(Counting(k) \ {m}) = IF m \in Counting(k) THEN Cardinality(Counting(k)) - 1
                                            ELSE Cardinality(Counting(k))
        BY <1>1, FS_RemoveElement
  <2>2. Cardinality(Counting(k)) \in Nat /\ k # NoMsg
        BY <1>1, FS_CardinalityType, NoMsgIs
  <2>3. CASE m \in Counting(k)
    <3>1. Counting(k)' = (Counting(k) \ {m}) \cup {a}
          BY <2>3 DEF Counting, Updates
    <3>2. /\ IsFiniteSet((Counting(k) \ {m}) \cup {a})
          /\ Cardinality((Counting(k) \ {m}) \cup {a})
               = IF a \in Counting(k) \ {m} THEN Cardinality(Counting(k) \ {m})
                 ELSE Cardinality(Counting(k) \ {m}) + 1
          BY <2>1, FS_AddElement
    <3> QED
        BY <2>1, <2>2, <2>3, <3>1, <3>2
  <2>4. CASE m \notin Counting(k)
    <3>1. Counting(k)' = Counting(k)
          BY <2>4 DEF Counting, Updates
    <3> QED
        BY <1>1, <2>2, <3>1
  <2> QED
      BY <2>3, <2>4
<1>2. \A q \in net' : q.for # NoMsg => \E p \in net : p.for = q.for /\ (Gnbs(q) <=> Gnbs(p))
      OBVIOUS
<1> QED
    BY <1>1, <1>2 DEF Pays

\* Events that are about no message are sent, or none.
LEMMA OthersPay ==
  ASSUME NEW X, net' = net \cup X, \A x \in X : x.for = NoMsg
  PROVE  Pays(NoMsg)
<1>1. \A k \in Msgs : Counting(k)' = Counting(k)
      BY NoMsgIs DEF Counting
<1>2. \A q \in net' : q.for # NoMsg => \E p \in net : p.for = q.for /\ (Gnbs(q) <=> Gnbs(p))
      OBVIOUS
<1>3. ASSUME NEW k \in Msgs, IsFiniteSet(Counting(k))
      PROVE  /\ IsFiniteSet(Counting(k)')
             /\ Cardinality(Counting(k)') + (IF k = NoMsg THEN 1 ELSE 0) <= Cardinality(Counting(k))
  <2>1. Cardinality(Counting(k)) \in Nat /\ k # NoMsg
        BY <1>3, FS_CardinalityType, NoMsgIs
  <2> QED
      BY <1>1, <1>3, <2>1
<1> QED
    BY <1>2, <1>3 DEF Pays

-----------------------------------------------------------------------------
(* What the steps do.                                                      *)

\* The tables lead to the same sessions as before.
TablesStay ==
  /\ session_list' = session_list /\ session_id_map' = session_id_map /\ failed' = failed
  /\ \A o \in Objects : /\ pdu'[o].st = pdu[o].st /\ pdu'[o].sig = pdu[o].sig
                        /\ pdu'[o].ngap = pdu[o].ngap /\ pdu'[o].res = pdu[o].res

\* No handler works: kept messages stay or go, counts go on for what is paid, or are stray.
Settles(paid) ==
  /\ th' = th /\ Pays(paid)
  /\ \A i \in Slots : ngap_msg_list'[i] \in {ngap_msg_list[i], NoMsg}
  /\ \A k \in Msgs :
       /\ msg'[k].ngap = msg[k].ngap /\ msg'[k].dir = msg[k].dir
       /\ msg'[k].owed = msg[k].owed - (IF k = paid THEN 1 ELSE 0)
       /\ \/ msg'[k].fate = msg[k].fate
          \/ /\ msg'[k].fate \notin {"none", "handled", "kept"}
             /\ \E i \in Slots : ngap_msg_list[i] = k /\ ngap_msg_list'[i] = NoMsg
  /\ \A n \in NgapIds :
       \/ ngap'[n].cur = NoMsg /\ th[n].k = NoMsg
       \/ /\ ngap'[n].cur = ngap[n].cur /\ ngap'[n].count = ngap[n].count
          /\ \/ ngap'[n].rsp = ngap[n].rsp /\ ngap'[n].stray = ngap[n].stray
             \/ /\ ngap'[n].rsp = ngap[n].rsp + 1
                /\ ngap'[n].stray \/ (~ngap[n].stray /\ paid = ngap[n].cur)

\* What EarlyOnlyByStray and LostOnlyByNamesake say of a step.
EarlyStep ==
  \A n \in NgapIds :
    LET k == ngap_msg_list[n] IN
    k # NoMsg /\ msg[k].ngap = n /\ msg'[k].fate \in {"early", "wrong"} =>
      ngap'[n].stray \/ timers' # timers
LostStep ==
  \A i \in Slots :
    LET k == ngap_msg_list[i] IN
    k # NoMsg /\ msg'[k].fate = "lost" /\ ngap_msg_list'[i] = NoMsg =>
      \E o \in Objects : pdu[o].st = "live" /\ i \in {pdu[o].sig, pdu[o].ngap}
                        /\ (i # pdu[o].sig => msg[k].dir = "gnb")

\* Nothing is kept or passed on.
LEMMA NothingPasses ==
  ASSUME TypeInv, KeptInv, \A k \in Msgs : msg[k].fate = "kept" => msg'[k].fate = "kept"
  PROVE  EarlyStep /\ LostStep
<1>1. \A i \in Slots : ngap_msg_list[i] # NoMsg => msg'[ngap_msg_list[i]].fate = "kept"
      BY DEF TypeInv, KeptInv
<1> QED
    BY <1>1, SlotsAre DEF EarlyStep, LostStep

\* Steps that leave messages and counts alone.
LEMMA AsideSettles ==
  ASSUME TypeInv, Pays(NoMsg), UNCHANGED <<th, ngap_msg_list, msg, ngap>>
  PROVE  Settles(NoMsg)
<1>1. \A k \in Msgs : msg[k].owed \in Nat /\ k # NoMsg
      BY NoMsgIs DEF TypeInv, Message
<1>2. \A k \in Msgs : msg'[k].owed = msg[k].owed - (IF k = NoMsg THEN 1 ELSE 0)
      BY <1>1
<1> QED
    BY <1>2 DEF Settles
\* Steps that leave the messages alone pass on and throw away none.
LEMMA AsidePasses ==
  ASSUME TypeInv, KeptInv, msg' = msg
  PROVE  EarlyStep /\ LostStep
BY NothingPasses

-----------------------------------------------------------------------------
(* The media gateway's steps, and those that ask for nothing new.          *)

\* The media gateway takes an event; the signalling gateway's state stays.
LEMMA MediaStepIs ==
  ASSUME TypeInv, NEW m \in net, MediaStep(m)
  PROVE  /\ UNCHANGED <<tables, ngap_msg_list, pdu, timers, ngap, th, msg, failed>>
         /\ media' \in [MediaIds -> MediaSess \cup {NULL}]
         /\ \/ net' = net \ {m}
            \/ \E a \in Event : /\ net' = (net \ {m}) \cup {a} /\ a.for = m.for
                                /\ (Updates(a) <=> Updates(m)) /\ (Gnbs(a) <=> Gnbs(m))
<1>0. m \in Event /\ media \in [MediaIds -> MediaSess \cup {NULL}]
      BY DEF TypeInv
<1>1. CASE HandleUpfSetupReq(m)
  <2>0. m.type = "UPF_SETUP_REQ" /\ UNCHANGED <<tables, ngap_msg_list, pdu, timers, ngap, th, msg, failed>>
        BY <1>1 DEF HandleUpfSetupReq
  <2>1. CASE \E i \in MediaIds :
               /\ media' = [media EXCEPT ![i] = [sig |-> m.sig, gnb |-> NULL, obj |-> m.obj]]
               /\ AnswerWith(m, "UPF_SETUP_RSP", m.sig, i)
    <3>1. PICK i \in MediaIds : /\ media' = [media EXCEPT ![i] = [sig |-> m.sig, gnb |-> NULL, obj |-> m.obj]]
                                /\ AnswerWith(m, "UPF_SETUP_RSP", m.sig, i)
          BY <2>1
    <3>2. m.sig \in Ids /\ "UPF_SETUP_RSP" \in Events /\ [sig |-> m.sig, gnb |-> NULL, obj |-> m.obj] \in MediaSess
          BY <1>0 DEF Event, Events, MediaSess
    <3>a. PICK a : a = Answer(m, "UPF_SETUP_RSP", m.sig, i)
          OBVIOUS
    <3>3. a \in Event /\ a.for = m.for /\ a.type = "UPF_SETUP_RSP"
          BY <1>0, <3>2, <3>a, AnswersAre
    <3>4. net' = (net \ {m}) \cup {a}
          BY <3>1, <3>a DEF AnswerWith
    <3>5. (Updates(a) <=> Updates(m)) /\ (Gnbs(a) <=> Gnbs(m))
          BY <2>0, <3>3 DEF Updates, Gnbs
    <3>6. media' \in [MediaIds -> MediaSess \cup {NULL}]
          BY <1>0, <3>1, <3>2
    <3> QED
        BY <2>0, <3>3, <3>4, <3>5, <3>6
  <2>2. CASE Gone(m) /\ UNCHANGED media
        BY <1>0, <2>0, <2>2 DEF Gone
  <2> QED
      BY <1>1, <2>1, <2>2 DEF HandleUpfSetupReq
<1>2. CASE HandleUpfUpdateReq(m)
  <2>0. /\ m.type = "UPF_UPDATE_REQ" /\ UNCHANGED <<tables, ngap_msg_list, pdu, timers, ngap, th, msg, failed>>
        /\ media' = media
        BY <1>2 DEF HandleUpfUpdateReq
  <2>1. PICK i \in Named(m) : i # NULL /\ media[i] # NULL /\ AnswerWith(m, "UPF_UPDATE_RSP", media[i].sig, i)
        BY <1>2 DEF HandleUpfUpdateReq
  <2>2. i \in MediaIds
        BY <1>0, <2>1 DEF Named, Event
  <2>3. media[i].sig \in Ids /\ "UPF_UPDATE_RSP" \in Events
        BY <1>0, <2>1, <2>2 DEF MediaSess, Events
  <2>a. PICK a : a = Answer(m, "UPF_UPDATE_RSP", media[i].sig, i)
        OBVIOUS
  <2>4. a \in Event /\ a.for = m.for /\ a.type = "UPF_UPDATE_RSP"
        BY <1>0, <2>2, <2>3, <2>a, AnswersAre
  <2>5. net' = (net \ {m}) \cup {a}
        BY <2>1, <2>a DEF AnswerWith
  <2>6. (Updates(a) <=> Updates(m)) /\ (Gnbs(a) <=> Gnbs(m))
        BY <2>0, <2>4 DEF Updates, Gnbs
  <2> QED
      BY <1>0, <2>0, <2>4, <2>5, <2>6
<1>3. CASE HandleGnbSetupReq(m)
  <2>0. m.type = "GNB_SETUP_REQ" /\ UNCHANGED <<tables, ngap_msg_list, pdu, timers, ngap, th, msg, failed>>
        BY <1>3 DEF HandleGnbSetupReq
  <2>1. PICK i \in Named(m) :
          IF i # NULL /\ media[i] # NULL /\ media[i].sig = m.sig
          THEN media' = [media EXCEPT ![i].gnb = m.gnb] /\ AnswerWith(m, "GNB_SETUP_RSP", m.sig, i)
          ELSE Gone(m) /\ UNCHANGED media
        BY <1>3 DEF HandleGnbSetupReq
  <2>2. CASE i # NULL /\ media[i] # NULL /\ media[i].sig = m.sig
    <3>1. i \in MediaIds
          BY <1>0, <2>2 DEF Named, Event
    <3>2. media[i] \in MediaSess /\ m.sig \in Ids /\ m.gnb \in GnbEnds \cup {NULL} /\ "GNB_SETUP_RSP" \in Events
          BY <1>0, <2>2, <3>1 DEF Event, Events
    <3>3. media' = [media EXCEPT ![i] = [media[i] EXCEPT !.gnb = m.gnb]]
          BY <2>1, <2>2
    <3>4. [media[i] EXCEPT !.gnb = m.gnb] \in MediaSess
          BY <3>2 DEF MediaSess
    <3>a. PICK a : a = Answer(m, "GNB_SETUP_RSP", m.sig, i)
          OBVIOUS
    <3>5. a \in Event /\ a.for = m.for /\ a.type = "GNB_SETUP_RSP"
          BY <1>0, <3>1, <3>2, <3>a, AnswersAre
    <3>6. net' = (net \ {m}) \cup {a}
          BY <2>1, <2>2, <3>a DEF AnswerWith
    <3>7. (Updates(a) <=> Updates(m)) /\ (Gnbs(a) <=> Gnbs(m))
          BY <2>0, <3>5 DEF Updates, Gnbs
    <3>8. media' \in [MediaIds -> MediaSess \cup {NULL}]
          BY <1>0, <3>3, <3>4
    <3> QED
        BY <2>0, <3>5, <3>6, <3>7, <3>8
  <2>3. CASE ~(i # NULL /\ media[i] # NULL /\ media[i].sig = m.sig)
        BY <1>0, <2>0, <2>1, <2>3 DEF Gone
  <2> QED
      BY <2>2, <2>3
<1>4. CASE HandleReleaseReq(m)
  <2>0. UNCHANGED <<tables, ngap_msg_list, pdu, timers, ngap, th, msg, failed>> /\ net' = net \ {m}
        BY <1>4 DEF HandleReleaseReq, Gone
  <2>1. media' \in [MediaIds -> MediaSess \cup {NULL}]
        BY <1>0, <1>4 DEF HandleReleaseReq
  <2> QED
      BY <2>0, <2>1
<1> QED
    BY <1>1, <1>2, <1>3, <1>4 DEF MediaStep

\* The media gateway's steps settle.
LEMMA MediaStepSettles ==
  ASSUME TypeInv, KeptInv, NEW m \in net, MediaStep(m)
  PROVE  TypeInv' /\ TablesStay /\ Settles(NoMsg) /\ EarlyStep /\ LostStep
<1>1. /\ UNCHANGED <<tables, ngap_msg_list, pdu, timers, ngap, th, msg, failed>>
      /\ media' \in [MediaIds -> MediaSess \cup {NULL}]
      BY MediaStepIs
<1>2. net' \subseteq Event
      BY MediaStepIs DEF TypeInv
<1>3. TypeInv'
      BY <1>1, <1>2 DEF TypeInv, tables
<1>4. Pays(NoMsg)
      BY MediaStepIs, GonePays, AnswerPays
<1> QED
    BY <1>1, <1>3, <1>4, AsideSettles, AsidePasses DEF TablesStay, tables

\* A UE gets its NGAP session.
LEMMA NewUeSettles ==
  ASSUME TypeInv, KeptInv, NEW n \in NgapIds, NewUe(n)
  PROVE  TypeInv' /\ TablesStay /\ Settles(NoMsg) /\ EarlyStep /\ LostStep
<1>0. /\ UNCHANGED <<tables, ngap_msg_list, pdu, timers, th, net, media, msg, failed>>
      /\ ngap' = [ngap EXCEPT ![n] = [ngap[n] EXCEPT !.up = TRUE]]
      BY DEF NewUe
<1>1. [ngap[n] EXCEPT !.up = TRUE] \in NgapRec
  <2>1. ngap[n] \in NgapRec
        BY DEF TypeInv
  <2> QED
      BY <2>1 DEF NgapRec
<1>2. ngap' \in [NgapIds -> NgapRec]
      BY <1>0, <1>1 DEF TypeInv
<1>3. TypeInv'
      BY <1>0, <1>2 DEF TypeInv, tables
<1>4. \A q \in NgapIds : /\ ngap'[q].cur = ngap[q].cur /\ ngap'[q].count = ngap[q].count
                         /\ ngap'[q].rsp = ngap[q].rsp /\ ngap'[q].stray = ngap[q].stray
      BY <1>0 DEF TypeInv, NgapRec
<1>5. Pays(NoMsg)
  <2>x. PICK X : X = {}
        OBVIOUS
  <2>1. net' = net \cup X /\ \A x \in X : x.for = NoMsg
        BY <1>0, <2>x
  <2> QED
      BY <2>1, OthersPay
<1>6. \A k \in Msgs : msg'[k].owed = msg[k].owed - (IF k = NoMsg THEN 1 ELSE 0)
      BY <1>0, NoMsgIs DEF TypeInv, Message
<1>7. Settles(NoMsg)
      BY <1>0, <1>4, <1>5, <1>6 DEF Settles
<1> QED
    BY <1>0, <1>3, <1>7, AsidePasses DEF TablesStay, tables

\* A handover ends: sessions have a new endpoint.
LEMMA FinishHoSettles ==
  ASSUME TypeInv, KeptInv, NEW n \in NgapIds, NEW g \in GnbEnds, finishHo(n, g)
  PROVE  TypeInv' /\ TablesStay /\ Settles(NoMsg) /\ EarlyStep /\ LostStep
<1>o. PICK O : O = Reached(n, ngap[n].vec)
      OBVIOUS
<1>0. /\ UNCHANGED <<tables, ngap_msg_list, timers, th, media, msg, failed>>
      /\ ngap' = [ngap EXCEPT ![n] = [ngap[n] EXCEPT !.ho = ngap[n].ho + 1]]
      /\ pdu' = [o \in Objects |-> IF o \in O THEN [pdu[o] EXCEPT !.gnb = g] ELSE pdu[o]]
      /\ net' = net \cup {GnbSetupReq(o, g, NoMsg) : o \in O}
      BY <1>o DEF finishHo
<1>1. O \subseteq Objects
  <2>1. ngap[n].vec \subseteq Pdus
        BY DEF TypeInv, NgapRec
  <2> QED
      BY <1>o, <2>1, ReachIs DEF Reached
<1>2. [ngap[n] EXCEPT !.ho = ngap[n].ho + 1] \in NgapRec
  <2>1. ngap[n] \in NgapRec
        BY DEF TypeInv
  <2>2. ngap[n].ho + 1 \in Nat
        BY <2>1 DEF NgapRec
  <2> QED
      BY <2>1, <2>2 DEF NgapRec
<1>3. ngap' \in [NgapIds -> NgapRec]
      BY <1>0, <1>2 DEF TypeInv
<1>4. \A q \in NgapIds : /\ ngap'[q].cur = ngap[q].cur /\ ngap'[q].count = ngap[q].count
                         /\ ngap'[q].rsp = ngap[q].rsp /\ ngap'[q].stray = ngap[q].stray
      BY <1>0 DEF TypeInv, NgapRec
<1>5. ASSUME NEW o \in Objects
      PROVE  [pdu[o] EXCEPT !.gnb = g] \in PduRec /\ LET p == [pdu[o] EXCEPT !.gnb = g] IN
               p.st = pdu[o].st /\ p.sig = pdu[o].sig /\ p.ngap = pdu[o].ngap /\ p.res = pdu[o].res
  <2>1. pdu[o] \in PduRec
        BY DEF TypeInv
  <2> QED
      BY <2>1 DEF PduRec
<1>6. pdu' \in [Objects -> PduRec] /\ \A o \in Objects :
        pdu'[o].st = pdu[o].st /\ pdu'[o].sig = pdu[o].sig /\ pdu'[o].ngap = pdu[o].ngap /\ pdu'[o].res = pdu[o].res
      BY <1>0, <1>5 DEF TypeInv
<1>7. \A o \in O : GnbSetupReq(o, g, NoMsg) \in Event /\ GnbSetupReq(o, g, NoMsg).for = NoMsg
      BY <1>1, RequestsAre DEF GnbSetupReq, Req
<1>8. net' \subseteq Event
      BY <1>0, <1>7 DEF TypeInv
<1>9. TypeInv'
      BY <1>0, <1>3, <1>6, <1>8 DEF TypeInv, tables
<1>10. Pays(NoMsg)
  <2>x. PICK X : X = {GnbSetupReq(o, g, NoMsg) : o \in O}
        OBVIOUS
  <2>1. net' = net \cup X /\ \A x \in X : x.for = NoMsg
        BY <1>0, <1>7, <2>x
  <2> QED
      BY <2>1, OthersPay
<1>11. \A k \in Msgs : msg'[k].owed = msg[k].owed - (IF k = NoMsg THEN 1 ELSE 0)
       BY <1>0, NoMsgIs DEF TypeInv, Message
<1>12. Settles(NoMsg)
       BY <1>0, <1>4, <1>10, <1>11 DEF Settles
<1> QED
    BY <1>0, <1>6, <1>9, <1>12, AsidePasses DEF TablesStay, tables

\* Nothing happens.
LEMMA StutterSettles ==
  ASSUME TypeInv, KeptInv, UNCHANGED vars
  PROVE  TypeInv' /\ TablesStay /\ Settles(NoMsg) /\ EarlyStep /\ LostStep
<1>0. UNCHANGED <<tables, ngap_msg_list, pdu, timers, ngap, th, net, media, msg, failed>>
      BY DEF vars
<1>1. TypeInv'
      BY <1>0 DEF TypeInv, tables
<1>3. Pays(NoMsg)
  <2>x. PICK X : X = {}
        OBVIOUS
  <2>1. net' = net \cup X /\ \A x \in X : x.for = NoMsg
        BY <1>0, <2>x
  <2> QED
      BY <2>1, OthersPay
<1> QED
    BY <1>0, <1>1, <1>3, AsideSettles, AsidePasses DEF TablesStay, tables

-----------------------------------------------------------------------------
(* Answers and timeouts.                                                   *)

\* One answer, or one timeout, more.
LEMMA CountedIs ==
  ASSUME TypeInv, NEW n \in NgapIds, NEW for
  PROVE  /\ Counted(n, for) \in [NgapIds -> NgapRec]
         /\ Counted(n, for)[n].rsp = ngap[n].rsp + 1
         /\ Counted(n, for)[n].stray <=> (ngap[n].stray \/ for = NoMsg \/ for # ngap[n].cur)
         /\ \A q \in NgapIds : /\ Counted(n, for)[q].cur = ngap[q].cur
                               /\ Counted(n, for)[q].count = ngap[q].count
                               /\ q # n => Counted(n, for)[q] = ngap[q]
<1>0. ngap \in [NgapIds -> NgapRec] /\ ngap[n] \in NgapRec
      BY DEF TypeInv
<1>s. PICK s \in BOOLEAN : s = (ngap[n].stray \/ for = NoMsg \/ for # ngap[n].cur)
      OBVIOUS
<1>a. PICK a : a = [ngap[n] EXCEPT !.rsp = ngap[n].rsp + 1]
      OBVIOUS
<1>1. /\ a \in NgapRec /\ a.rsp = ngap[n].rsp + 1
      /\ a.cur = ngap[n].cur /\ a.count = ngap[n].count /\ a.stray = ngap[n].stray
  <2>1. ngap[n].rsp + 1 \in Nat
        BY <1>0 DEF NgapRec
  <2> QED
      BY <1>0, <1>a, <2>1 DEF NgapRec
<1>b. PICK b : b = [a EXCEPT !.stray = s]
      OBVIOUS
<1>2. /\ b \in NgapRec /\ b.rsp = ngap[n].rsp + 1 /\ b.stray = s
      /\ b.cur = ngap[n].cur /\ b.count = ngap[n].count
      BY <1>1, <1>b DEF NgapRec
<1>3. Counted(n, for) = [ngap EXCEPT ![n] = b]
      BY <1>0, <1>s, <1>a, <1>b, <1>1 DEF Counted
<1>4. Counted(n, for) \in [NgapIds -> NgapRec] /\ Counted(n, for)[n] = b
      /\ \A q \in NgapIds : q # n => Counted(n, for)[q] = ngap[q]
      BY <1>0, <1>2, <1>3
<1> QED
    BY <1>2, <1>4, <1>s

\* One message is paid.
LEMMA PaidIs ==
  ASSUME TypeInv, OwedInv, NEW m \in net, ~Updates(m)
  PROVE  /\ Paid(m) \in [Msgs -> Message]
         /\ \A k \in Msgs : /\ Paid(m)[k].ngap = msg[k].ngap /\ Paid(m)[k].dir = msg[k].dir
                            /\ Paid(m)[k].fate = msg[k].fate
                            /\ Paid(m)[k].owed = msg[k].owed - (IF k = m.for THEN 1 ELSE 0)
<1>0. msg \in [Msgs -> Message] /\ m.for \in Msgs \cup {NoMsg}
      BY DEF TypeInv, Event
<1>1. CASE m.for = NoMsg
  <2>1. Paid(m) = msg
        BY <1>1 DEF Paid
  <2>2. \A k \in Msgs : k # NoMsg /\ msg[k].owed \in Nat
        BY <1>0, NoMsgIs DEF Message
  <2> QED
      BY <1>0, <1>1, <2>1, <2>2
<1>2. CASE m.for # NoMsg
  <2>k. PICK k \in Msgs : k = m.for
        BY <1>0, <1>2
  <2>1. msg[k] \in Message
        BY <1>0
  <2>2. msg[k].owed - 1 \in Nat
    <3>1. m \in Counting(k) /\ IsFiniteSet(Counting(k)) /\ Cardinality(Counting(k)) <= msg[k].owed
          BY <2>k DEF Counting, Updates, OwedInv
    <3>2. Cardinality(Counting(k)) \in Nat /\ Cardinality(Counting(k)) # 0
          BY <3>1, FS_CardinalityType, FS_EmptySet
    <3>3. msg[k].owed \in Nat
          BY <2>1 DEF Message
    <3> QED
        BY <3>1, <3>2, <3>3
  <2>d. PICK d : d = [msg[k] EXCEPT !.owed = msg[k].owed - 1]
        OBVIOUS
  <2>3. /\ d \in Message /\ d.ngap = msg[k].ngap /\ d.dir = msg[k].dir /\ d.fate = msg[k].fate
        /\ d.owed = msg[k].owed - 1
        BY <2>1, <2>2, <2>d DEF Message
  <2>4. Paid(m) = [msg EXCEPT ![k] = d]
        BY <1>2, <2>k, <2>d DEF Paid
  <2>5. Paid(m) \in [Msgs -> Message] /\ Paid(m)[k] = d /\ \A q \in Msgs : q # k => Paid(m)[q] = msg[q]
        BY <1>0, <2>3, <2>4
  <2>6. \A q \in Msgs : msg[q].owed \in Nat
        BY <1>0 DEF Message
  <2> QED
      BY <2>k, <2>3, <2>5, <2>6
<1> QED
    BY <1>1, <1>2

\* The fate of one message is sealed.
LEMMA FateIs ==
  ASSUME NEW M \in [Msgs -> Message], NEW k \in Msgs, NEW f \in {"sent", "early", "wrong", "lost"},
         NEW P, P = [M EXCEPT ![k].fate = f]
  PROVE  /\ P \in [Msgs -> Message]
         /\ \A q \in Msgs : /\ P[q].ngap = M[q].ngap /\ P[q].dir = M[q].dir /\ P[q].owed = M[q].owed
                            /\ P[q].fate = IF q = k THEN f ELSE M[q].fate
<1>d. PICK d : d = [M[k] EXCEPT !.fate = f]
      OBVIOUS
<1>1. M[k] \in Message
      OBVIOUS
<1>2. d \in Message /\ d.ngap = M[k].ngap /\ d.dir = M[k].dir /\ d.owed = M[k].owed /\ d.fate = f
      BY <1>1, <1>d DEF Message
<1>3. P = [M EXCEPT ![k] = d]
      BY <1>d
<1>4. P \in [Msgs -> Message] /\ P[k] = d /\ \A q \in Msgs : q # k => P[q] = M[q]
      BY <1>2, <1>3
<1>5. \A q \in Msgs : /\ P[q].ngap = M[q].ngap /\ P[q].dir = M[q].dir /\ P[q].owed = M[q].owed
                      /\ P[q].fate = IF q = k THEN f ELSE M[q].fate
      BY <1>2, <1>4
<1> QED
    BY <1>4, <1>5

\* An answer is counted, may pass the message on, and stops the timer: what becomes of slots
\* and messages.
LEMMA CountAndPassIs ==
  ASSUME TypeInv, OwedInv, NEW m \in net, ~Updates(m), NEW dir \in {"amf", "gnb"}, NEW o \in Objects,
         NEW n \in NgapIds, n = pdu[o].ngap, NEW s \in Slots, s = pdu[o].sig, CountAndPass(m, o, dir)
  PROVE  /\ ngap' = Counted(n, m.for)
         /\ ngap_msg_list' \in [Slots -> Msgs \cup {NoMsg}] /\ msg' \in [Msgs -> Message]
         /\ \A i \in Slots : ngap_msg_list'[i] \in {ngap_msg_list[i], NoMsg}
         /\ ngap_msg_list'[s] = NoMsg
         /\ \A k \in Msgs :
              /\ msg'[k].ngap = msg[k].ngap /\ msg'[k].dir = msg[k].dir
              /\ msg'[k].owed = msg[k].owed - (IF k = m.for THEN 1 ELSE 0)
              /\ \/ msg'[k].fate = msg[k].fate
                 \/ ngap_msg_list[s] = k /\ msg'[k].fate = "lost"
                 \/ /\ ngap_msg_list[n] = k /\ ngap_msg_list'[n] = NoMsg /\ Enough(n)
                    /\ msg'[k].fate = IF msg[k].dir # dir THEN (IF dir = "amf" THEN "lost" ELSE "wrong")
                                      ELSE IF msg'[k].owed > 0 THEN "early" ELSE "sent"
<1>0. ngap_msg_list \in [Slots -> Msgs \cup {NoMsg}] /\ n \in Slots /\ NoMsg \notin Msgs
      BY SlotsAre, NoMsgIs DEF TypeInv
<1>k. PICK k : k = ngap_msg_list[n]
      OBVIOUS
<1>a. PICK paid : paid = IF m.for = NoMsg THEN 0 ELSE 1
      OBVIOUS
<1>b. PICK owed : owed = IF m.for = k THEN msg[k].owed - paid ELSE msg[k].owed
      OBVIOUS
<1>f. PICK f : f = IF msg[k].dir # dir THEN (IF dir = "amf" THEN "lost" ELSE "wrong")
                   ELSE IF owed > 0 THEN "early" ELSE "sent"
      OBVIOUS
<1>p. PICK pass \in BOOLEAN : pass = (Enough(n) /\ k # NoMsg)
      OBVIOUS
<1>M. PICK M : M = IF pass THEN [Paid(m) EXCEPT ![k].fate = f] ELSE Paid(m)
      OBVIOUS
<1>L. PICK L : L = IF pass THEN [ngap_msg_list EXCEPT ![n] = NoMsg] ELSE ngap_msg_list
      OBVIOUS
<1>1. ngap' = Counted(n, m.for) /\ StopSessTimer(M, L, o)
      BY <1>k, <1>a, <1>b, <1>f, <1>p, <1>M, <1>L DEF CountAndPass
<1>2. /\ L \in [Slots -> Msgs \cup {NoMsg}]
      /\ \A i \in Slots : L[i] = IF pass /\ i = n THEN NoMsg ELSE ngap_msg_list[i]
      BY <1>0, <1>L
<1>3. /\ M \in [Msgs -> Message]
      /\ \A q \in Msgs : /\ M[q].ngap = msg[q].ngap /\ M[q].dir = msg[q].dir
                         /\ M[q].owed = msg[q].owed - (IF q = m.for THEN 1 ELSE 0)
                         /\ M[q].fate = IF pass /\ q = k THEN f ELSE msg[q].fate
  <2>P. PICK P : P = Paid(m)
        OBVIOUS
  <2>1. /\ P \in [Msgs -> Message]
        /\ \A q \in Msgs : /\ P[q].ngap = msg[q].ngap /\ P[q].dir = msg[q].dir
                           /\ P[q].fate = msg[q].fate
                           /\ P[q].owed = msg[q].owed - (IF q = m.for THEN 1 ELSE 0)
        BY <2>P, PaidIs
  <2>2. CASE ~pass
        BY <1>M, <2>P, <2>1, <2>2
  <2>3. CASE pass
    <3>1. k \in Msgs /\ f \in {"sent", "early", "wrong", "lost"}
          BY <1>0, <1>k, <1>f, <1>p, <2>3
    <3>2. M = [P EXCEPT ![k].fate = f]
          BY <1>M, <2>3, <2>P
    <3>3. /\ M \in [Msgs -> Message]
          /\ \A q \in Msgs : /\ M[q].ngap = P[q].ngap /\ M[q].dir = P[q].dir /\ M[q].owed = P[q].owed
                             /\ M[q].fate = IF q = k THEN f ELSE P[q].fate
          BY <2>1, <3>1, <3>2, FateIs
    <3> QED
        BY <2>1, <2>3, <3>3
  <2> QED
      BY <2>2, <2>3
<1>4. /\ ngap_msg_list' = [L EXCEPT ![s] = NoMsg]
      /\ msg' = IF L[s] = NoMsg THEN M ELSE [M EXCEPT ![L[s]].fate = "lost"]
      BY <1>1 DEF StopSessTimer
<1>5. /\ ngap_msg_list' \in [Slots -> Msgs \cup {NoMsg}]
      /\ \A i \in Slots : ngap_msg_list'[i] = IF i = s THEN NoMsg ELSE L[i]
      BY <1>2, <1>4
<1>6. /\ msg' \in [Msgs -> Message]
      /\ \A q \in Msgs : /\ msg'[q].ngap = M[q].ngap /\ msg'[q].dir = M[q].dir /\ msg'[q].owed = M[q].owed
                         /\ msg'[q].fate = IF q = L[s] THEN "lost" ELSE M[q].fate
  <2>1. CASE L[s] = NoMsg
        BY <1>0, <1>3, <1>4, <2>1
  <2>2. CASE L[s] # NoMsg
    <3>0. "lost" \in {"sent", "early", "wrong", "lost"}
          OBVIOUS
    <3>1. PICK x \in Msgs : x = L[s]
          BY <1>2, <2>2
    <3>2. msg' = [M EXCEPT ![x].fate = "lost"]
          BY <1>4, <2>2, <3>1
    <3>3. /\ msg' \in [Msgs -> Message]
          /\ \A q \in Msgs : /\ msg'[q].ngap = M[q].ngap /\ msg'[q].dir = M[q].dir /\ msg'[q].owed = M[q].owed
                             /\ msg'[q].fate = IF q = x THEN "lost" ELSE M[q].fate
          BY <1>3, <3>0, <3>2, FateIs
    <3> QED
        BY <3>1, <3>3
  <2> QED
      BY <2>1, <2>2
<1>7. pass => owed = msg'[k].owed /\ k \in Msgs
  <2>1. SUFFICES ASSUME pass
                 PROVE  owed = msg'[k].owed /\ k \in Msgs
        OBVIOUS
  <2>2. k \in Msgs
        BY <1>0, <1>k, <1>p, <2>1
  <2>3. msg'[k].owed = msg[k].owed - (IF k = m.for THEN 1 ELSE 0)
        BY <1>3, <1>6, <2>2
  <2>4. msg[k].owed \in Nat
        BY <2>2 DEF TypeInv, Message
  <2> QED
      BY <1>0, <1>a, <1>b, <2>2, <2>3, <2>4
<1>8. ASSUME NEW q \in Msgs
      PROVE  /\ msg'[q].ngap = msg[q].ngap /\ msg'[q].dir = msg[q].dir
             /\ msg'[q].owed = msg[q].owed - (IF q = m.for THEN 1 ELSE 0)
             /\ \/ msg'[q].fate = msg[q].fate
                \/ ngap_msg_list[s] = q /\ msg'[q].fate = "lost"
                \/ /\ ngap_msg_list[n] = q /\ ngap_msg_list'[n] = NoMsg /\ Enough(n)
                   /\ msg'[q].fate = IF msg[q].dir # dir THEN (IF dir = "amf" THEN "lost" ELSE "wrong")
                                     ELSE IF msg'[q].owed > 0 THEN "early" ELSE "sent"
  <2>1. CASE q = L[s]
    <3>1. ngap_msg_list[s] = q
          BY <1>0, <1>2, <2>1
    <3> QED
        BY <1>3, <1>6, <2>1, <3>1
  <2>2. CASE q # L[s] /\ pass /\ q = k
    <3>1. ngap_msg_list[n] = q /\ ngap_msg_list'[n] = NoMsg /\ Enough(n)
          BY <1>0, <1>k, <1>p, <1>2, <1>5, <2>2
    <3>2. msg'[q].fate = f
          BY <1>3, <1>6, <2>2
    <3>3. f = IF msg[q].dir # dir THEN (IF dir = "amf" THEN "lost" ELSE "wrong")
              ELSE IF msg'[q].owed > 0 THEN "early" ELSE "sent"
          BY <1>f, <1>7, <2>2
    <3> QED
        BY <1>3, <1>6, <3>1, <3>2, <3>3
  <2>3. CASE q # L[s] /\ ~(pass /\ q = k)
        BY <1>3, <1>6, <2>3
  <2> QED
      BY <2>1, <2>2, <2>3
<1>9. /\ \A i \in Slots : ngap_msg_list'[i] \in {ngap_msg_list[i], NoMsg}
      /\ ngap_msg_list'[s] = NoMsg
      BY <1>2, <1>5
<1> QED
    BY <1>1, <1>5, <1>6, <1>8, <1>9

\* What an answer to a UE's last message can pass on is that message, paid in full.
LEMMA PassedInFull ==
  ASSUME TypeInv, AskedInv, OwedInv, CountInv, OlderInv, HandlerInv,
         NEW m \in net, ~Updates(m), NEW n \in NgapIds, ~ngap[n].stray, m.for # NoMsg,
         m.for = ngap[n].cur, Enough(n), NEW k \in Msgs, k = ngap_msg_list[n], msg[k].ngap = n
  PROVE  k = m.for /\ msg[k].owed = 1 /\ (msg[k].dir = "gnb" <=> Gnbs(m))
<1>c. PICK c \in Msgs : c = m.for
      BY DEF TypeInv, Event
<1>0. /\ msg[c].owed \in Nat /\ ngap[n].rsp \in Nat /\ ngap[n].count \in Nat /\ ngap[n].cur = c
      /\ k # NoMsg /\ c # NoMsg
      BY <1>c, NoMsgIs DEF TypeInv, Message, NgapRec
<1>1. m \in Counting(c) /\ IsFiniteSet(Counting(c)) /\ Cardinality(Counting(c)) <= msg[c].owed
      BY <1>c DEF Counting, Updates, OwedInv
<1>2. Cardinality(Counting(c)) \in Nat /\ Cardinality(Counting(c)) # 0
      BY <1>1, FS_CardinalityType, FS_EmptySet
<1>3. msg[c].owed + ngap[n].rsp <= ngap[n].count - Cardinality(th[n].todo)
      BY <1>0 DEF CountInv
<1>4. Cardinality(th[n].todo) \in Nat
  <2>1. th[n].todo \subseteq Pdus /\ IsFiniteSet(Pdus)
        BY PduSessAssumption DEF TypeInv, Work
  <2> QED
      BY <2>1, FS_Subset, FS_CardinalityType
<1>5. ngap[n].rsp + 1 >= ngap[n].count
      BY DEF Enough
<1>6. msg[c].owed <= 1
      BY <1>0, <1>3, <1>4, <1>5
<1>7. k = c
  <2>1. SUFFICES ASSUME k # c
                 PROVE  FALSE
        OBVIOUS
  <2>2. \/ Cardinality(Counting(c)) < msg[c].owed
        \/ Counting(c) = {} /\ (th[n].k = NoMsg \/ msg[c].fate = "handled")
        BY <1>0, <2>1 DEF OlderInv
  <2> QED
      BY <1>0, <1>1, <1>2, <1>6, <2>2
<1>8. msg[c].owed = 1
      BY <1>0, <1>1, <1>2, <1>6
<1>9. msg[c].dir = "gnb" <=> Gnbs(m)
      BY <1>c, <1>0 DEF AskedInv, Gnbs
<1> QED
    BY <1>c, <1>7, <1>8, <1>9

\* The session an answer names is alive and has its UE.
LEMMA AnsweredIs ==
  ASSUME TypeInv, ListInv, NEW i \in Ids, NEW s, s = session_list[i], s # NULL
  PROVE  s \in Objects /\ pdu[s].st = "live" /\ pdu[s].sig = i /\ pdu[s].ngap \in NgapIds /\ i \in Slots
BY SlotsAre DEF TypeInv, ListInv

\* A counted answer settles.
LEMMA CountSettles ==
  ASSUME TypeInv, ListInv, PassInv, NEW m \in net, ~Updates(m), NEW dir \in {"amf", "gnb"},
         dir = "gnb" <=> Gnbs(m), NEW o \in Objects, pdu[o].st = "live", pdu[o].ngap \in NgapIds,
         CountAndPass(m, o, dir), net' = net \ {m}, th' = th
  PROVE  /\ ngap' \in [NgapIds -> NgapRec] /\ ngap_msg_list' \in [Slots -> Msgs \cup {NoMsg}]
         /\ msg' \in [Msgs -> Message]
         /\ Settles(m.for) /\ EarlyStep /\ LostStep
<1>n. PICK n \in NgapIds : n = pdu[o].ngap
      OBVIOUS
<1>s. PICK s \in Slots : s = pdu[o].sig
      BY SlotsAre DEF TypeInv, PduRec
<1>1. /\ ngap' = Counted(n, m.for)
      /\ ngap_msg_list' \in [Slots -> Msgs \cup {NoMsg}] /\ msg' \in [Msgs -> Message]
      /\ \A i \in Slots : ngap_msg_list'[i] \in {ngap_msg_list[i], NoMsg}
      /\ ngap_msg_list'[s] = NoMsg
      /\ \A k \in Msgs :
           /\ msg'[k].ngap = msg[k].ngap /\ msg'[k].dir = msg[k].dir
           /\ msg'[k].owed = msg[k].owed - (IF k = m.for THEN 1 ELSE 0)
           /\ \/ msg'[k].fate = msg[k].fate
              \/ ngap_msg_list[s] = k /\ msg'[k].fate = "lost"
              \/ /\ ngap_msg_list[n] = k /\ ngap_msg_list'[n] = NoMsg /\ Enough(n)
                 /\ msg'[k].fate = IF msg[k].dir # dir THEN (IF dir = "amf" THEN "lost" ELSE "wrong")
                                   ELSE IF msg'[k].owed > 0 THEN "early" ELSE "sent"
      BY <1>n, <1>s, CountAndPassIs DEF PassInv
<1>2. /\ ngap' \in [NgapIds -> NgapRec] /\ ngap'[n].rsp = ngap[n].rsp + 1
      /\ ngap'[n].stray <=> (ngap[n].stray \/ m.for = NoMsg \/ m.for # ngap[n].cur)
      /\ \A q \in NgapIds : /\ ngap'[q].cur = ngap[q].cur /\ ngap'[q].count = ngap[q].count
                            /\ q # n => ngap'[q] = ngap[q]
  <2>g. PICK G : G = Counted(n, m.for)
        OBVIOUS
  <2>1. /\ G \in [NgapIds -> NgapRec] /\ G[n].rsp = ngap[n].rsp + 1
        /\ G[n].stray <=> (ngap[n].stray \/ m.for = NoMsg \/ m.for # ngap[n].cur)
        /\ \A q \in NgapIds : /\ G[q].cur = ngap[q].cur /\ G[q].count = ngap[q].count
                              /\ q # n => G[q] = ngap[q]
        BY <2>g, CountedIs
  <2> QED
      BY <1>1, <2>g, <2>1
<1>3. Pays(m.for)
      BY GonePays
<1>4. \A k \in Msgs : msg'[k].fate \in {"sent", "early", "wrong", "lost"} \/ msg'[k].fate = msg[k].fate
      BY <1>1
<1>5. \A k \in Msgs : \/ msg'[k].fate = msg[k].fate
                      \/ /\ msg'[k].fate \notin {"none", "handled", "kept"}
                         /\ \E i \in Slots : ngap_msg_list[i] = k /\ ngap_msg_list'[i] = NoMsg
      BY <1>1, <1>4, SlotsAre
<1>6. ngap[n].stray \in BOOLEAN
      BY DEF TypeInv, NgapRec
<1>7. \A q \in NgapIds :
        /\ ngap'[q].cur = ngap[q].cur /\ ngap'[q].count = ngap[q].count
        /\ \/ ngap'[q].rsp = ngap[q].rsp /\ ngap'[q].stray = ngap[q].stray
           \/ /\ ngap'[q].rsp = ngap[q].rsp + 1
              /\ ngap'[q].stray \/ (~ngap[q].stray /\ m.for = ngap[q].cur)
  <2>1. ngap'[n].stray \/ (~ngap[n].stray /\ m.for = ngap[n].cur)
        BY <1>2, <1>6
  <2>2. \A q \in NgapIds : q # n => ngap'[q].rsp = ngap[q].rsp /\ ngap'[q].stray = ngap[q].stray
        BY <1>2
  <2>3. ngap'[n].rsp = ngap[n].rsp + 1
        BY <1>2
  <2> QED
      BY <1>2, <2>1, <2>2, <2>3
<1>8. Settles(m.for)
      BY <1>1, <1>3, <1>5, <1>7 DEF Settles
<1>9. ASSUME NEW q \in NgapIds, NEW k, k = ngap_msg_list[q], k # NoMsg, msg[k].ngap = q,
             msg'[k].fate \in {"early", "wrong"}, ~ngap'[q].stray
      PROVE  FALSE
  <2>1. k \in Msgs /\ msg[k].fate = "kept"
        BY <1>9, SlotsAre DEF TypeInv, PassInv, KeptInv
  <2>2. /\ ngap_msg_list[n] = k /\ Enough(n)
        /\ msg'[k].fate = IF msg[k].dir # dir THEN (IF dir = "amf" THEN "lost" ELSE "wrong")
                          ELSE IF msg'[k].owed > 0 THEN "early" ELSE "sent"
        BY <1>1, <1>9, <2>1
  <2>3. q = n
        BY <1>9, <2>2, SlotsAre DEF PassInv, KeptInv
  <2>4. ~ngap[n].stray /\ m.for # NoMsg /\ m.for = ngap[n].cur
        BY <1>2, <1>9, <2>3
  <2>5. k = m.for /\ msg[k].owed = 1 /\ (msg[k].dir = "gnb" <=> Gnbs(m))
        BY <1>9, <2>1, <2>2, <2>3, <2>4, PassedInFull DEF PassInv
  <2>6. msg'[k].owed = msg[k].owed - (IF k = m.for THEN 1 ELSE 0)
        BY <1>1, <2>1
  <2>7. msg'[k].owed = 0
        BY <2>5, <2>6
  <2>8. msg[k].dir \in {"amf", "gnb"}
        BY <2>1 DEF TypeInv, Message
  <2>9. msg[k].dir = dir
        BY <2>5, <2>8
  <2> QED
      BY <1>9, <2>2, <2>7, <2>9
<1>10. EarlyStep
       BY <1>9 DEF EarlyStep
<1>11. ASSUME NEW i \in Slots, NEW k, k = ngap_msg_list[i], k # NoMsg, msg'[k].fate = "lost"
       PROVE  i \in {s, n} /\ (i # s => msg[k].dir = "gnb")
  <2>1. k \in Msgs /\ msg[k].fate = "kept"
        BY <1>11 DEF TypeInv, PassInv, KeptInv
  <2>2. msg[k].dir \in {"amf", "gnb"}
        BY <2>1 DEF TypeInv, Message
  <2>3. ngap_msg_list[s] = k \/ (ngap_msg_list[n] = k /\ msg[k].dir # dir /\ dir = "amf")
    <3>1. \/ msg'[k].fate = msg[k].fate
          \/ ngap_msg_list[s] = k /\ msg'[k].fate = "lost"
          \/ /\ ngap_msg_list[n] = k
             /\ msg'[k].fate = IF msg[k].dir # dir THEN (IF dir = "amf" THEN "lost" ELSE "wrong")
                               ELSE IF msg'[k].owed > 0 THEN "early" ELSE "sent"
          BY <1>1, <2>1
    <3>2. msg'[k].fate # msg[k].fate
          BY <1>11, <2>1
    <3>3. CASE ngap_msg_list[s] = k
          BY <3>3
    <3>4. CASE /\ ngap_msg_list[n] = k
               /\ msg'[k].fate = IF msg[k].dir # dir THEN (IF dir = "amf" THEN "lost" ELSE "wrong")
                                 ELSE IF msg'[k].owed > 0 THEN "early" ELSE "sent"
      <4>1. CASE msg[k].dir = dir
        <5>1. msg'[k].fate \in {"early", "sent"}
              BY <3>4, <4>1
        <5> QED
            BY <1>11, <5>1
      <4>2. CASE msg[k].dir # dir
            BY <1>11, <3>4, <4>2
      <4> QED
          BY <4>1, <4>2
    <3> QED
        BY <3>1, <3>2, <3>3, <3>4
  <2>4. \A j \in Slots : ngap_msg_list[j] = k => j = i
        BY <1>11 DEF PassInv, KeptInv
  <2> QED
      BY <2>2, <2>3, <2>4, SlotsAre
<1>12. LostStep
       BY <1>11, <1>n, <1>s DEF LostStep
<1> QED
    BY <1>1, <1>2, <1>8, <1>10, <1>12

\* A slot is emptied: the message in it is lost, or passed on.
LEMMA SlotEmptied ==
  ASSUME TypeInv, KeptInv, NEW i \in Slots, NEW k \in Msgs, k = ngap_msg_list[i],
         NEW f \in {"sent", "early", "wrong", "lost"},
         ngap_msg_list' = [ngap_msg_list EXCEPT ![i] = NoMsg], msg' = [msg EXCEPT ![k].fate = f]
  PROVE  /\ ngap_msg_list' \in [Slots -> Msgs \cup {NoMsg}] /\ msg' \in [Msgs -> Message]
         /\ \A j \in Slots : ngap_msg_list'[j] \in {ngap_msg_list[j], NoMsg}
         /\ \A q \in Msgs :
              /\ msg'[q].ngap = msg[q].ngap /\ msg'[q].dir = msg[q].dir
              /\ msg'[q].owed = msg[q].owed - (IF q = NoMsg THEN 1 ELSE 0)
              /\ \/ msg'[q].fate = msg[q].fate
                 \/ /\ msg'[q].fate \notin {"none", "handled", "kept"}
                    /\ \E j \in Slots : ngap_msg_list[j] = q /\ ngap_msg_list'[j] = NoMsg
         /\ \A j \in Slots : ngap_msg_list[j] # NoMsg /\ msg'[ngap_msg_list[j]].fate # "kept" => j = i
<1>0. ngap_msg_list \in [Slots -> Msgs \cup {NoMsg}] /\ msg \in [Msgs -> Message] /\ k # NoMsg
      BY NoMsgIs DEF TypeInv
<1>1. /\ msg' \in [Msgs -> Message]
      /\ \A q \in Msgs : /\ msg'[q].ngap = msg[q].ngap /\ msg'[q].dir = msg[q].dir /\ msg'[q].owed = msg[q].owed
                         /\ msg'[q].fate = IF q = k THEN f ELSE msg[q].fate
  <2>P. PICK P : P = [msg EXCEPT ![k].fate = f]
        OBVIOUS
  <2>1. /\ P \in [Msgs -> Message]
        /\ \A q \in Msgs : /\ P[q].ngap = msg[q].ngap /\ P[q].dir = msg[q].dir /\ P[q].owed = msg[q].owed
                           /\ P[q].fate = IF q = k THEN f ELSE msg[q].fate
        BY <1>0, <2>P, FateIs
  <2>2. msg' = P
        BY <2>P
  <2> QED
      BY <2>1, <2>2
<1>2. \A q \in Msgs : q # NoMsg /\ msg[q].owed \in Nat
      BY <1>0, NoMsgIs DEF Message
<1>3. /\ ngap_msg_list' \in [Slots -> Msgs \cup {NoMsg}] /\ ngap_msg_list'[i] = NoMsg
      /\ \A j \in Slots : ngap_msg_list'[j] \in {ngap_msg_list[j], NoMsg}
      BY <1>0
<1>4. ASSUME NEW q \in Msgs
      PROVE  /\ msg'[q].ngap = msg[q].ngap /\ msg'[q].dir = msg[q].dir
             /\ msg'[q].owed = msg[q].owed - (IF q = NoMsg THEN 1 ELSE 0)
             /\ \/ msg'[q].fate = msg[q].fate
                \/ /\ msg'[q].fate \notin {"none", "handled", "kept"}
                   /\ \E j \in Slots : ngap_msg_list[j] = q /\ ngap_msg_list'[j] = NoMsg
      BY <1>1, <1>2, <1>3
<1>5. ASSUME NEW j \in Slots, ngap_msg_list[j] # NoMsg, msg'[ngap_msg_list[j]].fate # "kept"
      PROVE  j = i
  <2>1. ngap_msg_list[j] \in Msgs /\ msg[ngap_msg_list[j]].fate = "kept"
        BY <1>0, <1>5 DEF KeptInv
  <2>2. ngap_msg_list[j] = k
        BY <1>1, <1>5, <2>1
  <2> QED
      BY <1>5, <2>2 DEF KeptInv
<1> QED
    BY <1>1, <1>3, <1>4, <1>5

\* The answers the signalling gateway takes.
LEMMA AnswerStepSettles ==
  ASSUME TypeInv, ListInv, PassInv, NEW m \in net, AnswerStep(m)
  PROVE  TypeInv' /\ TablesStay /\ (\E paid : Settles(paid)) /\ EarlyStep /\ LostStep
<1>0. m \in Event /\ m.sig \in Ids /\ net' = net \ {m} /\ UNCHANGED <<tables, timers, th, media, failed>>
      BY DEF TypeInv, Event, AnswerStep, handleUpfSetupRsp, handleGnbSetupRsp, handleUpfUpdateRsp, Gone
<1>1. net' \subseteq Event
      BY <1>0 DEF TypeInv
<1>2. ASSUME NEW dir \in {"amf", "gnb"}, dir = "gnb" <=> Gnbs(m), ~Updates(m), NEW o, o = Answered(m),
             o # NULL, CountAndPass(m, o, dir), pdu' \in [Objects -> PduRec],
             \A q \in Objects : /\ pdu'[q].st = pdu[q].st /\ pdu'[q].sig = pdu[q].sig
                                /\ pdu'[q].ngap = pdu[q].ngap /\ pdu'[q].res = pdu[q].res
      PROVE  TypeInv' /\ TablesStay /\ (\E paid : Settles(paid)) /\ EarlyStep /\ LostStep
  <2>1. o = session_list[m.sig]
        BY <1>2 DEF Answered
  <2>2. o \in Objects /\ pdu[o].st = "live" /\ pdu[o].ngap \in NgapIds
        BY <1>0, <1>2, <2>1, AnsweredIs
  <2>3. /\ ngap' \in [NgapIds -> NgapRec] /\ ngap_msg_list' \in [Slots -> Msgs \cup {NoMsg}]
        /\ msg' \in [Msgs -> Message]
        /\ Settles(m.for) /\ EarlyStep /\ LostStep
        BY <1>0, <1>2, <2>2, CountSettles
  <2>4. TypeInv'
        BY <1>0, <1>1, <1>2, <2>3 DEF TypeInv, tables
  <2>5. TablesStay
        BY <1>0, <1>2 DEF TablesStay, tables
  <2> QED
      BY <2>3, <2>4, <2>5
<1>3. ASSUME UNCHANGED <<ngap_msg_list, pdu, ngap, msg>>
      PROVE  TypeInv' /\ TablesStay /\ (\E paid : Settles(paid)) /\ EarlyStep /\ LostStep
  <2>1. TypeInv'
        BY <1>0, <1>1, <1>3 DEF TypeInv, tables
  <2>2. Pays(NoMsg)
        BY <1>0, GonePays
  <2>3. Settles(NoMsg)
        BY <1>0, <1>3, <2>2, AsideSettles
  <2>4. EarlyStep /\ LostStep
        BY <1>3, AsidePasses DEF PassInv
  <2>5. TablesStay
        BY <1>0, <1>3 DEF TablesStay, tables
  <2> QED
      BY <2>1, <2>3, <2>4, <2>5
<1>4. CASE handleUpfSetupRsp(m)
  <2>o. PICK o : o = Answered(m)
        OBVIOUS
  <2>1. m.type = "UPF_SETUP_RSP"
        BY <1>4 DEF handleUpfSetupRsp
  <2>2. ~Updates(m) /\ ~Gnbs(m)
        BY <2>1 DEF Updates, Gnbs
  <2>3. CASE o = NULL
        BY <1>3, <1>4, <2>o, <2>3 DEF handleUpfSetupRsp
  <2>4. CASE o # NULL
    <3>1. pdu' = [pdu EXCEPT ![o].media = m.media] /\ CountAndPass(m, o, "amf")
          BY <1>4, <2>o, <2>4 DEF handleUpfSetupRsp
    <3>2. o = session_list[m.sig]
          BY <2>o, <2>4 DEF Answered
    <3>3. o \in Objects
          BY <1>0, <2>4, <3>2, AnsweredIs
    <3>d. PICK d : d = [pdu[o] EXCEPT !.media = m.media]
          OBVIOUS
    <3>4. pdu[o] \in PduRec /\ m.media \in MediaIds \cup {NULL}
          BY <1>0, <3>3 DEF TypeInv, Event
    <3>5. /\ d \in PduRec
          /\ d.st = pdu[o].st /\ d.sig = pdu[o].sig /\ d.ngap = pdu[o].ngap /\ d.res = pdu[o].res
          BY <3>d, <3>4 DEF PduRec
    <3>6. pdu' = [pdu EXCEPT ![o] = d]
          BY <3>1, <3>d
    <3>7. /\ pdu' \in [Objects -> PduRec] /\ pdu'[o] = d
          /\ \A q \in Objects : q # o => pdu'[q] = pdu[q]
          BY <3>3, <3>5, <3>6 DEF TypeInv
    <3>8. \A q \in Objects : /\ pdu'[q].st = pdu[q].st /\ pdu'[q].sig = pdu[q].sig
                             /\ pdu'[q].ngap = pdu[q].ngap /\ pdu'[q].res = pdu[q].res
          BY <3>5, <3>7
    <3>9. "amf" \in {"amf", "gnb"} /\ ("amf" = "gnb" <=> Gnbs(m))
          BY <2>2
    <3> QED
        BY <1>2, <2>o, <2>2, <2>4, <3>1, <3>7, <3>8, <3>9
  <2> QED
      BY <2>3, <2>4
<1>5. CASE handleGnbSetupRsp(m)
  <2>o. PICK o : o = Answered(m)
        OBVIOUS
  <2>1. m.type = "GNB_SETUP_RSP" /\ pdu' = pdu
        BY <1>5 DEF handleGnbSetupRsp
  <2>2. ~Updates(m) /\ Gnbs(m) /\ pdu' \in [Objects -> PduRec]
        BY <2>1 DEF Updates, Gnbs, TypeInv
  <2>3. CASE o = NULL
        BY <1>3, <1>5, <2>o, <2>1, <2>3 DEF handleGnbSetupRsp
  <2>4. CASE o # NULL
    <3>1. CountAndPass(m, o, "gnb")
          BY <1>5, <2>o, <2>4 DEF handleGnbSetupRsp
    <3>2. "gnb" \in {"amf", "gnb"} /\ ("gnb" = "gnb" <=> Gnbs(m))
          BY <2>2
    <3> QED
        BY <1>2, <2>o, <2>1, <2>2, <2>4, <3>1, <3>2
  <2> QED
      BY <2>3, <2>4
<1>6. CASE handleUpfUpdateRsp(m)
  <2>0. pdu' = pdu /\ ngap' = ngap
        BY <1>6 DEF handleUpfUpdateRsp
  <2>k. PICK k : k = ngap_msg_list[m.sig]
        OBVIOUS
  <2>1. m.sig \in Slots /\ k \in Msgs \cup {NoMsg}
        BY <1>0, <2>k, SlotsAre DEF TypeInv
  <2>2. CASE session_list[m.sig] = NULL
        BY <1>3, <1>6, <2>0, <2>2 DEF handleUpfUpdateRsp
  <2>3. CASE session_list[m.sig] # NULL /\ k = NoMsg
    <3>1. ngap_msg_list' = [ngap_msg_list EXCEPT ![m.sig] = NoMsg] /\ msg' = msg
          BY <1>6, <2>3, <2>k DEF handleUpfUpdateRsp, Thrown
    <3>2. ngap_msg_list' = ngap_msg_list
          BY <2>1, <2>3, <2>k, <3>1 DEF TypeInv
    <3> QED
        BY <1>3, <2>0, <3>1, <3>2
  <2>4. CASE session_list[m.sig] # NULL /\ k # NoMsg
    <3>1. /\ ngap_msg_list' = [ngap_msg_list EXCEPT ![m.sig] = NoMsg]
          /\ msg' = [msg EXCEPT ![k].fate = "lost"]
          BY <1>6, <2>4, <2>k DEF handleUpfUpdateRsp, Thrown
    <3>f. PICK f \in {"sent", "early", "wrong", "lost"} : f = "lost"
          OBVIOUS
    <3>i. PICK i \in Slots : i = m.sig
          BY <2>1
    <3>2. /\ ngap_msg_list' = [ngap_msg_list EXCEPT ![i] = NoMsg]
          /\ msg' = [msg EXCEPT ![k].fate = f] /\ k \in Msgs /\ k = ngap_msg_list[i]
          BY <2>1, <2>4, <2>k, <3>1, <3>f, <3>i
    <3>3. /\ ngap_msg_list' \in [Slots -> Msgs \cup {NoMsg}] /\ msg' \in [Msgs -> Message]
          /\ \A j \in Slots : ngap_msg_list'[j] \in {ngap_msg_list[j], NoMsg}
          /\ \A q \in Msgs :
               /\ msg'[q].ngap = msg[q].ngap /\ msg'[q].dir = msg[q].dir
               /\ msg'[q].owed = msg[q].owed - (IF q = NoMsg THEN 1 ELSE 0)
               /\ \/ msg'[q].fate = msg[q].fate
                  \/ /\ msg'[q].fate \notin {"none", "handled", "kept"}
                     /\ \E j \in Slots : ngap_msg_list[j] = q /\ ngap_msg_list'[j] = NoMsg
          /\ \A j \in Slots : ngap_msg_list[j] # NoMsg /\ msg'[ngap_msg_list[j]].fate # "kept" => j = i
          BY <3>2, SlotEmptied DEF PassInv
    <3>4. Pays(NoMsg)
          BY <1>0, GonePays
    <3>5. Settles(NoMsg)
          BY <1>0, <2>0, <3>3, <3>4 DEF Settles
    <3>6. msg'[k].fate = "lost"
      <4>1. [msg[k] EXCEPT !.fate = "lost"].fate = "lost"
            BY <3>2 DEF TypeInv, Message
      <4> QED
          BY <3>1, <3>2, <4>1 DEF TypeInv
    <3>7. EarlyStep
          BY <3>2, <3>3, <3>6, SlotsAre DEF EarlyStep
    <3>8. session_list[i] \in Objects /\ pdu[session_list[i]].st = "live" /\ pdu[session_list[i]].sig = i
          BY <1>0, <2>4, <3>i, AnsweredIs
    <3>9. LostStep
          BY <3>3, <3>8 DEF LostStep
    <3>10. TypeInv'
           BY <1>0, <1>1, <2>0, <3>3 DEF TypeInv, tables
    <3>11. TablesStay
           BY <1>0, <2>0 DEF TablesStay, tables
    <3> QED
        BY <3>5, <3>7, <3>9, <3>10, <3>11
  <2> QED
      BY <2>2, <2>3, <2>4
<1> QED
    BY <1>4, <1>5, <1>6 DEF AnswerStep

\* A timer of 4 s runs out.
LEMMA TimeoutSettles ==
  ASSUME TypeInv, ListInv, PassInv, NEW o \in Objects, SessTimeout(o)
  PROVE  TypeInv' /\ TablesStay /\ Settles(NoMsg) /\ EarlyStep /\ LostStep
<1>0. /\ UNCHANGED <<tables, pdu, th, net, media, failed>> /\ timers[o] \in Nat
      /\ timers[o] > 0 /\ timers' = [timers EXCEPT ![o] = timers[o] - 1]
      BY DEF SessTimeout, TypeInv
<1>1. timers' \in [Objects -> Nat] /\ timers' # timers
  <2>1. timers[o] - 1 \in Nat
        BY <1>0
  <2>2. timers' \in [Objects -> Nat] /\ timers'[o] = timers[o] - 1
        BY <1>0, <2>1 DEF TypeInv
  <2>3. timers[o] - 1 # timers[o]
        BY <1>0
  <2> QED
      BY <2>2, <2>3
<1>2. EarlyStep
      BY <1>1 DEF EarlyStep
<1>3. Pays(NoMsg)
  <2>x. PICK X : X = {}
        OBVIOUS
  <2>1. net' = net \cup X /\ \A x \in X : x.for = NoMsg
        BY <1>0, <2>x
  <2> QED
      BY <2>1, OthersPay
<1>4. TablesStay
      BY <1>0 DEF TablesStay, tables
<1>5. PICK i \in IF pdu[o].st = "live" THEN {pdu[o].sig} ELSE Ids :
        LET s == session_list[i]
            n == pdu[s].ngap
            k == ngap_msg_list[i]
        IN IF s = NULL \/ (s # NULL /\ ~ngap[pdu[s].ngap].up)
           THEN UNCHANGED <<ngap_msg_list, ngap, msg>>
           ELSE /\ ngap' = Counted(n, NoMsg)
                /\ IF TimeoutTakes(n) /\ k # NoMsg
                   THEN /\ ngap_msg_list' = [ngap_msg_list EXCEPT ![i] = NoMsg]
                        /\ msg' = [msg EXCEPT ![k].fate =
                                     IF msg[k].kind = "handover" THEN "lost"
                                     ELSE Passed(k, msg[k].dir)]
                   ELSE UNCHANGED <<ngap_msg_list, msg>>
      BY DEF SessTimeout
<1>6. i \in Ids /\ i \in Slots
      BY <1>5, SlotsAre DEF TypeInv, PduRec
<1>s. PICK s : s = session_list[i]
      OBVIOUS
<1>n. PICK n : n = pdu[s].ngap
      OBVIOUS
<1>k. PICK k : k = ngap_msg_list[i]
      OBVIOUS
<1>7. CASE s = NULL \/ ~ngap[n].up
  <2>1. UNCHANGED <<ngap_msg_list, ngap, msg>>
        BY <1>5, <1>7, <1>s, <1>n
  <2>2. Settles(NoMsg)
        BY <1>0, <1>3, <2>1, AsideSettles
  <2>3. LostStep
        BY <2>1, AsidePasses DEF PassInv
  <2>4. TypeInv'
        BY <1>0, <1>1, <2>1 DEF TypeInv, tables
  <2> QED
      BY <1>2, <1>4, <2>2, <2>3, <2>4
<1>8. CASE s # NULL /\ ngap[n].up
  <2>1. s \in Objects /\ pdu[s].st = "live" /\ pdu[s].sig = i /\ n \in NgapIds
        BY <1>6, <1>8, <1>s, <1>n, AnsweredIs
  <2>2. /\ ngap' = Counted(n, NoMsg)
        /\ \/ UNCHANGED <<ngap_msg_list, msg>>
           \/ /\ k # NoMsg /\ ngap_msg_list' = [ngap_msg_list EXCEPT ![i] = NoMsg]
              /\ msg' = [msg EXCEPT ![k].fate = IF msg[k].kind = "handover" THEN "lost"
                                                ELSE Passed(k, msg[k].dir)]
        BY <1>5, <1>8, <1>s, <1>n, <1>k
  <2>3. /\ ngap' \in [NgapIds -> NgapRec] /\ ngap'[n].rsp = ngap[n].rsp + 1 /\ ngap'[n].stray
        /\ \A q \in NgapIds : /\ ngap'[q].cur = ngap[q].cur /\ ngap'[q].count = ngap[q].count
                              /\ q # n => ngap'[q] = ngap[q]
    <3>g. PICK G : G = Counted(n, NoMsg)
          OBVIOUS
    <3>1. /\ G \in [NgapIds -> NgapRec] /\ G[n].rsp = ngap[n].rsp + 1 /\ G[n].stray
          /\ \A q \in NgapIds : /\ G[q].cur = ngap[q].cur /\ G[q].count = ngap[q].count
                                /\ q # n => G[q] = ngap[q]
          BY <2>1, <3>g, CountedIs
    <3> QED
        BY <2>2, <3>g, <3>1
  <2>4. \A q \in NgapIds :
          /\ ngap'[q].cur = ngap[q].cur /\ ngap'[q].count = ngap[q].count
          /\ \/ ngap'[q].rsp = ngap[q].rsp /\ ngap'[q].stray = ngap[q].stray
             \/ /\ ngap'[q].rsp = ngap[q].rsp + 1
                /\ ngap'[q].stray \/ (~ngap[q].stray /\ NoMsg = ngap[q].cur)
        BY <2>3
  <2>5. CASE UNCHANGED <<ngap_msg_list, msg>>
    <3>1. \A q \in Msgs : msg'[q].owed = msg[q].owed - (IF q = NoMsg THEN 1 ELSE 0)
          BY <2>5, NoMsgIs DEF TypeInv, Message
    <3>2. Settles(NoMsg)
          BY <1>0, <1>3, <2>4, <2>5, <3>1 DEF Settles
    <3>3. LostStep
          BY <2>5, AsidePasses DEF PassInv
    <3>4. TypeInv'
          BY <1>0, <1>1, <2>3, <2>5 DEF TypeInv, tables
    <3> QED
        BY <1>2, <1>4, <3>2, <3>3, <3>4
  <2>6. CASE /\ k # NoMsg /\ ngap_msg_list' = [ngap_msg_list EXCEPT ![i] = NoMsg]
             /\ msg' = [msg EXCEPT ![k].fate = IF msg[k].kind = "handover" THEN "lost"
                                               ELSE Passed(k, msg[k].dir)]
    <3>1. k \in Msgs
          BY <1>6, <1>k, <2>6 DEF TypeInv
    <3>2. (IF msg[k].kind = "handover" THEN "lost" ELSE Passed(k, msg[k].dir)) \in {"sent", "early", "wrong", "lost"}
          BY DEF Passed
    <3>f. PICK f \in {"sent", "early", "wrong", "lost"} :
            f = IF msg[k].kind = "handover" THEN "lost" ELSE Passed(k, msg[k].dir)
          BY <3>2
    <3>3. /\ ngap_msg_list' \in [Slots -> Msgs \cup {NoMsg}] /\ msg' \in [Msgs -> Message]
          /\ \A j \in Slots : ngap_msg_list'[j] \in {ngap_msg_list[j], NoMsg}
          /\ \A q \in Msgs :
               /\ msg'[q].ngap = msg[q].ngap /\ msg'[q].dir = msg[q].dir
               /\ msg'[q].owed = msg[q].owed - (IF q = NoMsg THEN 1 ELSE 0)
               /\ \/ msg'[q].fate = msg[q].fate
                  \/ /\ msg'[q].fate \notin {"none", "handled", "kept"}
                     /\ \E j \in Slots : ngap_msg_list[j] = q /\ ngap_msg_list'[j] = NoMsg
          /\ \A j \in Slots : ngap_msg_list[j] # NoMsg /\ msg'[ngap_msg_list[j]].fate # "kept" => j = i
      <4>1. msg' = [msg EXCEPT ![k].fate = f] /\ ngap_msg_list' = [ngap_msg_list EXCEPT ![i] = NoMsg]
            BY <2>6, <3>f
      <4> QED
          BY <1>6, <1>k, <3>1, <3>f, <4>1, SlotEmptied DEF PassInv
    <3>4. Settles(NoMsg)
          BY <1>0, <1>3, <2>4, <3>3 DEF Settles
    <3>5. LostStep
          BY <2>1, <3>3 DEF LostStep
    <3>6. TypeInv'
          BY <1>0, <1>1, <2>3, <3>3 DEF TypeInv, tables
    <3> QED
        BY <1>2, <1>4, <3>4, <3>5, <3>6
  <2> QED
      BY <2>2, <2>5, <2>6
<1> QED
    BY <1>7, <1>8

-----------------------------------------------------------------------------
(* Sessions are freed.                                                     *)

\* Sessions leave the list; the others stay as they are.
LEMMA FreedIs ==
  ASSUME TypeInv, ListInv, NEW O \in SUBSET Objects, Freed(O)
  PROVE  /\ session_list' \in [Ids -> Objects \cup {NULL}] /\ pdu' \in [Objects -> PduRec]
         /\ net' \subseteq Event /\ Pays(NoMsg) /\ ListInv'
         /\ \A i \in Ids : session_list[i] # NULL /\ session_list[i] \notin O =>
              session_list'[i] = session_list[i] /\ pdu'[session_list[i]] = pdu[session_list[i]]
<1>0. /\ session_list' = [i \in Ids |-> IF session_list[i] \in O THEN NULL ELSE session_list[i]]
      /\ pdu' = [o \in Objects |-> IF o \in O THEN [pdu[o] EXCEPT !.st = "deleted"] ELSE pdu[o]]
      /\ net' = net \cup {ReleaseReq(o) : o \in O}
      BY DEF Freed
<1>1. session_list' \in [Ids -> Objects \cup {NULL}]
      BY <1>0 DEF TypeInv
<1>2. \A o \in Objects : [pdu[o] EXCEPT !.st = "deleted"] \in PduRec
  <2>1. ASSUME NEW o \in Objects
        PROVE  [pdu[o] EXCEPT !.st = "deleted"] \in PduRec
    <3>1. pdu[o] \in PduRec
          BY DEF TypeInv
    <3> QED
        BY <3>1 DEF PduRec
  <2> QED
      BY <2>1
<1>3. pdu' \in [Objects -> PduRec]
      BY <1>0, <1>2 DEF TypeInv
<1>4. \A o \in O : ReleaseReq(o) \in Event /\ ReleaseReq(o).for = NoMsg
      BY RequestsAre DEF ReleaseReq, Req
<1>5. net' \subseteq Event
      BY <1>0, <1>4 DEF TypeInv
<1>6. Pays(NoMsg)
  <2>x. PICK X : X = {ReleaseReq(o) : o \in O}
        OBVIOUS
  <2>1. net' = net \cup X /\ \A x \in X : x.for = NoMsg
        BY <1>0, <1>4, <2>x
  <2> QED
      BY <2>1, OthersPay
<1>7. ASSUME NEW i \in Ids, session_list'[i] # NULL
      PROVE  session_list'[i] = session_list[i] /\ session_list[i] \notin O
      BY <1>0, <1>7
<1>8. \A o \in Objects : o \notin O => pdu'[o] = pdu[o]
      BY <1>0
<1>9. ListInv'
  <2>1. ASSUME NEW i \in Ids, session_list'[i] # NULL
        PROVE  LET s == pdu'[session_list'[i]] IN s.st = "live" /\ s.sig = i /\ s.ngap \in NgapIds
    <3>s. PICK s : s = session_list[i]
          OBVIOUS
    <3>1. session_list'[i] = s /\ s \notin O /\ s # NULL
          BY <1>7, <2>1, <3>s
    <3>2. s \in Objects /\ pdu[s].st = "live" /\ pdu[s].sig = i /\ pdu[s].ngap \in NgapIds
          BY <3>s, <3>1, AnsweredIs
    <3>3. pdu'[s] = pdu[s]
          BY <1>8, <3>1, <3>2
    <3> QED
        BY <3>1, <3>2, <3>3
  <2> QED
      BY <2>1 DEF ListInv
<1>10. ASSUME NEW i \in Ids, session_list[i] # NULL, session_list[i] \notin O
       PROVE  session_list'[i] = session_list[i] /\ pdu'[session_list[i]] = pdu[session_list[i]]
       BY <1>0, <1>8, <1>10 DEF TypeInv
<1> QED
    BY <1>1, <1>3, <1>5, <1>6, <1>9, <1>10

\* What PDU ids lead to are objects.
LEMMA ReachedIs ==
  ASSUME TypeInv, NEW n \in NgapIds
  PROVE  Reached(n, ngap[n].vec) \in SUBSET Objects
<1>1. ngap[n].vec \subseteq Pdus
      BY DEF TypeInv, NgapRec
<1> QED
    BY <1>1, ReachIs DEF Reached

\* A UE's release.
LEMMA ReleaseSettles ==
  ASSUME MapInv, KeptInv, NEW n \in NgapIds, ReleasePduSess(n)
  PROVE  MapInv' /\ Settles(NoMsg) /\ EarlyStep /\ LostStep
<1>0. TypeInv /\ ListInv /\ LeadInv
      BY DEF MapInv
<1>o. PICK O \in SUBSET Objects : O = Reached(n, ngap[n].vec)
      BY <1>0, ReachedIs
<1>1. /\ th[n] = Idle /\ Freed(O) /\ ngap' = [ngap EXCEPT ![n] = NoNgap]
      /\ session_id_map' = [x \in Pdus \X NgapIds |->
           IF x[2] = n /\ getPduSess(n, x[1]) \in O THEN INVALIDE_ID ELSE session_id_map[x]]
      /\ UNCHANGED <<m_currentSessId, ngap_msg_list, timers, th, media, msg, failed>>
      BY <1>o DEF ReleasePduSess
<1>2. /\ session_list' \in [Ids -> Objects \cup {NULL}] /\ pdu' \in [Objects -> PduRec]
      /\ net' \subseteq Event /\ Pays(NoMsg) /\ ListInv'
      /\ \A i \in Ids : session_list[i] # NULL /\ session_list[i] \notin O =>
           session_list'[i] = session_list[i] /\ pdu'[session_list[i]] = pdu[session_list[i]]
      BY <1>0, <1>1, FreedIs
<1>3. NoNgap \in NgapRec /\ NoNgap.cur = NoMsg /\ Idle.k = NoMsg
      BY DEF NoNgap, NgapRec, Idle
<1>4. ngap' \in [NgapIds -> NgapRec] /\ ngap'[n] = NoNgap /\ \A q \in NgapIds : q # n => ngap'[q] = ngap[q]
      BY <1>0, <1>1, <1>3 DEF TypeInv
<1>5. session_id_map' \in [Pdus \X NgapIds -> Ids \cup {INVALIDE_ID}]
      BY <1>0, <1>1 DEF TypeInv
<1>6. TypeInv'
      BY <1>0, <1>1, <1>2, <1>4, <1>5 DEF TypeInv
<1>7. \A q \in Msgs : msg'[q].owed = msg[q].owed - (IF q = NoMsg THEN 1 ELSE 0)
      BY <1>0, <1>1, NoMsgIs DEF TypeInv, Message
<1>8. \A q \in NgapIds :
        \/ ngap'[q].cur = NoMsg /\ th[q].k = NoMsg
        \/ /\ ngap'[q].cur = ngap[q].cur /\ ngap'[q].count = ngap[q].count
           /\ ngap'[q].rsp = ngap[q].rsp /\ ngap'[q].stray = ngap[q].stray
      BY <1>1, <1>3, <1>4
<1>9. Settles(NoMsg)
      BY <1>1, <1>2, <1>7, <1>8 DEF Settles
<1>10. EarlyStep /\ LostStep
       BY <1>0, <1>1, AsidePasses
<1>11. LeadInv'
  <2>1. ASSUME failed = {}, NEW q \in NgapIds, NEW r \in Pdus, session_id_map'[<<r, q>>] # INVALIDE_ID
        PROVE  LET j == session_id_map'[<<r, q>>] IN
               session_list'[j] # NULL /\ pdu'[session_list'[j]].ngap = q /\ pdu'[session_list'[j]].res = r
    <3>i. PICK i : i = session_id_map'[<<r, q>>]
          OBVIOUS
    <3>2. i = session_id_map[<<r, q>>] /\ ~(q = n /\ getPduSess(n, r) \in O)
          BY <1>1, <2>1, <3>i
    <3>3. i \in Ids
          BY <1>5, <2>1, <3>i
    <3>s. PICK s : s = session_list[i]
          OBVIOUS
    <3>4. s # NULL /\ pdu[s].ngap = q /\ pdu[s].res = r
          BY <1>0, <2>1, <3>i, <3>2, <3>s DEF LeadInv
    <3>5. s \notin O
      <4>1. SUFFICES ASSUME s \in O
                     PROVE  FALSE
            OBVIOUS
      <4>2. PICK p \in ngap[n].vec : s = getPduSess(n, p)
            BY <1>o, <4>1 DEF Reached
      <4>3. p \in Pdus
            BY <1>0 DEF TypeInv, NgapRec
      <4>4. pdu[s].ngap = n
            BY <1>0, <2>1, <3>4, <4>2, <4>3 DEF LeadInv, getPduSess
      <4>5. getPduSess(n, r) = s
            BY <2>1, <3>i, <3>2, <3>4, <3>s, <4>4 DEF getPduSess
      <4> QED
          BY <3>2, <3>4, <4>1, <4>4, <4>5
    <3>6. session_list'[i] = s /\ pdu'[s] = pdu[s]
          BY <1>2, <3>3, <3>4, <3>5, <3>s
    <3> QED
        BY <3>i, <3>4, <3>6
  <2> QED
      BY <1>1, <2>1 DEF LeadInv
<1> QED
    BY <1>2, <1>6, <1>9, <1>10, <1>11 DEF MapInv

\* A failed setup: the mapping stays, and is known to lead nowhere.
LEMMA SetupfailSettles ==
  ASSUME MapInv, KeptInv, NEW n \in NgapIds, processSessSetupfail(n)
  PROVE  MapInv' /\ Settles(NoMsg) /\ EarlyStep /\ LostStep
<1>0. TypeInv /\ ListInv
      BY DEF MapInv
<1>o. PICK O \in SUBSET Objects : O = Reached(n, ngap[n].vec)
      BY <1>0, ReachedIs
<1>1. /\ Freed(O) /\ ngap[n].vec # {} /\ failed' = failed \cup {<<r, n>> : r \in ngap[n].vec}
      /\ UNCHANGED <<m_currentSessId, session_id_map, ngap_msg_list, timers, ngap, th, media, msg>>
      BY <1>o DEF processSessSetupfail
<1>2. /\ session_list' \in [Ids -> Objects \cup {NULL}] /\ pdu' \in [Objects -> PduRec]
      /\ net' \subseteq Event /\ Pays(NoMsg) /\ ListInv'
      BY <1>0, <1>1, FreedIs
<1>3. TypeInv'
      BY <1>0, <1>1, <1>2 DEF TypeInv
<1>4. LeadInv'
  <2>1. failed' # {}
        BY <1>1
  <2> QED
      BY <2>1 DEF LeadInv
<1>5. Settles(NoMsg)
      BY <1>0, <1>1, <1>2, AsideSettles
<1>6. EarlyStep /\ LostStep
      BY <1>0, <1>1, AsidePasses
<1> QED
    BY <1>2, <1>3, <1>4, <1>5, <1>6 DEF MapInv

-----------------------------------------------------------------------------
(* The invariants are kept where no handler works.                         *)

\* The map leads to the same sessions.
LEMMA TablesStayKeep ==
  ASSUME MapInv, TypeInv', TablesStay
  PROVE  MapInv'
<1>0. TypeInv /\ ListInv /\ LeadInv
      BY DEF MapInv
<1>1. /\ session_list' = session_list /\ session_id_map' = session_id_map /\ failed' = failed
      /\ \A o \in Objects : /\ pdu'[o].st = pdu[o].st /\ pdu'[o].sig = pdu[o].sig
                            /\ pdu'[o].ngap = pdu[o].ngap /\ pdu'[o].res = pdu[o].res
      BY DEF TablesStay
<1>2. ListInv'
  <2>1. ASSUME NEW i \in Ids, session_list'[i] # NULL
        PROVE  LET s == pdu'[session_list'[i]] IN s.st = "live" /\ s.sig = i /\ s.ngap \in NgapIds
    <3>s. PICK s : s = session_list[i]
          OBVIOUS
    <3>1. s \in Objects /\ pdu[s].st = "live" /\ pdu[s].sig = i /\ pdu[s].ngap \in NgapIds
          BY <1>0, <1>1, <2>1, <3>s, AnsweredIs
    <3> QED
        BY <1>1, <3>s, <3>1
  <2> QED
      BY <2>1 DEF ListInv
<1>3. LeadInv'
  <2>1. ASSUME failed = {}, NEW n \in NgapIds, NEW r \in Pdus, session_id_map[<<r, n>>] # INVALIDE_ID
        PROVE  LET i == session_id_map'[<<r, n>>] IN
               session_list'[i] # NULL /\ pdu'[session_list'[i]].ngap = n /\ pdu'[session_list'[i]].res = r
    <3>i. PICK i \in Ids : i = session_id_map[<<r, n>>]
          BY <1>0, <2>1 DEF TypeInv
    <3>s. PICK s : s = session_list[i]
          OBVIOUS
    <3>1. s # NULL /\ pdu[s].ngap = n /\ pdu[s].res = r
          BY <1>0, <2>1, <3>i, <3>s DEF LeadInv
    <3>2. s \in Objects
          BY <1>0, <3>s, <3>1 DEF TypeInv
    <3> QED
        BY <1>1, <3>i, <3>s, <3>1, <3>2
  <2> QED
      BY <1>1, <2>1 DEF LeadInv
<1> QED
    BY <1>2, <1>3 DEF MapInv

\* Nothing is under way for a message of which nothing was.
LEMMA StaysEmpty ==
  ASSUME NEW k \in Msgs, NEW paid, Pays(paid), Counting(k) = {}
  PROVE  Counting(k)' = {}
<1>1. IsFiniteSet(Counting(k)) /\ Cardinality(Counting(k)) = 0
      BY FS_EmptySet
<1>2. IsFiniteSet(Counting(k)') /\ Cardinality(Counting(k)') + (IF k = paid THEN 1 ELSE 0) <= 0
      BY <1>1 DEF Pays
<1>3. Cardinality(Counting(k)') \in Nat
      BY <1>2, FS_CardinalityType
<1>4. Cardinality(Counting(k)') = 0
      BY <1>2, <1>3
<1> QED
    BY <1>2, <1>4, FS_EmptySet

\* What a UE's handler and counts rest on.
LEMMA SettlesKeeps ==
  ASSUME TypeInv, TypeInv', PassInv, NEW paid, Settles(paid)
  PROVE  PassInv'
<1>0. UsedInv /\ KeptInv /\ HandlerInv /\ AskedInv /\ OwedInv /\ CountInv /\ OlderInv
      BY DEF PassInv
<1>1. th' = th /\ Pays(paid) /\ \A i \in Slots : ngap_msg_list'[i] \in {ngap_msg_list[i], NoMsg}
      BY DEF Settles
<1>2. \A k \in Msgs :
        /\ msg'[k].ngap = msg[k].ngap /\ msg'[k].dir = msg[k].dir
        /\ msg'[k].owed = msg[k].owed - (IF k = paid THEN 1 ELSE 0)
        /\ msg[k].owed \in Nat /\ msg'[k].owed \in Nat
      BY DEF Settles, TypeInv, Message
<1>3. \A k \in Msgs :
        \/ msg'[k].fate = msg[k].fate
        \/ /\ msg'[k].fate \notin {"none", "handled", "kept"} /\ msg[k].fate = "kept"
           /\ \E i \in Slots : ngap_msg_list[i] = k /\ ngap_msg_list'[i] = NoMsg
      BY <1>0, NoMsgIs DEF Settles, KeptInv
<1>4. \A n \in NgapIds :
        \/ ngap'[n].cur = NoMsg /\ th[n].k = NoMsg
        \/ /\ ngap'[n].cur = ngap[n].cur /\ ngap'[n].count = ngap[n].count
           /\ \/ ngap'[n].rsp = ngap[n].rsp /\ ngap'[n].stray = ngap[n].stray
              \/ /\ ngap'[n].rsp = ngap[n].rsp + 1
                 /\ ngap'[n].stray \/ (~ngap[n].stray /\ paid = ngap[n].cur)
      BY DEF Settles
<1>5. \A n \in NgapIds : /\ ngap[n].cur \in Msgs \cup {NoMsg} /\ ngap'[n].cur \in Msgs \cup {NoMsg}
                         /\ th[n].k \in Msgs \cup {NoMsg}
                         /\ ngap[n].rsp \in Nat /\ ngap[n].count \in Nat
      BY DEF TypeInv, NgapRec, Work
<1>6. UsedInv'
  <2>1. \A k \in Msgs : msg'[k].fate = "none" <=> msg[k].fate = "none"
        BY <1>3
  <2>2. PICK u \in 0 .. MaxMsg : \A k \in Msgs : msg[k].fate # "none" <=> k <= u
        BY <1>0 DEF UsedInv
  <2>3. \A k \in Msgs : msg'[k].fate # "none" <=> k <= u
        BY <2>1, <2>2
  <2> QED
      BY <2>2, <2>3 DEF UsedInv
<1>7. KeptInv'
  <2>1. ASSUME NEW i \in Slots, NEW j \in Slots, ngap_msg_list'[i] # NoMsg, ngap_msg_list'[i] = ngap_msg_list'[j]
        PROVE  i = j
    <3>1. ngap_msg_list'[i] = ngap_msg_list[i] /\ ngap_msg_list'[j] = ngap_msg_list[j]
          BY <1>1, <2>1
    <3> QED
        BY <1>0, <2>1, <3>1 DEF KeptInv
  <2>2. ASSUME NEW i \in Slots, ngap_msg_list'[i] # NoMsg
        PROVE  msg'[ngap_msg_list'[i]].fate = "kept"
    <3>1. ngap_msg_list'[i] = ngap_msg_list[i]
          BY <1>1, <2>2
    <3>k. PICK k \in Msgs : k = ngap_msg_list[i]
          BY <2>2, <3>1 DEF TypeInv
    <3>2. msg[k].fate = "kept"
          BY <1>0, <2>2, <3>1, <3>k DEF KeptInv
    <3>3. ~\E j \in Slots : ngap_msg_list[j] = k /\ ngap_msg_list'[j] = NoMsg
          BY <1>0, <2>2, <3>1, <3>k DEF KeptInv
    <3> QED
        BY <1>3, <3>1, <3>k, <3>2, <3>3
  <2> QED
      BY <2>1, <2>2 DEF KeptInv
<1>8. HandlerInv'
  <2>1. ASSUME NEW n \in NgapIds
        PROVE  /\ ngap'[n].cur # NoMsg => msg'[ngap'[n].cur].ngap = n /\ msg'[ngap'[n].cur].fate # "none"
               /\ th'[n].k # NoMsg => th'[n].k = ngap'[n].cur
               /\ th'[n].k = NoMsg => th'[n].todo = {}
    <3>1. /\ ngap[n].cur # NoMsg => msg[ngap[n].cur].ngap = n /\ msg[ngap[n].cur].fate # "none"
          /\ th[n].k # NoMsg => th[n].k = ngap[n].cur
          /\ th[n].k = NoMsg => th[n].todo = {}
          BY <1>0 DEF HandlerInv
    <3>2. ngap'[n].cur # NoMsg => ngap'[n].cur = ngap[n].cur /\ ngap[n].cur \in Msgs
          BY <1>4, <1>5
    <3>3. th[n].k # NoMsg => ngap'[n].cur = ngap[n].cur
          BY <1>4
    <3> QED
        BY <1>1, <1>2, <1>3, <3>1, <3>2, <3>3
  <2> QED
      BY <2>1 DEF HandlerInv
<1>9. AskedInv'
  <2>1. ASSUME NEW m \in net', m.for # NoMsg
        PROVE  /\ msg'[m.for].fate \notin {"none", "handled"}
               /\ msg'[m.for].dir = IF m.type = "GNB_SETUP_REQ" \/ m.type = "GNB_SETUP_RSP" THEN "gnb" ELSE "amf"
    <3>1. PICK q \in net : q.for = m.for /\ (Gnbs(m) <=> Gnbs(q))
          BY <1>1, <2>1 DEF Pays
    <3>2. m.for \in Msgs
          BY <2>1, <3>1 DEF TypeInv, Event
    <3>3. msg[m.for].fate \notin {"none", "handled"} /\ msg[m.for].dir = IF Gnbs(q) THEN "gnb" ELSE "amf"
          BY <1>0, <2>1, <3>1 DEF AskedInv, Gnbs
    <3> QED
        BY <1>2, <1>3, <3>1, <3>2, <3>3 DEF Gnbs
  <2> QED
      BY <2>1 DEF AskedInv
<1>10. \A k \in Msgs : /\ IsFiniteSet(Counting(k)) /\ Cardinality(Counting(k)) <= msg[k].owed
                       /\ IsFiniteSet(Counting(k)')
                       /\ Cardinality(Counting(k)') + (IF k = paid THEN 1 ELSE 0) <= Cardinality(Counting(k))
                       /\ Cardinality(Counting(k)') \in Nat /\ Cardinality(Counting(k)) \in Nat
  <2>1. \A k \in Msgs : IsFiniteSet(Counting(k)) /\ Cardinality(Counting(k)) <= msg[k].owed
        BY <1>0 DEF OwedInv
  <2>2. \A k \in Msgs : /\ IsFiniteSet(Counting(k)')
                        /\ Cardinality(Counting(k)') + (IF k = paid THEN 1 ELSE 0) <= Cardinality(Counting(k))
        BY <1>1, <2>1 DEF Pays
  <2> QED
      BY <2>1, <2>2, FS_CardinalityType
<1>11. OwedInv'
  <2>1. ASSUME NEW k \in Msgs
        PROVE  IsFiniteSet(Counting(k)') /\ Cardinality(Counting(k)') <= msg'[k].owed
        BY <1>2, <1>10
  <2> QED
      BY <2>1 DEF OwedInv
<1>12. CountInv'
  <2>1. ASSUME NEW n \in NgapIds, ~ngap'[n].stray, ngap'[n].cur # NoMsg
        PROVE  msg'[ngap'[n].cur].owed + ngap'[n].rsp <= ngap'[n].count - Cardinality(th'[n].todo)
    <3>c. PICK c \in Msgs : c = ngap[n].cur
          BY <1>4, <1>5, <2>1
    <3>1. ngap'[n].cur = c /\ ngap'[n].count = ngap[n].count
          BY <1>4, <2>1, <3>c
    <3>2. \/ ngap'[n].rsp = ngap[n].rsp /\ ~ngap[n].stray
          \/ ngap'[n].rsp = ngap[n].rsp + 1 /\ ~ngap[n].stray /\ paid = c
          BY <1>4, <2>1, <3>c
    <3>3. msg[c].owed + ngap[n].rsp <= ngap[n].count - Cardinality(th[n].todo)
          BY <1>0, <3>2, <3>c, NoMsgIs DEF CountInv
    <3>4. th[n].todo \subseteq Pdus
          BY DEF TypeInv, Work
    <3>5. Cardinality(th[n].todo) \in Nat
          BY <3>4, PduSessAssumption, FS_Subset, FS_CardinalityType
    <3>6. msg[c].owed \in Nat /\ msg'[c].owed = msg[c].owed - (IF c = paid THEN 1 ELSE 0) /\ ngap[n].rsp \in Nat
          BY <1>2, <1>5
    <3>7. msg'[c].owed + ngap'[n].rsp <= msg[c].owed + ngap[n].rsp
          BY <3>2, <3>6
    <3> QED
        BY <1>1, <1>2, <1>5, <3>1, <3>2, <3>3, <3>5, <3>6, <3>7
  <2> QED
      BY <2>1 DEF CountInv
<1>13. OlderInv'
  <2>1. ASSUME NEW n \in NgapIds, NEW k, k = ngap_msg_list'[n], NEW c, c = ngap'[n].cur,
               k # NoMsg, k # c, c # NoMsg, msg'[k].ngap = n
        PROVE  \/ Cardinality(Counting(c)') < msg'[c].owed
               \/ Counting(c)' = {} /\ (th'[n].k = NoMsg \/ msg'[c].fate = "handled")
    <3>1. n \in Slots /\ k = ngap_msg_list[n] /\ k \in Msgs
          BY <1>1, <2>1, SlotsAre DEF TypeInv
    <3>2. c = ngap[n].cur /\ c \in Msgs
          BY <1>4, <1>5, <2>1
    <3>3. \/ Cardinality(Counting(c)) < msg[c].owed
          \/ Counting(c) = {} /\ (th[n].k = NoMsg \/ msg[c].fate = "handled")
          BY <1>0, <1>2, <2>1, <3>1, <3>2 DEF OlderInv
    <3>4. CASE Cardinality(Counting(c)) < msg[c].owed
          BY <1>2, <1>10, <3>2, <3>4
    <3>5. CASE Counting(c) = {} /\ (th[n].k = NoMsg \/ msg[c].fate = "handled")
      <4>1. Counting(c)' = {}
            BY <1>1, <3>2, <3>5, StaysEmpty
      <4>2. msg[c].fate = "handled" => msg'[c].fate = "handled"
            BY <1>3, <3>2
      <4> QED
          BY <1>1, <3>5, <4>1, <4>2
    <3> QED
        BY <3>3, <3>4, <3>5
  <2> QED
      BY <2>1 DEF OlderInv
<1> QED
    BY <1>6, <1>7, <1>8, <1>9, <1>11, <1>12, <1>13 DEF PassInv

-----------------------------------------------------------------------------
(* A message arrives.                                                      *)

\* Numbers are used once.
LEMMA NextMsgIs ==
  ASSUME UsedInv
  PROVE  /\ NextMsg \in Nat
         /\ \A k \in Msgs : msg[k].fate # "none" <=> k < NextMsg
<1>1. PICK u \in 0 .. MaxMsg : \A k \in Msgs : msg[k].fate # "none" <=> k <= u
      BY DEF UsedInv
<1>2. u \in Nat /\ 0 \in Int /\ 1 \in Int /\ u <= MaxMsg
      BY <1>1, PduSessAssumption
<1>3. {k \in Msgs : msg[k].fate # "none"} = 1 .. u
      BY <1>1, <1>2, PduSessAssumption DEF Msgs
<1>4. Cardinality(1 .. u) = IF 1 > u THEN 0 ELSE u - 1 + 1
      BY <1>2, FS_Interval
<1>a. Cardinality(1 .. u) = u
      BY <1>2, <1>4
<1>b. Cardinality({k \in Msgs : msg[k].fate # "none"}) = u
      BY <1>3, <1>a, Zenon
<1>5. NextMsg = u + 1
      BY <1>b, Zenon DEF NextMsg
<1>6. \A k \in Msgs : k \in Nat
      BY NoMsgIs
<1> QED
    BY <1>1, <1>2, <1>5, <1>6

\* The UE's last message is the new one; nothing is owed, nothing on the way.
Arrived(n, k, S) ==
  /\ k \in Msgs /\ msg[k].fate = "none" /\ th[n].k = NoMsg
  /\ \A q \in Msgs : q # k => msg'[q] = msg[q]
  /\ msg'[k].ngap = n /\ msg'[k].owed = 0 /\ msg'[k].fate = "handled"
  /\ \A q \in NgapIds : q # n => ngap'[q] = ngap[q] /\ th'[q] = th[q]
  /\ ngap'[n].count = Cardinality(S) /\ ngap'[n].rsp = 0 /\ ngap'[n].cur = k
  /\ th'[n].k = k /\ th'[n].todo = S
  /\ Cardinality(S) \in Nat
  /\ UNCHANGED <<tables, ngap_msg_list, pdu, timers, net, media, failed>>
  /\ TypeInv'

\* So it is.
LEMMA ArriveIs ==
  ASSUME TypeInv, PassInv, NEW n \in NgapIds, NEW dir \in {"amf", "gnb"},
         NEW kind \in {"ics", "setup", "handover"}, NEW S \in SUBSET Pdus, Arrive(n, dir, kind, S),
         NEW k, k = NextMsg
  PROVE  Arrived(n, k, S)
<1>m. PICK a : a = [ngap |-> n, dir |-> dir, kind |-> kind, owed |-> 0, fate |-> "handled"]
      OBVIOUS
<1>w. PICK w : w = [k |-> k, todo |-> S, bMedia |-> FALSE]
      OBVIOUS
<1>v. PICK V : V = IF dir = "amf" THEN ngap[n].vec \cup S ELSE ngap[n].vec
      OBVIOUS
<1>g. PICK G : G = [ngap[n] EXCEPT !.count = Cardinality(S), !.rsp = 0, !.cur = k, !.stray = FALSE, !.vec = V]
      OBVIOUS
<1>1. /\ k \in Msgs /\ th[n] = Idle
      /\ msg' = [msg EXCEPT ![k] = a]
      /\ th' = [th EXCEPT ![n] = w]
      /\ UNCHANGED <<tables, ngap_msg_list, pdu, timers, net, media, failed>>
      BY <1>m, <1>w DEF Arrive
<1>2. ngap' = [ngap EXCEPT ![n] = G]
  <2>1. ngap' = [ngap EXCEPT ![n].count = Cardinality(S), ![n].rsp = 0, ![n].cur = k,
                             ![n].stray = FALSE,
                             ![n].vec = IF dir = "amf" THEN @ \cup S ELSE @]
        BY DEF Arrive
  <2>2. ngap \in [NgapIds -> NgapRec] /\ ngap[n] \in NgapRec
        BY DEF TypeInv
  <2> QED
      BY <1>g, <1>v, <2>1, <2>2 DEF NgapRec
<1>3. Cardinality(S) \in Nat
      BY PduSessAssumption, FS_Subset, FS_CardinalityType
<1>4. /\ G \in NgapRec /\ G.count = Cardinality(S) /\ G.rsp = 0 /\ G.cur = k
  <2>1. ngap[n] \in NgapRec /\ V \in SUBSET Pdus
        BY <1>v DEF TypeInv, NgapRec
  <2>e. PICK e : e = [ngap[n] EXCEPT !.count = Cardinality(S), !.rsp = 0]
        OBVIOUS
  <2>2. e \in NgapRec /\ e.count = Cardinality(S) /\ e.rsp = 0
        BY <1>3, <2>1, <2>e DEF NgapRec
  <2>f. PICK f : f = [e EXCEPT !.cur = k, !.stray = FALSE]
        OBVIOUS
  <2>3. f \in NgapRec /\ f.count = Cardinality(S) /\ f.rsp = 0 /\ f.cur = k
        BY <1>1, <2>2, <2>f DEF NgapRec
  <2>4. G = [f EXCEPT !.vec = V]
        BY <1>g, <2>1, <2>e, <2>f DEF NgapRec
  <2> QED
      BY <2>1, <2>3, <2>4 DEF NgapRec
<1>5. msg[k].fate = "none"
  <2>1. UsedInv
        BY DEF PassInv
  <2>2. ~(k < NextMsg)
        BY <1>1, <2>1, NextMsgIs
  <2> QED
      BY <1>1, <2>1, <2>2, NextMsgIs
<1>6. a \in Message /\ a.ngap = n /\ a.owed = 0 /\ a.fate = "handled"
      BY <1>m DEF Message
<1>7. msg' \in [Msgs -> Message] /\ msg'[k] = a /\ \A q \in Msgs : q # k => msg'[q] = msg[q]
      BY <1>1, <1>6 DEF TypeInv
<1>8. w \in Work /\ w.k = k /\ w.todo = S
      BY <1>1, <1>w DEF Work
<1>9. th' \in [NgapIds -> Work] /\ th'[n] = w /\ \A q \in NgapIds : q # n => th'[q] = th[q]
      BY <1>1, <1>8 DEF TypeInv
<1>10. ngap' \in [NgapIds -> NgapRec] /\ ngap'[n] = G /\ \A q \in NgapIds : q # n => ngap'[q] = ngap[q]
       BY <1>2, <1>4 DEF TypeInv
<1>11. th[n].k = NoMsg
       BY <1>1 DEF Idle
<1>12. TypeInv'
       BY <1>1, <1>7, <1>9, <1>10 DEF TypeInv, tables
<1> QED
    BY <1>1, <1>3, <1>4, <1>5, <1>6, <1>7, <1>8, <1>9, <1>10, <1>11, <1>12 DEF Arrived

\* A new message disturbs nothing that is kept.
LEMMA ArriveKeeps ==
  ASSUME MapInv, PassInv, NEW n \in NgapIds, NEW dir \in {"amf", "gnb"},
         NEW kind \in {"ics", "setup", "handover"}, NEW S \in SUBSET Pdus, Arrive(n, dir, kind, S)
  PROVE  MapInv' /\ PassInv' /\ EarlyStep /\ LostStep
<1>0. /\ TypeInv /\ UsedInv /\ KeptInv /\ HandlerInv /\ AskedInv /\ OwedInv /\ CountInv /\ OlderInv
      BY DEF MapInv, PassInv
<1>k. PICK k : k = NextMsg
      OBVIOUS
<1>a. Arrived(n, k, S)
      BY <1>0, <1>k, ArriveIs
<1>1. /\ k \in Msgs /\ msg[k].fate = "none" /\ th[n].k = NoMsg
      /\ \A q \in Msgs : q # k => msg'[q] = msg[q]
      /\ msg'[k].ngap = n /\ msg'[k].owed = 0 /\ msg'[k].fate = "handled"
      /\ \A q \in NgapIds : q # n => ngap'[q] = ngap[q] /\ th'[q] = th[q]
      /\ ngap'[n].count = Cardinality(S) /\ ngap'[n].rsp = 0 /\ ngap'[n].cur = k
      /\ th'[n].k = k /\ th'[n].todo = S
      /\ Cardinality(S) \in Nat
      /\ UNCHANGED <<tables, ngap_msg_list, pdu, timers, net, media, failed>>
      /\ TypeInv'
      BY <1>a DEF Arrived
<1>2. TablesStay
      BY <1>1 DEF TablesStay, tables
<1>3. \A q \in Msgs : msg[q].fate = "kept" => msg'[q].fate = "kept" /\ msg'[q] = msg[q]
      BY <1>1
<1>4. EarlyStep /\ LostStep
      BY <1>0, <1>3, NothingPasses
<1>5. UsedInv'
  <2>1. k \in 0 .. MaxMsg
        BY <1>1, PduSessAssumption DEF Msgs
  <2>2. ASSUME NEW q \in Msgs
        PROVE  msg'[q].fate # "none" <=> q <= k
    <3>1. msg[q].fate # "none" <=> q < k
          BY <1>0, <1>k, NextMsgIs
    <3>2. q \in Nat /\ k \in Nat
          BY <1>1, NoMsgIs
    <3>3. CASE q = k
          BY <1>1, <3>2, <3>3
    <3>4. CASE q # k
          BY <1>1, <3>1, <3>2, <3>4
    <3> QED
        BY <3>3, <3>4
  <2> QED
      BY <2>1, <2>2 DEF UsedInv
<1>6. KeptInv'
      BY <1>0, <1>1, <1>3 DEF KeptInv, TypeInv
<1>7. \A q \in NgapIds : ngap[q].cur # NoMsg => ngap[q].cur \in Msgs /\ ngap[q].cur # k
      BY <1>0, <1>1 DEF HandlerInv, TypeInv, NgapRec
<1>8. HandlerInv'
  <2>1. ASSUME NEW q \in NgapIds
        PROVE  /\ ngap'[q].cur # NoMsg => msg'[ngap'[q].cur].ngap = q /\ msg'[ngap'[q].cur].fate # "none"
               /\ th'[q].k # NoMsg => th'[q].k = ngap'[q].cur
               /\ th'[q].k = NoMsg => th'[q].todo = {}
    <3>1. CASE q = n
          BY <1>1, <3>1, NoMsgIs
    <3>2. CASE q # n
          BY <1>0, <1>1, <1>7, <3>2 DEF HandlerInv
    <3> QED
        BY <3>1, <3>2
  <2> QED
      BY <2>1 DEF HandlerInv
<1>9. \A m \in net : m.for # NoMsg => m.for \in Msgs /\ m.for # k
      BY <1>0, <1>1 DEF AskedInv, TypeInv, Event
<1>10. AskedInv'
       BY <1>0, <1>1, <1>9 DEF AskedInv
<1>11. Counting(k) = {} /\ \A q : Counting(q)' = Counting(q)
       BY <1>1, <1>9, NoMsgIs DEF Counting
<1>12. OwedInv'
  <2>1. ASSUME NEW q \in Msgs
        PROVE  IsFiniteSet(Counting(q)') /\ Cardinality(Counting(q)') <= msg'[q].owed
    <3>1. CASE q = k
      <4>1. Counting(q)' = {}
            BY <1>11, <3>1
      <4>2. msg'[q].owed = 0
            BY <1>1, <3>1
      <4> QED
          BY <4>1, <4>2, FS_EmptySet
    <3>2. CASE q # k
          BY <1>0, <1>1, <1>11, <3>2 DEF OwedInv
    <3> QED
        BY <3>1, <3>2
  <2> QED
      BY <2>1 DEF OwedInv
<1>13. CountInv'
  <2>1. ASSUME NEW q \in NgapIds, ~ngap'[q].stray, ngap'[q].cur # NoMsg
        PROVE  msg'[ngap'[q].cur].owed + ngap'[q].rsp <= ngap'[q].count - Cardinality(th'[q].todo)
    <3>1. CASE q = n
          BY <1>1, <3>1
    <3>2. CASE q # n
          BY <1>0, <1>1, <1>7, <2>1, <3>2 DEF CountInv
    <3> QED
        BY <3>1, <3>2
  <2> QED
      BY <2>1 DEF CountInv
<1>14. OlderInv'
  <2>1. ASSUME NEW q \in NgapIds, NEW h, h = ngap_msg_list'[q], NEW c, c = ngap'[q].cur,
               h # NoMsg, h # c, c # NoMsg, msg'[h].ngap = q
        PROVE  \/ Cardinality(Counting(c)') < msg'[c].owed
               \/ Counting(c)' = {} /\ (th'[q].k = NoMsg \/ msg'[c].fate = "handled")
    <3>1. CASE q = n
          BY <1>1, <1>11, <2>1, <3>1
    <3>2. CASE q # n
      <4>1. q \in Slots /\ h = ngap_msg_list[q] /\ h \in Msgs
            BY <1>0, <1>1, <2>1, SlotsAre DEF TypeInv
      <4>2. msg'[h] = msg[h]
            BY <1>0, <1>1, <2>1, <4>1 DEF KeptInv
      <4>3. c = ngap[q].cur /\ msg'[c] = msg[c] /\ th'[q] = th[q]
            BY <1>1, <1>7, <2>1, <3>2
      <4>4. \/ Cardinality(Counting(c)) < msg[c].owed
            \/ Counting(c) = {} /\ (th[q].k = NoMsg \/ msg[c].fate = "handled")
            BY <1>0, <2>1, <4>1, <4>2, <4>3 DEF OlderInv
      <4> QED
          BY <1>11, <4>3, <4>4
    <3> QED
        BY <3>1, <3>2
  <2> QED
      BY <2>1 DEF OlderInv
<1> QED
    BY <1>1, <1>2, <1>4, <1>5, <1>6, <1>8, <1>10, <1>12, <1>13, <1>14, TablesStayKeep DEF PassInv

-----------------------------------------------------------------------------
(* A handler's steps.                                                      *)

\* The handler of n is through with r.
LEMMA DoneIs ==
  ASSUME TypeInv, NEW n \in NgapIds, NEW r \in Pdus, NEW b \in BOOLEAN, th' = Done(n, r, b)
  PROVE  /\ th' \in [NgapIds -> Work] /\ th'[n].k = th[n].k /\ th'[n].todo = th[n].todo \ {r}
         /\ \A q \in NgapIds : q # n => th'[q] = th[q]
<1>0. th[n] \in Work
      BY DEF TypeInv
<1>w. PICK w : w = [th[n] EXCEPT !.todo = th[n].todo \ {r}, !.bMedia = b]
      OBVIOUS
<1>1. th' = [th EXCEPT ![n] = w]
      BY <1>0, <1>w DEF Done, TypeInv, Work
<1>2. w \in Work /\ w.k = th[n].k /\ w.todo = th[n].todo \ {r}
      BY <1>0, <1>w DEF Work
<1> QED
    BY <1>1, <1>2 DEF TypeInv

\* What is left of a message's PDU sessions.
LEMMA TodoIs ==
  ASSUME TypeInv, NEW n \in NgapIds
  PROVE  /\ IsFiniteSet(th[n].todo) /\ Cardinality(th[n].todo) \in Nat
         /\ \A r : r \in th[n].todo => Cardinality(th[n].todo \ {r}) = Cardinality(th[n].todo) - 1
         /\ \A r : Cardinality(th[n].todo \ {r}) \in Nat
                   /\ Cardinality(th[n].todo \ {r}) <= Cardinality(th[n].todo)
<1>1. th[n].todo \subseteq Pdus
      BY DEF TypeInv, Work
<1>2. IsFiniteSet(th[n].todo)
      BY <1>1, PduSessAssumption, FS_Subset
<1>3. Cardinality(th[n].todo) \in Nat
      BY <1>2, FS_CardinalityType
<1>4. ASSUME NEW r
      PROVE  /\ IsFiniteSet(th[n].todo \ {r})
             /\ Cardinality(th[n].todo \ {r}) = IF r \in th[n].todo THEN Cardinality(th[n].todo) - 1
                                                ELSE Cardinality(th[n].todo)
      BY <1>2, FS_RemoveElement
<1>5. ASSUME NEW r
      PROVE  Cardinality(th[n].todo \ {r}) \in Nat
      BY <1>4, FS_CardinalityType
<1>6. ASSUME NEW r, r \in th[n].todo
      PROVE  Cardinality(th[n].todo \ {r}) = Cardinality(th[n].todo) - 1
      BY <1>4, <1>6
<1>7. ASSUME NEW r
      PROVE  Cardinality(th[n].todo \ {r}) <= Cardinality(th[n].todo)
      BY <1>3, <1>4
<1> QED
    BY <1>2, <1>3, <1>5, <1>6, <1>7

\* A PDU session is skipped.
LEMMA SkipKeeps ==
  ASSUME TypeInv, PassInv, NEW n \in NgapIds, th[n].k # NoMsg, NEW r \in Pdus, th' = Done(n, r, FALSE),
         UNCHANGED <<ngap_msg_list, ngap, net, msg>>
  PROVE  PassInv' /\ EarlyStep /\ LostStep
<1>0. /\ UsedInv /\ KeptInv /\ HandlerInv /\ AskedInv /\ OwedInv /\ CountInv /\ OlderInv
      BY DEF PassInv
<1>1. /\ th'[n].k = th[n].k /\ th'[n].todo = th[n].todo \ {r}
      /\ \A q \in NgapIds : q # n => th'[q] = th[q]
      BY DoneIs
<1>2. \A q \in NgapIds : th'[q].k = th[q].k
      BY <1>1
<1>3. \A q : Counting(q)' = Counting(q)
      BY DEF Counting
<1>4. UsedInv' /\ KeptInv' /\ AskedInv'
      BY <1>0 DEF UsedInv, KeptInv, AskedInv
<1>5. HandlerInv'
  <2>1. ASSUME NEW q \in NgapIds
        PROVE  th'[q].k = NoMsg => th'[q].todo = {}
    <3>1. th[q].k = NoMsg => th[q].todo = {}
          BY <1>0 DEF HandlerInv
    <3>2. CASE q = n
          BY <1>1, <3>2
    <3>3. CASE q # n
          BY <1>1, <3>1, <3>3
    <3> QED
        BY <3>2, <3>3
  <2> QED
      BY <1>0, <1>2, <2>1 DEF HandlerInv
<1>6. OwedInv'
      BY <1>0, <1>3 DEF OwedInv
<1>7. CountInv'
  <2>1. ASSUME NEW q \in NgapIds, ~ngap[q].stray, ngap[q].cur # NoMsg
        PROVE  msg[ngap[q].cur].owed + ngap[q].rsp <= ngap[q].count - Cardinality(th'[q].todo)
    <3>1. msg[ngap[q].cur].owed + ngap[q].rsp <= ngap[q].count - Cardinality(th[q].todo)
          BY <1>0, <2>1 DEF CountInv
    <3>2. CASE q # n
          BY <1>1, <3>1, <3>2
    <3>3. CASE q = n
      <4>1. /\ Cardinality(th[n].todo) \in Nat /\ Cardinality(th[n].todo \ {r}) \in Nat
            /\ Cardinality(th[n].todo \ {r}) <= Cardinality(th[n].todo)
            BY TodoIs
      <4>2. ngap[n].count \in Nat /\ ngap[n].rsp \in Nat /\ ngap[n].cur \in Msgs
            BY <2>1, <3>3 DEF TypeInv, NgapRec
      <4>3. msg[ngap[n].cur].owed \in Nat
            BY <4>2 DEF TypeInv, Message
      <4>4. Cardinality(th'[n].todo) \in Nat /\ Cardinality(th'[n].todo) <= Cardinality(th[n].todo)
            BY <1>1, <4>1
      <4>5. msg[ngap[n].cur].owed + ngap[n].rsp <= ngap[n].count - Cardinality(th[n].todo)
            BY <3>1, <3>3
      <4>6. msg[ngap[n].cur].owed + ngap[n].rsp <= ngap[n].count - Cardinality(th'[n].todo)
        <5>x. PICK x \in Nat : x = Cardinality(th[n].todo)
              BY <4>1
        <5>y. PICK y \in Nat : y = Cardinality(th'[n].todo)
              BY <4>4
        <5>1. y <= x /\ msg[ngap[n].cur].owed + ngap[n].rsp <= ngap[n].count - x
              BY <4>4, <4>5, <5>x, <5>y
        <5>2. msg[ngap[n].cur].owed + ngap[n].rsp <= ngap[n].count - y
              BY <4>2, <4>3, <5>1
        <5> QED
            BY <5>2, <5>y
      <4> QED
          BY <3>3, <4>6
    <3> QED
        BY <3>2, <3>3
  <2> QED
      BY <2>1 DEF CountInv
<1>8. OlderInv'
      BY <1>0, <1>2, <1>3 DEF OlderInv
<1>9. EarlyStep /\ LostStep
      BY <1>0, AsidePasses
<1> QED
    BY <1>4, <1>5, <1>6, <1>7, <1>8, <1>9 DEF PassInv

\* A request goes out for message k of n, which is kept in slot i: under n, or for an update.
Asks(n, r, k, i, a) ==
  /\ k = th[n].k /\ k # NoMsg /\ r \in th[n].todo /\ Saved(k, i)
  /\ net' = net \cup {a} /\ a.for = k /\ (Gnbs(a) <=> msg[k].dir = "gnb")
  /\ i # n => Updates(a)
  /\ th' = Done(n, r, TRUE) /\ ngap' = ngap

\* The events under way for k are one more; the others stay.
LEMMA AsksCounts ==
  ASSUME TypeInv, OwedInv, NEW a, NEW k \in Msgs, net' = net \cup {a}, a.for = k
  PROVE  /\ \A q : q # k => Counting(q)' = Counting(q)
         /\ Updates(a) => Counting(k)' = Counting(k)
         /\ IsFiniteSet(Counting(k)') /\ Cardinality(Counting(k)') \in Nat /\ Cardinality(Counting(k)) \in Nat
         /\ Cardinality(Counting(k)') <= Cardinality(Counting(k)) + 1
<1>1. \A q : q # k => Counting(q)' = Counting(q)
      BY DEF Counting
<1>2. Updates(a) => Counting(k)' = Counting(k)
      BY DEF Counting, Updates
<1>3. ~Updates(a) => Counting(k)' = Counting(k) \cup {a}
      BY DEF Counting, Updates
<1>4. IsFiniteSet(Counting(k))
      BY DEF OwedInv
<1>5. /\ IsFiniteSet(Counting(k) \cup {a})
      /\ Cardinality(Counting(k) \cup {a}) = IF a \in Counting(k) THEN Cardinality(Counting(k))
                                             ELSE Cardinality(Counting(k)) + 1
      BY <1>4, FS_AddElement
<1>6. Cardinality(Counting(k)) \in Nat
      BY <1>4, FS_CardinalityType
<1>7. /\ IsFiniteSet(Counting(k)')
      /\ Cardinality(Counting(k)') \in Nat /\ Cardinality(Counting(k)') <= Cardinality(Counting(k)) + 1
  <2>1. CASE Updates(a)
        BY <1>2, <1>4, <1>6, <2>1
  <2>2. CASE ~Updates(a)
    <3>c. PICK C : C = Counting(k) \cup {a}
          OBVIOUS
    <3>1. Counting(k)' = C
          BY <1>3, <2>2, <3>c
    <3>2. IsFiniteSet(C) /\ Cardinality(C) \in Nat
          BY <1>5, <3>c, FS_CardinalityType
    <3>3. Cardinality(C) <= Cardinality(Counting(k)) + 1
          BY <1>5, <1>6, <3>c
    <3> QED
        BY <3>1, <3>2, <3>3
  <2> QED
      BY <2>1, <2>2
<1> QED
    BY <1>1, <1>2, <1>6, <1>7

\* Asking counts one more as owed and one less as to do.
LEMMA AskKeeps ==
  ASSUME TypeInv, TypeInv', PassInv, NEW n \in NgapIds, NEW r \in Pdus, NEW k, NEW i \in Slots, NEW a,
         Asks(n, r, k, i, a)
  PROVE  PassInv' /\ EarlyStep /\ LostStep
<1>0. /\ UsedInv /\ KeptInv /\ HandlerInv /\ AskedInv /\ OwedInv /\ CountInv /\ OlderInv
      BY DEF PassInv
<1>1. /\ k = th[n].k /\ k # NoMsg /\ r \in th[n].todo /\ Saved(k, i)
      /\ net' = net \cup {a} /\ a.for = k /\ (Gnbs(a) <=> msg[k].dir = "gnb")
      /\ i # n => Updates(a)
      /\ th' = Done(n, r, TRUE) /\ ngap' = ngap
      BY DEF Asks
<1>2. k \in Msgs /\ ngap[n].cur = k /\ msg[k].ngap = n /\ msg[k].fate # "none"
      BY <1>0, <1>1 DEF HandlerInv, TypeInv, Work
<1>3. /\ msg'[k].owed = msg[k].owed + 1
      /\ \A q \in Msgs : /\ q # k => msg'[q].owed = msg[q].owed
                         /\ msg'[q].ngap = msg[q].ngap /\ msg'[q].dir = msg[q].dir
      /\ msg[k].fate # "handled" => /\ ngap_msg_list' = ngap_msg_list
                                    /\ \A q \in Msgs : msg'[q].fate = msg[q].fate
      /\ msg[k].fate = "handled" =>
           /\ ngap_msg_list' = [ngap_msg_list EXCEPT ![i] = k] /\ msg'[k].fate = "kept"
           /\ \A q \in Msgs : q # k => msg'[q].fate = IF q = ngap_msg_list[i] THEN "lost" ELSE msg[q].fate
      BY <1>1, <1>2, SavedIs
<1>4. /\ th'[n].k = th[n].k /\ th'[n].todo = th[n].todo \ {r}
      /\ \A q \in NgapIds : q # n => th'[q] = th[q]
      BY <1>1, DoneIs
<1>5. /\ \A q : q # k => Counting(q)' = Counting(q)
      /\ Updates(a) => Counting(k)' = Counting(k)
      /\ IsFiniteSet(Counting(k)') /\ Cardinality(Counting(k)') \in Nat /\ Cardinality(Counting(k)) \in Nat
      /\ Cardinality(Counting(k)') <= Cardinality(Counting(k)) + 1
      BY <1>0, <1>1, <1>2, AsksCounts
<1>6. \A q \in Msgs : /\ msg[q].owed \in Nat
                      /\ msg'[q].fate = "none" <=> msg[q].fate = "none"
                      /\ msg'[q].fate = "handled" => msg[q].fate = "handled" /\ q # k
                      /\ msg[q].fate = "handled" /\ q # k => msg'[q].fate = "handled"
                      /\ msg'[q].fate = "handled" => q # k
  <2>1. ASSUME NEW q \in Msgs
        PROVE  /\ msg'[q].fate = "none" <=> msg[q].fate = "none"
               /\ msg'[q].fate = "handled" <=> msg[q].fate = "handled" /\ q # k
    <3>1. q = ngap_msg_list[i] => msg[q].fate = "kept"
          BY <1>0, <2>1, NoMsgIs DEF KeptInv
    <3> QED
        BY <1>2, <1>3, <3>1
  <2>2. \A q \in Msgs : msg[q].owed \in Nat
        BY DEF TypeInv, Message
  <2> QED
      BY <2>1, <2>2
<1>7. \A j \in Slots : ngap_msg_list[j] # NoMsg =>
        /\ ngap_msg_list[j] \in Msgs /\ msg[ngap_msg_list[j]].fate = "kept"
        /\ msg'[ngap_msg_list[j]].fate \in {"kept", "lost"}
        /\ ngap_msg_list'[j] # NoMsg
  <2>1. ASSUME NEW j \in Slots, ngap_msg_list[j] # NoMsg, NEW q, q = ngap_msg_list[j]
        PROVE  q \in Msgs /\ msg[q].fate = "kept" /\ msg'[q].fate \in {"kept", "lost"} /\ ngap_msg_list'[j] # NoMsg
    <3>1. q \in Msgs /\ msg[q].fate = "kept"
          BY <1>0, <2>1 DEF KeptInv, TypeInv
    <3>2. msg'[q].fate \in {"kept", "lost"}
          BY <1>3, <3>1
    <3>3. ngap_msg_list'[j] # NoMsg
          BY <1>1, <1>3, <2>1 DEF TypeInv
    <3> QED
        BY <3>1, <3>2, <3>3
  <2> QED
      BY <2>1
<1>8. EarlyStep /\ LostStep
  <2>1. EarlyStep
        BY <1>7, SlotsAre DEF EarlyStep
  <2>2. LostStep
        BY <1>7 DEF LostStep
  <2> QED
      BY <2>1, <2>2
<1>9. UsedInv'
      BY <1>0, <1>6 DEF UsedInv
<1>10. KeptInv'
  <2>1. CASE msg[k].fate # "handled"
    <3>1. ngap_msg_list' = ngap_msg_list /\ \A q \in Msgs : msg'[q].fate = msg[q].fate
          BY <1>3, <2>1
    <3> QED
        BY <1>0, <1>7, <3>1 DEF KeptInv
  <2>2. CASE msg[k].fate = "handled"
    <3>1. /\ ngap_msg_list'[i] = k /\ msg'[k].fate = "kept"
          /\ \A j \in Slots : j # i => ngap_msg_list'[j] = ngap_msg_list[j]
          BY <1>3, <2>2 DEF TypeInv
    <3>2. \A j \in Slots : ngap_msg_list[j] # k
          BY <1>1, <1>7, <2>2
    <3>3. \A j \in Slots : j # i /\ ngap_msg_list[j] # NoMsg => msg'[ngap_msg_list[j]].fate = "kept"
      <4>1. ASSUME NEW j \in Slots, j # i, ngap_msg_list[j] # NoMsg, NEW q, q = ngap_msg_list[j]
            PROVE  msg'[q].fate = "kept"
        <5>1. q \in Msgs /\ msg[q].fate = "kept" /\ q # k
              BY <1>7, <3>2, <4>1
        <5>2. q # ngap_msg_list[i]
              BY <1>0, <4>1 DEF KeptInv
        <5> QED
            BY <1>3, <2>2, <5>1, <5>2
      <4> QED
          BY <4>1
    <3>4. ASSUME NEW j \in Slots, ngap_msg_list'[j] # NoMsg
          PROVE  msg'[ngap_msg_list'[j]].fate = "kept"
          BY <3>1, <3>3, <3>4
    <3>5. ASSUME NEW j \in Slots, NEW h \in Slots, ngap_msg_list'[j] # NoMsg, ngap_msg_list'[j] = ngap_msg_list'[h]
          PROVE  j = h
      <4>1. CASE j = i \/ h = i
            BY <3>1, <3>2, <3>5, <4>1
      <4>2. CASE j # i /\ h # i
        <5>1. ngap_msg_list[j] # NoMsg /\ ngap_msg_list[j] = ngap_msg_list[h]
              BY <3>1, <3>5, <4>2
        <5> QED
            BY <1>0, <5>1 DEF KeptInv
      <4> QED
          BY <4>1, <4>2
    <3> QED
        BY <3>4, <3>5 DEF KeptInv
  <2> QED
      BY <2>1, <2>2
<1>11. \A q \in NgapIds : ngap[q].cur # NoMsg => ngap[q].cur \in Msgs /\ (q # n => ngap[q].cur # k)
       BY <1>0, <1>2 DEF HandlerInv, TypeInv, NgapRec
<1>12. HandlerInv'
  <2>1. ASSUME NEW q \in NgapIds
        PROVE  /\ ngap'[q].cur # NoMsg => msg'[ngap'[q].cur].ngap = q /\ msg'[ngap'[q].cur].fate # "none"
               /\ th'[q].k # NoMsg => th'[q].k = ngap'[q].cur
               /\ th'[q].k = NoMsg => th'[q].todo = {}
    <3>1. /\ ngap[q].cur # NoMsg => msg[ngap[q].cur].ngap = q /\ msg[ngap[q].cur].fate # "none"
          /\ th[q].k # NoMsg => th[q].k = ngap[q].cur
          /\ th[q].k = NoMsg => th[q].todo = {}
          BY <1>0 DEF HandlerInv
    <3>2. th'[q].k = th[q].k /\ (th[q].k = NoMsg => th'[q].todo = th[q].todo)
          BY <1>1, <1>4
    <3> QED
        BY <1>1, <1>3, <1>6, <1>11, <3>1, <3>2
  <2> QED
      BY <2>1 DEF HandlerInv
<1>13. AskedInv'
  <2>1. ASSUME NEW m \in net', m.for # NoMsg
        PROVE  /\ msg'[m.for].fate \notin {"none", "handled"}
               /\ msg'[m.for].dir = IF m.type = "GNB_SETUP_REQ" \/ m.type = "GNB_SETUP_RSP" THEN "gnb" ELSE "amf"
    <3>1. CASE m = a
      <4>1. msg'[k].fate \notin {"none", "handled"} /\ msg'[k].dir = msg[k].dir
            BY <1>2, <1>3, <1>6
      <4>2. msg[k].dir \in {"amf", "gnb"}
            BY <1>2 DEF TypeInv, Message
      <4> QED
          BY <1>1, <3>1, <4>1, <4>2 DEF Gnbs
    <3>2. CASE m # a
      <4>1. m \in net /\ m.for \in Msgs
            BY <1>1, <2>1, <3>2 DEF TypeInv, Event
      <4>2. /\ msg[m.for].fate \notin {"none", "handled"}
            /\ msg[m.for].dir = IF m.type = "GNB_SETUP_REQ" \/ m.type = "GNB_SETUP_RSP" THEN "gnb" ELSE "amf"
            BY <1>0, <2>1, <4>1 DEF AskedInv
      <4> QED
          BY <1>3, <1>6, <4>1, <4>2
    <3> QED
        BY <3>1, <3>2
  <2> QED
      BY <2>1 DEF AskedInv
<1>14. OwedInv'
  <2>1. ASSUME NEW q \in Msgs
        PROVE  IsFiniteSet(Counting(q)') /\ Cardinality(Counting(q)') <= msg'[q].owed
    <3>1. IsFiniteSet(Counting(q)) /\ Cardinality(Counting(q)) <= msg[q].owed
          BY <1>0 DEF OwedInv
    <3>2. CASE q = k
          BY <1>3, <1>5, <1>6, <3>1, <3>2
    <3>3. CASE q # k
          BY <1>3, <1>5, <3>1, <3>3
    <3> QED
        BY <3>2, <3>3
  <2> QED
      BY <2>1 DEF OwedInv
<1>15. CountInv'
  <2>1. ASSUME NEW q \in NgapIds, ~ngap[q].stray, ngap[q].cur # NoMsg
        PROVE  msg'[ngap[q].cur].owed + ngap[q].rsp <= ngap[q].count - Cardinality(th'[q].todo)
    <3>1. msg[ngap[q].cur].owed + ngap[q].rsp <= ngap[q].count - Cardinality(th[q].todo)
          BY <1>0, <2>1 DEF CountInv
    <3>2. CASE q # n
          BY <1>3, <1>4, <1>11, <2>1, <3>1, <3>2
    <3>3. CASE q = n
      <4>1. /\ Cardinality(th[n].todo) \in Nat /\ Cardinality(th'[n].todo) = Cardinality(th[n].todo) - 1
            BY <1>1, <1>4, TodoIs
      <4>2. ngap[n].count \in Nat /\ ngap[n].rsp \in Nat /\ msg[k].owed \in Nat
            BY <1>2, <1>6 DEF TypeInv, NgapRec
      <4> QED
          BY <1>2, <1>3, <3>1, <3>3, <4>1, <4>2
    <3> QED
        BY <3>2, <3>3
  <2> QED
      BY <1>1, <2>1 DEF CountInv
<1>16. OlderInv'
  <2>1. ASSUME NEW q \in NgapIds, NEW h, h = ngap_msg_list'[q], NEW c, c = ngap[q].cur,
               h # NoMsg, h # c, c # NoMsg, msg'[h].ngap = q
        PROVE  \/ Cardinality(Counting(c)') < msg'[c].owed
               \/ Counting(c)' = {} /\ (th'[q].k = NoMsg \/ msg'[c].fate = "handled")
    <3>0. q \in Slots /\ c \in Msgs /\ h \in Msgs
          BY <1>11, <2>1, SlotsAre DEF TypeInv
    <3>1. CASE q = n
      <4>1. c = k
            BY <1>2, <2>1, <3>1
      <4>2. CASE Updates(a)
        <5>1. Cardinality(Counting(k)) <= msg[k].owed
              BY <1>0, <1>2 DEF OwedInv
        <5> QED
            BY <1>2, <1>3, <1>5, <1>6, <4>1, <4>2, <5>1
      <4>3. CASE ~Updates(a)
        <5>1. i = n /\ msg[k].fate # "handled"
              BY <1>1, <1>3, <2>1, <3>0, <3>1, <4>1, <4>3 DEF TypeInv
        <5>2. h = ngap_msg_list[n]
              BY <1>3, <2>1, <3>1, <5>1
        <5>3. msg[h].ngap = n
              BY <1>3, <2>1, <3>0, <3>1
        <5>4. \/ Cardinality(Counting(k)) < msg[k].owed
              \/ Counting(k) = {} /\ (th[n].k = NoMsg \/ msg[k].fate = "handled")
              BY <1>0, <1>2, <2>1, <4>1, <5>2, <5>3 DEF OlderInv
        <5>5. Cardinality(Counting(k)) < msg[k].owed
              BY <1>1, <5>1, <5>4
        <5> QED
            BY <1>2, <1>3, <1>5, <1>6, <4>1, <5>5
      <4> QED
          BY <4>2, <4>3
    <3>2. CASE q # n
      <4>1. c # k /\ th'[q] = th[q]
            BY <1>4, <1>11, <2>1, <3>2
      <4>2. h # k
            BY <1>2, <1>3, <2>1, <3>0, <3>2
      <4>3. h = ngap_msg_list[q]
            BY <1>3, <2>1, <3>0, <4>2 DEF TypeInv
      <4>4. msg[h].ngap = q
            BY <1>3, <2>1, <3>0
      <4>5. \/ Cardinality(Counting(c)) < msg[c].owed
            \/ Counting(c) = {} /\ (th[q].k = NoMsg \/ msg[c].fate = "handled")
            BY <1>0, <2>1, <4>3, <4>4 DEF OlderInv
      <4> QED
          BY <1>3, <1>5, <1>6, <3>0, <4>1, <4>5
    <3> QED
        BY <3>1, <3>2
  <2> QED
      BY <1>1, <2>1 DEF OlderInv
<1> QED
    BY <1>8, <1>9, <1>10, <1>12, <1>13, <1>14, <1>15, <1>16 DEF PassInv

\* A handler ends: what it has not kept is sent.
LEMMA HandlerEndsKeeps ==
  ASSUME MapInv, PassInv, NEW n \in NgapIds, HandlerEnds(n)
  PROVE  MapInv' /\ PassInv' /\ EarlyStep /\ LostStep
<1>0. TypeInv /\ UsedInv /\ KeptInv /\ HandlerInv /\ AskedInv /\ OwedInv /\ CountInv /\ OlderInv
      BY DEF MapInv, PassInv
<1>k. PICK k : k = th[n].k
      OBVIOUS
<1>1. /\ k # NoMsg /\ th[n].todo = {}
      /\ msg' = IF msg[k].fate = "handled" /\ ~th[n].bMedia THEN [msg EXCEPT ![k].fate = "sent"] ELSE msg
      /\ th' = [th EXCEPT ![n] = Idle]
      /\ UNCHANGED <<tables, ngap_msg_list, pdu, timers, ngap, net, media, failed>>
      BY <1>k DEF HandlerEnds
<1>2. k \in Msgs /\ ngap[n].cur = k /\ msg[k].ngap = n
      BY <1>0, <1>1, <1>k DEF HandlerInv, TypeInv, Work
<1>3. /\ msg' \in [Msgs -> Message]
      /\ \A q \in Msgs : /\ msg'[q].owed = msg[q].owed /\ msg'[q].ngap = msg[q].ngap
                         /\ msg'[q].dir = msg[q].dir
                         /\ \/ msg'[q].fate = msg[q].fate
                            \/ q = k /\ msg[q].fate = "handled" /\ msg'[q].fate = "sent"
  <2>a. PICK a : a = [msg[k] EXCEPT !.fate = "sent"]
        OBVIOUS
  <2>1. /\ a \in Message /\ a.fate = "sent"
        /\ a.owed = msg[k].owed /\ a.ngap = msg[k].ngap /\ a.dir = msg[k].dir
    <3>1. msg[k] \in Message
          BY <1>0, <1>2 DEF TypeInv
    <3> QED
        BY <2>a, <3>1 DEF Message
  <2>2. CASE msg[k].fate = "handled" /\ ~th[n].bMedia
    <3>1. msg' = [msg EXCEPT ![k] = a]
          BY <1>1, <2>a, <2>2
    <3> QED
        BY <1>0, <1>2, <2>1, <2>2, <3>1 DEF TypeInv
  <2>3. CASE ~(msg[k].fate = "handled" /\ ~th[n].bMedia)
        BY <1>0, <1>1, <2>3 DEF TypeInv
  <2> QED
      BY <2>2, <2>3
<1>4. Idle \in Work /\ Idle.k = NoMsg /\ Idle.todo = {}
      BY DEF Idle, Work
<1>5. th' \in [NgapIds -> Work] /\ th'[n] = Idle /\ \A q \in NgapIds : q # n => th'[q] = th[q]
      BY <1>0, <1>1, <1>4 DEF TypeInv
<1>6. TypeInv'
      BY <1>0, <1>1, <1>3, <1>5 DEF TypeInv, tables
<1>7. TablesStay
      BY <1>1 DEF TablesStay, tables
<1>8. EarlyStep /\ LostStep
  <2>1. \A q \in Msgs : msg[q].fate = "kept" => msg'[q].fate = "kept"
        BY <1>3
  <2> QED
      BY <1>0, <2>1, NothingPasses
<1>9. UsedInv'
      BY <1>0, <1>3 DEF UsedInv
<1>10. KeptInv'
      BY <1>0, <1>1, <1>3 DEF KeptInv, TypeInv
<1>11. HandlerInv'
  <2>1. ASSUME NEW q \in NgapIds
        PROVE  /\ ngap'[q].cur # NoMsg => msg'[ngap'[q].cur].ngap = q /\ msg'[ngap'[q].cur].fate # "none"
               /\ th'[q].k # NoMsg => th'[q].k = ngap'[q].cur
               /\ th'[q].k = NoMsg => th'[q].todo = {}
    <3>1. /\ ngap[q].cur # NoMsg => msg[ngap[q].cur].ngap = q /\ msg[ngap[q].cur].fate # "none"
          /\ th[q].k # NoMsg => th[q].k = ngap[q].cur
          /\ th[q].k = NoMsg => th[q].todo = {}
          BY <1>0 DEF HandlerInv
    <3>2. ngap'[q].cur = ngap[q].cur /\ ngap[q].cur \in Msgs \cup {NoMsg}
          BY <1>0, <1>1 DEF TypeInv, NgapRec
    <3>3. ngap[q].cur # NoMsg => msg'[ngap[q].cur].ngap = q /\ msg'[ngap[q].cur].fate # "none"
          BY <1>3, <3>1, <3>2
    <3>4. th'[q].k # NoMsg => th'[q] = th[q]
          BY <1>4, <1>5
    <3>5. th'[q].k = NoMsg => th'[q].todo = {}
          BY <1>4, <1>5, <3>1
    <3> QED
        BY <3>1, <3>2, <3>3, <3>4, <3>5
  <2> QED
      BY <2>1 DEF HandlerInv
<1>12. AskedInv'
  <2>1. ASSUME NEW m \in net, m.for # NoMsg
        PROVE  m.for \in Msgs
        BY <1>0, <2>1 DEF TypeInv, Event
  <2>2. ASSUME NEW m \in net, m.for # NoMsg
        PROVE  msg'[m.for].fate \notin {"none", "handled"} /\ msg'[m.for].dir = msg[m.for].dir
        BY <1>0, <1>3, <2>1, <2>2 DEF AskedInv
  <2> QED
      BY <1>0, <1>1, <2>2 DEF AskedInv
<1>13. \A q : Counting(q)' = Counting(q)
      BY <1>1 DEF Counting
<1>14. OwedInv'
      BY <1>0, <1>3, <1>13 DEF OwedInv
<1>15. \A q \in NgapIds : ngap'[q] = ngap[q] /\ th'[q].todo = th[q].todo
      BY <1>1, <1>4, <1>5
<1>16. \A q \in NgapIds : ngap[q].cur # NoMsg => ngap[q].cur \in Msgs /\ msg[ngap[q].cur].ngap = q
      BY <1>0 DEF HandlerInv, TypeInv, NgapRec
<1>17. CountInv'
      BY <1>0, <1>3, <1>15, <1>16 DEF CountInv
<1>18. OlderInv'
  <2>1. ASSUME NEW q \in NgapIds, NEW h, h = ngap_msg_list[q], NEW c, c = ngap[q].cur,
               h # NoMsg, h # c, c # NoMsg, msg'[h].ngap = q
        PROVE  \/ Cardinality(Counting(c)') < msg'[c].owed
               \/ Counting(c)' = {} /\ (th'[q].k = NoMsg \/ msg'[c].fate = "handled")
    <3>1. c \in Msgs /\ msg[c].ngap = q /\ h \in Msgs
          BY <1>0, <1>16, <2>1, SlotsAre DEF TypeInv
    <3>2. \/ Cardinality(Counting(c)) < msg[c].owed
          \/ Counting(c) = {} /\ (th[q].k = NoMsg \/ msg[c].fate = "handled")
          BY <1>0, <1>3, <2>1, <3>1 DEF OlderInv
    <3>3. CASE q = n
          BY <1>3, <1>4, <1>5, <1>13, <3>1, <3>2, <3>3
    <3>4. CASE q # n
          BY <1>2, <1>3, <1>5, <1>13, <3>1, <3>2, <3>4
    <3> QED
        BY <3>3, <3>4
  <2> QED
      BY <1>1, <2>1 DEF OlderInv
<1> QED
    BY <1>6, <1>7, <1>8, <1>9, <1>10, <1>11, <1>12, <1>14, <1>17, <1>18, TablesStayKeep DEF PassInv

\* A PDU session enters the tables under an id that was free.
LEMMA EnterMaps ==
  ASSUME MapInv, NEW n \in NgapIds, NEW r \in Pdus, NEW o \in Objects, NEW i \in Ids,
         session_list[i] = NULL, pdu[o].st = "none", failed' = failed,
         session_list' = [session_list EXCEPT ![i] = o],
         session_id_map' = [session_id_map EXCEPT ![<<r, n>>] = i],
         pdu' = [pdu EXCEPT ![o] = [NoPdu EXCEPT !.st = "live", !.sig = i, !.ngap = n, !.res = r]]
  PROVE  /\ ListInv' /\ LeadInv'
         /\ session_list' \in [Ids -> Objects \cup {NULL}] /\ pdu' \in [Objects -> PduRec]
         /\ session_id_map' \in [Pdus \X NgapIds -> Ids \cup {INVALIDE_ID}]
<1>0. TypeInv /\ ListInv /\ LeadInv
      BY DEF MapInv
<1>s. PICK s : s = [NoPdu EXCEPT !.st = "live", !.sig = i, !.ngap = n, !.res = r]
      OBVIOUS
<1>1. s \in PduRec /\ s.st = "live" /\ s.sig = i /\ s.ngap = n /\ s.res = r
      BY <1>s DEF NoPdu, PduRec
<1>2. pdu' \in [Objects -> PduRec] /\ pdu'[o] = s /\ \A q \in Objects : q # o => pdu'[q] = pdu[q]
      BY <1>0, <1>1, <1>s DEF TypeInv
<1>3. /\ session_list' \in [Ids -> Objects \cup {NULL}] /\ session_list'[i] = o
      /\ \A j \in Ids : j # i => session_list'[j] = session_list[j]
      BY <1>0 DEF TypeInv
<1>4. /\ session_id_map' \in [Pdus \X NgapIds -> Ids \cup {INVALIDE_ID}]
      /\ session_id_map'[<<r, n>>] = i
      /\ \A x \in Pdus \X NgapIds : x # <<r, n>> => session_id_map'[x] = session_id_map[x]
      BY <1>0 DEF TypeInv
<1>5. \A j \in Ids : session_list[j] # NULL =>
        /\ session_list[j] \in Objects /\ session_list[j] # o /\ j # i
        /\ pdu[session_list[j]].sig = j /\ pdu[session_list[j]].st = "live"
        /\ pdu[session_list[j]].ngap \in NgapIds
      BY <1>0, AnsweredIs
<1>6. \A j \in Ids : session_list[j] # NULL =>
        session_list'[j] = session_list[j] /\ pdu'[session_list[j]] = pdu[session_list[j]]
      BY <1>2, <1>3, <1>5
<1>7. ListInv'
  <2>1. ASSUME NEW j \in Ids, session_list'[j] # NULL
        PROVE  LET t == pdu'[session_list'[j]] IN t.st = "live" /\ t.sig = j /\ t.ngap \in NgapIds
    <3>1. CASE j = i
          BY <1>1, <1>2, <1>3, <3>1
    <3>2. CASE j # i
      <4>1. session_list[j] # NULL
            BY <1>3, <2>1, <3>2
      <4> QED
          BY <1>5, <1>6, <4>1
    <3> QED
        BY <3>1, <3>2
  <2> QED
      BY <2>1 DEF ListInv
<1>8. LeadInv'
  <2>1. ASSUME failed = {}, NEW q \in NgapIds, NEW p \in Pdus, session_id_map'[<<p, q>>] # INVALIDE_ID
        PROVE  LET j == session_id_map'[<<p, q>>] IN
               session_list'[j] # NULL /\ pdu'[session_list'[j]].ngap = q /\ pdu'[session_list'[j]].res = p
    <3>1. CASE p = r /\ q = n
      <4>1. o # NULL
            BY PduSessAssumption
      <4> QED
          BY <1>1, <1>2, <1>3, <1>4, <3>1, <4>1
    <3>2. CASE ~(p = r /\ q = n)
      <4>1. session_id_map'[<<p, q>>] = session_id_map[<<p, q>>]
            BY <1>4, <3>2
      <4>j. PICK j \in Ids : j = session_id_map[<<p, q>>]
            BY <1>0, <2>1, <4>1 DEF TypeInv
      <4>2. session_list[j] # NULL /\ pdu[session_list[j]].ngap = q /\ pdu[session_list[j]].res = p
            BY <1>0, <2>1, <4>1, <4>j DEF LeadInv
      <4> QED
          BY <1>6, <4>1, <4>j, <4>2
    <3> QED
        BY <3>1, <3>2
  <2> QED
      BY <2>1 DEF LeadInv
<1> QED
    BY <1>2, <1>3, <1>4, <1>7, <1>8

\* One more timer is armed.
LEMMA ArmedIs ==
  ASSUME TypeInv, NEW o \in Objects
  PROVE  Armed(o) \in [Objects -> Nat]
<1>1. timers[o] + 1 \in Nat
      BY DEF TypeInv
<1> QED
    BY <1>1 DEF Armed, TypeInv

\* A PDU session is set up: a new id, a new session, a request to the media gateway.
LEMMA SetupReqKeeps ==
  ASSUME MapInv, PassInv, NEW n \in NgapIds, NEW r \in Pdus, NEW o \in Objects,
         th[n].k # NoMsg, r \in th[n].todo, msg[th[n].k].dir = "amf", processSessSetupReq(n, r, o)
  PROVE  MapInv' /\ PassInv' /\ EarlyStep /\ LostStep
<1>0. TypeInv /\ KeptInv
      BY DEF MapInv, PassInv
<1>k. PICK k \in Msgs : k = th[n].k
      BY <1>0 DEF TypeInv, Work
<1>1. CASE FreeSteps = {}
  <2>1. /\ m_currentSessId' = NextId(MAX_PDU_SESSIONS) /\ th' = Done(n, r, FALSE)
        /\ UNCHANGED <<session_list, session_id_map, ngap_msg_list, pdu, timers, ngap, net, media, msg, failed>>
        BY <1>1 DEF processSessSetupReq
  <2>2. m_currentSessId' \in Ids
        BY <1>0, <2>1, NextIdIs, PduSessAssumption
  <2>3. th' \in [NgapIds -> Work]
        BY <1>0, <2>1, DoneIs
  <2>4. TypeInv'
        BY <1>0, <2>1, <2>2, <2>3 DEF TypeInv
  <2>5. TablesStay
        BY <2>1 DEF TablesStay
  <2>6. PassInv' /\ EarlyStep /\ LostStep
        BY <1>0, <2>1, SkipKeeps
  <2> QED
      BY <2>4, <2>5, <2>6, TablesStayKeep
<1>2. CASE FreeSteps # {}
  <2>j. PICK j : j = CHOOSE x \in FreeSteps : \A y \in FreeSteps : x <= y
        OBVIOUS
  <2>i. PICK i : i = NextId(j)
        OBVIOUS
  <2>a. PICK a : a = [UpfSetupReq(o, k) EXCEPT !.sig = i]
        OBVIOUS
  <2>1. i \in Ids /\ session_list[i] = NULL
        BY <1>0, <1>2, <2>j, <2>i, FreeIdIs
  <2>2. /\ pdu[o].st = "none" /\ m_currentSessId' = i
        /\ session_list' = [session_list EXCEPT ![i] = o]
        /\ session_id_map' = [session_id_map EXCEPT ![<<r, n>>] = i]
        /\ pdu' = [pdu EXCEPT ![o] = [NoPdu EXCEPT !.st = "live", !.sig = i, !.ngap = n, !.res = r]]
        /\ Saved(k, n) /\ net' = net \cup {a} /\ timers' = Armed(o) /\ th' = Done(n, r, TRUE)
        /\ UNCHANGED <<ngap, media, failed>>
        BY <1>2, <1>k, <2>j, <2>i, <2>a DEF processSessSetupReq
  <2>3. /\ ListInv' /\ LeadInv'
        /\ session_list' \in [Ids -> Objects \cup {NULL}] /\ pdu' \in [Objects -> PduRec]
        /\ session_id_map' \in [Pdus \X NgapIds -> Ids \cup {INVALIDE_ID}]
        BY <2>1, <2>2, EnterMaps
  <2>4. n \in Slots
        BY SlotsAre
  <2>5. ngap_msg_list' \in [Slots -> Msgs \cup {NoMsg}] /\ msg' \in [Msgs -> Message]
        BY <1>0, <2>2, <2>4, SavedIs
  <2>6. a \in Event
        BY <1>0, <2>1, <2>a, RequestsAre
  <2>7. a.for = k /\ ~Gnbs(a)
        BY <2>a DEF UpfSetupReq, Req, Gnbs
  <2>8. th' \in [NgapIds -> Work]
        BY <1>0, <2>2, DoneIs
  <2>9. timers' \in [Objects -> Nat]
        BY <1>0, <2>2, ArmedIs
  <2>10. TypeInv'
        BY <1>0, <2>1, <2>2, <2>3, <2>5, <2>6, <2>8, <2>9 DEF TypeInv
  <2>11. Asks(n, r, k, n, a)
        BY <1>k, <2>2, <2>7 DEF Asks
  <2>12. PassInv' /\ EarlyStep /\ LostStep
        BY <1>0, <2>4, <2>10, <2>11, AskKeeps
  <2> QED
      BY <2>3, <2>10, <2>12 DEF MapInv
<1> QED
    BY <1>1, <1>2

\* An update is asked for: the message is kept under the PDU session's id.
LEMMA UpdateKeeps ==
  ASSUME MapInv, PassInv, NEW n \in NgapIds, NEW r \in Pdus,
         th[n].k # NoMsg, r \in th[n].todo, msg[th[n].k].dir = "amf", processSessUpdateUpf(n, r)
  PROVE  MapInv' /\ PassInv' /\ EarlyStep /\ LostStep
<1>0. TypeInv
      BY DEF MapInv
<1>k. PICK k \in Msgs : k = th[n].k
      BY <1>0 DEF TypeInv, Work
<1>o. PICK o : o = getPduSess(n, r)
      OBVIOUS
<1>i. PICK i : i = pdu[o].sig
      OBVIOUS
<1>a. PICK a : a = UpfUpdateReq(o, k)
      OBVIOUS
<1>1. /\ o # NULL /\ Saved(k, i) /\ net' = net \cup {a} /\ timers' = Armed(o) /\ th' = Done(n, r, TRUE)
      /\ UNCHANGED <<tables, pdu, ngap, media, failed>>
      BY <1>k, <1>o, <1>i, <1>a DEF processSessUpdateUpf
<1>2. o \in Objects
      BY <1>0, <1>1, <1>o, ReachIs
<1>3. i \in Slots
      BY <1>0, <1>2, <1>i, SlotsAre DEF TypeInv, PduRec
<1>4. ngap_msg_list' \in [Slots -> Msgs \cup {NoMsg}] /\ msg' \in [Msgs -> Message]
      BY <1>0, <1>1, <1>3, SavedIs
<1>5. a \in Event
      BY <1>0, <1>2, <1>a, RequestsAre
<1>6. a.for = k /\ ~Gnbs(a) /\ Updates(a)
      BY <1>a DEF UpfUpdateReq, Req, Gnbs, Updates
<1>7. th' \in [NgapIds -> Work]
      BY <1>0, <1>1, DoneIs
<1>8. timers' \in [Objects -> Nat]
      BY <1>0, <1>1, <1>2, ArmedIs
<1>9. TypeInv'
      BY <1>0, <1>1, <1>4, <1>5, <1>7, <1>8 DEF TypeInv, tables
<1>10. TablesStay
      BY <1>1 DEF TablesStay, tables
<1>11. Asks(n, r, k, i, a)
      BY <1>k, <1>1, <1>6 DEF Asks
<1>12. PassInv' /\ EarlyStep /\ LostStep
      BY <1>0, <1>3, <1>9, <1>11, AskKeeps
<1> QED
    BY <1>9, <1>10, <1>12, TablesStayKeep

\* The gNB's endpoint goes to the media gateway.
LEMMA SetupRspKeeps ==
  ASSUME MapInv, PassInv, NEW n \in NgapIds, NEW r \in Pdus, NEW g \in GnbEnds, SetupRspItem(n, r, g)
  PROVE  MapInv' /\ PassInv' /\ EarlyStep /\ LostStep
<1>0. TypeInv
      BY DEF MapInv
<1>o. PICK o : o = getPduSess(n, r)
      OBVIOUS
<1>1. /\ th[n].k # NoMsg /\ r \in th[n].todo /\ msg[th[n].k].dir = "gnb"
      /\ IF o = NULL
         THEN th' = Done(n, r, FALSE) /\ UNCHANGED <<ngap_msg_list, pdu, timers, net, msg>>
         ELSE /\ Saved(th[n].k, n) /\ pdu' = [pdu EXCEPT ![o].gnb = g]
              /\ net' = net \cup {GnbSetupReq(o, g, th[n].k)}
              /\ timers' = Armed(o) /\ th' = Done(n, r, TRUE)
      /\ UNCHANGED <<tables, ngap, media, failed>>
      BY <1>o DEF SetupRspItem
<1>k. PICK k \in Msgs : k = th[n].k
      BY <1>0, <1>1 DEF TypeInv, Work
<1>2. th' \in [NgapIds -> Work]
      BY <1>0, <1>1, DoneIs
<1>3. CASE o = NULL
  <2>1. th' = Done(n, r, FALSE) /\ UNCHANGED <<ngap_msg_list, pdu, timers, net, msg>>
        BY <1>1, <1>3
  <2>2. TypeInv'
        BY <1>0, <1>1, <1>2, <2>1 DEF TypeInv, tables
  <2>3. TablesStay
        BY <1>1, <2>1 DEF TablesStay, tables
  <2>4. PassInv' /\ EarlyStep /\ LostStep
        BY <1>0, <1>1, <2>1, SkipKeeps
  <2> QED
      BY <2>2, <2>3, <2>4, TablesStayKeep
<1>4. CASE o # NULL
  <2>a. PICK a : a = GnbSetupReq(o, g, k)
        OBVIOUS
  <2>1. /\ Saved(k, n) /\ pdu' = [pdu EXCEPT ![o].gnb = g] /\ net' = net \cup {a}
        /\ timers' = Armed(o) /\ th' = Done(n, r, TRUE)
        BY <1>1, <1>4, <1>k, <2>a
  <2>2. o \in Objects
        BY <1>0, <1>4, <1>o, ReachIs
  <2>s. PICK s : s = [pdu[o] EXCEPT !.gnb = g]
        OBVIOUS
  <2>3. /\ s \in PduRec /\ s.st = pdu[o].st /\ s.sig = pdu[o].sig
        /\ s.ngap = pdu[o].ngap /\ s.res = pdu[o].res
    <3>1. pdu[o] \in PduRec
          BY <1>0, <2>2 DEF TypeInv
    <3> QED
        BY <2>s, <3>1 DEF PduRec
  <2>4. pdu' \in [Objects -> PduRec] /\ pdu'[o] = s /\ \A q \in Objects : q # o => pdu'[q] = pdu[q]
        BY <1>0, <2>1, <2>2, <2>3, <2>s DEF TypeInv
  <2>5. n \in Slots
        BY SlotsAre
  <2>6. ngap_msg_list' \in [Slots -> Msgs \cup {NoMsg}] /\ msg' \in [Msgs -> Message]
        BY <1>0, <2>1, <2>5, SavedIs
  <2>7. a \in Event
        BY <1>0, <2>2, <2>a, RequestsAre
  <2>8. a.for = k /\ Gnbs(a)
        BY <2>a DEF GnbSetupReq, Req, Gnbs
  <2>9. timers' \in [Objects -> Nat]
        BY <1>0, <2>1, <2>2, ArmedIs
  <2>10. TypeInv'
        BY <1>0, <1>1, <1>2, <2>1, <2>4, <2>6, <2>7, <2>9 DEF TypeInv, tables
  <2>11. TablesStay
        BY <1>1, <2>3, <2>4 DEF TablesStay, tables
  <2>12. Asks(n, r, k, n, a)
        BY <1>1, <1>k, <2>1, <2>8 DEF Asks
  <2>13. PassInv' /\ EarlyStep /\ LostStep
        BY <1>0, <2>5, <2>10, <2>12, AskKeeps
  <2> QED
      BY <2>10, <2>11, <2>13, TablesStayKeep
<1> QED
    BY <1>3, <1>4

-----------------------------------------------------------------------------
(* The theorems.                                                           *)

\* What holds of every step.
StepHolds == MapInv' /\ PassInv' /\ EarlyStep /\ LostStep

\* Steps that leave the tables alone and in which no handler works.
LEMMA CalmStepHolds ==
  ASSUME MapInv, PassInv, NEW paid, TypeInv', TablesStay, Settles(paid), EarlyStep, LostStep
  PROVE  StepHolds
<1>1. TypeInv
      BY DEF MapInv
<1>2. PassInv'
      BY <1>1, SettlesKeeps
<1>3. MapInv'
      BY TablesStayKeep
<1> QED
    BY <1>2, <1>3 DEF StepHolds

\* The peers' messages and procedures.
LEMMA PeerHolds ==
  ASSUME MapInv, PassInv, NEW n \in NgapIds, Peer(n)
  PROVE  StepHolds
<1>0. TypeInv /\ KeptInv
      BY DEF MapInv, PassInv
<1>1. CASE NewUe(n)
      BY <1>0, <1>1, NewUeSettles, CalmStepHolds
<1>2. CASE ReleasePduSess(n)
  <2>1. MapInv' /\ Settles(NoMsg) /\ EarlyStep /\ LostStep
        BY <1>0, <1>2, ReleaseSettles
  <2>2. TypeInv'
        BY <2>1 DEF MapInv
  <2>3. PassInv'
        BY <1>0, <2>1, <2>2, SettlesKeeps
  <2> QED
      BY <2>1, <2>3 DEF StepHolds
<1>3. CASE processSessSetupfail(n)
  <2>1. MapInv' /\ Settles(NoMsg) /\ EarlyStep /\ LostStep
        BY <1>0, <1>3, SetupfailSettles
  <2>2. TypeInv'
        BY <2>1 DEF MapInv
  <2>3. PassInv'
        BY <1>0, <2>1, <2>2, SettlesKeeps
  <2> QED
      BY <2>1, <2>3 DEF StepHolds
<1>4. ASSUME NEW S \in SUBSET Pdus, NEW dir \in {"amf", "gnb"}, NEW kind \in {"ics", "setup", "handover"},
             Arrive(n, dir, kind, S)
      PROVE  StepHolds
      BY <1>4, ArriveKeeps DEF StepHolds
<1>5. ASSUME NEW g \in GnbEnds, finishHo(n, g)
      PROVE  StepHolds
      BY <1>0, <1>5, FinishHoSettles, CalmStepHolds
<1>6. ASSUME NEW S \in SUBSET Pdus,
             \/ AMF_InitialContextSetupReq_UpdatePduSess(n, S)
             \/ AMF_PDUResourceSetupReq_UpdatePduSess(n, S)
             \/ AMF_HandoverReq_UpdatePduSess(n, S)
             \/ GNB_PDUSessionSetupRsp(n, S) \/ GNB_InitialContextSetupSuccessRsp(n, S)
             \/ GNB_HandoverReqAck(n, S) \/ GNB_PathSwitchRequest(n, S)
      PROVE  \E dir \in {"amf", "gnb"}, kind \in {"ics", "setup", "handover"} : Arrive(n, dir, kind, S)
      BY <1>6 DEF AMF_InitialContextSetupReq_UpdatePduSess, AMF_PDUResourceSetupReq_UpdatePduSess,
                  AMF_HandoverReq_UpdatePduSess, GNB_PDUSessionSetupRsp,
                  GNB_InitialContextSetupSuccessRsp, GNB_HandoverReqAck, GNB_PathSwitchRequest,
                  AmfMessage, GnbMessage
<1>7. ASSUME NEW S \in SUBSET Pdus \ {{}},
             \/ AMF_InitialContextSetupReq_UpdatePduSess(n, S)
             \/ AMF_PDUResourceSetupReq_UpdatePduSess(n, S)
             \/ AMF_HandoverReq_UpdatePduSess(n, S)
             \/ GNB_PDUSessionSetupRsp(n, S) \/ GNB_InitialContextSetupSuccessRsp(n, S)
             \/ GNB_HandoverReqAck(n, S) \/ GNB_PathSwitchRequest(n, S)
      PROVE  StepHolds
  <2>1. PICK dir \in {"amf", "gnb"}, kind \in {"ics", "setup", "handover"} : Arrive(n, dir, kind, S)
        BY <1>6, <1>7
  <2> QED
      BY <1>4, <2>1
<1> QED
    BY <1>1, <1>2, <1>3, <1>5, <1>7 DEF Peer

\* The handlers.
LEMMA HandlerHolds ==
  ASSUME MapInv, PassInv, NEW n \in NgapIds, Handler(n)
  PROVE  StepHolds
<1>1. ASSUME NEW r \in Pdus, NEW o \in Objects, SetupReqItem(n, r, o)
      PROVE  StepHolds
  <2>1. th[n].k # NoMsg /\ r \in th[n].todo /\ msg[th[n].k].dir = "amf"
        BY <1>1 DEF SetupReqItem
  <2>2. processSessUpdateUpf(n, r) \/ processSessSetupReq(n, r, o)
        BY <1>1 DEF SetupReqItem
  <2> QED
      BY <2>1, <2>2, SetupReqKeeps, UpdateKeeps DEF StepHolds
<1>2. ASSUME NEW r \in Pdus, NEW g \in GnbEnds, SetupRspItem(n, r, g)
      PROVE  StepHolds
      BY <1>2, SetupRspKeeps DEF StepHolds
<1>3. CASE HandlerEnds(n)
      BY <1>3, HandlerEndsKeeps DEF StepHolds
<1> QED
    BY <1>1, <1>2, <1>3 DEF Handler

\* Every step keeps both invariants.
LEMMA NextHolds == MapInv /\ PassInv /\ [Next]_vars => StepHolds
<1> SUFFICES ASSUME MapInv, PassInv, [Next]_vars
             PROVE  StepHolds
    OBVIOUS
<1>0. TypeInv /\ ListInv /\ KeptInv
      BY DEF MapInv, PassInv
<1>1. ASSUME NEW n \in NgapIds, Peer(n) \/ Handler(n)
      PROVE  StepHolds
      BY <1>1, PeerHolds, HandlerHolds
<1>2. ASSUME NEW m \in net, MediaStep(m)
      PROVE  StepHolds
      BY <1>0, <1>2, MediaStepSettles, CalmStepHolds
<1>3. ASSUME NEW m \in net, AnswerStep(m)
      PROVE  StepHolds
  <2>1. TypeInv' /\ TablesStay /\ (\E paid : Settles(paid)) /\ EarlyStep /\ LostStep
        BY <1>0, <1>3, AnswerStepSettles
  <2>2. PICK paid : Settles(paid)
        BY <2>1
  <2> QED
      BY <2>1, <2>2, CalmStepHolds
<1>4. ASSUME NEW o \in Objects, SessTimeout(o)
      PROVE  StepHolds
      BY <1>0, <1>4, TimeoutSettles, CalmStepHolds
<1>5. CASE UNCHANGED vars
      BY <1>0, <1>5, StutterSettles, CalmStepHolds
<1> QED
    BY <1>1, <1>2, <1>3, <1>4, <1>5 DEF Next

\* At first nothing is used, kept or under way.
LEMMA InitHolds == Init => MapInv /\ PassInv
<1> SUFFICES ASSUME Init
             PROVE  MapInv /\ PassInv
    OBVIOUS
<1>1. /\ m_currentSessId = 0 /\ session_list = [i \in Ids |-> NULL]
      /\ session_id_map = [x \in Pdus \X NgapIds |-> INVALIDE_ID]
      /\ ngap_msg_list = [i \in Slots |-> NoMsg] /\ pdu = [o \in Objects |-> NoPdu]
      /\ timers = [o \in Objects |-> 0] /\ ngap = [n \in NgapIds |-> NoNgap]
      /\ th = [n \in NgapIds |-> Idle] /\ net = {} /\ media = [i \in MediaIds |-> NULL]
      /\ msg = [k \in Msgs |-> NoMessage]
      BY DEF Init
<1>2. NoPdu \in PduRec
      BY SlotsAre DEF NoPdu, PduRec
<1>3. NoNgap \in NgapRec /\ NoNgap.cur = NoMsg
      BY DEF NoNgap, NgapRec
<1>4. Idle \in Work /\ Idle.k = NoMsg /\ Idle.todo = {}
      BY DEF Idle, Work
<1>5. NoMessage \in Message /\ NoMessage.fate = "none" /\ NoMessage.owed = 0
      BY DEF NoMessage, Message
<1>6. TypeInv
      BY <1>1, <1>2, <1>3, <1>4, <1>5, SlotsAre DEF TypeInv
<1>7. ListInv /\ LeadInv
      BY <1>1 DEF ListInv, LeadInv
<1>8. UsedInv
  <2>1. 0 \in 0 .. MaxMsg
        BY PduSessAssumption
  <2>2. ASSUME NEW k \in Msgs
        PROVE  msg[k].fate # "none" <=> k <= 0
    <3>1. k >= 1
          BY PduSessAssumption DEF Msgs
    <3> QED
        BY <1>1, <1>5, <3>1, NoMsgIs
  <2> QED
      BY <2>1, <2>2 DEF UsedInv
<1>9. KeptInv
      BY <1>1 DEF KeptInv
<1>10. HandlerInv
      BY <1>1, <1>3, <1>4 DEF HandlerInv
<1>11. AskedInv
      BY <1>1 DEF AskedInv
<1>12. OwedInv
  <2>1. \A k \in Msgs : Counting(k) = {}
        BY <1>1 DEF Counting
  <2>2. IsFiniteSet({}) /\ Cardinality({}) = 0
        BY FS_EmptySet
  <2>3. \A k \in Msgs : IsFiniteSet(Counting(k)) /\ Cardinality(Counting(k)) = 0
        BY <2>1, <2>2
  <2>4. \A k \in Msgs : msg[k].owed = 0
        BY <1>1, <1>5
  <2> QED
      BY <2>3, <2>4 DEF OwedInv
<1>13. CountInv /\ OlderInv
      BY <1>1, <1>3, SlotsAre DEF CountInv, OlderInv
<1> QED
    BY <1>6, <1>7, <1>8, <1>9, <1>10, <1>11, <1>12, <1>13 DEF MapInv, PassInv

\* Both invariants hold in every state.
LEMMA InvHolds == Spec => [](MapInv /\ PassInv)
<1>1. MapInv /\ PassInv /\ [Next]_vars => MapInv' /\ PassInv'
      BY NextHolds DEF StepHolds
<1> QED
    BY InitHolds, <1>1, PTL DEF Spec

\* getPduSess: the map leads a UE to its own PDU session, which is in service and knows
\* its id, or to none, as long as no setup failed (processSessSetupfail leaves the mapping).
THEOREM MapAlwaysLeadsHome == Spec => []MapLeadsHome
<1>1. MapInv => MapLeadsHome
  <2> SUFFICES ASSUME MapInv, failed = {}, NEW n \in NgapIds, NEW r \in Pdus, getPduSess(n, r) # NULL
               PROVE  LET s == pdu[getPduSess(n, r)]
                      IN s.st = "live" /\ s.ngap = n /\ s.res = r /\ s.sig = session_id_map[<<r, n>>]
      BY DEF MapLeadsHome
  <2>o. PICK o : o = getPduSess(n, r)
        OBVIOUS
  <2>0. TypeInv /\ ListInv /\ LeadInv
        BY DEF MapInv
  <2>i. PICK i : i = session_id_map[<<r, n>>]
        OBVIOUS
  <2>1. i \in Ids /\ session_list[i] = o
        BY <2>0, <2>i, <2>o, ReachIs
  <2>2. i # INVALIDE_ID
        BY <2>1, SlotsAre
  <2>3. pdu[o].ngap = n /\ pdu[o].res = r
        BY <2>0, <2>i, <2>1, <2>2 DEF LeadInv
  <2>4. pdu[o].st = "live" /\ pdu[o].sig = i
        BY <2>0, <2>o, <2>1, AnsweredIs
  <2> QED
      BY <2>i, <2>o, <2>3, <2>4
<1> QED
    BY InvHolds, <1>1, PTL

\* pdu_sess_rsp_count and pdu_resource_count: while every answer counted for an NGAP session
\* was an answer to its last message, that message, kept under the session's id, goes only
\* when it is owed nothing, and by the handler of its own direction.
THEOREM EarlyAlwaysByStray == Spec => EarlyOnlyByStray
<1>1. MapInv /\ PassInv /\ [Next]_vars =>
        [\A n \in NgapIds :
           LET k == ngap_msg_list[n] IN
           k # NoMsg /\ msg[k].ngap = n /\ msg'[k].fate \in {"early", "wrong"} =>
             ngap'[n].stray \/ timers' # timers]_vars
      BY NextHolds DEF StepHolds, EarlyStep
<1> QED
    BY InvHolds, <1>1, PTL DEF Spec, EarlyOnlyByStray

\* stopSessTimer and handleSessTimeout: a kept message is thrown away only when a PDU session
\* in service has the number it is kept under, or an answer is counted for that session's UE.
THEOREM LostAlwaysByNamesake == Spec => LostOnlyByNamesake
<1>1. MapInv /\ PassInv /\ [Next]_vars =>
        [\A i \in Slots :
           LET k == ngap_msg_list[i] IN
           k # NoMsg /\ msg'[k].fate = "lost" /\ ngap_msg_list'[i] = NoMsg =>
             \E o \in Objects : pdu[o].st = "live" /\ i \in {pdu[o].sig, pdu[o].ngap}
                               /\ (i # pdu[o].sig => msg[k].dir = "gnb")]_vars
      BY NextHolds DEF StepHolds, LostStep
<1> QED
    BY InvHolds, <1>1, PTL DEF Spec, LostOnlyByNamesake

-----------------------------------------------------------------------------
(* Procedures that follow one another.                                     *)

\* A UE's procedure starts when nothing is left of its last; NGAP and PDU session ids are
\* apart; the media gateway has an id for every session there can be.
Apart == OneAtATime /\ NgapIds \cap Ids = {}
Room  == IsFiniteSet(MediaIds) /\ IsFiniteSet(Objects) /\ Cardinality(Objects) <= Cardinality(MediaIds)

\* The media session of a PDU session: it has none, it has i, and i's entry is up to date.
Of(j, o) == media[j] # NULL /\ media[j].obj = o
Unplaced(o) == \A j \in MediaIds : ~Of(j, o)
Placed(o, i) == i \in MediaIds /\ \A j \in MediaIds : Of(j, o) <=> j = i
Known(o, i) == Placed(o, i) /\ media[i].sig = pdu[o].sig
Settled(o) == Known(o, pdu[o].media) /\ media[pdu[o].media].gnb = pdu[o].gnb

\* What an event under way says of the PDU session it is about.
EventOk(m) ==
  LET o == m.obj  s == pdu[m.obj] IN
  /\ m.sig = s.sig
  /\ IF m.type = "RELEASE_REQ" THEN s.st = "deleted" ELSE s.st = "live" /\ ngap[s.ngap].up
  /\ m.type = "UPF_SETUP_REQ" => s.gnb = NULL /\ s.media = NULL /\ Unplaced(o)
  /\ m.type = "UPF_SETUP_RSP" => Known(o, m.media) /\ media[m.media].gnb = s.gnb
  /\ m.type \in {"GNB_SETUP_REQ", "RELEASE_REQ"} => m.media = s.media /\ Known(o, s.media)
  /\ m.type = "GNB_SETUP_REQ" => m.gnb = s.gnb
  /\ m.type \in {"UPF_UPDATE_REQ", "UPF_UPDATE_RSP", "GNB_SETUP_RSP"} => m.media = s.media /\ Settled(o)

\* At most one event is about a PDU session; at rest its media session is up to date, or gone.
SessCalm(o) ==
  /\ \A m, q \in net : m.obj = o /\ q.obj = o => m = q
  /\ \A m \in net : m.obj = o => EventOk(m)
  /\ (\A m \in net : m.obj # o) => IF pdu[o].st = "live" THEN Settled(o) ELSE Unplaced(o)
  /\ pdu[o].st = "live" => session_list[pdu[o].sig] = o
  /\ timers[o] > 0 => pdu[o].st = "live"

\* Nothing is asked yet of the sessions a handler has still to look at.
TodoCalm == \A n \in NgapIds : \A r \in th[n].todo : \A m \in net : m.obj # getPduSess(n, r)

\* What is asked for a UE is asked for its last message, which its handler works on and
\* which is what its slot keeps.
For(n, k) == ~ngap[n].stray /\ k = ngap[n].cur
Asking(n, k) == \A m \in net : pdu[m.obj].ngap = n => m.for = k /\ For(n, k)
UeCalm(n) ==
  /\ th[n].k # NoMsg => ngap[n].up /\ For(n, th[n].k) /\ Asking(n, th[n].k)
  /\ ngap_msg_list[n] # NoMsg => ngap_msg_list[n] = ngap[n].cur /\ Asking(n, ngap_msg_list[n])

\* A message kept under a PDU session's id waits for an update of that session.
Awaited(i, k, n) == \E m \in net : Updates(m) /\ m.for = k /\ pdu[m.obj].sig = i /\ pdu[m.obj].ngap = n
SlotCalm(i) == ngap_msg_list[i] # NoMsg => Awaited(i, ngap_msg_list[i], msg[ngap_msg_list[i]].ngap)

CalmInv ==
  /\ \A o \in Objects : SessCalm(o)
  /\ TodoCalm
  /\ \A n \in NgapIds : UeCalm(n)
  /\ \A i \in Ids : SlotCalm(i)
  /\ SentWhenAnswered

-----------------------------------------------------------------------------
(* What a step leaves alone.                                               *)

\* A step that does not touch the media session of o.
MediaStays(o) ==
  /\ pdu'[o] = pdu[o]
  /\ \A j \in MediaIds : media'[j] = media[j] \/ (~Of(j, o) /\ ~Of(j, o)')
SessStays(o) ==
  /\ MediaStays(o)
  /\ \A m \in net : m.obj = o =>
       m \in net' /\ (m.type # "RELEASE_REQ" /\ ngap[pdu[o].ngap].up => ngap'[pdu[o].ngap].up)
  /\ \A m \in net' : m.obj = o => m \in net
  /\ session_list[pdu[o].sig] = o => session_list'[pdu[o].sig] = o
  /\ timers'[o] > 0 => timers[o] > 0

\* Its media session stays what it was.
LEMMA MediaStaysKeeps ==
  ASSUME NEW o, MediaStays(o)
  PROVE  /\ Unplaced(o) => Unplaced(o)'
         /\ \A i : Placed(o, i) => Placed(o, i)' /\ media'[i] = media[i]
         /\ \A i : Known(o, i) => Known(o, i)' /\ media'[i] = media[i]
         /\ Settled(o) => Settled(o)'
<1>1. \A j \in MediaIds : Of(j, o)' <=> Of(j, o)
      BY DEF MediaStays, Of
<1>2. Unplaced(o) => Unplaced(o)'
      BY <1>1 DEF Unplaced
<1>3. ASSUME NEW i, Placed(o, i)
      PROVE  Placed(o, i)' /\ media'[i] = media[i]
  <2>1. i \in MediaIds /\ Of(i, o)
        BY <1>3 DEF Placed
  <2>2. media'[i] = media[i]
        BY <2>1 DEF MediaStays
  <2> QED
      BY <1>1, <1>3, <2>2 DEF Placed
<1>4. ASSUME NEW i, Known(o, i)
      PROVE  Known(o, i)' /\ media'[i] = media[i]
      BY <1>3, <1>4 DEF Known, MediaStays
<1>5. ASSUME Settled(o)
      PROVE  Settled(o)'
  <2>i. PICK i : i = pdu[o].media
        OBVIOUS
  <2>1. Known(o, i) /\ media[i].gnb = pdu[o].gnb
        BY <1>5, <2>i DEF Settled
  <2>2. Known(o, i)' /\ media'[i] = media[i]
        BY <1>4, <2>1
  <2>3. pdu'[o] = pdu[o]
        BY DEF MediaStays
  <2> QED
      BY <2>i, <2>1, <2>2, <2>3 DEF Settled
<1> QED
    BY <1>2, <1>3, <1>4, <1>5

\* What an event says stays true.
LEMMA EventStays ==
  ASSUME NEW m, EventOk(m), MediaStays(m.obj),
         m.type # "RELEASE_REQ" /\ ngap[pdu[m.obj].ngap].up => ngap'[pdu[m.obj].ngap].up
  PROVE  EventOk(m)'
<1>o. PICK o : o = m.obj
      OBVIOUS
<1>s. PICK s : s = pdu[o]
      OBVIOUS
<1>1. pdu'[o] = s
      BY <1>o, <1>s DEF MediaStays
<1>2. /\ Unplaced(o) => Unplaced(o)'
      /\ \A i : Known(o, i) => Known(o, i)' /\ media'[i] = media[i]
      /\ Settled(o) => Settled(o)'
      BY <1>o, MediaStaysKeeps
<1>3. /\ m.sig = s.sig
      /\ IF m.type = "RELEASE_REQ" THEN s.st = "deleted" ELSE s.st = "live" /\ ngap'[s.ngap].up
      /\ m.type = "UPF_SETUP_REQ" => s.gnb = NULL /\ s.media = NULL
      /\ m.type = "GNB_SETUP_REQ" => m.gnb = s.gnb
      BY <1>o, <1>s DEF EventOk
<1>4. m.type = "UPF_SETUP_REQ" => Unplaced(o)'
      BY <1>o, <1>2 DEF EventOk
<1>5. m.type = "UPF_SETUP_RSP" => Known(o, m.media)' /\ media'[m.media].gnb = s.gnb
      BY <1>o, <1>s, <1>2 DEF EventOk
<1>6. m.type \in {"GNB_SETUP_REQ", "RELEASE_REQ"} => m.media = s.media /\ Known(o, s.media)'
      BY <1>o, <1>s, <1>2 DEF EventOk
<1>7. m.type \in {"UPF_UPDATE_REQ", "UPF_UPDATE_RSP", "GNB_SETUP_RSP"} => m.media = s.media /\ Settled(o)'
      BY <1>o, <1>s, <1>2 DEF EventOk
<1> QED
    BY <1>o, <1>1, <1>3, <1>4, <1>5, <1>6, <1>7 DEF EventOk

\* So does what holds of the PDU session.
LEMMA SessStaysKeeps ==
  ASSUME NEW o, SessCalm(o), SessStays(o)
  PROVE  SessCalm(o)'
<1>1. MediaStays(o) /\ pdu'[o] = pdu[o]
      BY DEF SessStays, MediaStays
<1>2. ASSUME NEW m \in net', m.obj = o
      PROVE  m \in net /\ EventOk(m)'
  <2>1. m \in net /\ EventOk(m)
        BY <1>2 DEF SessStays, SessCalm
  <2>2. m.type # "RELEASE_REQ" /\ ngap[pdu[m.obj].ngap].up => ngap'[pdu[m.obj].ngap].up
        BY <1>2, <2>1 DEF SessStays
  <2> QED
      BY <1>1, <1>2, <2>1, <2>2, EventStays
<1>3. ASSUME \A m \in net' : m.obj # o
      PROVE  IF pdu'[o].st = "live" THEN Settled(o)' ELSE Unplaced(o)'
  <2>1. \A m \in net : m.obj # o
        BY <1>3 DEF SessStays
  <2>2. IF pdu[o].st = "live" THEN Settled(o) ELSE Unplaced(o)
        BY <2>1 DEF SessCalm
  <2> QED
      BY <1>1, <2>2, MediaStaysKeeps
<1>4. \A m, q \in net' : m.obj = o /\ q.obj = o => m = q
      BY <1>2 DEF SessCalm
<1>5. pdu'[o].st = "live" => session_list'[pdu'[o].sig] = o
      BY <1>1 DEF SessCalm, SessStays
<1>6. timers'[o] > 0 => pdu'[o].st = "live"
      BY <1>1 DEF SessCalm, SessStays
<1> QED
    BY <1>2, <1>3, <1>4, <1>5, <1>6 DEF SessCalm

\* A step that asks nothing new for UE n.
UeStays(n) ==
  /\ th'[n].k \in {th[n].k, NoMsg}
  /\ ngap'[n].cur = ngap[n].cur /\ ngap'[n].stray = ngap[n].stray /\ (ngap[n].up => ngap'[n].up)
  /\ ngap_msg_list'[n] \in {ngap_msg_list[n], NoMsg}
  /\ \A m \in net' : pdu'[m.obj].ngap = n => \E q \in net : q.for = m.for /\ pdu[q.obj].ngap = n

\* What is asked for it is still asked for its last message.
LEMMA UeStaysKeeps ==
  ASSUME NEW n, UeCalm(n), UeStays(n)
  PROVE  UeCalm(n)'
<1>1. \A k : For(n, k) => For(n, k)'
      BY DEF For, UeStays
<1>2. ASSUME NEW k, Asking(n, k)
      PROVE  Asking(n, k)'
      BY <1>1, <1>2 DEF Asking, UeStays
<1>k. PICK k : k = th'[n].k
      OBVIOUS
<1>l. PICK l : l = ngap_msg_list'[n]
      OBVIOUS
<1>3. ASSUME k # NoMsg
      PROVE  ngap'[n].up /\ For(n, k)' /\ Asking(n, k)'
  <2>1. k = th[n].k
        BY <1>3, <1>k DEF UeStays
  <2>2. ngap[n].up /\ For(n, k) /\ Asking(n, k)
        BY <1>3, <2>1 DEF UeCalm
  <2> QED
      BY <1>1, <1>2, <2>2 DEF UeStays
<1>4. ASSUME l # NoMsg
      PROVE  l = ngap'[n].cur /\ Asking(n, l)'
  <2>1. l = ngap_msg_list[n]
        BY <1>4, <1>l DEF UeStays
  <2>2. l = ngap[n].cur /\ Asking(n, l)
        BY <1>4, <2>1 DEF UeCalm
  <2> QED
      BY <1>2, <2>2 DEF UeStays
<1> QED
    BY <1>k, <1>l, <1>3, <1>4 DEF UeCalm

\* A step that leaves what is kept under i, or throws it away.
SlotStays(i) ==
  \/ ngap_msg_list'[i] = NoMsg
  \/ /\ ngap_msg_list'[i] = ngap_msg_list[i]
     /\ ngap_msg_list[i] # NoMsg => msg'[ngap_msg_list[i]].ngap = msg[ngap_msg_list[i]].ngap
     /\ \A m \in net : Updates(m) /\ pdu[m.obj].sig = i =>
          \E q \in net' : /\ Updates(q) /\ q.for = m.for
                          /\ pdu'[q.obj].sig = i /\ pdu'[q.obj].ngap = pdu[m.obj].ngap

\* What is kept there is still awaited.
LEMMA SlotStaysKeeps ==
  ASSUME NEW i, SlotCalm(i), SlotStays(i)
  PROVE  SlotCalm(i)'
<1>1. CASE ngap_msg_list'[i] = NoMsg
      BY <1>1 DEF SlotCalm
<1>2. CASE ngap_msg_list'[i] = ngap_msg_list[i] /\ ngap_msg_list[i] # NoMsg
  <2>k. PICK k : k = ngap_msg_list[i]
        OBVIOUS
  <2>n. PICK n : n = msg[k].ngap
        OBVIOUS
  <2>1. Awaited(i, k, n)
        BY <1>2, <2>k, <2>n DEF SlotCalm
  <2>2. PICK m \in net : Updates(m) /\ m.for = k /\ pdu[m.obj].sig = i /\ pdu[m.obj].ngap = n
        BY <2>1 DEF Awaited
  <2>3. ngap_msg_list'[i] # NoMsg
        BY <1>2
  <2>4. \E q \in net' : Updates(q) /\ q.for = k /\ pdu'[q.obj].sig = i /\ pdu'[q.obj].ngap = n
        BY <2>2, <2>3 DEF SlotStays
  <2>5. Awaited(i, k, n)'
        BY <2>4 DEF Awaited, Updates
  <2>6. ngap_msg_list'[i] = k /\ msg'[k].ngap = n
        BY <1>2, <2>k, <2>n, <2>3 DEF SlotStays
  <2> QED
      BY <2>5, <2>6 DEF SlotCalm
<1> QED
    BY <1>1, <1>2 DEF SlotStays

\* Nothing new is asked, and the tables lead where they led.
LEMMA TodoStays ==
  ASSUME TodoCalm, UNCHANGED <<session_list, session_id_map>>,
         \A n \in NgapIds : th'[n].todo \subseteq th[n].todo,
         \A m \in net' : \E q \in net : q.obj = m.obj
  PROVE  TodoCalm'
<1>1. \A n, r : getPduSess(n, r)' = getPduSess(n, r)
      BY DEF getPduSess
<1> QED
    BY <1>1 DEF TodoCalm

\* A PDU session in service is in the list, and belongs to a UE.
LEMMA LiveIs ==
  ASSUME MapInv, CalmInv, NEW o \in Objects, pdu[o].st = "live"
  PROVE  /\ pdu[o].sig \in Ids /\ session_list[pdu[o].sig] = o
         /\ pdu[o].ngap \in NgapIds
<1>1. pdu[o].sig \in Ids
      BY DEF MapInv, TypeInv, PduRec
<1>2. session_list[pdu[o].sig] = o
      BY DEF CalmInv, SessCalm
<1>3. o # NULL
      BY PduSessAssumption
<1> QED
    BY <1>1, <1>2, <1>3 DEF MapInv, ListInv

\* What an event is about, unless it releases.
LEMMA EventIs ==
  ASSUME MapInv, CalmInv, NEW m \in net
  PROVE  /\ m \in Event /\ m.obj \in Objects /\ EventOk(m) /\ SessCalm(m.obj)
         /\ m.type # "RELEASE_REQ" =>
              /\ pdu[m.obj].st = "live" /\ m.sig \in Ids /\ pdu[m.obj].sig = m.sig
              /\ session_list[m.sig] = m.obj
              /\ pdu[m.obj].ngap \in NgapIds /\ ngap[pdu[m.obj].ngap].up
<1>1. m \in Event /\ m.obj \in Objects /\ m.sig \in Ids
      BY DEF MapInv, TypeInv, Event
<1>2. SessCalm(m.obj)
      BY <1>1 DEF CalmInv
<1>3. EventOk(m)
      BY <1>2 DEF SessCalm
<1>4. m.type # "RELEASE_REQ" =>
        pdu[m.obj].st = "live" /\ pdu[m.obj].sig = m.sig /\ ngap[pdu[m.obj].ngap].up
      BY <1>3 DEF EventOk
<1> QED
    BY <1>1, <1>2, <1>3, <1>4, LiveIs

\* A step that leaves all of it alone.
LEMMA AsideCalm ==
  ASSUME MapInv, CalmInv, UNCHANGED <<session_list, session_id_map, pdu, net, media, ngap_msg_list>>,
         \A o \in Objects : timers'[o] > 0 => timers[o] > 0,
         \A n \in NgapIds : /\ ngap'[n].cur = ngap[n].cur /\ ngap'[n].stray = ngap[n].stray
                            /\ ngap[n].up => ngap'[n].up
                            /\ th'[n].k \in {th[n].k, NoMsg} /\ th'[n].todo \subseteq th[n].todo,
         \A i \in Ids : ngap_msg_list[i] # NoMsg => msg'[ngap_msg_list[i]].ngap = msg[ngap_msg_list[i]].ngap,
         SentWhenAnswered'
  PROVE  CalmInv'
<1>1. ASSUME NEW o \in Objects
      PROVE  SessCalm(o)'
  <2>1. ASSUME NEW m \in net, m.obj = o, m.type # "RELEASE_REQ", ngap[pdu[o].ngap].up
        PROVE  ngap'[pdu[o].ngap].up
        BY <2>1, EventIs
  <2>3. SessStays(o)
        BY <2>1 DEF SessStays, MediaStays
  <2>2. SessCalm(o)
        BY DEF CalmInv
  <2> QED
      BY <2>2, <2>3, SessStaysKeeps
<1>2. ASSUME NEW n \in NgapIds
      PROVE  UeCalm(n)'
  <2>1. UeStays(n)
        BY DEF UeStays
  <2>2. UeCalm(n)
        BY DEF CalmInv
  <2> QED
      BY <2>1, <2>2, UeStaysKeeps
<1>3. ASSUME NEW i \in Ids
      PROVE  SlotCalm(i)'
  <2>1. SlotStays(i)
        BY DEF SlotStays
  <2>2. SlotCalm(i)
        BY DEF CalmInv
  <2> QED
      BY <2>1, <2>2, SlotStaysKeeps
<1>4. TodoCalm'
      BY TodoStays DEF CalmInv
<1> QED
    BY <1>1, <1>2, <1>3, <1>4 DEF CalmInv

\* What an action's UE reaches is its own, in service; and only that UE and PDU id reach it.
LEMMA OwnIs ==
  ASSUME MapInv, failed = {}, NEW n \in NgapIds, NEW r \in Pdus, NEW o, o = getPduSess(n, r), o # NULL
  PROVE  /\ o \in Objects /\ pdu[o].st = "live" /\ pdu[o].ngap = n /\ pdu[o].res = r
         /\ pdu[o].sig \in Ids /\ session_list[pdu[o].sig] = o
<1>0. TypeInv /\ ListInv /\ LeadInv
      BY DEF MapInv
<1>i. PICK i : i = session_id_map[<<r, n>>]
      OBVIOUS
<1>1. o \in Objects /\ i \in Ids /\ session_list[i] = o
      BY <1>0, <1>i, ReachIs
<1>2. i # INVALIDE_ID
      BY <1>1, SlotsAre
<1>3. pdu[o].ngap = n /\ pdu[o].res = r
      BY <1>0, <1>i, <1>1, <1>2 DEF LeadInv
<1>4. pdu[o].st = "live" /\ pdu[o].sig = i
      BY <1>0, <1>1, AnsweredIs
<1> QED
    BY <1>1, <1>3, <1>4

\* Nothing is under way, armed or kept for a UE that is quiet.
LEMMA QuietIs ==
  ASSUME MapInv, PassInv, CalmInv, NEW n \in NgapIds, Quiet(n)
  PROVE  /\ th[n] = Idle /\ ngap_msg_list[n] = NoMsg
         /\ \A m \in net : pdu[m.obj].ngap # n
         /\ \A o \in Objects : pdu[o].ngap = n => timers[o] = 0 /\ \A m \in net : m.obj # o
<1>1. ngap_msg_list[n] = NoMsg
  <2>k. PICK k : k = ngap_msg_list[n]
        OBVIOUS
  <2>1. ASSUME k # NoMsg
        PROVE  FALSE
    <3>1. k \in Msgs
          BY <2>k, <2>1, SlotsAre DEF MapInv, TypeInv
    <3>2. k = ngap[n].cur
          BY <2>k, <2>1 DEF CalmInv, UeCalm
    <3>3. msg[k].ngap = n
          BY <2>1, <3>2 DEF PassInv, HandlerInv
    <3>4. msg[k].fate = "kept"
          BY <2>k, <2>1, SlotsAre DEF PassInv, KeptInv
    <3> QED
        BY <3>1, <3>3, <3>4 DEF Quiet
  <2> QED
      BY <2>k, <2>1
<1>2. \A m \in net : m.obj \in Objects
      BY DEF MapInv, TypeInv, Event
<1> QED
    BY <1>1, <1>2 DEF Quiet

-----------------------------------------------------------------------------
(* The peers' messages.                                                    *)

\* A UE gets its NGAP session.
LEMMA NewUeCalm ==
  ASSUME MapInv, CalmInv, NEW n \in NgapIds, NewUe(n)
  PROVE  CalmInv'
<1>1. /\ UNCHANGED <<tables, ngap_msg_list, pdu, timers, th, net, media, msg, failed>>
      /\ ngap' = [ngap EXCEPT ![n] = [ngap[n] EXCEPT !.up = TRUE]]
      BY DEF NewUe
<1>2. \A q \in NgapIds : /\ ngap'[q].cur = ngap[q].cur /\ ngap'[q].stray = ngap[q].stray
                         /\ ngap[q].up => ngap'[q].up
      BY <1>1 DEF MapInv, TypeInv, NgapRec
<1>3. SentWhenAnswered'
      BY <1>1 DEF CalmInv, SentWhenAnswered
<1> QED
    BY <1>1, <1>2, <1>3, AsideCalm DEF tables

\* A message arrives for a UE that is quiet.
LEMMA ArriveCalm ==
  ASSUME MapInv, PassInv, CalmInv, OneAtATime, failed = {}, NEW n \in NgapIds, NEW dir \in {"amf", "gnb"},
         NEW kind \in {"ics", "setup", "handover"}, NEW S \in SUBSET Pdus, Arrive(n, dir, kind, S)
  PROVE  CalmInv'
<1>0. TypeInv /\ KeptInv
      BY DEF MapInv, PassInv
<1>k. PICK k : k = NextMsg
      OBVIOUS
<1>a. Arrived(n, k, S)
      BY <1>0, <1>k, ArriveIs
<1>1. /\ k \in Msgs /\ msg[k].fate = "none"
      /\ \A q \in Msgs : q # k => msg'[q] = msg[q]
      /\ msg'[k].fate = "handled"
      /\ \A q \in NgapIds : q # n => ngap'[q] = ngap[q] /\ th'[q] = th[q]
      /\ ngap'[n].cur = k /\ th'[n].k = k /\ th'[n].todo = S
      /\ UNCHANGED <<tables, ngap_msg_list, pdu, timers, net, media, failed>>
      BY <1>a DEF Arrived
<1>2. ngap'[n].up /\ ~ngap'[n].stray
  <2>1. ngap[n].up /\ ngap \in [NgapIds -> NgapRec] /\ ngap[n] \in NgapRec
        BY <1>0 DEF Arrive, TypeInv
  <2>2. ngap' = [ngap EXCEPT ![n].count = Cardinality(S), ![n].rsp = 0, ![n].cur = k,
                             ![n].stray = FALSE,
                             ![n].vec = IF dir = "amf" THEN @ \cup S ELSE @]
        BY <1>k DEF Arrive
  <2> QED
      BY <2>1, <2>2 DEF NgapRec
<1>q. Quiet(n)
      BY DEF Arrive
<1>3. /\ ngap_msg_list[n] = NoMsg
      /\ \A m \in net : pdu[m.obj].ngap # n
      BY <1>q, QuietIs
<1>4. ASSUME NEW o \in Objects
      PROVE  SessCalm(o)'
  <2>1. ASSUME NEW m \in net, m.obj = o, m.type # "RELEASE_REQ", ngap[pdu[o].ngap].up
        PROVE  ngap'[pdu[o].ngap].up
        BY <1>1, <1>2, <2>1, EventIs
  <2>2. SessStays(o)
        BY <1>1, <2>1 DEF SessStays, MediaStays, tables
  <2>3. SessCalm(o)
        BY DEF CalmInv
  <2> QED
      BY <2>2, <2>3, SessStaysKeeps
<1>5. TodoCalm'
  <2>1. \A q, r : getPduSess(q, r)' = getPduSess(q, r)
        BY <1>1 DEF getPduSess, tables
  <2>2. ASSUME NEW q \in NgapIds, NEW r \in th'[q].todo, NEW m \in net'
        PROVE  m.obj # getPduSess(q, r)
    <3>1. m \in net /\ m.obj \in Objects
          BY <1>0, <1>1 DEF TypeInv, Event
    <3>2. CASE q = n
      <4>1. r \in Pdus
            BY <1>1, <3>2
      <4>2. m.obj # NULL
            BY <3>1, PduSessAssumption
      <4> QED
          BY <1>3, <3>1, <3>2, <4>1, <4>2, OwnIs
    <3>3. CASE q # n
          BY <1>1, <3>1, <3>3 DEF CalmInv, TodoCalm
    <3> QED
        BY <3>2, <3>3
  <2> QED
      BY <2>1, <2>2 DEF TodoCalm
<1>6. ASSUME NEW q \in NgapIds
      PROVE  UeCalm(q)'
  <2>1. CASE q = n
    <3>1. For(n, k)'
          BY <1>1, <1>2 DEF For
    <3>2. Asking(n, k)'
          BY <1>1, <1>3 DEF Asking
    <3>3. ngap_msg_list'[n] = NoMsg
          BY <1>1, <1>3
    <3> QED
        BY <1>1, <1>2, <2>1, <3>1, <3>2, <3>3 DEF UeCalm
  <2>2. CASE q # n
    <3>1. UeStays(q)
          BY <1>1, <2>2 DEF UeStays
    <3> QED
        BY <3>1, UeStaysKeeps DEF CalmInv
  <2> QED
      BY <2>1, <2>2
<1>7. ASSUME NEW i \in Ids
      PROVE  SlotCalm(i)'
  <2>1. ngap_msg_list[i] # NoMsg => ngap_msg_list[i] \in Msgs /\ ngap_msg_list[i] # k
        BY <1>0, <1>1, SlotsAre DEF KeptInv, TypeInv
  <2>2. SlotStays(i)
        BY <1>1, <2>1 DEF SlotStays
  <2> QED
      BY <2>2, SlotStaysKeeps DEF CalmInv
<1>8. SentWhenAnswered'
      BY <1>1 DEF CalmInv, SentWhenAnswered
<1> QED
    BY <1>4, <1>5, <1>6, <1>7, <1>8 DEF CalmInv

-----------------------------------------------------------------------------
(* The handlers.                                                           *)

\* A PDU session is skipped.
LEMMA SkipCalm ==
  ASSUME MapInv, CalmInv, NEW n \in NgapIds, NEW r \in Pdus, th' = Done(n, r, FALSE),
         UNCHANGED <<session_list, session_id_map, ngap_msg_list, pdu, timers, ngap, net, media, msg>>
  PROVE  CalmInv'
<1>0. TypeInv
      BY DEF MapInv
<1>1. \A q \in NgapIds : th'[q].k = th[q].k /\ th'[q].todo \subseteq th[q].todo
      BY <1>0, DoneIs
<1>2. SentWhenAnswered'
      BY DEF CalmInv, SentWhenAnswered
<1> QED
    BY <1>1, <1>2, AsideCalm

\* A handler ends.
LEMMA HandlerEndsCalm ==
  ASSUME MapInv, CalmInv, NEW n \in NgapIds, HandlerEnds(n)
  PROVE  CalmInv'
<1>0. TypeInv
      BY DEF MapInv
<1>1. /\ msg' = IF msg[th[n].k].fate = "handled" /\ ~th[n].bMedia THEN [msg EXCEPT ![th[n].k].fate = "sent"]
                ELSE msg
      /\ th' = [th EXCEPT ![n] = Idle] /\ th[n].k \in Msgs
      /\ UNCHANGED <<tables, ngap_msg_list, pdu, timers, ngap, net, media, failed>>
      BY <1>0 DEF HandlerEnds, TypeInv, Work
<1>2. \A q \in NgapIds : th'[q].k \in {th[q].k, NoMsg} /\ th'[q].todo \subseteq th[q].todo
      BY <1>0, <1>1 DEF TypeInv, Idle
<1>3. \A k \in Msgs : msg'[k].ngap = msg[k].ngap /\ msg'[k].fate \in {msg[k].fate, "sent"}
  <2>k. PICK k \in Msgs : k = th[n].k
        BY <1>1
  <2>1. CASE msg' = msg
        BY <2>1
  <2>2. CASE msg' = [msg EXCEPT ![k].fate = "sent"]
    <3>1. msg \in [Msgs -> Message]
          BY <1>0 DEF TypeInv
    <3>2. "sent" \in {"sent", "early", "wrong", "lost"}
          OBVIOUS
    <3> QED
        BY <2>2, <3>1, <3>2, FateIs
  <2> QED
      BY <1>1, <2>k, <2>1, <2>2
<1>4. SentWhenAnswered'
      BY <1>3 DEF CalmInv, SentWhenAnswered
<1>5. \A i \in Ids : ngap_msg_list[i] # NoMsg => msg'[ngap_msg_list[i]].ngap = msg[ngap_msg_list[i]].ngap
      BY <1>0, <1>3, SlotsAre DEF TypeInv
<1> QED
    BY <1>1, <1>2, <1>4, <1>5, AsideCalm DEF tables

\* A session about which nothing was under way is asked about, for the message at hand.
LEMMA AskCalm ==
  ASSUME MapInv, CalmInv, Apart, NEW n \in NgapIds, NEW r \in Pdus, NEW k \in Msgs, NEW i \in Slots,
         NEW a, NEW o \in Objects, Asks(n, r, k, i, a), a.obj = o, \A m \in net : m.obj # o,
         pdu'[o].ngap = n, pdu'[o].st = "live", EventOk(a)', session_list'[pdu'[o].sig] = o,
         \A p \in Objects : p # o =>
           /\ pdu'[p] = pdu[p] /\ timers'[p] = timers[p]
           /\ pdu[p].st = "live" => session_list'[pdu[p].sig] = p,
         media' = media, i = n \/ (i = pdu'[o].sig /\ i \in Ids),
         \A q \in NgapIds, x \in Pdus : <<q, x>> # <<n, r>> =>
           getPduSess(q, x)' = getPduSess(q, x) /\ getPduSess(q, x) # o,
         msg[k].ngap = n
  PROVE  CalmInv'
<1>0. TypeInv
      BY DEF MapInv
<1>1. /\ k = th[n].k /\ k # NoMsg /\ r \in th[n].todo /\ Saved(k, i)
      /\ net' = net \cup {a} /\ a.for = k
      /\ i # n => Updates(a)
      /\ th' = Done(n, r, TRUE) /\ ngap' = ngap
      BY DEF Asks
<1>2. /\ th'[n].k = k /\ th'[n].todo = th[n].todo \ {r}
      /\ \A q \in NgapIds : q # n => th'[q] = th[q]
      BY <1>0, <1>1, DoneIs
<1>3. /\ \A q \in Msgs : msg'[q].ngap = msg[q].ngap /\ msg'[q].fate \in {msg[q].fate, "kept", "lost"}
      /\ ngap_msg_list' = ngap_msg_list \/ ngap_msg_list' = [ngap_msg_list EXCEPT ![i] = k]
      BY <1>0, <1>1, SavedIs
<1>4. /\ \A j \in Slots : j # i => ngap_msg_list'[j] = ngap_msg_list[j]
      /\ ngap_msg_list'[i] \in {ngap_msg_list[i], k}
      BY <1>0, <1>3 DEF TypeInv
<1>5. \A m \in net : m.obj \in Objects /\ m.obj # o /\ pdu'[m.obj] = pdu[m.obj]
      BY <1>0 DEF TypeInv, Event
<1>6. ASSUME NEW p \in Objects
      PROVE  SessCalm(p)'
  <2>1. CASE p = o
    <3>1. \A m \in net' : m.obj = o => m = a
          BY <1>1, <1>5
    <3>2. ~\A m \in net' : m.obj # o
          BY <1>1
    <3> QED
        BY <2>1, <3>1, <3>2 DEF SessCalm
  <2>2. CASE p # o
    <3>0. SessCalm(p)
          BY DEF CalmInv
    <3>1. MediaStays(p)
          BY <2>2 DEF MediaStays
    <3>2. /\ \A m \in net : m.obj = p => m \in net'
          /\ \A m \in net' : m.obj = p => m \in net
          BY <1>1, <2>2
    <3>3. ASSUME NEW m \in net', m.obj = p
          PROVE  EventOk(m)'
      <4>1. m \in net /\ EventOk(m)
            BY <3>0, <3>2, <3>3 DEF SessCalm
      <4> QED
          BY <1>1, <3>1, <3>3, <4>1, EventStays
    <3>4. (\A m \in net' : m.obj # p) => IF pdu'[p].st = "live" THEN Settled(p)' ELSE Unplaced(p)'
      <4>1. (\A m \in net' : m.obj # p) => IF pdu[p].st = "live" THEN Settled(p) ELSE Unplaced(p)
            BY <3>0, <3>2 DEF SessCalm
      <4> QED
          BY <2>2, <3>1, <4>1, MediaStaysKeeps
    <3>5. \A m, q \in net' : m.obj = p /\ q.obj = p => m = q
          BY <3>0, <3>2 DEF SessCalm
    <3>6. /\ pdu'[p].st = "live" => session_list'[pdu'[p].sig] = p
          /\ timers'[p] > 0 => pdu'[p].st = "live"
          BY <2>2, <3>0 DEF SessCalm
    <3> QED
        BY <3>3, <3>4, <3>5, <3>6 DEF SessCalm
  <2> QED
      BY <2>1, <2>2
<1>7. TodoCalm'
  <2>1. ASSUME NEW q \in NgapIds, NEW x \in th'[q].todo, NEW m \in net'
        PROVE  m.obj # getPduSess(q, x)'
    <3>1. x \in th[q].todo /\ <<q, x>> # <<n, r>>
          BY <1>2, <2>1
    <3>2. x \in Pdus
          BY <1>0, <3>1 DEF TypeInv, Work
    <3>3. getPduSess(q, x)' = getPduSess(q, x) /\ getPduSess(q, x) # o
          BY <3>1, <3>2
    <3>4. m \in net => m.obj # getPduSess(q, x)
          BY <3>1 DEF CalmInv, TodoCalm
    <3> QED
        BY <1>1, <3>3, <3>4
  <2> QED
      BY <2>1 DEF TodoCalm
<1>8. UeCalm(n) /\ ngap[n].up /\ For(n, k) /\ Asking(n, k)
      BY <1>1 DEF CalmInv, UeCalm
<1>9. For(n, k)' /\ Asking(n, k)'
  <2>1. For(n, k)'
        BY <1>1, <1>8 DEF For
  <2> QED
      BY <1>1, <1>5, <1>8, <2>1 DEF Asking
<1>10. ASSUME NEW q \in NgapIds
       PROVE  UeCalm(q)'
  <2>1. CASE q = n
    <3>1. ngap_msg_list[n] # NoMsg => ngap_msg_list[n] = k
          BY <1>8 DEF UeCalm, For
    <3>2. ngap_msg_list'[n] \in {NoMsg, k}
          BY <1>4, <3>1, SlotsAre
    <3>3. k = ngap'[n].cur /\ ngap'[n].up
          BY <1>1, <1>8 DEF For
    <3> QED
        BY <1>2, <1>9, <2>1, <3>2, <3>3 DEF UeCalm
  <2>2. CASE q # n
    <3>1. q # i
          BY <2>2 DEF Apart
    <3>2. ngap_msg_list'[q] = ngap_msg_list[q]
          BY <1>4, <3>1, SlotsAre
    <3>3. \A m \in net' : pdu'[m.obj].ngap = q => m \in net /\ pdu[m.obj].ngap = q
          BY <1>1, <1>5, <2>2
    <3>4. UeStays(q)
          BY <1>1, <1>2, <2>2, <3>2, <3>3 DEF UeStays
    <3> QED
        BY <3>4, UeStaysKeeps DEF CalmInv
  <2> QED
      BY <2>1, <2>2
<1>11. ASSUME NEW j \in Ids
       PROVE  SlotCalm(j)'
  <2>1. ASSUME ngap_msg_list'[j] = ngap_msg_list[j]
        PROVE  SlotCalm(j)'
    <3>1. ngap_msg_list[j] # NoMsg => msg'[ngap_msg_list[j]].ngap = msg[ngap_msg_list[j]].ngap
          BY <1>0, <1>3, SlotsAre DEF TypeInv
    <3>2. \A m \in net : m \in net' /\ pdu'[m.obj] = pdu[m.obj]
          BY <1>1, <1>5
    <3>3. SlotStays(j)
          BY <2>1, <3>1, <3>2 DEF SlotStays
    <3> QED
        BY <3>3, SlotStaysKeeps DEF CalmInv
  <2>2. CASE j = i /\ ngap_msg_list'[j] = k
    <3>1. i # n /\ pdu'[o].sig = i
          BY <2>2 DEF Apart
    <3>2. Updates(a) /\ a \in net'
          BY <1>1, <3>1
    <3>3. Awaited(i, k, n)'
          BY <1>1, <3>1, <3>2 DEF Awaited, Updates
    <3>4. msg'[k].ngap = n
          BY <1>3
    <3> QED
        BY <2>2, <3>3, <3>4 DEF SlotCalm
  <2>3. j \in Slots
        BY SlotsAre
  <2> QED
      BY <1>4, <2>1, <2>2, <2>3
<1>12. SentWhenAnswered'
       BY <1>3 DEF CalmInv, SentWhenAnswered
<1> QED
    BY <1>6, <1>7, <1>10, <1>11, <1>12 DEF CalmInv

\* The message a handler works on is its UE's last.
LEMMA WorkIs ==
  ASSUME MapInv, PassInv, CalmInv, NEW n \in NgapIds, th[n].k # NoMsg
  PROVE  th[n].k \in Msgs /\ msg[th[n].k].ngap = n /\ ngap[n].up
<1>1. th[n].k \in Msgs
      BY DEF MapInv, TypeInv, Work
<1>2. msg[th[n].k].ngap = n
      BY DEF PassInv, HandlerInv
<1>3. ngap[n].up
      BY DEF CalmInv, UeCalm
<1> QED
    BY <1>1, <1>2, <1>3

\* A timer is armed.
LEMMA ArmedOthers ==
  ASSUME TypeInv, NEW o \in Objects, timers' = Armed(o)
  PROVE  \A p \in Objects : p # o => timers'[p] = timers[p]
BY DEF TypeInv, Armed

\* A new PDU session is asked for.
LEMMA SetupReqCalm ==
  ASSUME MapInv, PassInv, CalmInv, Apart, failed = {}, NEW n \in NgapIds, NEW r \in Pdus, NEW o \in Objects,
         th[n].k # NoMsg, r \in th[n].todo, msg[th[n].k].dir = "amf", processSessSetupReq(n, r, o)
  PROVE  CalmInv'
<1>0. TypeInv /\ ListInv /\ LeadInv
      BY DEF MapInv
<1>k. PICK k \in Msgs : k = th[n].k
      BY WorkIs
<1>1. CASE FreeSteps = {}
  <2>1. /\ th' = Done(n, r, FALSE)
        /\ UNCHANGED <<session_list, session_id_map, ngap_msg_list, pdu, timers, ngap, net, media, msg, failed>>
        BY <1>1 DEF processSessSetupReq
  <2> QED
      BY <2>1, SkipCalm
<1>2. CASE FreeSteps # {}
  <2>j. PICK j : j = CHOOSE x \in FreeSteps : \A y \in FreeSteps : x <= y
        OBVIOUS
  <2>i. PICK i : i = NextId(j)
        OBVIOUS
  <2>a. PICK a : a = [UpfSetupReq(o, k) EXCEPT !.sig = i]
        OBVIOUS
  <2>s. PICK s : s = [NoPdu EXCEPT !.st = "live", !.sig = i, !.ngap = n, !.res = r]
        OBVIOUS
  <2>1. i \in Ids /\ session_list[i] = NULL
        BY <1>0, <1>2, <2>j, <2>i, FreeIdIs
  <2>2. /\ pdu[o].st = "none"
        /\ session_list' = [session_list EXCEPT ![i] = o]
        /\ session_id_map' = [session_id_map EXCEPT ![<<r, n>>] = i]
        /\ pdu' = [pdu EXCEPT ![o] = s]
        /\ Saved(k, n) /\ net' = net \cup {a} /\ timers' = Armed(o) /\ th' = Done(n, r, TRUE)
        /\ UNCHANGED <<ngap, media, failed>>
        BY <1>2, <1>k, <2>j, <2>i, <2>a, <2>s DEF processSessSetupReq
  <2>3. /\ s.st = "live" /\ s.sig = i /\ s.ngap = n /\ s.media = NULL /\ s.gnb = NULL
        BY <2>s DEF NoPdu
  <2>4. pdu'[o] = s /\ \A p \in Objects : p # o => pdu'[p] = pdu[p]
        BY <1>0, <2>2 DEF TypeInv
  <2>5. session_list'[i] = o /\ \A x \in Ids : x # i => session_list'[x] = session_list[x]
        BY <1>0, <2>1, <2>2 DEF TypeInv
  <2>6. SessCalm(o)
        BY DEF CalmInv
  <2>7. \A m \in net : m.obj # o
    <3>1. ASSUME NEW m \in net, m.obj = o
          PROVE  FALSE
      <4>1. EventOk(m)
            BY <2>6, <3>1 DEF SessCalm
      <4> QED
          BY <2>2, <3>1, <4>1 DEF EventOk
    <3> QED
        BY <3>1
  <2>8. Unplaced(o)
        BY <2>2, <2>6, <2>7 DEF SessCalm
  <2>9. /\ a.type = "UPF_SETUP_REQ" /\ a.sig = i /\ a.for = k /\ a.obj = o
        BY <2>a DEF UpfSetupReq, Req
  <2>10. ngap'[n].up
        BY <1>k, <2>2, WorkIs
  <2>11. Unplaced(o)'
        BY <2>2, <2>8 DEF Unplaced, Of
  <2>12. EventOk(a)'
        BY <2>3, <2>4, <2>9, <2>10, <2>11 DEF EventOk
  <2>13. Asks(n, r, k, n, a)
        BY <1>k, <2>2, <2>9 DEF Asks, Gnbs
  <2>14. \A p \in Objects : p # o =>
           /\ pdu'[p] = pdu[p] /\ timers'[p] = timers[p]
           /\ pdu[p].st = "live" => session_list'[pdu[p].sig] = p
    <3>1. ASSUME NEW p \in Objects, p # o, pdu[p].st = "live"
          PROVE  session_list'[pdu[p].sig] = p
      <4>1. pdu[p].sig \in Ids /\ session_list[pdu[p].sig] = p /\ p # NULL
            BY <3>1, LiveIs, PduSessAssumption
      <4> QED
          BY <2>1, <2>5, <4>1
    <3>2. \A p \in Objects : p # o => timers'[p] = timers[p]
          BY <1>0, <2>2, ArmedOthers
    <3> QED
        BY <2>4, <3>1, <3>2
  <2>15. ASSUME NEW q \in NgapIds, NEW x \in Pdus, <<q, x>> # <<n, r>>
         PROVE  getPduSess(q, x)' = getPduSess(q, x) /\ getPduSess(q, x) # o
    <3>h. PICK h : h = session_id_map[<<x, q>>]
          OBVIOUS
    <3>1. session_id_map'[<<x, q>>] = h /\ h \in Ids \cup {INVALIDE_ID}
          BY <1>0, <2>2, <2>15, <3>h DEF TypeInv
    <3>2. CASE h = INVALIDE_ID
      <4>1. o # NULL
            BY PduSessAssumption
      <4> QED
          BY <3>h, <3>1, <3>2, <4>1 DEF getPduSess
    <3>3. CASE h # INVALIDE_ID
      <4>1. h \in Ids /\ session_list[h] # NULL
            BY <1>0, <3>h, <3>1, <3>3 DEF LeadInv
      <4>2. session_list'[h] = session_list[h]
            BY <2>1, <2>5, <4>1
      <4>3. session_list[h] # o
            BY <1>0, <2>2, <4>1, AnsweredIs
      <4> QED
          BY <3>h, <3>1, <3>3, <4>2, <4>3 DEF getPduSess
    <3> QED
        BY <3>2, <3>3
  <2>16. n \in Slots /\ msg[k].ngap = n
        BY <1>k, SlotsAre, WorkIs
  <2>17. session_list'[pdu'[o].sig] = o /\ pdu'[o].ngap = n /\ pdu'[o].st = "live"
        BY <2>3, <2>4, <2>5
  <2>18. media' = media
        BY <2>2
  <2> HIDE <2>a, <2>s
  <2> QED
      BY <2>7, <2>9, <2>12, <2>13, <2>14, <2>15, <2>16, <2>17, <2>18, AskCalm
<1> QED
    BY <1>1, <1>2

\* A session with a media session is at rest when its handler comes to it.
LEMMA OwnRests ==
  ASSUME MapInv, CalmInv, failed = {}, NEW n \in NgapIds, NEW r \in th[n].todo, r \in Pdus,
         NEW o \in Objects, o = getPduSess(n, r)
  PROVE  /\ pdu[o].st = "live" /\ pdu[o].ngap = n /\ pdu[o].sig \in Ids /\ session_list[pdu[o].sig] = o
         /\ \A m \in net : m.obj # o
         /\ Settled(o)
         /\ \A q \in NgapIds, x \in Pdus : <<q, x>> # <<n, r>> => getPduSess(q, x) # o
<1>1. o # NULL
      BY PduSessAssumption
<1>2. /\ pdu[o].st = "live" /\ pdu[o].ngap = n /\ pdu[o].res = r /\ pdu[o].sig \in Ids
      /\ session_list[pdu[o].sig] = o
      BY <1>1, OwnIs
<1>3. \A m \in net : m.obj # o
      BY DEF CalmInv, TodoCalm
<1>4. Settled(o)
      BY <1>2, <1>3 DEF CalmInv, SessCalm
<1>5. \A q \in NgapIds, x \in Pdus : getPduSess(q, x) = o => q = n /\ x = r
      BY <1>1, <1>2, OwnIs
<1> QED
    BY <1>2, <1>3, <1>4, <1>5

\* An update is asked for.
LEMMA UpdateCalm ==
  ASSUME MapInv, PassInv, CalmInv, Apart, failed = {}, NEW n \in NgapIds, NEW r \in Pdus,
         th[n].k # NoMsg, r \in th[n].todo, msg[th[n].k].dir = "amf", processSessUpdateUpf(n, r)
  PROVE  CalmInv'
<1>0. TypeInv
      BY DEF MapInv
<1>k. PICK k \in Msgs : k = th[n].k
      BY WorkIs
<1>o. PICK o : o = getPduSess(n, r)
      OBVIOUS
<1>i. PICK i : i = pdu[o].sig
      OBVIOUS
<1>a. PICK a : a = UpfUpdateReq(o, k)
      OBVIOUS
<1>1. /\ o # NULL /\ Saved(k, i) /\ net' = net \cup {a} /\ timers' = Armed(o) /\ th' = Done(n, r, TRUE)
      /\ UNCHANGED <<tables, pdu, ngap, media, failed>>
      BY <1>k, <1>o, <1>i, <1>a DEF processSessUpdateUpf
<1>2. o \in Objects
      BY <1>0, <1>1, <1>o, ReachIs
<1>3. /\ pdu[o].st = "live" /\ pdu[o].ngap = n /\ i \in Ids /\ session_list[i] = o
      /\ \A m \in net : m.obj # o
      /\ Settled(o)
      /\ \A q \in NgapIds, x \in Pdus : <<q, x>> # <<n, r>> => getPduSess(q, x) # o
      BY <1>2, <1>o, <1>i, OwnRests
<1>4. /\ a.type = "UPF_UPDATE_REQ" /\ a.sig = i /\ a.media = pdu[o].media /\ a.for = k /\ a.obj = o
      BY <1>a, <1>i DEF UpfUpdateReq, Req
<1>5. ngap'[n].up
      BY <1>1, WorkIs
<1>6. Settled(o)'
      BY <1>1, <1>3 DEF Settled, Known, Placed, Of
<1>7. EventOk(a)'
      BY <1>1, <1>3, <1>4, <1>5, <1>6, <1>i DEF EventOk
<1>8. Asks(n, r, k, i, a)
      BY <1>k, <1>1, <1>4 DEF Asks, Gnbs, Updates
<1>9. \A p \in Objects : p # o =>
        /\ pdu'[p] = pdu[p] /\ timers'[p] = timers[p]
        /\ pdu[p].st = "live" => session_list'[pdu[p].sig] = p
      BY <1>0, <1>1, <1>2, ArmedOthers, LiveIs DEF tables
<1>10. \A q \in NgapIds, x \in Pdus : <<q, x>> # <<n, r>> =>
         getPduSess(q, x)' = getPduSess(q, x) /\ getPduSess(q, x) # o
      BY <1>1, <1>3 DEF getPduSess, tables
<1>11. i \in Slots /\ msg[k].ngap = n
      BY <1>k, <1>3, SlotsAre, WorkIs
<1>12. /\ session_list'[pdu'[o].sig] = o /\ pdu'[o].ngap = n /\ pdu'[o].st = "live" /\ i = pdu'[o].sig
       /\ media' = media
      BY <1>1, <1>3, <1>i DEF tables
<1> HIDE <1>a, <1>i
<1> QED
    BY <1>2, <1>3, <1>4, <1>7, <1>8, <1>9, <1>10, <1>11, <1>12, AskCalm

\* The gNB's endpoint is asked to be set.
LEMMA SetupRspCalm ==
  ASSUME MapInv, PassInv, CalmInv, Apart, failed = {}, NEW n \in NgapIds, NEW r \in Pdus, NEW g \in GnbEnds,
         SetupRspItem(n, r, g)
  PROVE  CalmInv'
<1>0. TypeInv
      BY DEF MapInv
<1>o. PICK o : o = getPduSess(n, r)
      OBVIOUS
<1>1. /\ th[n].k # NoMsg /\ r \in th[n].todo /\ msg[th[n].k].dir = "gnb"
      /\ IF o = NULL
         THEN th' = Done(n, r, FALSE) /\ UNCHANGED <<ngap_msg_list, pdu, timers, net, msg>>
         ELSE /\ Saved(th[n].k, n) /\ pdu' = [pdu EXCEPT ![o].gnb = g]
              /\ net' = net \cup {GnbSetupReq(o, g, th[n].k)}
              /\ timers' = Armed(o) /\ th' = Done(n, r, TRUE)
      /\ UNCHANGED <<tables, ngap, media, failed>>
      BY <1>o DEF SetupRspItem
<1>k. PICK k \in Msgs : k = th[n].k
      BY <1>1, WorkIs
<1>2. CASE o = NULL
      BY <1>1, <1>2, SkipCalm DEF tables
<1>3. CASE o # NULL
  <2>a. PICK a : a = GnbSetupReq(o, g, k)
        OBVIOUS
  <2>1. /\ Saved(k, n) /\ pdu' = [pdu EXCEPT ![o].gnb = g] /\ net' = net \cup {a}
        /\ timers' = Armed(o) /\ th' = Done(n, r, TRUE)
        BY <1>1, <1>3, <1>k, <2>a
  <2>2. o \in Objects
        BY <1>0, <1>3, <1>o, ReachIs
  <2>3. /\ pdu[o].st = "live" /\ pdu[o].ngap = n /\ pdu[o].sig \in Ids /\ session_list[pdu[o].sig] = o
        /\ \A m \in net : m.obj # o
        /\ Settled(o)
        /\ \A q \in NgapIds, x \in Pdus : <<q, x>> # <<n, r>> => getPduSess(q, x) # o
        BY <1>1, <2>2, <1>o, OwnRests
  <2>4. /\ pdu'[o].st = "live" /\ pdu'[o].ngap = n /\ pdu'[o].sig = pdu[o].sig
        /\ pdu'[o].media = pdu[o].media /\ pdu'[o].gnb = g
        /\ \A p \in Objects : p # o => pdu'[p] = pdu[p]
    <3>1. pdu[o] \in PduRec /\ pdu \in [Objects -> PduRec]
          BY <1>0, <2>2 DEF TypeInv
    <3> QED
        BY <2>1, <2>2, <2>3, <3>1 DEF PduRec
  <2>5. /\ a.type = "GNB_SETUP_REQ" /\ a.sig = pdu[o].sig /\ a.media = pdu[o].media /\ a.for = k
        /\ a.obj = o /\ a.gnb = g
        BY <2>a DEF GnbSetupReq, Req
  <2>6. ngap'[n].up
        BY <1>1, WorkIs
  <2>7. Known(o, pdu[o].media) /\ media' = media
        BY <1>1, <2>3 DEF Settled
  <2>8. \A i : Known(o, i) => Known(o, i)'
        BY <2>4, <2>7 DEF Known, Placed, Of
  <2>9. EventOk(a)'
        BY <2>4, <2>5, <2>6, <2>7, <2>8 DEF EventOk
  <2>10. Asks(n, r, k, n, a)
        BY <1>1, <1>k, <2>1, <2>5 DEF Asks, Gnbs
  <2>11. \A p \in Objects : p # o =>
          /\ pdu'[p] = pdu[p] /\ timers'[p] = timers[p]
          /\ pdu[p].st = "live" => session_list'[pdu[p].sig] = p
        BY <1>0, <1>1, <2>1, <2>2, <2>4, ArmedOthers, LiveIs DEF tables
  <2>12. \A q \in NgapIds, x \in Pdus : <<q, x>> # <<n, r>> =>
           getPduSess(q, x)' = getPduSess(q, x) /\ getPduSess(q, x) # o
        BY <1>1, <2>3 DEF getPduSess, tables
  <2>13. n \in Slots /\ msg[k].ngap = n
        BY <1>1, <1>k, SlotsAre, WorkIs
  <2>14. session_list'[pdu'[o].sig] = o
        BY <1>1, <2>3, <2>4 DEF tables
  <2> HIDE <2>a
  <2> QED
      BY <2>2, <2>3, <2>4, <2>5, <2>7, <2>9, <2>10, <2>11, <2>12, <2>13, <2>14, AskCalm
<1> QED
    BY <1>2, <1>3

-----------------------------------------------------------------------------
(* Events are taken.                                                       *)

\* An event is taken, and answered or not: the sessions it is not about stay as they are.
LEMMA TakenCalm ==
  ASSUME MapInv, CalmInv, NEW m \in net, NEW A, net' = (net \ {m}) \cup A, \A a \in A : a.obj = m.obj,
         \A a, b \in A : a = b, \A a \in A : EventOk(a)',
         A = {} => IF pdu[m.obj].st = "live" THEN Settled(m.obj)' ELSE Unplaced(m.obj)',
         UNCHANGED <<session_list, session_id_map, timers, th>>,
         pdu'[m.obj].st = pdu[m.obj].st, pdu'[m.obj].sig = pdu[m.obj].sig,
         \A p \in Objects : p # m.obj => MediaStays(p),
         \A n \in NgapIds : ngap'[n].up = ngap[n].up
  PROVE  (\A o \in Objects : SessCalm(o)') /\ TodoCalm'
<1>o. PICK o : o = m.obj
      OBVIOUS
<1>1. o \in Objects /\ SessCalm(o)
      BY <1>o, EventIs
<1>2. \A q \in net : q.obj = o => q = m
      BY <1>o, <1>1 DEF SessCalm
<1>3. SessCalm(o)'
  <2>1. \A q \in net' : q.obj = o => q \in A
        BY <1>2
  <2>2. \A q, p \in net' : q.obj = o /\ p.obj = o => q = p
        BY <2>1
  <2>3. \A q \in net' : q.obj = o => EventOk(q)'
        BY <2>1
  <2>4. (\A q \in net' : q.obj # o) => IF pdu'[o].st = "live" THEN Settled(o)' ELSE Unplaced(o)'
        BY <1>o
  <2>5. /\ pdu'[o].st = "live" => session_list'[pdu'[o].sig] = o
        /\ timers'[o] > 0 => pdu'[o].st = "live"
        BY <1>o, <1>1 DEF SessCalm
  <2> QED
      BY <2>2, <2>3, <2>4, <2>5 DEF SessCalm
<1>4. ASSUME NEW p \in Objects, p # o
      PROVE  SessCalm(p)'
  <2>1. MediaStays(p)
        BY <1>o, <1>4
  <2>2. ASSUME NEW q \in net, q.obj = p, q.type # "RELEASE_REQ", ngap[pdu[p].ngap].up
        PROVE  ngap'[pdu[p].ngap].up
        BY <2>2, EventIs
  <2>3. /\ \A q \in net : q.obj = p => q \in net'
        /\ \A q \in net' : q.obj = p => q \in net
        BY <1>o, <1>4
  <2>4. SessStays(p)
        BY <2>1, <2>2, <2>3 DEF SessStays
  <2> QED
      BY <2>4, SessStaysKeeps DEF CalmInv
<1>5. TodoCalm'
  <2>1. \A q \in net' : \E p \in net : p.obj = q.obj
        OBVIOUS
  <2> QED
      BY <2>1, TodoStays DEF CalmInv
<1> QED
    BY <1>3, <1>4, <1>5

\* The media gateway takes an event; what is asked for UEs stays.
LEMMA MediaTakenCalm ==
  ASSUME MapInv, CalmInv, NEW m \in net, NEW A, net' = (net \ {m}) \cup A,
         \A a \in A : a.obj = m.obj /\ a.for = m.for /\ (Updates(a) <=> Updates(m)),
         Updates(m) => A # {}, \A a, b \in A : a = b, \A a \in A : EventOk(a)',
         A = {} => IF pdu[m.obj].st = "live" THEN Settled(m.obj)' ELSE Unplaced(m.obj)',
         UNCHANGED <<tables, ngap_msg_list, pdu, timers, ngap, th, msg, failed>>,
         \A p \in Objects : p # m.obj => MediaStays(p)
  PROVE  CalmInv'
<1>1. (\A o \in Objects : SessCalm(o)') /\ TodoCalm'
      BY TakenCalm DEF tables
<1>2. ASSUME NEW n \in NgapIds
      PROVE  UeCalm(n)'
  <2>1. \A q \in net' : pdu'[q.obj].ngap = n => \E p \in net : p.for = q.for /\ pdu[p.obj].ngap = n
        OBVIOUS
  <2>2. UeStays(n)
        BY <2>1 DEF UeStays
  <2> QED
      BY <2>2, UeStaysKeeps DEF CalmInv
<1>3. ASSUME NEW i \in Ids
      PROVE  SlotCalm(i)'
  <2>1. ASSUME NEW q \in net, Updates(q)
        PROVE  \E p \in net' : Updates(p) /\ p.for = q.for /\ p.obj = q.obj
        BY <2>1
  <2>2. SlotStays(i)
        BY <2>1 DEF SlotStays
  <2> QED
      BY <2>2, SlotStaysKeeps DEF CalmInv
<1>4. SentWhenAnswered'
      BY DEF CalmInv, SentWhenAnswered
<1> QED
    BY <1>1, <1>2, <1>3, <1>4 DEF CalmInv

\* A PDU session has one media session at most.
LEMMA OneEach ==
  ASSUME MapInv, CalmInv, NEW o \in Objects, NEW i \in MediaIds, NEW j \in MediaIds, Of(i, o), Of(j, o)
  PROVE  i = j
<1>1. SessCalm(o)
      BY DEF CalmInv
<1>2. Unplaced(o) \/ \E x : Placed(o, x)
  <2>1. CASE \A m \in net : m.obj # o
        BY <1>1, <2>1 DEF SessCalm, Settled, Known
  <2>2. CASE \E m \in net : m.obj = o
    <3>1. PICK m \in net : m.obj = o
          BY <2>2
    <3>2. m.type \in Events /\ EventOk(m)
          BY <3>1, EventIs DEF Event
    <3> QED
        BY <3>1, <3>2 DEF EventOk, Events, Settled, Known
  <2> QED
      BY <2>1, <2>2
<1> QED
    BY <1>2 DEF Placed, Unplaced

\* There is a free media session id for a session that has none.
LEMMA RoomIs ==
  ASSUME MapInv, CalmInv, Room, NEW o \in Objects, Unplaced(o)
  PROVE  \E i \in MediaIds : media[i] = NULL
<1>1. ASSUME \A i \in MediaIds : media[i] # NULL
      PROVE  FALSE
  <2>f. PICK f : f = [i \in MediaIds |-> media[i].obj]
        OBVIOUS
  <2>1. \A i \in MediaIds : media[i].obj \in Objects \ {o} /\ Of(i, media[i].obj)
        BY <1>1 DEF MapInv, TypeInv, MediaSess, Unplaced, Of
  <2>2. f \in [MediaIds -> Objects \ {o}]
        BY <2>f, <2>1
  <2>3. \A i, j \in MediaIds : f[i] = f[j] => i = j
        BY <2>f, <2>1, OneEach
  <2>4. f \in Injection(MediaIds, Objects \ {o})
        BY <2>2, <2>3 DEF Injection, IsInjective
  <2>5. /\ IsFiniteSet(Objects) /\ IsFiniteSet(Objects \ {o})
        /\ Cardinality(Objects \ {o}) = Cardinality(Objects) - 1
        BY FS_RemoveElement DEF Room
  <2>6. Cardinality(MediaIds) <= Cardinality(Objects \ {o})
        BY <2>4, <2>5, FS_Injection
  <2>7. Cardinality(Objects) <= Cardinality(MediaIds) /\ Cardinality(Objects) \in Nat /\ Cardinality(MediaIds) \in Nat
        BY FS_CardinalityType DEF Room
  <2> QED
      BY <2>5, <2>6, <2>7
<1> QED
    BY <1>1

\* The media gateway: a media session enters, or leaves, or is brought up to date, for the
\* session the event is about.
LEMMA MediaStepCalm ==
  ASSUME MapInv, CalmInv, Room, NEW m \in net, MediaStep(m)
  PROVE  CalmInv'
<1>o. PICK o : o = m.obj
      OBVIOUS
<1>0. /\ UNCHANGED <<tables, ngap_msg_list, pdu, timers, ngap, th, msg, failed>>
      /\ media' \in [MediaIds -> MediaSess \cup {NULL}]
      BY MediaStepIs DEF MapInv
<1>1. m \in Event /\ o \in Objects /\ EventOk(m) /\ media \in [MediaIds -> MediaSess \cup {NULL}]
      BY <1>o, EventIs DEF MapInv, TypeInv
<1>2. pdu' = pdu /\ ngap' = ngap
      BY <1>0
<1>3. ASSUME HandleUpfSetupReq(m)
      PROVE  CalmInv'
  <2>1. /\ m.type = "UPF_SETUP_REQ" /\ pdu[o].st = "live" /\ m.sig = pdu[o].sig
        /\ pdu[o].gnb = NULL /\ Unplaced(o) /\ ngap[pdu[o].ngap].up
        BY <1>o, <1>1, <1>3 DEF HandleUpfSetupReq, EventOk
  <2>2. PICK i \in MediaIds :
          /\ media[i] = NULL
          /\ media' = [media EXCEPT ![i] = [sig |-> m.sig, gnb |-> NULL, obj |-> o]]
          /\ AnswerWith(m, "UPF_SETUP_RSP", m.sig, i)
        BY <1>o, <1>1, <1>3, <2>1, RoomIs DEF HandleUpfSetupReq
  <2>a. PICK a : a = Answer(m, "UPF_SETUP_RSP", m.sig, i)
        OBVIOUS
  <2>3. /\ a.type = "UPF_SETUP_RSP" /\ a.sig = m.sig /\ a.media = i /\ a.obj = o /\ a.for = m.for
        BY <1>o, <1>1, <2>a DEF Answer, Event
  <2>4. net' = (net \ {m}) \cup {a}
        BY <2>2, <2>a DEF AnswerWith
  <2>5. /\ media'[i] # NULL /\ media'[i].sig = m.sig /\ media'[i].gnb = NULL /\ media'[i].obj = o
        /\ \A j \in MediaIds : j # i => media'[j] = media[j]
    <3>e. PICK e : e = [sig |-> m.sig, gnb |-> NULL, obj |-> o]
          OBVIOUS
    <3>1. e.sig = m.sig /\ e.gnb = NULL /\ e.obj = o
          BY <3>e
    <3>2. media' = [media EXCEPT ![i] = e]
          BY <2>2, <3>e
    <3>3. media'[i] = e /\ \A j \in MediaIds : j # i => media'[j] = media[j]
          BY <1>1, <3>2
    <3>4. e # NULL
      <4>1. e \in MediaSess
            BY <1>1, <3>e DEF MediaSess, Event
      <4> QED
          BY <4>1, PduSessAssumption
    <3> QED
        BY <3>1, <3>3, <3>4
  <2>6. Known(o, i)'
    <3>1. \A j \in MediaIds : Of(j, o)' <=> j = i
          BY <2>1, <2>5 DEF Of, Unplaced
    <3> QED
        BY <1>2, <2>1, <2>5, <3>1 DEF Known, Placed
  <2>7. EventOk(a)'
        BY <1>2, <2>1, <2>3, <2>5, <2>6 DEF EventOk
  <2>8. \A p \in Objects : p # o => MediaStays(p)
        BY <1>2, <2>2, <2>5 DEF MediaStays, Of
  <2>9. Updates(a) <=> Updates(m)
        BY <2>1, <2>3 DEF Updates
  <2> HIDE <2>a
  <2>A. PICK A : A = {a}
        OBVIOUS
  <2> QED
      BY <1>o, <1>0, <2>A, <2>3, <2>4, <2>7, <2>8, <2>9, MediaTakenCalm
<1>4. ASSUME HandleUpfUpdateReq(m)
      PROVE  CalmInv'
  <2>1. m.type = "UPF_UPDATE_REQ"
        BY <1>4 DEF HandleUpfUpdateReq
  <2>2. /\ pdu[o].st = "live" /\ m.sig = pdu[o].sig /\ m.media = pdu[o].media /\ Settled(o)
        /\ ngap[pdu[o].ngap].up
        BY <1>o, <1>1, <2>1 DEF EventOk
  <2>i. PICK i : i = pdu[o].media
        OBVIOUS
  <2>3. i \in MediaIds /\ i # NULL /\ media[i].sig = m.sig
        BY <2>2, <2>i, PduSessAssumption DEF Settled, Known, Placed
  <2>4. AnswerWith(m, "UPF_UPDATE_RSP", m.sig, i) /\ media' = media
        BY <1>4, <2>2, <2>i, <2>3 DEF HandleUpfUpdateReq, Named
  <2>a. PICK a : a = Answer(m, "UPF_UPDATE_RSP", m.sig, i)
        OBVIOUS
  <2>5. /\ a.type = "UPF_UPDATE_RSP" /\ a.sig = m.sig /\ a.media = i /\ a.obj = o /\ a.for = m.for
        BY <1>o, <1>1, <2>a DEF Answer, Event
  <2>6. net' = (net \ {m}) \cup {a}
        BY <2>4, <2>a DEF AnswerWith
  <2>7. MediaStays(o)
        BY <1>2, <2>4 DEF MediaStays
  <2>8. Settled(o)'
        BY <2>2, <2>7, MediaStaysKeeps
  <2>9. EventOk(a)'
        BY <1>2, <2>2, <2>5, <2>8, <2>i DEF EventOk
  <2>10. \A p \in Objects : p # o => MediaStays(p)
        BY <1>2, <2>4 DEF MediaStays
  <2>11. Updates(a) <=> Updates(m)
        BY <2>1, <2>5 DEF Updates
  <2>A. PICK A : A = {a}
        OBVIOUS
  <2> QED
      BY <1>o, <1>0, <2>A, <2>5, <2>6, <2>9, <2>10, <2>11, MediaTakenCalm
<1>5. ASSUME HandleGnbSetupReq(m)
      PROVE  CalmInv'
  <2>1. m.type = "GNB_SETUP_REQ"
        BY <1>5 DEF HandleGnbSetupReq
  <2>i. PICK i : i = pdu[o].media
        OBVIOUS
  <2>2. /\ pdu[o].st = "live" /\ m.sig = pdu[o].sig /\ m.media = i /\ m.gnb = pdu[o].gnb /\ Known(o, i)
        /\ ngap[pdu[o].ngap].up
        BY <1>o, <1>1, <2>1, <2>i DEF EventOk
  <2>3. i \in MediaIds /\ i # NULL /\ media[i] # NULL /\ media[i].obj = o /\ media[i].sig = m.sig
        BY <2>2, PduSessAssumption DEF Known, Placed, Of
  <2>4. media' = [media EXCEPT ![i] = [media[i] EXCEPT !.gnb = m.gnb]] /\ AnswerWith(m, "GNB_SETUP_RSP", m.sig, i)
        BY <1>5, <2>2, <2>3 DEF HandleGnbSetupReq, Named
  <2>a. PICK a : a = Answer(m, "GNB_SETUP_RSP", m.sig, i)
        OBVIOUS
  <2>5. /\ a.type = "GNB_SETUP_RSP" /\ a.sig = m.sig /\ a.media = i /\ a.obj = o /\ a.for = m.for
        BY <1>o, <1>1, <2>a DEF Answer, Event
  <2>6. net' = (net \ {m}) \cup {a}
        BY <2>4, <2>a DEF AnswerWith
  <2>e. PICK e : e = [media[i] EXCEPT !.gnb = m.gnb]
        OBVIOUS
  <2>7. e.sig = m.sig /\ e.gnb = pdu[o].gnb /\ e.obj = o
    <3>1. media[i] \in MediaSess
          BY <1>1, <2>3
    <3> QED
        BY <2>2, <2>3, <2>e, <3>1 DEF MediaSess
  <2>8. media'[i] = e /\ \A j \in MediaIds : j # i => media'[j] = media[j]
        BY <1>1, <2>3, <2>4, <2>e
  <2>9. e # NULL
    <3>1. media[i] \in MediaSess /\ e \in MediaSess
      <4>1. media[i] \in MediaSess /\ m.gnb \in GnbEnds \cup {NULL}
            BY <1>1, <2>3 DEF Event
      <4> QED
          BY <2>e, <4>1 DEF MediaSess
    <3> QED
        BY <3>1, PduSessAssumption
  <2>10. Settled(o)'
    <3>1. \A j \in MediaIds : Of(j, o)' <=> j = i
          BY <2>2, <2>7, <2>8, <2>9 DEF Known, Placed, Of
    <3> QED
        BY <1>2, <2>2, <2>3, <2>7, <2>8, <2>i, <3>1 DEF Settled, Known, Placed
  <2>11. EventOk(a)'
        BY <1>2, <2>2, <2>5, <2>10, <2>i DEF EventOk
  <2>12. \A p \in Objects : p # o => MediaStays(p)
        BY <1>2, <2>3, <2>7, <2>8 DEF MediaStays, Of
  <2>13. Updates(a) <=> Updates(m)
        BY <2>1, <2>5 DEF Updates
  <2>A. PICK A : A = {a}
        OBVIOUS
  <2> QED
      BY <1>o, <1>0, <2>A, <2>5, <2>6, <2>11, <2>12, <2>13, MediaTakenCalm
<1>6. ASSUME HandleReleaseReq(m)
      PROVE  CalmInv'
  <2>1. m.type = "RELEASE_REQ"
        BY <1>6 DEF HandleReleaseReq
  <2>i. PICK i : i = pdu[o].media
        OBVIOUS
  <2>2. pdu[o].st = "deleted" /\ m.sig = pdu[o].sig /\ m.media = i /\ Known(o, i)
        BY <1>o, <1>1, <2>1, <2>i DEF EventOk
  <2>3. i \in MediaIds /\ i # NULL /\ media[i] # NULL /\ media[i].obj = o /\ media[i].sig = m.sig
        BY <2>2, PduSessAssumption DEF Known, Placed, Of
  <2>4. media' = [media EXCEPT ![i] = NULL] /\ net' = net \ {m}
        BY <1>6, <2>2, <2>3 DEF HandleReleaseReq, Named, Gone
  <2>5. media'[i] = NULL /\ \A j \in MediaIds : j # i => media'[j] = media[j]
        BY <1>1, <2>3, <2>4
  <2>6. Unplaced(o)'
        BY <2>2, <2>5 DEF Unplaced, Known, Placed, Of
  <2>7. \A p \in Objects : p # o => MediaStays(p)
        BY <1>2, <2>3, <2>5 DEF MediaStays, Of
  <2>8. ~Updates(m)
        BY <2>1 DEF Updates
  <2>A. PICK A : A = {}
        OBVIOUS
  <2>9. net' = (net \ {m}) \cup A
        BY <2>4, <2>A
  <2> QED
      BY <1>o, <1>0, <2>A, <2>2, <2>6, <2>7, <2>8, <2>9, MediaTakenCalm
<1> QED
    BY <1>3, <1>4, <1>5, <1>6 DEF MediaStep

\* An answer is counted for the UE it is about: it is an answer to the UE's last message, and
\* what it lets go is owed nothing more.
LEMMA CountCalm ==
  ASSUME MapInv, PassInv, CalmInv, NEW m \in net, ~Updates(m), m.type # "RELEASE_REQ",
         NEW dir \in {"amf", "gnb"}, dir = "gnb" <=> Gnbs(m), NEW o \in Objects, o = m.obj,
         CountAndPass(m, o, dir), net' = net \ {m}, Settled(o)',
         UNCHANGED <<tables, timers, th, media, failed>>,
         pdu'[o].st = pdu[o].st, pdu'[o].sig = pdu[o].sig, pdu'[o].ngap = pdu[o].ngap,
         \A p \in Objects : p # o => pdu'[p] = pdu[p]
  PROVE  CalmInv'
<1>0. /\ TypeInv /\ UsedInv /\ KeptInv /\ HandlerInv /\ AskedInv /\ OwedInv /\ CountInv /\ OlderInv
      BY DEF MapInv, PassInv
<1>1. /\ pdu[o].st = "live" /\ pdu[o].sig \in Ids /\ pdu[o].ngap \in NgapIds
      BY EventIs, LiveIs
<1>n. PICK n \in NgapIds : n = pdu[o].ngap
      BY <1>1
<1>s. PICK s \in Slots : s = pdu[o].sig
      BY <1>1, SlotsAre
<1>2. /\ ngap' = Counted(n, m.for)
      /\ ngap_msg_list' \in [Slots -> Msgs \cup {NoMsg}]
      /\ \A i \in Slots : ngap_msg_list'[i] \in {ngap_msg_list[i], NoMsg}
      /\ \A k \in Msgs :
           /\ msg'[k].ngap = msg[k].ngap /\ msg'[k].owed = msg[k].owed - (IF k = m.for THEN 1 ELSE 0)
           /\ \/ msg'[k].fate = msg[k].fate
              \/ ngap_msg_list[s] = k /\ msg'[k].fate = "lost"
              \/ /\ ngap_msg_list[n] = k /\ ngap_msg_list'[n] = NoMsg /\ Enough(n)
                 /\ msg'[k].fate = IF msg[k].dir # dir THEN (IF dir = "amf" THEN "lost" ELSE "wrong")
                                   ELSE IF msg'[k].owed > 0 THEN "early" ELSE "sent"
      BY <1>0, <1>n, <1>s, CountAndPassIs
<1>g. PICK G : G = Counted(n, m.for)
      OBVIOUS
<1>3. /\ G[n].stray <=> (ngap[n].stray \/ m.for = NoMsg \/ m.for # ngap[n].cur)
      /\ G \in [NgapIds -> NgapRec]
      /\ \A q \in NgapIds : G[q].cur = ngap[q].cur /\ (q # n => G[q] = ngap[q])
      BY <1>0, <1>g, CountedIs
<1>4. \A q \in NgapIds : G[q].up = ngap[q].up
      BY <1>0, <1>g DEF Counted, TypeInv, NgapRec
<1>5. ngap' = G
      BY <1>2, <1>g
<1>6. UeCalm(n) /\ (\A k : Asking(n, k) => m.for = k /\ For(n, k))
      BY <1>n DEF CalmInv, Asking
<1>7. (\A p \in Objects : SessCalm(p)') /\ TodoCalm'
  <2>1. \A p \in Objects : p # o => MediaStays(p)
        BY DEF MediaStays
  <2>2. \A q \in NgapIds : ngap'[q].up = ngap[q].up
        BY <1>4, <1>5
  <2>A. PICK A : A = {}
        OBVIOUS
  <2>3. net' = (net \ {m}) \cup A
        BY <2>A
  <2>4. UNCHANGED <<session_list, session_id_map, timers, th>>
        BY DEF tables
  <2> QED
      BY <1>1, <2>1, <2>2, <2>A, <2>3, <2>4, TakenCalm
<1>8. \A q \in net' : q \in net /\ q.obj \in Objects /\ pdu'[q.obj].ngap = pdu[q.obj].ngap
                      /\ pdu'[q.obj].sig = pdu[q.obj].sig
      BY <1>0 DEF TypeInv, Event
<1>9. ASSUME NEW q \in NgapIds
      PROVE  UeCalm(q)'
  <2>1. ASSUME ngap'[q].stray = ngap[q].stray
        PROVE  UeCalm(q)'
    <3>1. ngap_msg_list'[q] \in {ngap_msg_list[q], NoMsg}
          BY <1>2, SlotsAre
    <3>2. UeStays(q)
          BY <1>3, <1>4, <1>5, <1>8, <2>1, <3>1 DEF UeStays
    <3> QED
        BY <3>2, UeStaysKeeps DEF CalmInv
  <2>2. CASE q # n
        BY <1>3, <1>5, <2>1, <2>2
  <2>3. CASE q = n /\ (th[n].k # NoMsg \/ ngap_msg_list[n] # NoMsg)
    <3>1. m.for = ngap[n].cur /\ m.for # NoMsg /\ ~ngap[n].stray
          BY <1>6, <2>3 DEF UeCalm, For
    <3>2. ngap[n].stray \in BOOLEAN /\ G[n].stray \in BOOLEAN
          BY <1>0, <1>3 DEF TypeInv, NgapRec
    <3>3. G[n].stray = ngap[n].stray
          BY <1>3, <3>1, <3>2
    <3> QED
        BY <1>5, <2>1, <2>3, <3>3
  <2>4. CASE q = n /\ th[n].k = NoMsg /\ ngap_msg_list[n] = NoMsg
    <3>1. th'[n].k = NoMsg /\ ngap_msg_list'[n] = NoMsg
          BY <1>2, <2>4, SlotsAre
    <3> QED
        BY <2>4, <3>1 DEF UeCalm
  <2> QED
      BY <2>2, <2>3, <2>4
<1>10. ASSUME NEW i \in Ids
       PROVE  SlotCalm(i)'
  <2>1. i \in Slots /\ ngap_msg_list[i] \in Msgs \cup {NoMsg}
        BY <1>0, SlotsAre DEF TypeInv
  <2>2. \A q \in net : Updates(q) => q \in net'
        OBVIOUS
  <2>3. SlotStays(i)
        BY <1>2, <1>8, <2>1, <2>2 DEF SlotStays
  <2> QED
      BY <2>3, SlotStaysKeeps DEF CalmInv
<1>11. ASSUME NEW k \in Msgs, k = ngap_msg_list[n], Enough(n)
       PROVE  msg[k].dir = dir /\ msg'[k].owed = 0
  <2>1. k # NoMsg
        BY NoMsgIs
  <2>2. k = ngap[n].cur /\ m.for = k /\ ~ngap[n].stray
        BY <1>6, <1>11, <2>1 DEF UeCalm, For
  <2>3. msg[k].ngap = n
        BY <1>0, <2>1, <2>2 DEF HandlerInv
  <2>4. msg[k].owed = 1 /\ (msg[k].dir = "gnb" <=> Gnbs(m))
        BY <1>0, <1>11, <2>1, <2>2, <2>3, PassedInFull
  <2>5. msg[k].dir \in {"amf", "gnb"}
        BY <1>0 DEF TypeInv, Message
  <2> QED
      BY <1>2, <2>2, <2>4, <2>5
<1>12. SentWhenAnswered'
  <2>1. ASSUME NEW k \in Msgs
        PROVE  msg'[k].fate \notin {"early", "wrong"}
    <3>1. msg[k].fate \notin {"early", "wrong"}
          BY DEF CalmInv, SentWhenAnswered
    <3>2. CASE ngap_msg_list[n] = k /\ Enough(n)
      <4>1. msg[k].dir = dir /\ ~(msg'[k].owed > 0)
            BY <1>11, <3>2
      <4> QED
          BY <1>2, <3>1, <4>1
    <3>3. CASE ~(ngap_msg_list[n] = k /\ Enough(n))
          BY <1>2, <3>1, <3>3
    <3> QED
        BY <3>2, <3>3
  <2> QED
      BY <2>1 DEF SentWhenAnswered
<1> QED
    BY <1>7, <1>9, <1>10, <1>12 DEF CalmInv

\* An answer leads to the session its request was about.
LEMMA AnswerCalm ==
  ASSUME MapInv, PassInv, CalmInv, Apart, NEW m \in net, AnswerStep(m)
  PROVE  CalmInv'
<1>0. TypeInv
      BY DEF MapInv
<1>t. m.type \in {"UPF_SETUP_RSP", "GNB_SETUP_RSP", "UPF_UPDATE_RSP"}
      BY DEF AnswerStep, handleUpfSetupRsp, handleGnbSetupRsp, handleUpfUpdateRsp
<1>o. PICK o : o = m.obj
      OBVIOUS
<1>1. /\ o \in Objects /\ EventOk(m) /\ pdu[o].st = "live" /\ m.sig \in Ids /\ pdu[o].sig = m.sig
      /\ session_list[m.sig] = o /\ pdu[o].ngap \in NgapIds /\ ngap[pdu[o].ngap].up /\ m \in Event
      BY <1>o, <1>t, EventIs
<1>2. Answered(m) = o /\ o # NULL
      BY <1>1, PduSessAssumption DEF Answered
<1>3. ASSUME handleUpfSetupRsp(m)
      PROVE  CalmInv'
  <2>1. /\ m.type = "UPF_SETUP_RSP" /\ net' = net \ {m} /\ UNCHANGED <<tables, timers, th, media, failed>>
        /\ pdu' = [pdu EXCEPT ![o] = [pdu[o] EXCEPT !.media = m.media]] /\ CountAndPass(m, o, "amf")
        BY <1>2, <1>3 DEF handleUpfSetupRsp, Gone
  <2>2. /\ pdu'[o].st = pdu[o].st /\ pdu'[o].sig = pdu[o].sig /\ pdu'[o].ngap = pdu[o].ngap
        /\ pdu'[o].gnb = pdu[o].gnb /\ pdu'[o].media = m.media
        /\ \A p \in Objects : p # o => pdu'[p] = pdu[p]
    <3>1. pdu[o] \in PduRec /\ pdu \in [Objects -> PduRec]
          BY <1>0, <1>1 DEF TypeInv
    <3>2. pdu'[o] = [pdu[o] EXCEPT !.media = m.media] /\ \A p \in Objects : p # o => pdu'[p] = pdu[p]
          BY <1>1, <2>1, <3>1
    <3> QED
        BY <3>1, <3>2 DEF PduRec
  <2>3. Known(o, m.media) /\ media[m.media].gnb = pdu[o].gnb
        BY <1>o, <1>1, <2>1 DEF EventOk
  <2>4. Settled(o)'
        BY <2>1, <2>2, <2>3 DEF Settled, Known, Placed, Of
  <2>5. ~Updates(m) /\ ~Gnbs(m)
        BY <2>1 DEF Updates, Gnbs
  <2> QED
      BY <1>o, <1>1, <2>1, <2>2, <2>4, <2>5, CountCalm
<1>4. ASSUME handleGnbSetupRsp(m)
      PROVE  CalmInv'
  <2>1. /\ m.type = "GNB_SETUP_RSP" /\ net' = net \ {m} /\ UNCHANGED <<tables, pdu, timers, th, media, failed>>
        /\ CountAndPass(m, o, "gnb")
        BY <1>2, <1>4 DEF handleGnbSetupRsp, Gone
  <2>2. Settled(o)
        BY <1>o, <1>1, <2>1 DEF EventOk
  <2>3. Settled(o)'
        BY <2>1, <2>2 DEF Settled, Known, Placed, Of
  <2>4. ~Updates(m) /\ Gnbs(m)
        BY <2>1 DEF Updates, Gnbs
  <2> QED
      BY <1>o, <1>1, <2>1, <2>3, <2>4, CountCalm
<1>5. ASSUME handleUpfUpdateRsp(m)
      PROVE  CalmInv'
  <2>i. PICK i \in Ids : i = m.sig
        BY <1>1
  <2>1. /\ m.type = "UPF_UPDATE_RSP" /\ net' = net \ {m} /\ UNCHANGED <<tables, pdu, timers, ngap, th, media, failed>>
        /\ ngap_msg_list' = [ngap_msg_list EXCEPT ![i] = NoMsg] /\ msg' = Thrown(msg, i)
        BY <1>1, <1>2, <1>5, <2>i DEF handleUpfUpdateRsp, Gone
  <2>2. Settled(o)
        BY <1>o, <1>1, <2>1 DEF EventOk
  <2>3. Settled(o)'
        BY <2>1, <2>2 DEF Settled, Known, Placed, Of
  <2>4. (\A p \in Objects : SessCalm(p)') /\ TodoCalm'
    <3>1. \A p \in Objects : p # m.obj => MediaStays(p)
          BY <2>1 DEF MediaStays
    <3>A. PICK A : A = {}
          OBVIOUS
    <3>2. net' = (net \ {m}) \cup A
          BY <2>1, <3>A
    <3>3. UNCHANGED <<session_list, session_id_map, timers, th>> /\ pdu' = pdu /\ ngap' = ngap
          BY <2>1 DEF tables
    <3> QED
        BY <1>o, <1>1, <2>3, <3>1, <3>A, <3>2, <3>3, TakenCalm
  <2>5. \A j \in Slots : ngap_msg_list'[j] = IF j = i THEN NoMsg ELSE ngap_msg_list[j]
        BY <1>0, <2>1, SlotsAre DEF TypeInv
  <2>6. \A k \in Msgs : msg'[k].ngap = msg[k].ngap /\ msg'[k].fate \in {msg[k].fate, "lost"}
    <3>k. PICK k : k = ngap_msg_list[i]
          OBVIOUS
    <3>1. CASE k = NoMsg
          BY <2>1, <3>k, <3>1 DEF Thrown
    <3>2. CASE k # NoMsg
      <4>1. k \in Msgs /\ msg \in [Msgs -> Message]
            BY <1>0, <3>k, <3>2, SlotsAre DEF TypeInv
      <4>2. msg' = [msg EXCEPT ![k].fate = "lost"]
            BY <2>1, <3>k, <3>2 DEF Thrown
      <4> QED
          BY <4>1, <4>2, FateIs
    <3> QED
        BY <3>1, <3>2
  <2>7. ASSUME NEW n \in NgapIds
        PROVE  UeCalm(n)'
    <3>1. n # i /\ n \in Slots
          BY SlotsAre DEF Apart
    <3>2. UeStays(n)
          BY <2>1, <2>5, <3>1 DEF UeStays
    <3> QED
        BY <3>2, UeStaysKeeps DEF CalmInv
  <2>8. ASSUME NEW j \in Ids
        PROVE  SlotCalm(j)'
    <3>1. j \in Slots /\ ngap_msg_list[j] \in Msgs \cup {NoMsg}
          BY <1>0, SlotsAre DEF TypeInv
    <3>2. j # i => \A q \in net : pdu[q.obj].sig = j => q \in net'
          BY <1>o, <1>1, <2>1, <2>i
    <3>3. SlotStays(j)
          BY <2>1, <2>5, <2>6, <3>1, <3>2 DEF SlotStays
    <3> QED
        BY <3>3, SlotStaysKeeps DEF CalmInv
  <2>9. SentWhenAnswered'
        BY <2>6 DEF CalmInv, SentWhenAnswered
  <2> QED
      BY <2>4, <2>7, <2>8, <2>9 DEF CalmInv
<1> QED
    BY <1>3, <1>4, <1>5 DEF AnswerStep

\* A timer of a UE for which nothing is under way finds no message to send.
LEMMA TimeoutCalm ==
  ASSUME MapInv, PassInv, CalmInv, OneAtATime, NEW o \in Objects, SessTimeout(o)
  PROVE  CalmInv'
<1>0. TypeInv /\ timers[o] \in Nat
      BY DEF MapInv, TypeInv
<1>1. /\ UNCHANGED <<tables, pdu, th, net, media, failed>>
      /\ timers[o] > 0 /\ timers' = [timers EXCEPT ![o] = timers[o] - 1]
      BY DEF SessTimeout
<1>n. PICK n : n = pdu[o].ngap
      OBVIOUS
<1>i. PICK i : i = pdu[o].sig
      OBVIOUS
<1>2. pdu[o].st = "live" /\ i \in Ids /\ session_list[i] = o /\ n \in NgapIds /\ o # NULL
  <2>1. pdu[o].st = "live"
        BY <1>1 DEF CalmInv, SessCalm
  <2> QED
      BY <1>n, <1>i, <2>1, LiveIs, PduSessAssumption
<1>3. th[n] = Idle /\ \A m \in net : pdu[m.obj].ngap # n
      BY <1>n DEF SessTimeout
<1>4. ngap_msg_list[i] = NoMsg
  <2>1. ASSUME ngap_msg_list[i] # NoMsg
        PROVE  FALSE
    <3>1. PICK m \in net : Updates(m) /\ pdu[m.obj].sig = i
          BY <1>2, <2>1 DEF CalmInv, SlotCalm, Awaited
    <3>2. session_list[i] = m.obj
          BY <3>1, EventIs DEF Updates
    <3> QED
        BY <1>2, <1>3, <1>n, <3>2
  <2> QED
      BY <2>1
<1>5. /\ UNCHANGED <<ngap_msg_list, msg>>
      /\ ngap' = ngap \/ ngap' = Counted(n, NoMsg)
  <2>1. PICK h \in {i} :
          LET s == session_list[h]
              q == pdu[s].ngap
              k == ngap_msg_list[h]
          IN IF s = NULL \/ (s # NULL /\ ~ngap[pdu[s].ngap].up)
             THEN UNCHANGED <<ngap_msg_list, ngap, msg>>
             ELSE /\ ngap' = Counted(q, NoMsg)
                  /\ IF TimeoutTakes(q) /\ k # NoMsg
                     THEN /\ ngap_msg_list' = [ngap_msg_list EXCEPT ![h] = NoMsg]
                          /\ msg' = [msg EXCEPT ![k].fate =
                                       IF msg[k].kind = "handover" THEN "lost"
                                       ELSE Passed(k, msg[k].dir)]
                     ELSE UNCHANGED <<ngap_msg_list, msg>>
        BY <1>2, <1>i DEF SessTimeout
  <2> QED
      BY <1>2, <1>4, <1>n, <2>1
<1>6. \A q \in NgapIds : /\ ngap'[q].cur = ngap[q].cur /\ ngap'[q].up = ngap[q].up
                         /\ q # n => ngap'[q] = ngap[q]
  <2>1. CASE ngap' = ngap
        BY <2>1
  <2>2. CASE ngap' = Counted(n, NoMsg)
        BY <1>0, <2>2 DEF Counted, TypeInv, NgapRec
  <2> QED
      BY <1>5, <2>1, <2>2
<1>7. \A p \in Objects : timers'[p] > 0 => timers[p] > 0
      BY <1>0, <1>1 DEF TypeInv
<1>8. ASSUME NEW p \in Objects
      PROVE  SessCalm(p)'
  <2>1. ASSUME NEW m \in net, m.obj = p, m.type # "RELEASE_REQ", ngap[pdu[p].ngap].up
        PROVE  ngap'[pdu[p].ngap].up
        BY <1>6, <2>1, EventIs
  <2>2. SessStays(p)
        BY <1>1, <1>7, <2>1 DEF SessStays, MediaStays, tables
  <2> QED
      BY <2>2, SessStaysKeeps DEF CalmInv
<1>9. TodoCalm'
      BY <1>1, TodoStays DEF CalmInv, tables
<1>10. ASSUME NEW q \in NgapIds
       PROVE  UeCalm(q)'
  <2>1. CASE q = n
    <3>1. \A k : Asking(n, k)'
          BY <1>1, <1>3 DEF Asking
    <3>2. th'[n].k = NoMsg
          BY <1>1, <1>3 DEF Idle
    <3>3. ngap_msg_list'[n] # NoMsg => ngap_msg_list'[n] = ngap'[n].cur
          BY <1>2, <1>5, <1>6 DEF CalmInv, UeCalm
    <3> QED
        BY <2>1, <3>1, <3>2, <3>3 DEF UeCalm
  <2>2. CASE q # n
    <3>1. UeStays(q)
          BY <1>1, <1>5, <1>6, <2>2 DEF UeStays
    <3> QED
        BY <3>1, UeStaysKeeps DEF CalmInv
  <2> QED
      BY <2>1, <2>2
<1>11. ASSUME NEW j \in Ids
       PROVE  SlotCalm(j)'
  <2>1. SlotStays(j)
        BY <1>1, <1>5 DEF SlotStays
  <2> QED
      BY <2>1, SlotStaysKeeps DEF CalmInv
<1>12. SentWhenAnswered'
       BY <1>5 DEF CalmInv, SentWhenAnswered
<1> QED
    BY <1>8, <1>9, <1>10, <1>11, <1>12 DEF CalmInv

-----------------------------------------------------------------------------
(* A quiet UE's sessions are released, or move.                            *)

\* The sessions of a quiet UE are at rest.
LEMMA QuietRests ==
  ASSUME MapInv, PassInv, CalmInv, failed = {}, NEW n \in NgapIds, Quiet(n),
         NEW O, O = Reached(n, ngap[n].vec)
  PROVE  /\ O \in SUBSET Objects
         /\ \A p \in O : /\ pdu[p].st = "live" /\ pdu[p].ngap = n /\ pdu[p].sig \in Ids
                         /\ session_list[pdu[p].sig] = p
                         /\ timers[p] = 0 /\ Settled(p) /\ \A m \in net : m.obj # p
<1>0. TypeInv
      BY DEF MapInv
<1>1. O \in SUBSET Objects
      BY <1>0, ReachedIs
<1>2. ASSUME NEW p \in O
      PROVE  /\ pdu[p].st = "live" /\ pdu[p].ngap = n /\ pdu[p].sig \in Ids
             /\ session_list[pdu[p].sig] = p
             /\ timers[p] = 0 /\ Settled(p) /\ \A m \in net : m.obj # p
  <2>1. PICK r \in ngap[n].vec : p = getPduSess(n, r) /\ p # NULL
        BY DEF Reached
  <2>2. r \in Pdus
        BY <1>0, <2>1 DEF TypeInv, NgapRec
  <2>3. /\ pdu[p].st = "live" /\ pdu[p].ngap = n /\ pdu[p].sig \in Ids
        /\ session_list[pdu[p].sig] = p
        BY <2>1, <2>2, OwnIs
  <2>4. timers[p] = 0 /\ \A m \in net : m.obj # p
        BY <1>1, <2>3, QuietIs
  <2>5. Settled(p)
        BY <1>1, <2>3, <2>4 DEF CalmInv, SessCalm
  <2> QED
      BY <2>3, <2>4, <2>5
<1> QED
    BY <1>1, <1>2

\* Each of the sessions O of UE n is asked about once, by one of A, and for no message.
Spreads(n, O, A) ==
  /\ O \in SUBSET Objects
  /\ \A p \in O : pdu[p].ngap = n /\ timers[p] = 0 /\ \A m \in net : m.obj # p
  /\ net' = net \cup A
  /\ \A a \in A : a.obj \in O /\ EventOk(a)'
  /\ \A a, b \in A : a.obj = b.obj => a = b
  /\ \A p \in O : \E a \in A : a.obj = p
  /\ \A p \in O : pdu'[p].ngap = n /\ (pdu'[p].st = "live" => session_list'[pdu'[p].sig] = p)
  /\ \A p \in Objects : p \notin O =>
       pdu'[p] = pdu[p] /\ (session_list[pdu[p].sig] = p => session_list'[pdu[p].sig] = p)
  /\ UNCHANGED <<ngap_msg_list, timers, th, media, msg>>
  /\ \A q \in NgapIds : q # n => ngap'[q] = ngap[q]

\* It is then asked for nothing else.
LEMMA SpreadCalm ==
  ASSUME MapInv, PassInv, CalmInv, NEW n \in NgapIds, Quiet(n), NEW O, NEW A, Spreads(n, O, A), TodoCalm'
  PROVE  CalmInv'
<1>s. /\ O \in SUBSET Objects
      /\ \A p \in O : pdu[p].ngap = n /\ timers[p] = 0 /\ \A m \in net : m.obj # p
      /\ net' = net \cup A
      /\ \A a \in A : a.obj \in O /\ EventOk(a)'
      /\ \A a, b \in A : a.obj = b.obj => a = b
      /\ \A p \in O : \E a \in A : a.obj = p
      /\ \A p \in O : pdu'[p].ngap = n /\ (pdu'[p].st = "live" => session_list'[pdu'[p].sig] = p)
      /\ \A p \in Objects : p \notin O =>
           pdu'[p] = pdu[p] /\ (session_list[pdu[p].sig] = p => session_list'[pdu[p].sig] = p)
      /\ UNCHANGED <<ngap_msg_list, timers, th, media, msg>>
      /\ \A q \in NgapIds : q # n => ngap'[q] = ngap[q]
      BY DEF Spreads
<1>0. \A m \in net : m.obj \in Objects
      BY DEF MapInv, TypeInv, Event
<1>1. ASSUME NEW p \in Objects
      PROVE  SessCalm(p)'
  <2>1. CASE p \in O
    <3>1. \A m \in net' : m.obj = p => m \in A
          BY <1>s, <2>1
    <3>2. \A m, q \in net' : m.obj = p /\ q.obj = p => m = q
          BY <1>s, <3>1
    <3>3. \A m \in net' : m.obj = p => EventOk(m)'
          BY <1>s, <3>1
    <3>4. ~\A m \in net' : m.obj # p
          BY <1>s, <2>1
    <3>5. timers'[p] = 0
          BY <1>s, <2>1
    <3> QED
        BY <1>s, <2>1, <3>2, <3>3, <3>4, <3>5 DEF SessCalm
  <2>2. CASE p \notin O
    <3>1. ASSUME NEW m \in net, m.obj = p, m.type # "RELEASE_REQ", ngap[pdu[p].ngap].up
          PROVE  ngap'[pdu[p].ngap].up
      <4>1. pdu[p].ngap \in NgapIds /\ pdu[p].ngap # n
            BY <3>1, EventIs, QuietIs
      <4> QED
          BY <1>s, <3>1, <4>1
    <3>2. /\ \A m \in net : m.obj = p => m \in net'
          /\ \A m \in net' : m.obj = p => m \in net
          BY <1>s, <2>2
    <3>3. MediaStays(p)
          BY <1>s, <2>2 DEF MediaStays
    <3>4. SessStays(p)
          BY <1>s, <2>2, <3>1, <3>2, <3>3 DEF SessStays
    <3> QED
        BY <3>4, SessStaysKeeps DEF CalmInv
  <2> QED
      BY <2>1, <2>2
<1>2. \A m \in net : pdu'[m.obj] = pdu[m.obj]
      BY <1>0, <1>s
<1>3. ASSUME NEW q \in NgapIds
      PROVE  UeCalm(q)'
  <2>1. CASE q = n
    <3>1. th'[n].k = NoMsg /\ ngap_msg_list'[n] = NoMsg
          BY <1>s, QuietIs DEF Idle
    <3> QED
        BY <2>1, <3>1 DEF UeCalm
  <2>2. CASE q # n
    <3>1. \A m \in net' : pdu'[m.obj].ngap = q => m \in net /\ pdu[m.obj].ngap = q
          BY <1>s, <1>2, <2>2
    <3>2. UeStays(q)
          BY <1>s, <2>2, <3>1 DEF UeStays
    <3> QED
        BY <3>2, UeStaysKeeps DEF CalmInv
  <2> QED
      BY <2>1, <2>2
<1>4. ASSUME NEW i \in Ids
      PROVE  SlotCalm(i)'
  <2>1. SlotStays(i)
        BY <1>s, <1>2 DEF SlotStays
  <2> QED
      BY <2>1, SlotStaysKeeps DEF CalmInv
<1>5. SentWhenAnswered'
      BY <1>s DEF CalmInv, SentWhenAnswered
<1> QED
    BY <1>1, <1>3, <1>4, <1>5 DEF CalmInv

\* A UE context is released.
LEMMA ReleaseCalm ==
  ASSUME MapInv, PassInv, CalmInv, OneAtATime, failed = {}, NEW n \in NgapIds, ReleasePduSess(n)
  PROVE  CalmInv'
<1>0. TypeInv
      BY DEF MapInv
<1>O. PICK O : O = Reached(n, ngap[n].vec)
      OBVIOUS
<1>1. /\ Quiet(n) /\ th[n] = Idle
      /\ session_list' = [i \in Ids |-> IF session_list[i] \in O THEN NULL ELSE session_list[i]]
      /\ pdu' = [o \in Objects |-> IF o \in O THEN [pdu[o] EXCEPT !.st = "deleted"] ELSE pdu[o]]
      /\ net' = net \cup {ReleaseReq(o) : o \in O}
      /\ session_id_map' = [x \in Pdus \X NgapIds |->
           IF x[2] = n /\ getPduSess(n, x[1]) \in O THEN INVALIDE_ID ELSE session_id_map[x]]
      /\ ngap' = [ngap EXCEPT ![n] = NoNgap]
      /\ UNCHANGED <<ngap_msg_list, timers, th, media, msg>>
      BY <1>O DEF ReleasePduSess, Freed
<1>2. /\ O \in SUBSET Objects
      /\ \A p \in O : /\ pdu[p].st = "live" /\ pdu[p].ngap = n /\ pdu[p].sig \in Ids
                      /\ session_list[pdu[p].sig] = p
                      /\ timers[p] = 0 /\ Settled(p) /\ \A m \in net : m.obj # p
      BY <1>O, <1>1, QuietRests
<1>A. PICK A : A = {ReleaseReq(o) : o \in O}
      OBVIOUS
<1>3. ASSUME NEW p \in O
      PROVE  /\ pdu'[p].st = "deleted" /\ pdu'[p].sig = pdu[p].sig /\ pdu'[p].ngap = n
             /\ pdu'[p].media = pdu[p].media
  <2>1. p \in Objects /\ pdu[p] \in PduRec /\ pdu[p].ngap = n
        BY <1>0, <1>2 DEF TypeInv
  <2>2. pdu'[p] = [pdu[p] EXCEPT !.st = "deleted"]
        BY <1>1, <2>1
  <2> QED
      BY <2>1, <2>2 DEF PduRec
<1>4. ASSUME NEW p \in O, NEW a, a = ReleaseReq(p)
      PROVE  a.obj = p /\ EventOk(a)'
  <2>1. a.type = "RELEASE_REQ" /\ a.sig = pdu[p].sig /\ a.media = pdu[p].media /\ a.obj = p
        BY <1>4 DEF ReleaseReq, Req
  <2>2. Known(p, pdu[p].media)
        BY <1>2 DEF Settled
  <2>3. \A i : Known(p, i) => Known(p, i)'
        BY <1>1, <1>3 DEF Known, Placed, Of
  <2>4. EventOk(a)'
        BY <1>3, <2>1, <2>2, <2>3 DEF EventOk
  <2> QED
      BY <2>1, <2>4
<1>5. /\ \A a \in A : a.obj \in O /\ EventOk(a)'
      /\ \A a, b \in A : a.obj = b.obj => a = b
      /\ \A p \in O : \E a \in A : a.obj = p
      BY <1>A, <1>4
<1>6. ASSUME NEW p \in Objects, p \notin O
      PROVE  pdu'[p] = pdu[p] /\ (session_list[pdu[p].sig] = p => session_list'[pdu[p].sig] = p)
  <2>1. pdu'[p] = pdu[p] /\ pdu[p].sig \in Ids
        BY <1>0, <1>1, <1>6 DEF TypeInv, PduRec
  <2> QED
      BY <1>1, <1>6, <2>1
<1>7. \A q \in NgapIds : q # n => ngap'[q] = ngap[q]
      BY <1>0, <1>1 DEF TypeInv
<1>8. ASSUME NEW q \in NgapIds, NEW r \in Pdus
      PROVE  getPduSess(q, r)' \in {getPduSess(q, r), NULL} /\ getPduSess(q, r)' \notin O
  <2>i. PICK i : i = session_id_map[<<r, q>>]
        OBVIOUS
  <2>j. PICK j : j = session_id_map'[<<r, q>>]
        OBVIOUS
  <2>1. j \in {i, INVALIDE_ID} /\ i \in Ids \cup {INVALIDE_ID}
        BY <1>0, <1>1, <2>i, <2>j DEF TypeInv
  <2>2. NULL \notin O
        BY <1>2, PduSessAssumption
  <2>3. CASE j = INVALIDE_ID
        BY <2>2, <2>j, <2>3 DEF getPduSess
  <2>4. CASE j # INVALIDE_ID
    <3>1. j = i /\ i \in Ids
          BY <2>1, <2>4
    <3>2. getPduSess(q, r) = session_list[i] /\ getPduSess(q, r)' = session_list'[i]
          BY <2>i, <2>j, <2>4, <3>1 DEF getPduSess
    <3>3. session_list'[i] = IF session_list[i] \in O THEN NULL ELSE session_list[i]
          BY <1>1, <3>1
    <3> QED
        BY <2>2, <3>2, <3>3
  <2> QED
      BY <2>3, <2>4
<1>9. TodoCalm'
  <2>1. ASSUME NEW q \in NgapIds, NEW r \in th[q].todo, NEW m \in net'
        PROVE  m.obj # getPduSess(q, r)'
    <3>1. r \in Pdus
          BY <1>0, <2>1 DEF TypeInv, Work
    <3>2. CASE m \in net
      <4>1. m.obj # getPduSess(q, r) /\ m.obj # NULL
            BY <1>0, <3>2, PduSessAssumption DEF CalmInv, TodoCalm, TypeInv, Event
      <4> QED
          BY <1>8, <3>1, <4>1
    <3>3. CASE m \in A
          BY <1>5, <1>8, <3>1, <3>3
    <3> QED
        BY <1>1, <1>A, <3>2, <3>3
  <2> QED
      BY <1>1, <2>1 DEF TodoCalm
<1>10. \A p \in O : pdu'[p].ngap = n /\ (pdu'[p].st = "live" => session_list'[pdu'[p].sig] = p)
       BY <1>3
<1>11. net' = net \cup A
       BY <1>1, <1>A
<1>12. \A p \in O : pdu[p].ngap = n /\ timers[p] = 0 /\ \A m \in net : m.obj # p
       BY <1>2
<1>13. Quiet(n) /\ UNCHANGED <<ngap_msg_list, timers, th, media, msg>> /\ O \in SUBSET Objects
       BY <1>1, <1>2
<1>14. Spreads(n, O, A)
       BY <1>5, <1>6, <1>7, <1>10, <1>11, <1>12, <1>13 DEF Spreads
<1> QED
    BY <1>1, <1>9, <1>14, SpreadCalm

\* A handover is finished.
LEMMA FinishHoCalm ==
  ASSUME MapInv, PassInv, CalmInv, OneAtATime, failed = {}, NEW n \in NgapIds, NEW g \in GnbEnds, finishHo(n, g)
  PROVE  CalmInv'
<1>0. TypeInv
      BY DEF MapInv
<1>O. PICK O : O = Reached(n, ngap[n].vec)
      OBVIOUS
<1>1. /\ Quiet(n) /\ th[n] = Idle /\ ngap[n].up
      /\ ngap' = [ngap EXCEPT ![n] = [ngap[n] EXCEPT !.ho = ngap[n].ho + 1]]
      /\ pdu' = [o \in Objects |-> IF o \in O THEN [pdu[o] EXCEPT !.gnb = g] ELSE pdu[o]]
      /\ net' = net \cup {GnbSetupReq(o, g, NoMsg) : o \in O}
      /\ UNCHANGED <<tables, ngap_msg_list, timers, th, media, msg>>
      BY <1>O DEF finishHo
<1>2. /\ O \in SUBSET Objects
      /\ \A p \in O : /\ pdu[p].st = "live" /\ pdu[p].ngap = n /\ pdu[p].sig \in Ids
                      /\ session_list[pdu[p].sig] = p
                      /\ timers[p] = 0 /\ Settled(p) /\ \A m \in net : m.obj # p
      BY <1>O, <1>1, QuietRests
<1>A. PICK A : A = {GnbSetupReq(o, g, NoMsg) : o \in O}
      OBVIOUS
<1>3. ASSUME NEW p \in O
      PROVE  /\ pdu'[p].st = "live" /\ pdu'[p].sig = pdu[p].sig /\ pdu'[p].ngap = n
             /\ pdu'[p].media = pdu[p].media /\ pdu'[p].gnb = g
  <2>1. p \in Objects /\ pdu[p] \in PduRec /\ pdu[p].ngap = n /\ pdu[p].st = "live"
        BY <1>0, <1>2 DEF TypeInv
  <2>2. pdu'[p] = [pdu[p] EXCEPT !.gnb = g]
        BY <1>1, <2>1
  <2> QED
      BY <2>1, <2>2 DEF PduRec
<1>u. ngap'[n].up /\ \A q \in NgapIds : q # n => ngap'[q] = ngap[q]
  <2>1. ngap[n] \in NgapRec /\ ngap \in [NgapIds -> NgapRec]
        BY <1>0 DEF TypeInv
  <2> QED
      BY <1>1, <2>1 DEF NgapRec
<1>4. ASSUME NEW p \in O, NEW a, a = GnbSetupReq(p, g, NoMsg)
      PROVE  a.obj = p /\ EventOk(a)'
  <2>1. a.type = "GNB_SETUP_REQ" /\ a.sig = pdu[p].sig /\ a.media = pdu[p].media /\ a.obj = p /\ a.gnb = g
        BY <1>4 DEF GnbSetupReq, Req
  <2>2. Known(p, pdu[p].media)
        BY <1>2 DEF Settled
  <2>3. \A i : Known(p, i) => Known(p, i)'
        BY <1>1, <1>3 DEF Known, Placed, Of
  <2>4. EventOk(a)'
        BY <1>3, <1>u, <2>1, <2>2, <2>3 DEF EventOk
  <2> QED
      BY <2>1, <2>4
<1>5. /\ \A a \in A : a.obj \in O /\ EventOk(a)'
      /\ \A a, b \in A : a.obj = b.obj => a = b
      /\ \A p \in O : \E a \in A : a.obj = p
      BY <1>A, <1>4
<1>6. ASSUME NEW p \in Objects, p \notin O
      PROVE  pdu'[p] = pdu[p] /\ (session_list[pdu[p].sig] = p => session_list'[pdu[p].sig] = p)
      BY <1>1, <1>6 DEF tables
<1>9. TodoCalm'
  <2>1. \A q, r : getPduSess(q, r)' = getPduSess(q, r)
        BY <1>1 DEF getPduSess, tables
  <2>2. ASSUME NEW q \in NgapIds, NEW r \in th[q].todo, NEW m \in net'
        PROVE  m.obj # getPduSess(q, r)
    <3>1. r \in Pdus
          BY <1>0, <2>2 DEF TypeInv, Work
    <3>2. CASE m \in net
          BY <3>2 DEF CalmInv, TodoCalm
    <3>3. CASE m \in A
      <4>1. m.obj \in O /\ q # n
            BY <1>1, <1>5, <2>2, <3>3 DEF Idle
      <4>2. m.obj \in Objects /\ pdu[m.obj].ngap = n /\ m.obj # NULL
            BY <1>2, <4>1, PduSessAssumption
      <4> QED
          BY <3>1, <4>1, <4>2, OwnIs
    <3> QED
        BY <1>1, <1>A, <3>2, <3>3
  <2> QED
      BY <1>1, <2>1, <2>2 DEF TodoCalm
<1>10. \A p \in O : pdu'[p].ngap = n /\ (pdu'[p].st = "live" => session_list'[pdu'[p].sig] = p)
       BY <1>1, <1>2, <1>3 DEF tables
<1>11. net' = net \cup A
       BY <1>1, <1>A
<1>12. \A p \in O : pdu[p].ngap = n /\ timers[p] = 0 /\ \A m \in net : m.obj # p
       BY <1>2
<1>13. Quiet(n) /\ UNCHANGED <<ngap_msg_list, timers, th, media, msg>> /\ O \in SUBSET Objects
       BY <1>1, <1>2
<1>14. Spreads(n, O, A)
       BY <1>5, <1>6, <1>u, <1>10, <1>11, <1>12, <1>13 DEF Spreads
<1> QED
    BY <1>1, <1>9, <1>14, SpreadCalm

-----------------------------------------------------------------------------
(* The theorems about procedures that follow one another.                  *)

\* A failure is never forgotten.
LEMMA FailuresStay == ASSUME [Next]_vars PROVE failed \subseteq failed'
<1>1. ASSUME NEW n \in NgapIds, Peer(n)
      PROVE  failed \subseteq failed'
  <2>1. ASSUME NEW S, NEW dir, NEW kind, Arrive(n, dir, kind, S)
        PROVE  failed \subseteq failed'
        BY <2>1 DEF Arrive
  <2>2. CASE NewUe(n) \/ ReleasePduSess(n) \/ processSessSetupfail(n)
        BY <2>2 DEF NewUe, ReleasePduSess, processSessSetupfail
  <2>3. ASSUME NEW g \in GnbEnds, finishHo(n, g)
        PROVE  failed \subseteq failed'
        BY <2>3 DEF finishHo
  <2>4. ASSUME NEW S \in SUBSET Pdus,
               \/ AMF_InitialContextSetupReq_UpdatePduSess(n, S)
               \/ AMF_PDUResourceSetupReq_UpdatePduSess(n, S)
               \/ AMF_HandoverReq_UpdatePduSess(n, S)
               \/ GNB_PDUSessionSetupRsp(n, S) \/ GNB_InitialContextSetupSuccessRsp(n, S)
               \/ GNB_HandoverReqAck(n, S) \/ GNB_PathSwitchRequest(n, S)
        PROVE  failed \subseteq failed'
        BY <2>1, <2>4 DEF AMF_InitialContextSetupReq_UpdatePduSess, AMF_PDUResourceSetupReq_UpdatePduSess,
                          AMF_HandoverReq_UpdatePduSess, GNB_PDUSessionSetupRsp,
                          GNB_InitialContextSetupSuccessRsp, GNB_HandoverReqAck, GNB_PathSwitchRequest,
                          AmfMessage, GnbMessage
  <2> QED
      BY <1>1, <2>2, <2>3, <2>4 DEF Peer
<1>2. ASSUME NEW n \in NgapIds, Handler(n)
      PROVE  failed \subseteq failed'
      BY <1>2 DEF Handler, SetupReqItem, processSessSetupReq, processSessUpdateUpf, SetupRspItem, HandlerEnds
<1>3. ASSUME NEW m \in net, MediaStep(m)
      PROVE  failed \subseteq failed'
      BY <1>3 DEF MediaStep, HandleUpfSetupReq, HandleUpfUpdateReq, HandleGnbSetupReq, HandleReleaseReq
<1>4. ASSUME NEW m \in net, AnswerStep(m)
      PROVE  failed \subseteq failed'
      BY <1>4 DEF AnswerStep, handleUpfSetupRsp, handleGnbSetupRsp, handleUpfUpdateRsp
<1>5. ASSUME NEW o \in Objects, SessTimeout(o)
      PROVE  failed \subseteq failed'
      BY <1>5 DEF SessTimeout
<1>6. CASE UNCHANGED vars
      BY <1>6 DEF vars
<1> QED
    BY <1>1, <1>2, <1>3, <1>4, <1>5, <1>6 DEF Next

\* The peers' messages and procedures.
LEMMA PeerCalm ==
  ASSUME MapInv, PassInv, CalmInv, Apart, failed = {}, failed' = {}, NEW n \in NgapIds, Peer(n)
  PROVE  CalmInv'
<1>0. OneAtATime
      BY DEF Apart
<1>1. CASE NewUe(n)
      BY <1>1, NewUeCalm
<1>2. CASE ReleasePduSess(n)
      BY <1>0, <1>2, ReleaseCalm
<1>3. CASE processSessSetupfail(n)
  <2>1. PICK r \in ngap[n].vec : <<r, n>> \in failed'
        BY <1>3 DEF processSessSetupfail
  <2> QED
      BY <2>1
<1>4. ASSUME NEW g \in GnbEnds, finishHo(n, g)
      PROVE  CalmInv'
      BY <1>0, <1>4, FinishHoCalm
<1>5. ASSUME NEW S \in SUBSET Pdus,
             \/ AMF_InitialContextSetupReq_UpdatePduSess(n, S)
             \/ AMF_PDUResourceSetupReq_UpdatePduSess(n, S)
             \/ AMF_HandoverReq_UpdatePduSess(n, S)
             \/ GNB_PDUSessionSetupRsp(n, S) \/ GNB_InitialContextSetupSuccessRsp(n, S)
             \/ GNB_HandoverReqAck(n, S) \/ GNB_PathSwitchRequest(n, S)
      PROVE  CalmInv'
  <2>1. PICK dir \in {"amf", "gnb"}, kind \in {"ics", "setup", "handover"} : Arrive(n, dir, kind, S)
        BY <1>5 DEF AMF_InitialContextSetupReq_UpdatePduSess, AMF_PDUResourceSetupReq_UpdatePduSess,
                    AMF_HandoverReq_UpdatePduSess, GNB_PDUSessionSetupRsp,
                    GNB_InitialContextSetupSuccessRsp, GNB_HandoverReqAck, GNB_PathSwitchRequest,
                    AmfMessage, GnbMessage
  <2> QED
      BY <1>0, <2>1, ArriveCalm
<1> QED
    BY <1>1, <1>2, <1>3, <1>4, <1>5 DEF Peer

\* The handlers.
LEMMA HandlerCalm ==
  ASSUME MapInv, PassInv, CalmInv, Apart, failed = {}, NEW n \in NgapIds, Handler(n)
  PROVE  CalmInv'
<1>1. ASSUME NEW r \in Pdus, NEW o \in Objects, SetupReqItem(n, r, o)
      PROVE  CalmInv'
  <2>1. th[n].k # NoMsg /\ r \in th[n].todo /\ msg[th[n].k].dir = "amf"
        BY <1>1 DEF SetupReqItem
  <2>2. processSessUpdateUpf(n, r) \/ processSessSetupReq(n, r, o)
        BY <1>1 DEF SetupReqItem
  <2> QED
      BY <2>1, <2>2, SetupReqCalm, UpdateCalm
<1>2. ASSUME NEW r \in Pdus, NEW g \in GnbEnds, SetupRspItem(n, r, g)
      PROVE  CalmInv'
      BY <1>2, SetupRspCalm
<1>3. CASE HandlerEnds(n)
      BY <1>3, HandlerEndsCalm
<1> QED
    BY <1>1, <1>2, <1>3 DEF Handler

\* Every step keeps the invariant, while no setup fails.
LEMMA NextCalm ==
  ASSUME MapInv, PassInv, CalmInv, Apart, Room, failed = {}, failed' = {}, [Next]_vars
  PROVE  CalmInv'
<1>1. ASSUME NEW n \in NgapIds, Peer(n) \/ Handler(n)
      PROVE  CalmInv'
      BY <1>1, PeerCalm, HandlerCalm
<1>2. ASSUME NEW m \in net, MediaStep(m) \/ AnswerStep(m)
      PROVE  CalmInv'
      BY <1>2, MediaStepCalm, AnswerCalm
<1>3. ASSUME NEW o \in Objects, SessTimeout(o)
      PROVE  CalmInv'
      BY <1>3, TimeoutCalm DEF Apart
<1>4. CASE UNCHANGED vars
  <2>1. SentWhenAnswered'
        BY <1>4 DEF CalmInv, SentWhenAnswered, vars
  <2> QED
      BY <1>4, <2>1, AsideCalm DEF vars, tables
<1> QED
    BY <1>1, <1>2, <1>3, <1>4 DEF Next

\* At first no PDU session is known, or asked about.
LEMMA InitCalm == ASSUME Init PROVE CalmInv
<1>1. /\ ngap_msg_list = [i \in Slots |-> NoMsg] /\ pdu = [o \in Objects |-> NoPdu]
      /\ timers = [o \in Objects |-> 0] /\ ngap = [n \in NgapIds |-> NoNgap]
      /\ th = [n \in NgapIds |-> Idle] /\ net = {} /\ media = [i \in MediaIds |-> NULL]
      /\ msg = [k \in Msgs |-> NoMessage]
      BY DEF Init
<1>2. NoPdu.st = "none" /\ Idle.k = NoMsg /\ Idle.todo = {} /\ NoMessage.fate = "none"
      BY DEF NoPdu, Idle, NoMessage
<1>3. \A o \in Objects : Unplaced(o)
      BY <1>1 DEF Unplaced, Of
<1>4. \A o \in Objects : SessCalm(o)
      BY <1>1, <1>2, <1>3 DEF SessCalm
<1>5. TodoCalm
      BY <1>1 DEF TodoCalm
<1>6. \A n \in NgapIds : UeCalm(n)
      BY <1>1, <1>2, SlotsAre DEF UeCalm
<1>7. \A i \in Ids : SlotCalm(i)
      BY <1>1, SlotsAre DEF SlotCalm
<1>8. SentWhenAnswered
      BY <1>1, <1>2 DEF SentWhenAnswered
<1> QED
    BY <1>4, <1>5, <1>6, <1>7, <1>8 DEF CalmInv

\* It holds until a setup fails.
LEMMA CalmHolds == ASSUME Apart, Room PROVE Spec => [](failed = {} => CalmInv)
<1>1. Init => (failed = {} => CalmInv)
      BY InitCalm
<1>2. MapInv /\ PassInv /\ (failed = {} => CalmInv) /\ [Next]_vars => (failed = {} => CalmInv)'
  <2> SUFFICES ASSUME MapInv, PassInv, failed = {} => CalmInv, [Next]_vars, failed' = {}
               PROVE  CalmInv'
      OBVIOUS
  <2>1. failed = {}
        BY FailuresStay
  <2> QED
      BY <2>1, NextCalm
<1> QED
    BY InvHolds, <1>1, <1>2, PTL DEF Spec

\* handleUpfSetupRsp / handleGnbSetupRsp / handleSessTimeout: where a UE's procedures follow one
\* another, and the ids of NGAP and PDU sessions are apart, no message is passed on while an
\* answer is owed to it, or by the handler of the other direction, until a setup fails.
THEOREM SentWhenCalm ==
  ASSUME OneAtATime, NgapIds \cap Ids = {}, Room
  PROVE  Spec => [](failed = {} => SentWhenAnswered)
<1>1. Apart
      BY DEF Apart
<1>2. (failed = {} => CalmInv) => (failed = {} => SentWhenAnswered)
      BY DEF CalmInv
<1> QED
    BY CalmHolds, <1>1, <1>2, PTL

\* media_add_media_sig_sess and HandleReleaseReq: likewise each media session at rest is that of
\* a PDU session in service which knows it, and sends to the endpoint that session names.
THEOREM MediaFollowsWhenCalm ==
  ASSUME OneAtATime, NgapIds \cap Ids = {}, Room
  PROVE  Spec => [](failed = {} => MediaFollows)
<1>0. Apart
      BY DEF Apart
<1>1. MapInv /\ CalmInv => MediaFollows
  <2> SUFFICES ASSUME MapInv, CalmInv, NEW i \in MediaIds, media[i] # NULL,
                      \A m \in net : m.obj # media[i].obj
               PROVE  LET s == pdu[media[i].obj]
                      IN s.st = "live" /\ s.media = i /\ s.gnb = media[i].gnb
      BY DEF MediaFollows
  <2>o. PICK o : o = media[i].obj
        OBVIOUS
  <2>1. o \in Objects /\ Of(i, o)
        BY <2>o DEF MapInv, TypeInv, MediaSess, Of
  <2>2. IF pdu[o].st = "live" THEN Settled(o) ELSE Unplaced(o)
        BY <2>o, <2>1 DEF CalmInv, SessCalm
  <2>3. pdu[o].st = "live" /\ Settled(o)
        BY <2>1, <2>2 DEF Unplaced
  <2>4. i = pdu[o].media /\ media[i].gnb = pdu[o].gnb
        BY <2>1, <2>3 DEF Settled, Known, Placed
  <2> QED
      BY <2>o, <2>3, <2>4
<1>2. MapInv /\ PassInv /\ (failed = {} => CalmInv) => (failed = {} => MediaFollows)
      BY <1>1
<1> QED
    BY InvHolds, CalmHolds, <1>0, <1>2, PTL

\* media_sig_handle_upf_update_req: likewise an update names a media session that exists.
THEOREM UpdateFindsWhenCalm ==
  ASSUME OneAtATime, NgapIds \cap Ids = {}, Room
  PROVE  Spec => [](failed = {} => UpdateFindsSession)
<1>0. Apart
      BY DEF Apart
<1>1. MapInv /\ CalmInv => UpdateFindsSession
  <2> SUFFICES ASSUME MapInv, CalmInv, NEW m \in net, UpdateCrashes(m)
               PROVE  FALSE
      BY DEF UpdateFindsSession
  <2>o. PICK o : o = m.obj
        OBVIOUS
  <2>1. m.type = "UPF_UPDATE_REQ" /\ \E i \in Named(m) : i = NULL \/ media[i] = NULL
        BY DEF UpdateCrashes
  <2>2. m.media = pdu[o].media /\ Settled(o)
        BY <2>o, <2>1, EventIs DEF EventOk
  <2>3. m.media \in MediaIds /\ m.media # NULL /\ media[m.media] # NULL
        BY <2>2, PduSessAssumption DEF Settled, Known, Placed, Of
  <2> QED
      BY <2>1, <2>3 DEF Named
<1>2. MapInv /\ PassInv /\ (failed = {} => CalmInv) => (failed = {} => UpdateFindsSession)
      BY <1>1
<1> QED
    BY InvHolds, CalmHolds, <1>0, <1>2, PTL

================================================================================
