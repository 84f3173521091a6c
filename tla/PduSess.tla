-------------------------------- MODULE PduSess --------------------------------
(***************************************************************************)
(* PDU sessions of the signalling gateway (PduSessManager.cc), the event   *)
(* channel to the media gateway (sig_media_path.cc, media_sig_path.c) and  *)
(* the media gateway's session list.                                       *)
(*                                                                         *)
(* A message of an NGAP session n that carries tunnel endpoints is copied  *)
(* into ngap_msg_list[n] while the media gateway is asked, once per PDU    *)
(* session in it, and goes on to its peer when enough answers have been    *)
(* counted.  ngap_msg_list is indexed by NGAP session id in some places    *)
(* and by PDU session id in others; both count from 1.                     *)
(*                                                                         *)
(* Events carry source id 0, so any dispatch thread takes them in any      *)
(* order.  Messages, objects and requests in flight carry ghost numbers:   *)
(* an address and a message number are used once.                          *)
(***************************************************************************)
EXTENDS Integers, FiniteSets

CONSTANTS
  MAX_PDU_SESSIONS,  \* ids 1..MAX-1 are handed out
  NgapIds,           \* NGAP session ids in use
  Pdus,              \* pDUSessionIDs a UE uses
  Objects,           \* addresses of sig_media_sess_t
  MediaIds,          \* media session ids
  GnbEnds,           \* tunnel endpoints of gNBs
  MaxMsg,            \* bound: messages that reach the gateway
  Handovers,         \* bound: completed handovers per NGAP session
  NULL,
  OneAtATime,        \* TRUE: a procedure of a UE starts once nothing is left of the last,
                     \* and the media gateway answers within the 4 s of a timer
  Failures           \* TRUE: gNBs may fail the initial context setup

Ids == 0 .. (MAX_PDU_SESSIONS - 1)

\* media_sig_sess_t: its PDU session, by id and address, and the endpoint it sends to.
MediaSess == [sig : Ids, gnb : GnbEnds \cup {NULL}, obj : Objects]

ASSUME PduSessAssumption ==
  /\ MAX_PDU_SESSIONS \in Nat \ {0, 1}
  /\ NgapIds \subseteq Nat \ {0}
  /\ IsFiniteSet(Pdus)
  /\ MaxMsg \in Nat
  /\ NULL \notin Objects \cup GnbEnds \cup MediaIds \cup MediaSess
  /\ {OneAtATime, Failures} \subseteq BOOLEAN

Slots == Ids \cup NgapIds   \* indexes of ngap_msg_list
INVALIDE_ID == -1
Msgs == 1 .. MaxMsg
NoMsg == 0

VARIABLES
  m_currentSessId,
  session_list,     \* [Ids -> Objects \cup {NULL}]
  session_id_map,   \* [Pdus \X NgapIds -> Ids \cup {INVALIDE_ID}]
  ngap_msg_list,    \* [Slots -> Msgs \cup {NoMsg}]
  pdu,              \* [Objects -> sig_media_sess_t]
  timers,           \* [Objects -> number of armed 4 s timers that point at it]
  ngap,             \* [NgapIds -> the counts and PDU ids of an NgapSession]
  th,               \* [NgapIds -> the message handler at work]
  net,              \* requests and answers under way
  media,            \* [MediaIds -> media_sig_sess_t or NULL]
  msg,              \* ghost: [Msgs -> what became of a message]
  failed            \* ghost: the <<pdu, ngap>> whose setup failed

tables == <<m_currentSessId, session_list, session_id_map>>
vars == <<tables, ngap_msg_list, pdu, timers, ngap, th, net, media, msg, failed>>

\* fate: being "handled", "kept" in ngap_msg_list, "sent", sent "early" while
\* answers were owed, taken by the "wrong" handler, or "lost".
Message == [ngap : NgapIds \cup {0}, dir : {"amf", "gnb"}, kind : {"ics", "setup", "handover"},
            owed : Nat, fate : {"none", "handled", "kept", "sent", "early", "wrong", "lost"}]
NoMessage == [ngap |-> 0, dir |-> "amf", kind |-> "ics", owed |-> 0, fate |-> "none"]

\* A PDU session: its state, signalling id, UE, PDU id, media session, endpoint at the gNB.
NoPdu == [st |-> "none", sig |-> 0, ngap |-> 0, res |-> NULL, media |-> NULL, gnb |-> NULL]

NoNgap == [up |-> FALSE, vec |-> {}, count |-> 0, rsp |-> 0, cur |-> NoMsg, stray |-> FALSE,
           ho |-> 0]
Idle == [k |-> NoMsg, todo |-> {}, bMedia |-> FALSE]

Init ==
  /\ m_currentSessId = 0
  /\ session_list = [i \in Ids |-> NULL]
  /\ session_id_map = [x \in Pdus \X NgapIds |-> INVALIDE_ID]
  /\ ngap_msg_list = [i \in Slots |-> NoMsg]
  /\ pdu = [o \in Objects |-> NoPdu]
  /\ timers = [o \in Objects |-> 0]
  /\ ngap = [n \in NgapIds |-> NoNgap]
  /\ th = [n \in NgapIds |-> Idle]
  /\ net = {}
  /\ media = [i \in MediaIds |-> NULL]
  /\ msg = [k \in Msgs |-> NoMessage]
  /\ failed = {}

-----------------------------------------------------------------------------
(* The channel.  for is the ghost number of the message a request serves.  *)
(* A request or an answer that is lost is one that is never taken.         *)

Req(type, o, for) == [type |-> type, sig |-> pdu[o].sig, media |-> pdu[o].media,
                      gnb |-> pdu[o].gnb, for |-> for, obj |-> o]
UpfSetupReq(o, for) == Req("UPF_SETUP_REQ", o, for)
UpfUpdateReq(o, for) == Req("UPF_UPDATE_REQ", o, for)
GnbSetupReq(o, g, for) == [Req("GNB_SETUP_REQ", o, for) EXCEPT !.gnb = g]
ReleaseReq(o) == Req("RELEASE_REQ", o, NoMsg)
Answer(m, type, sig, id) == [m EXCEPT !.type = type, !.sig = sig, !.media = id]

-----------------------------------------------------------------------------
(* The tables.                                                             *)

\* SIG_NEXT_ID, j times.
NextId(j) == ((m_currentSessId - 1 + j) % (MAX_PDU_SESSIONS - 1)) + 1
FreeSteps == {j \in 1 .. MAX_PDU_SESSIONS : session_list[NextId(j)] = NULL}

getPduSess(n, r) ==
  LET i == session_id_map[<<r, n>>] IN IF i = INVALIDE_ID THEN NULL ELSE session_list[i]

\* The message table msg once whatever slot i holds is thrown away.
Thrown(m, i) ==
  IF ngap_msg_list[i] = NoMsg THEN m ELSE [m EXCEPT ![ngap_msg_list[i]].fate = "lost"]

\* "save msg": the handler's message moves into slot i, once.
Saved(k, i) ==
  IF msg[k].fate # "handled" THEN UNCHANGED ngap_msg_list /\ msg' = [msg EXCEPT ![k].owed = @ + 1]
  ELSE /\ ngap_msg_list' = [ngap_msg_list EXCEPT ![i] = k]
       /\ msg' = [Thrown(msg, i) EXCEPT ![k].fate = "kept", ![k].owed = @ + 1]

\* startSessTimer
Armed(o) == [timers EXCEPT ![o] = @ + 1]

-----------------------------------------------------------------------------
(* Messages arrive.                                                        *)

\* Nothing is left of the UE's last procedure.
Quiet(n) ==
  /\ th[n] = Idle
  /\ \A k \in Msgs : msg[k].ngap = n => msg[k].fate \notin {"handled", "kept"}
  /\ \A o \in Objects : pdu[o].ngap = n =>
       timers[o] = 0 /\ \A m \in net : m.obj # o

NextMsg == Cardinality({k \in Msgs : msg[k].fate # "none"}) + 1

\* A message that names PDU sessions S resets the counts.
Arrive(n, dir, kind, S) ==
  LET k == NextMsg IN
  /\ k \in Msgs
  /\ ngap[n].up /\ th[n] = Idle
  /\ OneAtATime => Quiet(n)
  /\ msg' = [msg EXCEPT ![k] = [ngap |-> n, dir |-> dir, kind |-> kind, owed |-> 0,
                                fate |-> "handled"]]
  /\ ngap' = [ngap EXCEPT ![n].count = Cardinality(S), ![n].rsp = 0, ![n].cur = k,
                          ![n].stray = FALSE,
                          ![n].vec = IF dir = "amf" THEN @ \cup S ELSE @]
  /\ th' = [th EXCEPT ![n] = [k |-> k, todo |-> S, bMedia |-> FALSE]]
  /\ UNCHANGED <<tables, ngap_msg_list, pdu, timers, net, media, failed>>

\* A UE gets its NGAP session.
NewUe(n) ==
  /\ ~ngap[n].up
  /\ ngap' = [ngap EXCEPT ![n].up = TRUE]
  /\ UNCHANGED <<tables, ngap_msg_list, pdu, timers, th, net, media, msg, failed>>

\* Bound: there are addresses for the PDU sessions asked for.
Spare == Cardinality({o \in Objects : pdu[o].st = "none"})
           - Cardinality({x \in Pdus \X NgapIds : x[1] \in th[x[2]].todo})

\* InitialContextSetup, PDUSessionResourceSetup and HandoverRequest from the AMF.
AmfMessage(n, kind, S) == Cardinality(S) <= Spare /\ Arrive(n, "amf", kind, S)

AMF_InitialContextSetupReq_UpdatePduSess(n, S) == AmfMessage(n, "ics", S)
AMF_PDUResourceSetupReq_UpdatePduSess(n, S) == AmfMessage(n, "setup", S)
AMF_HandoverReq_UpdatePduSess(n, S) == AmfMessage(n, "handover", S)

\* Their successful outcomes, or a path switch, from the gNB: it answers what it got.
GnbMessage(n, kind, S) ==
  /\ S \subseteq ngap[n].vec
  /\ \E k \in Msgs : msg[k].ngap = n /\ msg[k].dir = "amf" /\ msg[k].fate \in {"sent", "early"}
  /\ Arrive(n, "gnb", kind, S)

GNB_PDUSessionSetupRsp(n, S) == GnbMessage(n, "setup", S)
GNB_InitialContextSetupSuccessRsp(n, S) == GnbMessage(n, "setup", S)
GNB_HandoverReqAck(n, S) == GnbMessage(n, "handover", S)
GNB_PathSwitchRequest(n, S) == GnbMessage(n, "handover", S)

-----------------------------------------------------------------------------
(* One PDU session of the message.                                         *)

Done(n, r, bMedia) == [th EXCEPT ![n].todo = @ \ {r}, ![n].bMedia = bMedia]

\* processSessSetupReq: newPduSess, newSessMap, UPF_SETUP_REQ and a timer.
processSessSetupReq(n, r, o) ==
  LET k == th[n].k
      j == CHOOSE x \in FreeSteps : \A y \in FreeSteps : x <= y
  IN IF FreeSteps = {}  \* session is full: bMediaProcess is false
     THEN /\ m_currentSessId' = NextId(MAX_PDU_SESSIONS)
          /\ th' = Done(n, r, FALSE)
          /\ UNCHANGED <<session_list, session_id_map, ngap_msg_list, pdu, timers, ngap, net,
                         media, msg, failed>>
     ELSE /\ pdu[o].st = "none"
          /\ m_currentSessId' = NextId(j)
          /\ session_list' = [session_list EXCEPT ![NextId(j)] = o]
          /\ session_id_map' = [session_id_map EXCEPT ![<<r, n>>] = NextId(j)]
          /\ pdu' = [pdu EXCEPT ![o] = [NoPdu EXCEPT !.st = "live", !.sig = NextId(j),
                                          !.ngap = n, !.res = r]]
          /\ Saved(k, n)
          /\ net' = net \cup {[UpfSetupReq(o, k) EXCEPT !.sig = NextId(j)]}
          /\ timers' = Armed(o)
          /\ th' = Done(n, r, TRUE)
          /\ UNCHANGED <<ngap, media, failed>>

\* processSessUpdateUpf: the message is kept under the PDU session's id.
processSessUpdateUpf(n, r) ==
  LET o == getPduSess(n, r) IN
  /\ o # NULL
  /\ Saved(th[n].k, pdu[o].sig)
  /\ net' = net \cup {UpfUpdateReq(o, th[n].k)}
  /\ timers' = Armed(o)
  /\ th' = Done(n, r, TRUE)
  /\ UNCHANGED <<tables, pdu, ngap, media, failed>>

SetupReqItem(n, r, o) ==
  /\ th[n].k # NoMsg /\ r \in th[n].todo
  /\ msg[th[n].k].dir = "amf"
  /\ IF msg[th[n].k].kind = "setup" /\ getPduSess(n, r) # NULL
     THEN processSessUpdateUpf(n, r)
     ELSE processSessSetupReq(n, r, o)

\* Variant: the new endpoint is not remembered.
SetupRspItemForgets(n, r, g) ==
  LET o == getPduSess(n, r) IN
  /\ th[n].k # NoMsg /\ r \in th[n].todo
  /\ msg[th[n].k].dir = "gnb"
  /\ IF o = NULL
     THEN th' = Done(n, r, FALSE) /\ UNCHANGED <<ngap_msg_list, pdu, timers, net, msg>>
     ELSE /\ Saved(th[n].k, n)
          /\ net' = net \cup {GnbSetupReq(o, g, th[n].k)}
          /\ timers' = Armed(o)
          /\ th' = Done(n, r, TRUE)
          /\ UNCHANGED pdu
  /\ UNCHANGED <<tables, ngap, media, failed>>

\* processSessSetupRsp: the gNB's endpoint goes to the media gateway.
SetupRspItem(n, r, g) ==
  LET o == getPduSess(n, r) IN
  /\ th[n].k # NoMsg /\ r \in th[n].todo
  /\ msg[th[n].k].dir = "gnb"
  /\ IF o = NULL
     THEN th' = Done(n, r, FALSE) /\ UNCHANGED <<ngap_msg_list, pdu, timers, net, msg>>
     ELSE /\ Saved(th[n].k, n)
          /\ pdu' = [pdu EXCEPT ![o].gnb = g]
          /\ net' = net \cup {GnbSetupReq(o, g, th[n].k)}
          /\ timers' = Armed(o)
          /\ th' = Done(n, r, TRUE)
  /\ UNCHANGED <<tables, ngap, media, failed>>

\* The handler ends.  Only the last PDU session's bMediaProcess counts: when it
\* is false the message is sent, which for one that is kept encodes nothing.
HandlerEnds(n) ==
  LET k == th[n].k IN
  /\ k # NoMsg /\ th[n].todo = {}
  /\ msg' = IF msg[k].fate = "handled" /\ ~th[n].bMedia THEN [msg EXCEPT ![k].fate = "sent"]
            ELSE msg
  /\ th' = [th EXCEPT ![n] = Idle]
  /\ UNCHANGED <<tables, ngap_msg_list, pdu, timers, ngap, net, media, failed>>

-----------------------------------------------------------------------------
(* The media gateway.  A request whose media_sess_id was never filled in   *)
(* names any session, or none.                                             *)

Named(m) == IF m.media = NULL THEN MediaIds \cup {NULL} ELSE {m.media}
Gone(m) == net' = net \ {m}
AnswerWith(m, type, sig, id) == net' = (net \ {m}) \cup {Answer(m, type, sig, id)}

\* media_add_media_sig_sess and the answer; without a free id there is none.
HandleUpfSetupReq(m) ==
  /\ m.type = "UPF_SETUP_REQ"
  /\ \/ \E i \in MediaIds :
          /\ media[i] = NULL
          /\ media' = [media EXCEPT ![i] = [sig |-> m.sig, gnb |-> NULL, obj |-> m.obj]]
          /\ AnswerWith(m, "UPF_SETUP_RSP", m.sig, i)
     \/ /\ \A i \in MediaIds : media[i] # NULL
        /\ Gone(m) /\ UNCHANGED media
  /\ UNCHANGED <<tables, ngap_msg_list, pdu, timers, ngap, th, msg, failed>>

\* The answer names the signalling session of the media session that was found.
HandleUpfUpdateReq(m) ==
  /\ m.type = "UPF_UPDATE_REQ"
  /\ \E i \in Named(m) :
       /\ i # NULL /\ media[i] # NULL
       /\ AnswerWith(m, "UPF_UPDATE_RSP", media[i].sig, i)
  /\ UNCHANGED <<tables, ngap_msg_list, pdu, timers, ngap, th, media, msg, failed>>

\* The error log of an update reads sess->sig_sess_id after finding no session.
UpdateCrashes(m) ==
  /\ m \in net /\ m.type = "UPF_UPDATE_REQ"
  /\ \E i \in Named(m) : i = NULL \/ media[i] = NULL

HandleGnbSetupReq(m) ==
  /\ m.type = "GNB_SETUP_REQ"
  /\ \E i \in Named(m) :
       IF i # NULL /\ media[i] # NULL /\ media[i].sig = m.sig
       THEN /\ media' = [media EXCEPT ![i].gnb = m.gnb]
            /\ AnswerWith(m, "GNB_SETUP_RSP", m.sig, i)
       ELSE Gone(m) /\ UNCHANGED media
  /\ UNCHANGED <<tables, ngap_msg_list, pdu, timers, ngap, th, msg, failed>>

\* Its answer is ignored and left out.
HandleReleaseReq(m) ==
  /\ m.type = "RELEASE_REQ"
  /\ \E i \in Named(m) :
       media' = IF i # NULL /\ media[i] # NULL /\ media[i].sig = m.sig
                THEN [media EXCEPT ![i] = NULL] ELSE media
  /\ Gone(m)
  /\ UNCHANGED <<tables, ngap_msg_list, pdu, timers, ngap, th, msg, failed>>

-----------------------------------------------------------------------------
(* Its answers.                                                            *)

\* The counts of n after one more answer, timeout or stray answer.
Counted(n, for) == [ngap EXCEPT ![n].rsp = @ + 1, ![n].stray = @ \/ for = NoMsg \/ for # ngap[n].cur]

\* Variant: one answer is enough.
EnoughOne(n) == ngap[n].rsp + 1 >= 1

\* pdu_sess_rsp_count >= pdu_resource_count, after the increment
Enough(n) == ngap[n].rsp + 1 >= ngap[n].count

\* What becomes of message k once handler dir takes it from ngap_msg_list.
Passed(k, dir) ==
  IF msg[k].dir # dir THEN (IF dir = "amf" THEN "lost" ELSE "wrong")
  ELSE IF msg[k].owed > 0 THEN "early" ELSE "sent"

\* One answer for message for has come.
Paid(m) == IF m.for = NoMsg THEN msg ELSE [msg EXCEPT ![m.for].owed = @ - 1]

\* Variant: every message of the answered sessions' slots is thrown away.
StopSessTimerAll(m, list, o) ==
  /\ ngap_msg_list' = [i \in Slots |-> NoMsg]
  /\ msg' = [k \in Msgs |-> IF \E i \in Slots : list[i] = k
                            THEN [m[k] EXCEPT !.fate = "lost"] ELSE m[k]]

\* stopSessTimer: the timer stays armed; what is kept under the PDU session's
\* id is thrown away.
StopSessTimer(m, list, o) ==
  /\ ngap_msg_list' = [list EXCEPT ![pdu[o].sig] = NoMsg]
  /\ msg' = IF list[pdu[o].sig] = NoMsg THEN m
            ELSE [m EXCEPT ![list[pdu[o].sig]].fate = "lost"]

\* An answer is counted and may let the message go; then stopSessTimer.
CountAndPass(m, o, dir) ==
  LET n == pdu[o].ngap
      k == ngap_msg_list[n]
      paid == IF m.for = NoMsg THEN 0 ELSE 1
      pass == Enough(n) /\ k # NoMsg
      owed == IF m.for = k THEN msg[k].owed - paid ELSE msg[k].owed
      fate == IF msg[k].dir # dir THEN (IF dir = "amf" THEN "lost" ELSE "wrong")
              ELSE IF owed > 0 THEN "early" ELSE "sent"
  IN /\ ngap' = Counted(n, m.for)
     /\ StopSessTimer(IF pass THEN [Paid(m) EXCEPT ![k].fate = fate] ELSE Paid(m),
                      IF pass THEN [ngap_msg_list EXCEPT ![n] = NoMsg] ELSE ngap_msg_list, o)

\* The PDU session an answer names, if it and its NGAP session are still there.
Answered(m) ==
  LET o == session_list[m.sig]
  IN IF o = NULL THEN NULL ELSE IF ngap[pdu[o].ngap].up THEN o ELSE NULL

\* Variant: the media session's id is not stored.
handleUpfSetupRspForgets(m) ==
  LET o == Answered(m) IN
  /\ m.type = "UPF_SETUP_RSP"
  /\ Gone(m)
  /\ IF o = NULL THEN UNCHANGED <<ngap_msg_list, ngap, msg>> ELSE CountAndPass(m, o, "amf")
  /\ UNCHANGED <<tables, pdu, timers, th, media, failed>>

handleUpfSetupRsp(m) ==
  LET o == Answered(m) IN
  /\ m.type = "UPF_SETUP_RSP"
  /\ Gone(m)
  /\ IF o = NULL THEN UNCHANGED <<ngap_msg_list, pdu, ngap, msg>>
     ELSE /\ pdu' = [pdu EXCEPT ![o].media = m.media]
          /\ CountAndPass(m, o, "amf")
  /\ UNCHANGED <<tables, timers, th, media, failed>>

handleGnbSetupRsp(m) ==
  LET o == Answered(m) IN
  /\ m.type = "GNB_SETUP_RSP"
  /\ Gone(m)
  /\ IF o = NULL THEN UNCHANGED <<ngap_msg_list, ngap, msg>> ELSE CountAndPass(m, o, "gnb")
  /\ UNCHANGED <<tables, pdu, timers, th, media, failed>>

\* The kept message is deleted and not sent on.
handleUpfUpdateRsp(m) ==
  /\ m.type = "UPF_UPDATE_RSP"
  /\ Gone(m)
  /\ IF session_list[m.sig] = NULL THEN UNCHANGED <<ngap_msg_list, msg>>
     ELSE /\ ngap_msg_list' = [ngap_msg_list EXCEPT ![m.sig] = NoMsg]
          /\ msg' = Thrown(msg, m.sig)
  /\ UNCHANGED <<tables, pdu, timers, ngap, th, media, failed>>

-----------------------------------------------------------------------------
(* Timers, releases, failures, handovers.                                  *)

\* pdu_sess_rsp_count <= pdu_resource_count, after the increment
TimeoutTakes(n) == ngap[n].rsp + 1 <= ngap[n].count

\* onSessTimer and handleSessTimeout.  The timer of a deleted session reads freed
\* memory: any id.  Handover and path switch messages are deleted, others sent as they are.
SessTimeout(o) ==
  /\ timers[o] > 0
  /\ OneAtATime => /\ th[pdu[o].ngap] = Idle
                   /\ \A m \in net : pdu[m.obj].ngap # pdu[o].ngap
  /\ timers' = [timers EXCEPT ![o] = @ - 1]
  /\ \E i \in IF pdu[o].st = "live" THEN {pdu[o].sig} ELSE Ids :
       LET s == session_list[i]
           n == pdu[s].ngap
           k == ngap_msg_list[i]
       IN IF s = NULL \/ (s # NULL /\ ~ngap[pdu[s].ngap].up)
          THEN UNCHANGED <<ngap_msg_list, ngap, msg>>
          ELSE /\ ngap' = Counted(n, NoMsg)
               /\ IF TimeoutTakes(n) /\ k # NoMsg
                  THEN /\ ngap_msg_list' = [ngap_msg_list EXCEPT ![i] = NoMsg]
                       /\ msg' = [msg EXCEPT ![k].fate =
                                    IF msg[k].kind = "handover" THEN "lost"
                                    ELSE Passed(k, msg[k].dir)]
                  ELSE UNCHANGED <<ngap_msg_list, msg>>
  /\ UNCHANGED <<tables, pdu, th, net, media, failed>>

\* The objects PDU ids S of n lead to.
Reached(n, S) == {getPduSess(n, r) : r \in S} \ {NULL}
Freed(O) ==
  /\ session_list' = [i \in Ids |-> IF session_list[i] \in O THEN NULL ELSE session_list[i]]
  /\ pdu' = [o \in Objects |-> IF o \in O THEN [pdu[o] EXCEPT !.st = "deleted"] ELSE pdu[o]]
  /\ net' = net \cup {ReleaseReq(o) : o \in O}

\* Variant: the object is freed and the tables still name it.
ReleaseKeepsTables(n) ==
  LET O == Reached(n, ngap[n].vec) IN
  /\ ngap[n].up /\ th[n] = Idle
  /\ OneAtATime => Quiet(n)
  /\ pdu' = [o \in Objects |-> IF o \in O THEN [pdu[o] EXCEPT !.st = "deleted"] ELSE pdu[o]]
  /\ net' = net \cup {ReleaseReq(o) : o \in O}
  /\ ngap' = [ngap EXCEPT ![n] = NoNgap]
  /\ UNCHANGED <<tables, ngap_msg_list, timers, th, media, msg, failed>>

\* A UE context release: ReleasePduSess for each PDU session, then the session goes.
ReleasePduSess(n) ==
  LET O == Reached(n, ngap[n].vec) IN
  /\ ngap[n].up /\ th[n] = Idle
  /\ OneAtATime => Quiet(n)
  /\ Freed(O)
  /\ session_id_map' = [x \in Pdus \X NgapIds |->
       IF x[2] = n /\ getPduSess(n, x[1]) \in O THEN INVALIDE_ID ELSE session_id_map[x]]
  /\ ngap' = [ngap EXCEPT ![n] = NoNgap]
  /\ UNCHANGED <<m_currentSessId, ngap_msg_list, timers, th, media, msg, failed>>

\* processSessSetupfail for each PDU session: the mapping stays.
processSessSetupfail(n) ==
  /\ Failures /\ ngap[n].up /\ th[n] = Idle /\ ngap[n].vec # {}
  /\ OneAtATime => Quiet(n)
  /\ Freed(Reached(n, ngap[n].vec))
  /\ failed' = failed \cup {<<r, n>> : r \in ngap[n].vec}
  /\ UNCHANGED <<m_currentSessId, session_id_map, ngap_msg_list, timers, ngap, th, media, msg>>

\* finishHo for each PDU session: the endpoint becomes the target's; no message waits.
finishHo(n, g) ==
  LET O == Reached(n, ngap[n].vec) IN
  /\ ngap[n].up /\ th[n] = Idle /\ O # {}
  /\ ngap[n].ho < Handovers
  /\ OneAtATime => Quiet(n)
  /\ ngap' = [ngap EXCEPT ![n].ho = @ + 1]
  /\ pdu' = [o \in Objects |-> IF o \in O THEN [pdu[o] EXCEPT !.gnb = g] ELSE pdu[o]]
  /\ net' = net \cup {GnbSetupReq(o, g, NoMsg) : o \in O}
  /\ UNCHANGED <<tables, ngap_msg_list, timers, th, media, msg, failed>>

-----------------------------------------------------------------------------
Peer(n) ==
  \/ NewUe(n) \/ ReleasePduSess(n) \/ processSessSetupfail(n)
  \/ \E S \in SUBSET Pdus \ {{}} :
       \/ AMF_InitialContextSetupReq_UpdatePduSess(n, S)
       \/ AMF_PDUResourceSetupReq_UpdatePduSess(n, S)
       \/ AMF_HandoverReq_UpdatePduSess(n, S)
       \/ GNB_PDUSessionSetupRsp(n, S) \/ GNB_InitialContextSetupSuccessRsp(n, S)
       \/ GNB_HandoverReqAck(n, S) \/ GNB_PathSwitchRequest(n, S)
  \/ \E g \in GnbEnds : finishHo(n, g)

Handler(n) ==
  \/ \E r \in Pdus, o \in Objects : SetupReqItem(n, r, o)
  \/ \E r \in Pdus, g \in GnbEnds : SetupRspItem(n, r, g)
  \/ HandlerEnds(n)

MediaStep(m) ==
  \/ HandleUpfSetupReq(m) \/ HandleUpfUpdateReq(m) \/ HandleGnbSetupReq(m) \/ HandleReleaseReq(m)

AnswerStep(m) == handleUpfSetupRsp(m) \/ handleGnbSetupRsp(m) \/ handleUpfUpdateRsp(m)

Next ==
  \/ \E n \in NgapIds : Peer(n) \/ Handler(n)
  \/ \E m \in net : MediaStep(m) \/ AnswerStep(m)
  \/ \E o \in Objects : SessTimeout(o)

Spec == Init /\ [][Next]_vars

-----------------------------------------------------------------------------
(* Properties. *)

\* getPduSess (by NGAP session and PDU id): whatever handlers, answers and late
\* timers do, the map leads a UE to its own PDU session, or to none.
MapLeadsHome ==
  failed = {} =>
    \A n \in NgapIds, r \in Pdus :
      getPduSess(n, r) # NULL =>
        LET s == pdu[getPduSess(n, r)]
        IN s.st = "live" /\ s.ngap = n /\ s.res = r /\ s.sig = session_id_map[<<r, n>>]

\* handleUpfSetupRsp / handleGnbSetupRsp: a kept message goes to its peer after
\* every media answer it needs (it carries the tunnel ids they bring), and by the
\* handler of its own direction.
SentWhenAnswered == \A k \in Msgs : msg[k].fate \notin {"early", "wrong"}

\* pdu_sess_rsp_count and pdu_resource_count: a message kept under its NGAP session's
\* id goes early, or to the wrong handler, only when an answer to another message has
\* been counted for that session, or by the timeout of a PDU session with that id.
EarlyOnlyByStray ==
  [][\A n \in NgapIds :
       LET k == ngap_msg_list[n] IN
       k # NoMsg /\ msg[k].ngap = n /\ msg'[k].fate \in {"early", "wrong"} =>
         ngap'[n].stray \/ timers' # timers]_vars

\* stopSessTimer and handleSessTimeout, which index ngap_msg_list by PDU session id:
\* a kept message is thrown away only when a PDU session in service, of any UE, has
\* the number it is kept under, or when the UE's next message takes its place.
LostOnlyByNamesake ==
  [][\A i \in Slots :
       LET k == ngap_msg_list[i] IN
       k # NoMsg /\ msg'[k].fate = "lost" /\ ngap_msg_list'[i] = NoMsg =>
         \E o \in Objects : pdu[o].st = "live" /\ i \in {pdu[o].sig, pdu[o].ngap}
                           /\ (i # pdu[o].sig => msg[k].dir = "gnb")]_vars

\* Media gateway: at rest each media session belongs to a PDU session in
\* service that knows it, and traffic goes to the endpoint that session names.
MediaFollows ==
  \A i \in MediaIds :
    media[i] # NULL /\ (\A m \in net : m.obj # media[i].obj) =>
      LET s == pdu[media[i].obj]
      IN s.st = "live" /\ s.media = i /\ s.gnb = media[i].gnb

\* media_sig_handle_upf_update_req reads sess->sig_sess_id when it finds no session:
\* an update names a media session that exists.  (Not when an update overtakes the
\* setup's answer: media_sess_id is uninitialised until then.)
UpdateFindsSession == \A m \in net : ~UpdateCrashes(m)

===============================================================================
