------------------------------ MODULE NgapProxy ------------------------------
(***************************************************************************)
(* The NGAP procedures of the signalling gateway (mod_sig: EpmManager for    *)
(* what gNBs send, ApmManager for what AMFs send, with the messages that     *)
(* EsmManager and AsmManager build).                                         *)
(*                                                                           *)
(* To a gNB the gateway is the AMF, to an AMF it is a gNB: each UE has a     *)
(* session whose number stands for the UE on both sides, and every message   *)
(* about the UE is passed on with its two ids exchanged.  A handover between *)
(* two gNBs of the gateway is carried out by the gateway itself, which asks  *)
(* the AMF for a path switch only.                                           *)
(*                                                                           *)
(* Messages reach the gateway late and in any order: what a link reads is    *)
(* dispatched under the null source, on any thread.  What the gateway sends  *)
(* is taken at once and the answer is under way.  The id of UE u at peer p   *)
(* is <<p, u>>, so that an id handed to the wrong peer shows.  The number of *)
(* a gNB's or AMF's link is the peer itself.                                 *)
(***************************************************************************)
EXTENDS Naturals, FiniteSets

CONSTANTS
  Gnbs,       \* gNBs; one that never sets up belongs to another gateway
  Amfs,
  Ues,
  Ids,        \* session numbers
  MaxNet,     \* messages under way when a peer speaks unasked
  NULL

VARIABLES
  esm_list,      \* gNBs with a context (EsmManager)
  isNgSetup,     \* AMFs whose NG setup succeeded (AsmManager)
  session_list,  \* NgapSessManager
  m_containerMap,\* sessions with a saved source-to-target container
  held,          \* converted messages that wait for the media gateway
  net,           \* messages under way to the gateway
  ran,           \* gNB and UE to: no context, "new" (no AMF id yet), the id given for AMF
  core,          \* the same at the AMFs
  serving,       \* the gNB each UE is at
  ho,            \* each UE's handover as that gNB sees it: "none", "prepared", or
                 \* the gNB that it ordered the UE to
  waiting,       \* the gNB and UE of contexts made for a handover that was cancelled
  astray,        \* numbers that led a message to another peer or UE
  doubtful       \* numbers freed while in use, or with two messages of a
                 \* handover under way at a time, or whose AMF was reset in a
                 \* handover

table == <<esm_list, isNgSetup, session_list, m_containerMap>>
peers == <<ran, core, serving, ho, waiting>>
vars == <<table, peers, held, net, astray, doubtful>>

Session == [amfId : Amfs \cup {NULL}, amfUeId : (Amfs \X Ues) \cup {NULL},
            gnbUeId : (Gnbs \X Ues) \cup {NULL}, link : Gnbs,
            eHandoverflag : BOOLEAN, TgtGnbId : Gnbs \cup {NULL},
            TgtGnbUeId : (Gnbs \X Ues) \cup {NULL},
            waitRelComplete : BOOLEAN, checked : BOOLEAN, leaving : BOOLEAN]

\* gNBs, AMFs, numbers, sessions and the ids given to UEs are told apart.
ASSUME ProxyAssumption ==
  /\ MaxNet \in Nat
  /\ Gnbs \cap (Amfs \cup {"none", "prepared"}) = {}
  /\ {NULL, "gateway"} \cap (Gnbs \cup Amfs) = {}
  /\ Ids \cap ({NULL, "new"} \cup (Gnbs \X Ues) \cup (Amfs \X Ues)) = {}
  /\ NULL \notin {"new"} \cup (Gnbs \X Ues) \cup (Amfs \X Ues) \cup Session

\* A message about UE ue; `aim' is the gNB a handover is for.  The number of
\* the session is `ran' towards the AMF and `amf' towards the gNB.
Message(from, to, proc, ran_id, amf_id, ue, aim) ==
  [from |-> from, to |-> to, proc |-> proc, ran |-> ran_id, amf |-> amf_id,
   ue |-> ue, aim |-> aim]

Gateway == "gateway"
SessIdOf(o) == IF o.ran \in Ids THEN o.ran ELSE o.amf

-----------------------------------------------------------------------------
(* The peers.                                                               *)

\* Messages the peer decides on.
Choices(o) == IF o.proc \in {"HandoverRequest", "PathSwitchRequest"} THEN BOOLEAN ELSE {TRUE}

Answer(o, yes) ==
  LET back(proc, ran_id, amf_id) ==
        {Message(o.to, Gateway, proc, ran_id, amf_id, o.ue, o.aim)} IN
  CASE o.proc = "UEContextReleaseCommand" /\ ran[o.ran] # NULL ->
         back("UEContextReleaseComplete", o.ran, o.amf)
    [] o.proc = "HandoverRequest" ->
         back(IF yes THEN "HandoverRequestAck" ELSE "HandoverFailure", <<o.to, o.ue>>, o.amf)
    [] o.proc = "PathSwitchRequest" ->
         back(IF yes THEN "PathSwitchRequestAck" ELSE "PathSwitchRequestFailure", o.ran, o.amf)
    [] o.proc = "SetupRequest" /\ ran[o.ran] # NULL -> back("SetupResponse", o.ran, o.amf)
    [] OTHER -> {}

RanAfter(o, yes) ==
  CASE o.to \in Gnbs /\ o.proc = "UEContextReleaseCommand" -> [ran EXCEPT ![o.ran] = NULL]
    [] o.to \in Gnbs /\ o.proc = "HandoverRequest" /\ yes -> [ran EXCEPT ![<<o.to, o.ue>>] = o.amf]
    [] /\ o.to \in Gnbs /\ o.proc \notin {"UEContextReleaseCommand", "HandoverRequest"}
       /\ ran[o.ran] = "new" -> [ran EXCEPT ![o.ran] = o.amf]
    [] OTHER -> ran

CoreAfter(o) ==
  CASE \/ o.to \in Amfs /\ o.proc = "InitialUEMessage"
       \/ o.to \in Amfs /\ o.proc = "HandoverRequestAck" /\ core[<<o.to, o.ue>>] = "new" ->
         [core EXCEPT ![<<o.to, o.ue>>] = o.ran]
    [] o.to \in Amfs /\ o.proc = "HandoverFailure" -> [core EXCEPT ![<<o.to, o.ue>>] = NULL]
    [] OTHER -> core

ServingAfter(o) ==
  IF o.proc = "UEContextReleaseCommand" /\ serving[o.ue] = o.to
    THEN [serving EXCEPT ![o.ue] = NULL] ELSE serving

HoAfter(o) ==
  CASE o.proc = "HandoverCommand" /\ serving[o.ue] = o.to /\ ho[o.ue] = "prepared" ->
         [ho EXCEPT ![o.ue] = o.aim]
    [] o.proc = "HandoverPreparationFailure" /\ serving[o.ue] = o.to /\ ho[o.ue] = "prepared" ->
         [ho EXCEPT ![o.ue] = "none"]
    [] o.proc = "HandoverRequired" /\ ho[o.ue] = "prepared" /\ ran[<<serving[o.ue], o.ue>>] = o.ran ->
         [ho EXCEPT ![o.ue] = "none"]
    [] o.proc = "UEContextReleaseCommand" /\ serving[o.ue] = o.to -> [ho EXCEPT ![o.ue] = "none"]
    [] OTHER -> ho

\* The peer that takes o knows another UE, or none, by the id in it.
Misaddressed(o) ==
  \/ o.to \in Gnbs /\ o.proc # "HandoverRequest" /\ o.ran # <<o.to, o.ue>>
  \/ o.to \in Amfs /\ o.proc # "InitialUEMessage" /\ o.amf # <<o.to, o.ue>>

\* The gNB has a context of the UE, but not under the number in o.
Unknown(o) == o.to \in Gnbs /\ o.proc # "HandoverRequest" /\ ran[o.ran] \notin {"new", o.amf}

Deliver(o, rest) ==
  /\ astray' = IF Misaddressed(o) THEN astray \cup {SessIdOf(o)} ELSE astray
  /\ \E yes \in Choices(o) :
       /\ o.proc = "HandoverRequest" /\ yes => o.aim = o.to /\ ran[<<o.to, o.ue>>] = NULL
       /\ IF o.to = NULL \/ Misaddressed(o) \/ Unknown(o)
            THEN net' = rest /\ UNCHANGED peers
            ELSE /\ net' = rest \cup Answer(o, yes)
                 /\ ran' = RanAfter(o, yes)
                 /\ core' = CoreAfter(o)
                 /\ serving' = ServingAfter(o)
                 /\ ho' = HoAfter(o)
                 /\ UNCHANGED waiting

\* The handler of m ends having sent o, or nothing.
Reply(m, o) == Deliver(o, net \ {m}) /\ UNCHANGED <<held, doubtful>>
Silent(m) == net' = net \ {m} /\ UNCHANGED <<peers, held, astray, doubtful>>
Drop(m) == Silent(m) /\ UNCHANGED table

-----------------------------------------------------------------------------
(* The session table, as NgapSess has it in detail.                         *)

Found(i) == session_list[i] # NULL
Set(i, s) == session_list' = [session_list EXCEPT ![i] = s]

NewSession(amf, gnb, gnb_ue, timed) ==
  [amfId |-> amf, amfUeId |-> NULL, gnbUeId |-> gnb_ue, link |-> gnb,
   eHandoverflag |-> FALSE, TgtGnbId |-> NULL, TgtGnbUeId |-> NULL,
   waitRelComplete |-> FALSE, checked |-> timed, leaving |-> FALSE]

\* Variant: the handover's flag stays.
ResetTargetOnly(s) == [s EXCEPT !.TgtGnbUeId = NULL, !.waitRelComplete = FALSE, !.TgtGnbId = NULL]

ResetHandoverInfo(s) ==
  [s EXCEPT !.TgtGnbUeId = NULL, !.eHandoverflag = FALSE, !.waitRelComplete = FALSE,
            !.TgtGnbId = NULL]

DeleteNgapSession(s) == [s EXCEPT !.leaving = TRUE]
StopNgapSessCheck(s) == [s EXCEPT !.checked = FALSE]

\* 30 s without an answer of the AMF.
handleSessTimeout(i) ==
  /\ Found(i) /\ session_list[i].checked
  /\ Set(i, DeleteNgapSession(StopNgapSessCheck(session_list[i])))
  /\ UNCHANGED <<esm_list, isNgSetup, m_containerMap, peers, held, net, astray, doubtful>>

InUse(i) ==
  \/ \E t \in DOMAIN ran : ran[t] = i
  \/ \E t \in DOMAIN core : core[t] = i
  \/ \E m \in net \cup held : SessIdOf(m) = i

\* 3 s after its removal the number is free.
onSessReleaseTimer(i) ==
  /\ Found(i) /\ session_list[i].leaving
  /\ Set(i, NULL)
  /\ doubtful' = IF InUse(i) THEN doubtful \cup {i} ELSE doubtful \ {i}
  /\ astray' = astray \ {i}
  /\ UNCHANGED <<esm_list, isNgSetup, m_containerMap, peers, held, net>>

-----------------------------------------------------------------------------
(* Exchange of the ids and plain relays.                                    *)

\* To the AMF of the session, as the gNB UE of the session's number.
GNB_ConvertNgapId(m) ==
  LET s == session_list[m.amf] IN
  [m EXCEPT !.from = Gateway, !.to = s.amfId, !.ran = m.amf, !.amf = s.amfUeId]

\* To the session's gNB if that has a context; the AMF's id is taken over.
AMF_Known(m) == Found(m.ran) /\ session_list[m.ran].link \in esm_list
AMF_ConvertNgapId(m) ==
  LET s == session_list[m.ran] IN
  [m EXCEPT !.from = Gateway, !.to = s.link, !.ran = s.gnbUeId, !.amf = m.ran]
AMF_Learned(m) == [session_list[m.ran] EXCEPT !.amfUeId = m.amf]

RelayUp(m) ==
  \/ /\ Found(m.amf)
     /\ Reply(m, GNB_ConvertNgapId(m)) /\ UNCHANGED table
  \/ ~Found(m.amf) /\ Drop(m)

RelayDown(m) ==
  \/ /\ AMF_Known(m)
     /\ Set(m.ran, AMF_Learned(m))
     /\ Reply(m, AMF_ConvertNgapId(m))
     /\ UNCHANGED <<esm_list, isNgSetup, m_containerMap>>
  \/ ~AMF_Known(m) /\ Drop(m)

GNB_PDUSessionModifyRsp(m) == RelayUp(m)
GNB_PDUSessionModifyInd(m) == RelayUp(m)
GNB_PDUSessionReleaseRsp(m) == RelayUp(m)
GNB_PDUSessionRsrNotify(m) == RelayUp(m)
GNB_UEContextModificationSuccessRsp(m) == RelayUp(m)
GNB_UEContextModificationFailureRsp(m) == RelayUp(m)
GNB_UplinkNASTransport(m) == RelayUp(m)
GNB_UERadioCapInfoInd(m) == RelayUp(m)
GNB_NASNonDeliveryIndication(m) == RelayUp(m)
GNB_RRCInactTrstRpt(m) == RelayUp(m)
GNB_ErrorIndication(m) == RelayUp(m)
GNB_LocationReport(m) == RelayUp(m)
GNB_InitialContextSetupFailureRsp(m) == RelayUp(m)   \* and PduSess!processSessSetupfail

GNB_Uplink(m) ==
  /\ m.proc = "Uplink"
  /\ \/ GNB_PDUSessionModifyRsp(m) \/ GNB_PDUSessionModifyInd(m)
     \/ GNB_PDUSessionReleaseRsp(m) \/ GNB_PDUSessionRsrNotify(m)
     \/ GNB_UEContextModificationSuccessRsp(m) \/ GNB_UEContextModificationFailureRsp(m)
     \/ GNB_UplinkNASTransport(m) \/ GNB_UERadioCapInfoInd(m)
     \/ GNB_NASNonDeliveryIndication(m) \/ GNB_RRCInactTrstRpt(m)
     \/ GNB_ErrorIndication(m) \/ GNB_LocationReport(m)
     \/ GNB_InitialContextSetupFailureRsp(m)

AMF_PDUSessionResourceModifyReq(m) == RelayDown(m)
AMF_PDUSessionResourceReleaseCmd(m) == RelayDown(m)  \* and PduSess!ReleasePduSess
AMF_UEContextModificationReq(m) == RelayDown(m)
AMF_HandoverCommand(m) == RelayDown(m)
AMF_HandoverPreparationFailure(m) == RelayDown(m)
AMF_HandoverCancelAck(m) == RelayDown(m)
AMF_DLRanStatusTsfer(m) == RelayDown(m)
AMF_ErrorIndication(m) == RelayDown(m)
AMF_UERadioCapabilityCheckReq(m) == RelayDown(m)
AMF_PDUSessionResourceModifyConfirm(m) == RelayDown(m)
AMF_TraceStart(m) == RelayDown(m)
AMF_DeActTrace(m) == RelayDown(m)
AMF_LocRepCtr(m) == RelayDown(m)
AMF_UETNLABindingRelReq(m) == RelayDown(m)
AMF_DLUEAsNRPPaTrspt(m) == RelayDown(m)
AMF_RerouteNASReq(m) == RelayDown(m)

\* The AMF has accepted the UE.
AMF_DownlinkNASTransport(m) ==
  \/ /\ AMF_Known(m)
     /\ Set(m.ran, StopNgapSessCheck(AMF_Learned(m)))
     /\ Reply(m, AMF_ConvertNgapId(m))
     /\ UNCHANGED <<esm_list, isNgSetup, m_containerMap>>
  \/ ~AMF_Known(m) /\ Drop(m)

AMF_Downlink(m) ==
  /\ m.proc = "Downlink"
  /\ \/ AMF_PDUSessionResourceModifyReq(m) \/ AMF_PDUSessionResourceReleaseCmd(m)
     \/ AMF_UEContextModificationReq(m) \/ AMF_HandoverCommand(m)
     \/ AMF_HandoverPreparationFailure(m) \/ AMF_HandoverCancelAck(m)
     \/ AMF_DLRanStatusTsfer(m) \/ AMF_ErrorIndication(m)
     \/ AMF_UERadioCapabilityCheckReq(m) \/ AMF_PDUSessionResourceModifyConfirm(m)
     \/ AMF_TraceStart(m) \/ AMF_DeActTrace(m) \/ AMF_LocRepCtr(m)
     \/ AMF_UETNLABindingRelReq(m) \/ AMF_DLUEAsNRPPaTrspt(m) \/ AMF_RerouteNASReq(m)
     \/ AMF_DownlinkNASTransport(m)

-----------------------------------------------------------------------------
(* Context set-up and release.                                              *)

GNB_SetupReq(g) ==
  /\ g \notin esm_list
  /\ esm_list' = esm_list \cup {g}
  /\ UNCHANGED <<isNgSetup, session_list, m_containerMap, peers, held, net, astray, doubtful>>

AMF_NgSetupResponse(a) ==
  /\ a \notin isNgSetup
  /\ isNgSetup' = isNgSetup \cup {a}
  /\ UNCHANGED <<esm_list, session_list, m_containerMap, peers, held, net, astray, doubtful>>

\* An AMF that is set up, if any.
SelectAmf(a) == IF isNgSetup = {} THEN a = NULL ELSE a \in isNgSetup

GNB_InitialUEMessage(m) ==
  /\ m.proc = "InitialUEMessage"
  /\ \/ /\ m.from \in esm_list
        /\ \E i \in Ids, a \in Amfs \cup {NULL} :
             /\ ~Found(i)
             /\ SelectAmf(a)
             /\ Set(i, NewSession(a, m.from, m.ran, TRUE))
             /\ Reply(m, [m EXCEPT !.from = Gateway, !.to = a, !.ran = i])
        /\ UNCHANGED <<esm_list, isNgSetup, m_containerMap>>
     \/ (m.from \notin esm_list \/ \A i \in Ids : Found(i)) /\ Drop(m)

GNB_UEContextReleaseReq(m) ==
  /\ m.proc = "UEContextReleaseRequest"
  /\ \/ /\ Found(m.amf)
        /\ Set(m.amf, DeleteNgapSession(session_list[m.amf]))
        /\ Reply(m, GNB_ConvertNgapId(m))
        /\ UNCHANGED <<esm_list, isNgSetup, m_containerMap>>
     \/ ~Found(m.amf) /\ Drop(m)

AMF_UEContextReleaseCommand(m) ==
  /\ m.proc = "UEContextReleaseCommand"
  /\ \/ /\ AMF_Known(m)
        /\ Set(m.ran, DeleteNgapSession(AMF_Learned(m)))
        /\ Reply(m, AMF_ConvertNgapId(m))
        /\ UNCHANGED <<esm_list, isNgSetup, m_containerMap>>
     \/ ~AMF_Known(m) /\ Drop(m)

\* Handover messages: the gateway knows by the session's state alone what they
\* are about.
HandoverProcs ==
  {"HandoverRequired", "HandoverRequest", "HandoverRequestAck", "HandoverFailure",
   "HandoverNotify", "HandoverCancel", "PathSwitchRequest", "PathSwitchRequestAck",
   "PathSwitchRequestFailure", "UplinkRANStatusTransfer", "UEContextReleaseComplete"}
HandoverAmong(i, msgs) == \E m \in msgs : m.proc \in HandoverProcs /\ SessIdOf(m) = i

\* The source of a handover within the gateway has let the UE go; else the AMF
\* is told.
GNB_UEContextReleaseComplete(m) ==
  /\ m.proc = "UEContextReleaseComplete"
  /\ \/ /\ Found(m.amf)
        /\ session_list[m.amf].eHandoverflag /\ session_list[m.amf].waitRelComplete
        /\ Set(m.amf, ResetHandoverInfo(session_list[m.amf]))
        /\ net' = net \ {m}
        /\ doubtful' = IF HandoverAmong(m.amf, (net \ {m}) \cup held)
                         THEN doubtful \cup {m.amf} ELSE doubtful
        /\ UNCHANGED <<esm_list, isNgSetup, m_containerMap, peers, held, astray>>
     \/ /\ Found(m.amf) => ~(/\ session_list[m.amf].eHandoverflag
                             /\ session_list[m.amf].waitRelComplete)
        /\ RelayUp(m)

\* The AMF drops its UEs; so do the gNBs, to which the reset is passed on.
AMF_Reset(a) ==
  /\ session_list' = [i \in Ids |->
       IF Found(i) /\ session_list[i].amfId = a
         THEN DeleteNgapSession(session_list[i]) ELSE session_list[i]]
  /\ ran' = [t \in DOMAIN ran |-> IF t[1] \in esm_list THEN NULL ELSE ran[t]]
  /\ core' = [t \in DOMAIN core |-> IF t[1] = a THEN NULL ELSE core[t]]
  /\ serving' = [u \in Ues |-> IF serving[u] \in esm_list THEN NULL ELSE serving[u]]
  /\ ho' = [u \in Ues |-> "none"]
  /\ doubtful' = doubtful \cup {i \in Ids : Found(i) /\
                     (session_list[i].eHandoverflag \/ HandoverAmong(i, net \cup held))}
  /\ UNCHANGED <<waiting, esm_list, isNgSetup, m_containerMap, held, net, astray>>

\* The link to an AMF breaks: AsmManager.Restart.
handle_amf_sctp_err(a) ==
  /\ isNgSetup' = isNgSetup \ {a}
  /\ session_list' = [i \in Ids |->
       IF Found(i) /\ session_list[i].amfId = a
         THEN DeleteNgapSession(session_list[i]) ELSE session_list[i]]
  /\ UNCHANGED <<esm_list, m_containerMap, peers, held, net, astray, doubtful>>

-----------------------------------------------------------------------------
(* Set-up of PDU sessions: PduSess tells when the media gateway is asked.   *)

Hold(m, o) ==
  /\ held' = held \cup {o}
  /\ net' = net \ {m}
  /\ UNCHANGED <<peers, astray, doubtful>>

AMF_SetupRequest(m, learned) ==
  \/ /\ AMF_Known(m)
     /\ Set(m.ran, learned)
     /\ Reply(m, AMF_ConvertNgapId(m)) \/ Hold(m, AMF_ConvertNgapId(m))
     /\ UNCHANGED <<esm_list, isNgSetup, m_containerMap>>
  \/ ~AMF_Known(m) /\ Drop(m)

AMF_PDUSessionResourceSetupReq(m) == m.proc = "SetupRequest" /\ AMF_SetupRequest(m, AMF_Learned(m))
AMF_InitialContextSetupReq(m) == m.proc = "SetupRequest" /\ AMF_SetupRequest(m, AMF_Learned(m))

GNB_PDUSessionSetupRsp(m) ==
  /\ m.proc = "SetupResponse"
  /\ \/ /\ Found(m.amf)
        /\ Reply(m, GNB_ConvertNgapId(m)) \/ Hold(m, GNB_ConvertNgapId(m))
        /\ UNCHANGED table
     \/ ~Found(m.amf) /\ Drop(m)

GNB_InitialContextSetupSuccessRsp(m) ==
  /\ m.proc = "SetupResponse"
  /\ \/ /\ Found(m.amf)
        /\ Set(m.amf, StopNgapSessCheck(session_list[m.amf]))
        /\ Reply(m, GNB_ConvertNgapId(m)) \/ Hold(m, GNB_ConvertNgapId(m))
        /\ UNCHANGED <<esm_list, isNgSetup, m_containerMap>>
     \/ ~Found(m.amf) /\ Drop(m)

\* The media gateway has answered: the message goes out as it was converted.
ByMedia(o) ==
  /\ held' = held \ {o}
  /\ Deliver(o, net)
  /\ UNCHANGED <<table, doubtful>>
AMF_PDUSessionResourceSetupReqByMedia(o) == o.proc = "SetupRequest" /\ ByMedia(o)
AMF_InitialContextSetupReqByMedia(o) == o.proc = "SetupRequest" /\ ByMedia(o)
AMF_HandoverReqByMedia(o) == o.proc = "HandoverRequest" /\ ByMedia(o)
GNB_PDUSessionSetupRspByMedia(o) == o.proc = "SetupResponse" /\ ByMedia(o)
GNB_InitialContextSetupSuccessRspByMedia(o) == o.proc = "SetupResponse" /\ ByMedia(o)
GNB_HandoverReqAckMedia(o) == o.proc = "HandoverRequestAck" /\ ByMedia(o)
GNB_PathSwitchRequestByMedia(o) == o.proc = "PathSwitchRequest" /\ ByMedia(o)

-----------------------------------------------------------------------------
(* Handovers within the gateway and through the AMF, path switches.         *)

\* What the gateway sends on its own account; to a gNB it names the UE by the session.
SendTo(peer, proc, ran_id, i, m) == Message(Gateway, peer, proc, ran_id, i, m.ue, m.aim)

SendHandoverRequest(m) ==
  SendTo(session_list[m.ran].TgtGnbId, "HandoverRequest", NULL, m.ran, m)
SendHandoverCommand(m) ==
  LET s == session_list[m.amf] IN SendTo(s.link, "HandoverCommand", s.gnbUeId, m.amf, m)
SendUCRelCommand(m) ==
  LET s == session_list[m.amf] IN SendTo(s.link, "UEContextReleaseCommand", s.gnbUeId, m.amf, m)
SendHOPrepareFailure(i, m) ==
  LET s == session_list[i] IN SendTo(s.link, "HandoverPreparationFailure", s.gnbUeId, i, m)
SendHandoverCancelAck(m) == SendTo(m.from, "HandoverCancelAck", m.ran, m.amf, m)

\* To the target; to where the status came from if the target has no context.
SendDLRanStatusTsfer(m) ==
  LET s == session_list[m.amf] IN
  SendTo(IF s.TgtGnbId \in esm_list THEN s.TgtGnbId ELSE m.from,
         "DownlinkRANStatusTransfer", s.TgtGnbUeId, m.amf, m)

\* For the gNB, whose UE does not move yet.
SendPathSwithRequest(m) == [GNB_ConvertNgapId(m) EXCEPT !.proc = "PathSwitchRequest"]

\* The target is a gNB of the gateway: the AMF is asked to switch the path.
GNB_HandoverRequired(m) ==
  /\ m.proc = "HandoverRequired"
  /\ \/ /\ Found(m.amf) /\ m.aim \in esm_list
        /\ m_containerMap' = m_containerMap \cup {m.amf}
        /\ Set(m.amf, [session_list[m.amf] EXCEPT !.eHandoverflag = TRUE, !.TgtGnbId = m.aim])
        /\ Reply(m, SendPathSwithRequest(m))
        /\ UNCHANGED <<esm_list, isNgSetup>>
     \/ m.aim \notin esm_list /\ RelayUp(m)
     \/ ~Found(m.amf) /\ Drop(m)

\* The AMF has switched: the saved container goes to the target.
AMF_PathSwitchReqAck(m) ==
  LET s == session_list[m.ran]
      ours == s.eHandoverflag /\ m.ran \in m_containerMap IN
  /\ m.proc = "PathSwitchRequestAck"
  /\ \/ /\ AMF_Known(m)
        /\ Set(m.ran, AMF_Learned(m))
        /\ m_containerMap' = m_containerMap \ {m.ran}
        /\ UNCHANGED <<esm_list, isNgSetup>>
        /\ \/ ours /\ s.TgtGnbId \in esm_list
              /\ Reply(m, SendHandoverRequest(m))
           \/ ~ours /\ Reply(m, AMF_ConvertNgapId(m))
     \/ ~AMF_Known(m) /\ Drop(m)

AMF_PathSwitchReqFailure(m) ==
  LET s == session_list[m.ran] IN
  /\ m.proc = "PathSwitchRequestFailure"
  /\ \/ /\ AMF_Known(m)
        /\ UNCHANGED <<esm_list, isNgSetup, m_containerMap>>
        /\ \/ /\ s.eHandoverflag
              /\ Set(m.ran, ResetHandoverInfo(AMF_Learned(m)))
              /\ Reply(m, SendHOPrepareFailure(m.ran, m))
           \/ /\ ~s.eHandoverflag
              /\ Set(m.ran, AMF_Learned(m))
              /\ Reply(m, AMF_ConvertNgapId(m))
     \/ ~AMF_Known(m) /\ Drop(m)

\* Handlers that first ask whose handover it is, by the session's flag.
GNB_Known(m) == Found(m.amf) /\ session_list[m.amf].link \in esm_list
Ours(m) == GNB_Known(m) /\ session_list[m.amf].eHandoverflag
Theirs(m) == GNB_Known(m) /\ ~session_list[m.amf].eHandoverflag

GNB_HandoverReqAck(m) ==
  LET s == session_list[m.amf] IN
  /\ m.proc = "HandoverRequestAck"
  /\ \/ /\ Ours(m)
        /\ Set(m.amf, [s EXCEPT !.TgtGnbUeId = m.ran])
        /\ Reply(m, SendHandoverCommand(m))
        /\ UNCHANGED <<esm_list, isNgSetup, m_containerMap>>
     \/ /\ Theirs(m)
        /\ Set(m.amf, [s EXCEPT !.gnbUeId = m.ran])
        /\ Reply(m, GNB_ConvertNgapId(m)) \/ Hold(m, GNB_ConvertNgapId(m))
        /\ UNCHANGED <<esm_list, isNgSetup, m_containerMap>>
     \/ ~GNB_Known(m) /\ Drop(m)

GNB_HandoverFailure(m) ==
  LET s == session_list[m.amf] IN
  /\ m.proc = "HandoverFailure"
  /\ \/ /\ Ours(m)
        /\ Set(m.amf, ResetHandoverInfo(s))
        /\ Reply(m, SendHOPrepareFailure(m.amf, m))
        /\ UNCHANGED <<esm_list, isNgSetup, m_containerMap>>
     \/ Theirs(m) /\ RelayUp(m)
     \/ ~GNB_Known(m) /\ Drop(m)

\* Variant: the session keeps the source's UE id.
GNB_HandoverNotifyKeepsId(m) ==
  LET s == session_list[m.amf] IN
  /\ m.proc = "HandoverNotify"
  /\ \/ /\ Ours(m)
        /\ Set(m.amf, [s EXCEPT !.link = m.from, !.waitRelComplete = TRUE])
        /\ Reply(m, SendUCRelCommand(m))
        /\ UNCHANGED <<esm_list, isNgSetup, m_containerMap>>
     \/ Theirs(m) /\ RelayUp(m)
     \/ ~GNB_Known(m) /\ Drop(m)

\* The UE has arrived: the session moves, the source is told to release.
GNB_HandoverNotify(m) ==
  LET s == session_list[m.amf] IN
  /\ m.proc = "HandoverNotify"
  /\ \/ /\ Ours(m)
        /\ Set(m.amf, [s EXCEPT !.gnbUeId = s.TgtGnbUeId, !.link = m.from,
                                !.waitRelComplete = TRUE])
        /\ Reply(m, SendUCRelCommand(m))
        /\ UNCHANGED <<esm_list, isNgSetup, m_containerMap>>
     \/ Theirs(m) /\ RelayUp(m)
     \/ ~GNB_Known(m) /\ Drop(m)

GNB_HandoverCancel(m) ==
  /\ m.proc = "HandoverCancel"
  /\ \/ /\ Found(m.amf) /\ session_list[m.amf].eHandoverflag
        /\ Set(m.amf, ResetHandoverInfo(session_list[m.amf]))
        /\ Reply(m, SendHandoverCancelAck(m))
        /\ UNCHANGED <<esm_list, isNgSetup, m_containerMap>>
     \/ Found(m.amf) /\ ~session_list[m.amf].eHandoverflag /\ RelayUp(m)
     \/ ~Found(m.amf) /\ Drop(m)

GNB_ULRanStatusTsfer(m) ==
  /\ m.proc = "UplinkRANStatusTransfer"
  /\ \/ /\ Found(m.amf) /\ session_list[m.amf].eHandoverflag
        /\ Reply(m, SendDLRanStatusTsfer(m))
        /\ UNCHANGED table
     \/ Found(m.amf) /\ ~session_list[m.amf].eHandoverflag /\ RelayUp(m)
     \/ ~Found(m.amf) /\ Drop(m)

\* Variant: the session keeps the old link.
GNB_PathSwitchKeepsLink(m) ==
  /\ m.proc = "PathSwitchRequest"
  /\ \/ /\ Found(m.amf)
        /\ Set(m.amf, [session_list[m.amf] EXCEPT !.gnbUeId = m.ran])
        /\ Hold(m, GNB_ConvertNgapId(m))
        /\ UNCHANGED <<esm_list, isNgSetup, m_containerMap>>
     \/ ~Found(m.amf) /\ Drop(m)

\* The UE is at another gNB already: the session moves at once, the request
\* waits for the media gateway.
GNB_PathSwitchRequest(m) ==
  /\ m.proc = "PathSwitchRequest"
  /\ \/ /\ Found(m.amf)
        /\ Set(m.amf, [session_list[m.amf] EXCEPT !.gnbUeId = m.ran, !.link = m.from])
        /\ Hold(m, GNB_ConvertNgapId(m))
        /\ UNCHANGED <<esm_list, isNgSetup, m_containerMap>>
     \/ ~Found(m.amf) /\ Drop(m)

\* A UE comes from another gateway.  The gNB taken is not the one the container
\* names but any that has a context (GetEsmContextByRanNodeId compares each
\* context with itself).
AMF_HandoverReq(m) ==
  /\ m.proc = "HandoverRequest"
  /\ \/ \E i \in Ids, g \in esm_list :
          /\ ~Found(i)
          /\ Set(i, [NewSession(m.from, g, NULL, FALSE) EXCEPT !.amfUeId = m.amf])
          /\ LET o == SendTo(g, "HandoverRequest", NULL, i, m) IN Reply(m, o) \/ Hold(m, o)
          /\ UNCHANGED <<esm_list, isNgSetup, m_containerMap>>
     \/ (esm_list = {} \/ \A i \in Ids : Found(i)) /\ Drop(m)

-----------------------------------------------------------------------------
(* What peers send unasked.                                                 *)

Room == Cardinality(net) + Cardinality(held) < MaxNet

Says(peer, proc, ran_id, amf_id, u, aim) ==
  LET m == Message(peer, Gateway, proc, ran_id, amf_id, u, aim)
      i == SessIdOf(m) IN
  /\ Room /\ m \notin net
  /\ net' = net \cup {m}
  /\ doubtful' = IF i \in Ids /\ proc \in HandoverProcs /\ HandoverAmong(i, net \cup held)
                   THEN doubtful \cup {i} ELSE doubtful
  /\ UNCHANGED <<table, held, astray>>

At(g, u) == ran[<<g, u>>] \in Ids
Absent(u) == (\A g \in Gnbs : ran[<<g, u>>] = NULL) /\ \A a \in Amfs : core[<<a, u>>] = NULL

\* A UE attaches.
UeAttaches(g, u) ==
  /\ Absent(u)
  /\ ran' = [ran EXCEPT ![<<g, u>>] = "new"]
  /\ serving' = [serving EXCEPT ![u] = g]
  /\ waiting' = waiting \ (Gnbs \X {u})
  /\ Says(g, "InitialUEMessage", <<g, u>>, NULL, u, NULL)
  /\ UNCHANGED <<core, ho>>

\* The UE's gNB about it.
GnbSays(proc, u, aim) ==
  LET g == serving[u] IN
  g # NULL /\ At(g, u) /\ Says(g, proc, <<g, u>>, ran[<<g, u>>], u, aim)

GnbSpeaks(u) ==
  /\ \E proc \in {"Uplink", "UEContextReleaseRequest"} : GnbSays(proc, u, NULL)
  /\ UNCHANGED peers

\* The UE's gNB wants to hand it over, or gives up having wanted to.
GnbHandsOver(h, u) ==
  /\ ran[<<h, u>>] = NULL /\ ho[u] = "none"
  /\ ho' = [ho EXCEPT ![u] = "prepared"]
  /\ waiting' = waiting \ {<<h, u>>}
  /\ GnbSays("HandoverRequired", u, h)
  /\ UNCHANGED <<ran, core, serving>>

GnbCancels(u) ==
  /\ ho[u] # "none"
  /\ ho' = [ho EXCEPT ![u] = "none"]
  /\ waiting' = waiting \cup ({<<ho[u], u>>} \cap (Gnbs \X {u}))
  /\ GnbSays("HandoverCancel", u, NULL)
  /\ UNCHANGED <<ran, core, serving>>

\* The UE is ordered to another gNB, to which its status is passed on.
GnbPassesStatus(u) ==
  /\ ho[u] \in Gnbs
  /\ GnbSays("UplinkRANStatusTransfer", u, NULL)
  /\ UNCHANGED peers

\* It arrives there, or comes from another gateway.
UeArrives(h, u) ==
  /\ At(h, u)
  /\ \/ serving[u] = NULL /\ \E a \in Amfs : core[<<a, u>>] = ran[<<h, u>>]
     \/ serving[u] # h /\ ho[u] = h /\ ran[<<serving[u], u>>] = ran[<<h, u>>]
  /\ ho' = [ho EXCEPT ![u] = "none"]
  /\ serving' = [serving EXCEPT ![u] = h]
  /\ waiting' = waiting \ {<<h, u>>}
  /\ Says(h, "HandoverNotify", <<h, u>>, ran[<<h, u>>], u, NULL)
  /\ UNCHANGED <<ran, core>>

\* A target gives up a UE that does not come.
TargetForgets(h, u) ==
  /\ At(h, u) /\ serving[u] # h
  /\ serving[u] = NULL \/ <<h, u>> \in waiting
  /\ ran' = [ran EXCEPT ![<<h, u>>] = NULL]
  /\ waiting' = waiting \ {<<h, u>>}
  /\ UNCHANGED <<table, held, net, core, serving, ho, astray, doubtful>>

\* Handover between two gNBs without the gateway.
UeMoves(h, u) ==
  LET g == serving[u] IN
  /\ g # NULL /\ At(g, u) /\ h \in esm_list /\ ran[<<h, u>>] = NULL /\ ho[u] = "none"
  /\ ran' = [ran EXCEPT ![<<g, u>>] = NULL, ![<<h, u>>] = ran[<<g, u>>]]
  /\ serving' = [serving EXCEPT ![u] = h]
  /\ waiting' = waiting \ {<<h, u>>}
  /\ Says(h, "PathSwitchRequest", <<h, u>>, ran[<<g, u>>], u, NULL)
  /\ UNCHANGED <<core, ho>>

\* The AMF about a UE it has; of a UE it releases it keeps nothing.
AmfSpeaks(a, u) ==
  /\ core[<<a, u>>] \in Ids
  /\ \E proc \in {"Downlink", "SetupRequest"} :
       Says(a, proc, core[<<a, u>>], <<a, u>>, u, NULL)
  /\ UNCHANGED peers

AmfReleases(a, u) ==
  /\ core[<<a, u>>] \in Ids
  /\ core' = [core EXCEPT ![<<a, u>>] = NULL]
  /\ Says(a, "UEContextReleaseCommand", core[<<a, u>>], <<a, u>>, u, NULL)
  /\ UNCHANGED <<ran, serving, ho, waiting>>

\* A UE is to come from another gateway to gNB h.
AmfHandsOver(a, h, u) ==
  /\ a \in isNgSetup /\ h \in esm_list /\ Absent(u)
  /\ core' = [core EXCEPT ![<<a, u>>] = "new"]
  /\ Says(a, "HandoverRequest", NULL, <<a, u>>, u, h)
  /\ waiting' = waiting \ (Gnbs \X {u})
  /\ UNCHANGED <<ran, serving, ho>>

-----------------------------------------------------------------------------
Init ==
  /\ esm_list = {} /\ isNgSetup = {} /\ m_containerMap = {}
  /\ session_list = [i \in Ids |-> NULL]
  /\ held = {} /\ net = {}
  /\ ran = [t \in Gnbs \X Ues |-> NULL]
  /\ core = [t \in Amfs \X Ues |-> NULL]
  /\ serving = [u \in Ues |-> NULL]
  /\ ho = [u \in Ues |-> "none"] /\ waiting = {}
  /\ astray = {} /\ doubtful = {}

GnbMessage(m) ==
  /\ m.from \in Gnbs
  /\ \/ GNB_Uplink(m) \/ GNB_InitialUEMessage(m) \/ GNB_UEContextReleaseReq(m)
     \/ GNB_UEContextReleaseComplete(m) \/ GNB_PDUSessionSetupRsp(m)
     \/ GNB_InitialContextSetupSuccessRsp(m) \/ GNB_HandoverRequired(m)
     \/ GNB_HandoverReqAck(m) \/ GNB_HandoverFailure(m) \/ GNB_HandoverNotify(m)
     \/ GNB_HandoverCancel(m) \/ GNB_ULRanStatusTsfer(m) \/ GNB_PathSwitchRequest(m)

AmfMessage(m) ==
  /\ m.from \in Amfs
  /\ \/ AMF_Downlink(m) \/ AMF_PDUSessionResourceSetupReq(m) \/ AMF_InitialContextSetupReq(m)
     \/ AMF_UEContextReleaseCommand(m) \/ AMF_HandoverReq(m) \/ AMF_PathSwitchReqAck(m)
     \/ AMF_PathSwitchReqFailure(m)

MediaAnswer(o) ==
  \/ AMF_PDUSessionResourceSetupReqByMedia(o) \/ AMF_InitialContextSetupReqByMedia(o)
  \/ AMF_HandoverReqByMedia(o) \/ GNB_PDUSessionSetupRspByMedia(o)
  \/ GNB_InitialContextSetupSuccessRspByMedia(o) \/ GNB_HandoverReqAckMedia(o)
  \/ GNB_PathSwitchRequestByMedia(o)

Peers ==
  \/ \E u \in Ues : GnbSpeaks(u) \/ GnbCancels(u) \/ GnbPassesStatus(u)
  \/ \E h \in Gnbs, u \in Ues :
       \/ UeAttaches(h, u) \/ GnbHandsOver(h, u) \/ UeArrives(h, u)
       \/ TargetForgets(h, u) \/ UeMoves(h, u)
  \/ \E a \in Amfs, u \in Ues :
       \/ AmfSpeaks(a, u) \/ AmfReleases(a, u)
       \/ \E h \in Gnbs : AmfHandsOver(a, h, u)

Next ==
  \/ \E m \in net : GnbMessage(m) \/ AmfMessage(m)
  \/ \E o \in held : MediaAnswer(o)
  \/ \E i \in Ids : handleSessTimeout(i) \/ onSessReleaseTimer(i)
  \/ \E g \in Gnbs : GNB_SetupReq(g)
  \/ \E a \in Amfs : AMF_NgSetupResponse(a) \/ AMF_Reset(a) \/ handle_amf_sctp_err(a)
  \/ Peers

Spec == Init /\ [][Next]_vars

-----------------------------------------------------------------------------
(* Properties. *)

\* NgapSessManager, EpmManager, ApmManager: unless its number is doubtful (freed while in
\* use, two of its handover's messages under way at once, or its AMF reset meanwhile), a
\* session's ids are those of one UE, at the gNB and the AMF its links lead to.
SidesAgree ==
  \A i \in Ids \ doubtful :
    Found(i) /\ session_list[i].gnbUeId # NULL =>
      LET s == session_list[i] IN
      /\ s.gnbUeId[1] = s.link
      /\ s.amfUeId # NULL => s.amfUeId = <<s.amfId, s.gnbUeId[2]>>

\* eHandoverflag, waitRelComplete: when nothing is under way and a UE's gNB wants no
\* handover, the gateway has none open and no other gNB was left with the UE's context,
\* but for a target whose handover was cancelled after it had made one.
HandoverEnds ==
  \A i \in Ids \ doubtful, u \in Ues :
    /\ net = {} /\ held = {}
    /\ Found(i) /\ ~session_list[i].leaving
    /\ ho[u] = "none" /\ serving[u] # NULL /\ ran[<<serving[u], u>>] = i
    => /\ ~session_list[i].eHandoverflag
       /\ \A g \in Gnbs : ran[<<g, u>>] = i => g = serving[u] \/ <<g, u>> \in waiting

\* ConvertNgapId and the messages EsmManager builds: what is passed on carries the ids by
\* which its receiver knows that very UE, but for doubtful numbers.
ReachesOwnUe == astray \subseteq doubtful
===============================================================================
