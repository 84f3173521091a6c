------------------------------- MODULE NgapSess -------------------------------
(***************************************************************************)
(* The NGAP session table of the signalling gateway (NgapSessManager.cc):  *)
(* session_list and timer_list indexed by session id, allocation of ids by *)
(* a rotating cursor, the 30 s check of a session whose setup does not     *)
(* complete, the 3 s delayed release, and the loops that drop every        *)
(* session of an AMF or of a gNB.                                          *)
(*                                                                         *)
(* Message handlers and timer callbacks run on the dispatch threads        *)
(* (Threads) concurrently.  m_mutex protects single reads and writes of    *)
(* the tables only: each critical section is one step, and what a handler  *)
(* does with a pointer it looked up is another.  Heap objects are named by *)
(* address; an address is used once, so that a dangling pointer can be     *)
(* told from a new object.                                                 *)
(***************************************************************************)
EXTENDS Integers, FiniteSets

CONSTANTS
  Threads,             \* dispatch threads
  MAX_NGAP_SESSIONS,   \* table size (100000); ids 1..MAX-1 are handed out
  Gnbs, Amfs,          \* peers a session belongs to
  Resets,              \* the gNBs that reset or lose their SCTP link
  Sessions,            \* addresses of NgapSession objects
  Timers,              \* addresses of sess_event_context objects
  NULL,
  Timely               \* TRUE: a handler takes less than the release delay, and the
                       \* cursor longer to go round the table than an id is in use

ASSUME NgapSessAssumption ==
  /\ MAX_NGAP_SESSIONS \in Nat \ {0, 1}
  /\ Resets \subseteq Gnbs
  /\ NULL \notin Sessions \cup Timers
  /\ Timely \in BOOLEAN

Ids == 0 .. (MAX_NGAP_SESSIONS - 1)
INVALIDE_ID == -1  \* 0xFFFFFFFF in the code: beyond every table index

VARIABLES
  m_currentSessId,
  session_list,   \* [Ids -> Sessions \cup {NULL}]
  timer_list,     \* [Ids -> Timers \cup {NULL}]
  sess,           \* [Sessions -> the object]
  ctx,            \* [Timers -> the object]
  th              \* [Threads -> what a thread is doing]

vars == <<m_currentSessId, session_list, timer_list, sess, ctx, th>>

(***************************************************************************)
(* Object states.  A session is "live" from AddNgapSess until the release  *)
(* callback clears its slot ("unlinked") and deletes it.  releases counts  *)
(* its release timers that are still to fire.  Ghosts: check, whether the  *)
(* 30 s check is "none" (handover from the AMF), "on" or "off"; for, the   *)
(* session a check timer was started for; late, whether the session a      *)
(* thread looked up was being released already.                            *)
(***************************************************************************)
Flag == {0, 1}  \* a bool of the code

Session == [st : {"none", "live", "unlinked", "deleted"}, sessId : Ids \cup {INVALIDE_ID},
            gnb : Gnbs \cup {NULL}, amf : Amfs \cup {NULL},
            release_timer_started : Flag, releases : Nat,
            check : {"none", "on", "off"}]
Context == [st : {"none", "armed", "firing", "deleted"}, sessId : Ids \cup {INVALIDE_ID},
            for : Sessions \cup {NULL}]

NoSession == [st |-> "none", sessId |-> INVALIDE_ID, gnb |-> NULL, amf |-> NULL,
              release_timer_started |-> 0, releases |-> 0, check |-> "none"]
NoContext == [st |-> "none", sessId |-> INVALIDE_ID, for |-> NULL]
PCs == {"idle", "claim", "add", "timer", "handler", "timeout", "stop", "unlink", "delete",
        "scanAmf", "useAmf", "scanGnb", "useGnb", "spin"}

\* What a thread is doing.
Thread == [pc : PCs, id : Ids \cup {INVALIDE_ID}, sess : Sessions \cup {NULL},
           ctx : Timers \cup {NULL}, n : Nat, peer : Gnbs \cup Amfs \cup {NULL}, late : Flag]

Idle == [pc |-> "idle", id |-> INVALIDE_ID, sess |-> NULL, ctx |-> NULL, n |-> 0,
         peer |-> NULL, late |-> 0]

\* Where a thread holds a pointer it read from session_list, and where it works
\* under the session id in th[t].id.
Holding == {"handler", "useAmf", "useGnb"}
Working == Holding \cup {"add", "timer", "timeout", "stop", "unlink"}

Init ==
  /\ m_currentSessId = 0
  /\ session_list = [i \in Ids |-> NULL]
  /\ timer_list = [i \in Ids |-> NULL]
  /\ sess = [a \in Sessions |-> NoSession]
  /\ ctx = [c \in Timers |-> NoContext]
  /\ th = [t \in Threads |-> Idle]

-----------------------------------------------------------------------------
(***************************************************************************)
(* NewNgapSession and NewNgapSessionFromAmf.                               *)
(***************************************************************************)

\* SIG_NEXT_ID(id, 1, MAX_NGAP_SESSIONS - 1)
NextId(id) == IF id = MAX_NGAP_SESSIONS - 1 THEN 1 ELSE id + 1

\* A handler asks for a session; bounded by the addresses left.
StartNew(t) ==
  /\ th[t].pc = "idle"
  /\ Cardinality({u \in Threads : th[u].pc \in {"claim", "add"}})
       < Cardinality({a \in Sessions : sess[a].st = "none"})
  /\ th' = [th EXCEPT ![t].pc = "claim", ![t].n = 0]
  /\ UNCHANGED <<m_currentSessId, session_list, timer_list, sess, ctx>>

\* Nobody still works under this id: no allocation, no handler, no check timer.
Unused(id) ==
  /\ \A t \in Threads : th[t].pc \in Working => th[t].id # id
  /\ \A c \in Timers : ctx[c].st \in {"armed", "firing"} => ctx[c].sessId # id

\* One round of the search under the lock: take the next id if its slot is
\* free.  The slot is not marked: it stays free until AddNgapSess.
Claim(t) ==
  LET id == NextId(m_currentSessId) IN
  /\ th[t].pc = "claim"
  /\ Timely => Unused(id)
  /\ m_currentSessId' = id
  /\ th' = [th EXCEPT ![t] =
              IF session_list[id] = NULL THEN [Idle EXCEPT !.pc = "add", !.id = id]
              ELSE IF th[t].n + 1 >= MAX_NGAP_SESSIONS THEN Idle  \* session is full
              ELSE [th[t] EXCEPT !.n = th[t].n + 1]]
  /\ UNCHANGED <<session_list, timer_list, sess, ctx>>

\* Variant: the new session is entered one slot off.
AddNgapSessShifted(t, a, gnb, amf, check) ==
  /\ th[t].pc = "add"
  /\ sess[a].st = "none"
  /\ sess' = [sess EXCEPT ![a] = [NoSession EXCEPT !.st = "live", !.sessId = th[t].id,
                                    !.gnb = gnb, !.amf = amf, !.check = check]]
  /\ session_list' = [session_list EXCEPT ![th[t].id - 1] = a]
  /\ th' = [th EXCEPT ![t] = IF check = "on" THEN [@ EXCEPT !.pc = "timer", !.sess = a]
                             ELSE Idle]
  /\ UNCHANGED <<m_currentSessId, timer_list, ctx>>

\* Fill a new NgapSession and enter it in the table.
AddNgapSess(t, a, gnb, amf, check) ==
  /\ th[t].pc = "add"
  /\ sess[a].st = "none"
  /\ sess' = [sess EXCEPT ![a] = [NoSession EXCEPT !.st = "live", !.sessId = th[t].id,
                                    !.gnb = gnb, !.amf = amf, !.check = check]]
  /\ session_list' = [session_list EXCEPT ![th[t].id] = a]
  /\ th' = [th EXCEPT ![t] = IF check = "on" THEN [@ EXCEPT !.pc = "timer", !.sess = a]
                             ELSE Idle]
  /\ UNCHANGED <<m_currentSessId, timer_list, ctx>>

\* The handover target's gNB has no EsmContext: the claimed id is given back.
NoTarget(t) ==
  /\ th[t].pc = "add"
  /\ th' = [th EXCEPT ![t] = Idle]
  /\ UNCHANGED <<m_currentSessId, session_list, timer_list, sess, ctx>>

\* startSessTimer: enter the context in timer_list and arm the 30 s timer.
StartSessTimer(t, c) ==
  /\ th[t].pc = "timer"
  /\ ctx[c].st = "none"
  /\ ctx' = [ctx EXCEPT ![c] = [st |-> "armed", sessId |-> th[t].id, for |-> th[t].sess]]
  /\ timer_list' = [timer_list EXCEPT ![th[t].id] = c]
  /\ th' = [th EXCEPT ![t] = Idle]
  /\ UNCHANGED <<m_currentSessId, session_list, sess>>

-----------------------------------------------------------------------------
(***************************************************************************)
(* RemoveNgapSess and stopSessTimer, each one critical section, as         *)
(* functions of an id; an id beyond the table is ignored.                  *)
(***************************************************************************)

\* Variant: a release timer is started and the session is not marked.
RemovedUnmarked(id) ==
  IF id \notin Ids \/ session_list[id] = NULL THEN sess
  ELSE IF sess[session_list[id]].releases > 0 THEN sess
  ELSE [sess EXCEPT ![session_list[id]].releases = @ + 1]

\* sess after RemoveNgapSess(id): the release timer is started once, and the
\* session stays in its slot until that timer fires.
Removed(id) ==
  IF id \notin Ids \/ session_list[id] = NULL THEN sess
  ELSE IF sess[session_list[id]].release_timer_started = 1 THEN sess
  ELSE [sess EXCEPT ![session_list[id]].release_timer_started = 1,
                    ![session_list[id]].releases = @ + 1]

\* StopSessTimer(id): the context stays armed but is made to name no session.
StopSessTimer(id) ==
  IF id \notin Ids THEN UNCHANGED <<ctx, timer_list>>
  ELSE /\ ctx' = IF timer_list[id] = NULL THEN ctx
                 ELSE [ctx EXCEPT ![timer_list[id]].sessId = INVALIDE_ID]
       /\ timer_list' = [timer_list EXCEPT ![id] = NULL]

(***************************************************************************)
(* A handler looks up the session its message names, works with it and     *)
(* ends, in between releasing it or stopping its check.                    *)
(***************************************************************************)
\* The thread's state once it has read the pointer a from slot id.
Hold(t, kind, id, a) == [th[t] EXCEPT !.pc = kind, !.id = id, !.sess = a,
                                      !.late = sess[a].release_timer_started]

GetNgapSession(t, id) ==
  /\ th[t].pc = "idle"
  /\ session_list[id] # NULL
  /\ th' = [th EXCEPT ![t] = Hold(t, "handler", id, session_list[id])]
  /\ UNCHANGED <<m_currentSessId, session_list, timer_list, sess, ctx>>

DeleteNgapSession(t) ==
  /\ th[t].pc = "handler"
  /\ sess' = Removed(th[t].id)
  /\ th' = [th EXCEPT ![t] = Idle]
  /\ UNCHANGED <<m_currentSessId, session_list, timer_list, ctx>>

\* The setup completed.
StopNgapSessCheck(t) ==
  LET c == timer_list[th[t].id] IN
  /\ th[t].pc = "handler"
  /\ sess' = IF c = NULL THEN sess ELSE [sess EXCEPT ![ctx[c].for].check = "off"]
  /\ StopSessTimer(th[t].id)
  /\ th' = [th EXCEPT ![t] = Idle]
  /\ UNCHANGED <<m_currentSessId, session_list>>

HandlerReturn(t) ==
  /\ th[t].pc = "handler"
  /\ th' = [th EXCEPT ![t] = Idle]
  /\ UNCHANGED <<m_currentSessId, session_list, timer_list, sess, ctx>>

-----------------------------------------------------------------------------
(***************************************************************************)
(* The check timer: handleSessTimeout reads the id, removes, stops.        *)
(***************************************************************************)
SessTimerFires(t, c) ==
  /\ th[t].pc = "idle"
  /\ ctx[c].st = "armed"
  /\ ctx' = [ctx EXCEPT ![c].st = "firing"]
  /\ th' = [th EXCEPT ![t] = [Idle EXCEPT !.pc = "timeout", !.ctx = c, !.id = ctx[c].sessId]]
  /\ UNCHANGED <<m_currentSessId, session_list, timer_list, sess>>

\* Variant: the timer only stops itself.
TimeoutRemoveNothing(t) ==
  /\ th[t].pc = "timeout"
  /\ th' = [th EXCEPT ![t].pc = "stop"]
  /\ UNCHANGED <<m_currentSessId, session_list, timer_list, sess, ctx>>

TimeoutRemove(t) ==
  /\ th[t].pc = "timeout"
  /\ sess' = Removed(th[t].id)
  /\ th' = [th EXCEPT ![t].pc = "stop"]
  /\ UNCHANGED <<m_currentSessId, session_list, timer_list, ctx>>

\* Variant: the context is deleted and stays in timer_list.
TimeoutStopKept(t) ==
  /\ th[t].pc = "stop"
  /\ ctx' = [ctx EXCEPT ![th[t].ctx].st = "deleted"]
  /\ th' = [th EXCEPT ![t] = Idle]
  /\ UNCHANGED <<m_currentSessId, session_list, timer_list, sess>>

\* stopSessTimer(id), then the context is deleted.
TimeoutStop(t) ==
  LET id == th[t].id
      old == IF id \in Ids /\ timer_list[id] # NULL
             THEN [ctx EXCEPT ![timer_list[id]].sessId = INVALIDE_ID] ELSE ctx
  IN /\ th[t].pc = "stop"
     /\ timer_list' = IF id \in Ids THEN [timer_list EXCEPT ![id] = NULL] ELSE timer_list
     /\ ctx' = [old EXCEPT ![th[t].ctx].st = "deleted"]
     /\ th' = [th EXCEPT ![t] = Idle]
     /\ UNCHANGED <<m_currentSessId, session_list, sess>>

(***************************************************************************)
(* The release timer: onSessReleaseTimer clears the slot of the session's  *)
(* id, whatever it holds, and deletes the session.                         *)
(***************************************************************************)
ReleaseTimerFires(t, a) ==
  /\ th[t].pc = "idle"
  /\ sess[a].releases > 0
  /\ Timely => \A u \in Threads :
                 th[u].pc \in Holding /\ th[u].sess = a => th[u].late = 1
  /\ sess' = [sess EXCEPT ![a].releases = @ - 1]
  /\ th' = [th EXCEPT ![t] = [Idle EXCEPT !.pc = "unlink", !.sess = a, !.id = sess[a].sessId]]
  /\ UNCHANGED <<m_currentSessId, session_list, timer_list, ctx>>

\* Variant: the slot is left as it is.
SafeRemoveNgapSessKept(t) ==
  /\ th[t].pc = "unlink"
  /\ sess' = [sess EXCEPT ![th[t].sess].st = "unlinked"]
  /\ th' = [th EXCEPT ![t].pc = "delete"]
  /\ UNCHANGED <<m_currentSessId, session_list, timer_list, ctx>>

SafeRemoveNgapSess(t) ==
  /\ th[t].pc = "unlink"
  /\ session_list' = [session_list EXCEPT ![th[t].id] = NULL]
  /\ sess' = [sess EXCEPT ![th[t].sess].st = "unlinked"]
  /\ th' = [th EXCEPT ![t].pc = "delete"]
  /\ UNCHANGED <<m_currentSessId, timer_list, ctx>>

DeleteSess(t) ==
  /\ th[t].pc = "delete"
  /\ sess' = [sess EXCEPT ![th[t].sess].st = "deleted"]
  /\ th' = [th EXCEPT ![t] = Idle]
  /\ UNCHANGED <<m_currentSessId, session_list, timer_list, ctx>>

-----------------------------------------------------------------------------
(***************************************************************************)
(* DeleteAllAmfSession and DeleteAllGnbSession walk the table slot by      *)
(* slot.  The PDU sessions released on the way are another table's.        *)
(***************************************************************************)
StartScan(t, kind, peer) ==
  /\ th[t].pc = "idle"
  /\ th' = [th EXCEPT ![t] = [Idle EXCEPT !.pc = kind, !.id = 0, !.peer = peer]]
  /\ UNCHANGED <<m_currentSessId, session_list, timer_list, sess, ctx>>

\* The thread's scan moves on, and ends after the last slot.
ScanNext(t) ==
  IF th[t].id + 1 = MAX_NGAP_SESSIONS THEN Idle
  ELSE [th[t] EXCEPT !.pc = IF @ \in {"scanAmf", "useAmf"} THEN "scanAmf" ELSE "scanGnb",
                     !.id = @ + 1, !.sess = NULL, !.late = 0]

ScanAmf(t) ==
  LET a == session_list[th[t].id] IN
  /\ th[t].pc = "scanAmf"
  /\ th' = [th EXCEPT ![t] = IF a = NULL THEN ScanNext(t) ELSE Hold(t, "useAmf", th[t].id, a)]
  /\ UNCHANGED <<m_currentSessId, session_list, timer_list, sess, ctx>>

\* What comparing the held session's peer with the scan's may yield: anything if
\* the session was deleted meanwhile.
PeerMatches(t, peer) ==
  IF sess[th[t].sess].st = "deleted" THEN BOOLEAN ELSE {peer = th[t].peer}

UseAmf(t) ==
  /\ th[t].pc = "useAmf"
  /\ \E match \in PeerMatches(t, sess[th[t].sess].amf) :
       sess' = IF match THEN Removed(th[t].id) ELSE sess
  /\ th' = [th EXCEPT ![t] = ScanNext(t)]
  /\ UNCHANGED <<m_currentSessId, session_list, timer_list, ctx>>

ScanGnb(t) ==
  LET a == session_list[th[t].id] IN
  /\ th[t].pc = "scanGnb"
  /\ th' = [th EXCEPT ![t] = IF a = NULL THEN ScanNext(t) ELSE Hold(t, "useGnb", th[t].id, a)]
  /\ UNCHANGED <<m_currentSessId, session_list, timer_list, sess, ctx>>

\* For a session of the gNB the inner loop over its PDU sessions advances the
\* outer index instead of its own and never ends.
UseGnb(t) ==
  /\ th[t].pc = "useGnb"
  /\ \E match \in PeerMatches(t, sess[th[t].sess].gnb) :
       th' = [th EXCEPT ![t] = IF match THEN [@ EXCEPT !.pc = "spin"] ELSE ScanNext(t)]
  /\ UNCHANGED <<m_currentSessId, session_list, timer_list, sess, ctx>>

-----------------------------------------------------------------------------
ThreadStep(t) ==
  \/ Claim(t)
  \/ \E a \in Sessions, g \in Gnbs, m \in Amfs, k \in {"none", "on"} : AddNgapSess(t, a, g, m, k)
  \/ \E c \in Timers : StartSessTimer(t, c)
  \/ TimeoutRemove(t) \/ TimeoutStop(t)
  \/ SafeRemoveNgapSess(t) \/ DeleteSess(t)
  \/ DeleteNgapSession(t) \/ StopNgapSessCheck(t) \/ HandlerReturn(t)
  \/ ScanAmf(t) \/ UseAmf(t) \/ ScanGnb(t) \/ UseGnb(t)

Request(t) ==
  \/ StartNew(t) \/ NoTarget(t)
  \/ \E id \in Ids : GetNgapSession(t, id)
  \/ \E m \in Amfs : StartScan(t, "scanAmf", m)
  \/ \E g \in Resets : StartScan(t, "scanGnb", g)

TimerStep(t) ==
  \/ \E c \in Timers : SessTimerFires(t, c)
  \/ \E a \in Sessions : ReleaseTimerFires(t, a)

Next == \E t \in Threads : ThreadStep(t) \/ Request(t) \/ TimerStep(t)

Spec == Init /\ [][Next]_vars

(***************************************************************************)
(* Threads go on with what they started and due timers are dispatched to   *)
(* some thread.                                                            *)
(***************************************************************************)
FairSpec ==
  /\ Spec
  /\ \A t \in Threads : WF_vars(ThreadStep(t))
  /\ \A c \in Timers : SF_vars(\E t \in Threads : SessTimerFires(t, c))
  /\ \A a \in Sessions : SF_vars(\E t \in Threads : ReleaseTimerFires(t, a))

-----------------------------------------------------------------------------
(* Properties. *)

\* Every variable has its type: in particular the cursor stays in the table.
TypeOK ==
  /\ m_currentSessId \in Ids
  /\ session_list \in [Ids -> Sessions \cup {NULL}]
  /\ timer_list \in [Ids -> Timers \cup {NULL}]
  /\ sess \in [Sessions -> Session]
  /\ ctx \in [Timers -> Context]
  /\ th \in [Threads -> Thread]

\* session_list: whatever the interleaving of handlers and timer callbacks, a
\* slot names a session that is still allocated and carries the slot's id, so a
\* lookup by id under m_mutex never yields a freed or a foreign session.
SessionListSound ==
  \A i \in Ids : session_list[i] # NULL =>
    /\ sess[session_list[i]].st = "live"
    /\ sess[session_list[i]].sessId = i

\* timer_list: a slot names a check timer that is still allocated, so that
\* stopSessTimer never writes to a context that handleSessTimeout deleted.
TimerListSound ==
  \A i \in Ids : timer_list[i] # NULL =>
    /\ ctx[timer_list[i]].st \in {"armed", "firing"}
    /\ ctx[timer_list[i]].sessId = i

\* RemoveNgapSess's release_timer_started: however many handlers and timers
\* remove a session, one release callback runs for it, so it is deleted once.
ReleasedOnce ==
  \A a \in Sessions :
    LET working == {t \in Threads : th[t].pc \in {"unlink", "delete"} /\ th[t].sess = a}
    IN /\ sess[a].releases + Cardinality(working) <= 1
       /\ sess[a].releases = 1 => sess[a].st = "live"
       /\ sess[a].releases = 1 \/ working # {} => sess[a].st \in {"live", "unlinked"}

\* "session id is globally unique" (NgapSessManager.cc, NewNgapSessionId): no two
\* sessions in service have one id.
SessionIdUnique ==
  \A a, b \in Sessions :
    sess[a].st = "live" /\ sess[b].st = "live" /\ sess[a].sessId = sess[b].sessId => a = b

\* AddNgapSess / SafeRemoveNgapSess: a session in service is found under its id.
SessionFindable ==
  \A a \in Sessions : sess[a].st = "live" => session_list[sess[a].sessId] = a

\* handleSessTimeout: a check timer that is about to remove session id finds
\* there the session it was started for, or none, and never a later one that
\* was given the same id.
TimeoutHitsOwnSession ==
  \A t \in Threads : th[t].pc = "timeout" /\ th[t].id \in Ids =>
    session_list[th[t].id] \in {NULL, ctx[th[t].ctx].for}

\* RemoveNgapSess's "delay release session": a thread that looked a session up
\* before its release began finds it allocated to the end of its work.
HeldSessionAlive ==
  \A t \in Threads : th[t].pc \in Holding /\ th[t].late = 0 => sess[th[t].sess].st # "deleted"

\* A thread is lost in DeleteAllGnbSession.
Spinning == \E t \in Threads : th[t].pc = "spin"

\* NewNgapSession's check: a session from a gNB does not stay half set up for
\* ever: its check is stopped, or the check timer, the release it starts and the
\* release's own timer end with the session deleted.
CheckedOrReleased ==
  \A a \in Sessions :
    (sess[a].st = "live" /\ sess[a].check = "on") ~>
      (sess[a].check = "off" \/ sess[a].st = "deleted" \/ Spinning)

\* "clear all the ngap sess and pdu sess" (EpmManager.cc, GNB_Reset): dropping a
\* gNB's sessions comes to an end.
GnbResetFinishes ==
  \A t \in Threads : th[t].pc = "scanGnb" ~> th[t].pc = "idle"

===============================================================================
