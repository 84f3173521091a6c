---------------------------- MODULE NgapSessProofs ----------------------------
(***************************************************************************)
(* Theorems about the NGAP session table, for any number of threads and    *)
(* any table size.                                                         *)
(***************************************************************************)
EXTENDS NgapSess, FiniteSetTheorems, TLAPS

Indexing == {"add", "timer", "handler", "scanAmf", "useAmf", "scanGnb", "useGnb"}
Removing == {"unlink", "delete"}
Expiring == {"timeout", "stop"}

-----------------------------------------------------------------------------
(***************************************************************************)
(* The inductive invariant.                                                *)
(***************************************************************************)

\* A thread that reads a table through its id has an id of the table.
IndexInv == \A t \in Threads : th[t].pc \in Indexing => th[t].id \in Ids

\* A session has at most one release callback, pending (releases) or running (a
\* thread in Removing).
ReleaseInv ==
  /\ \A a \in Sessions :
       /\ sess[a].releases \in {0, 1}
       /\ sess[a].releases = 1 => sess[a].st = "live" /\ sess[a].release_timer_started = 1
  /\ \A t \in Threads : th[t].pc \in Removing =>
       /\ th[t].sess \in Sessions
       /\ sess[th[t].sess].releases = 0
       /\ sess[th[t].sess].release_timer_started = 1
       /\ th[t].pc = "unlink" => /\ sess[th[t].sess].st = "live"
                                 /\ sess[th[t].sess].sessId = th[t].id
       /\ th[t].pc = "delete" => sess[th[t].sess].st = "unlinked"
  /\ \A t, u \in Threads :
       th[t].pc \in Removing /\ th[u].pc \in Removing /\ th[t].sess = th[u].sess => t = u

\* A check timer that fires has one thread, and still carries the id that thread
\* read, or none.
TimerInv ==
  /\ \A t \in Threads : th[t].pc \in Expiring =>
       /\ th[t].ctx \in Timers
       /\ ctx[th[t].ctx].st = "firing"
       /\ ctx[th[t].ctx].sessId \in {th[t].id, INVALIDE_ID}
  /\ \A t, u \in Threads :
       th[t].pc \in Expiring /\ th[u].pc \in Expiring /\ th[t].ctx = th[u].ctx => t = u

TableInv == SessionListSound /\ TimerListSound /\ ReleaseInv /\ TimerInv

\* What an allocation that has claimed an id may rely on until it enters its
\* session: nobody else uses the id.
ClaimInv ==
  \A t \in Threads : th[t].pc = "add" =>
    /\ th[t].id \in Ids
    /\ session_list[th[t].id] = NULL
    /\ \A u \in Threads \ {t} : th[u].pc \in Working => th[u].id # th[t].id
    /\ \A c \in Timers : ctx[c].st \in {"armed", "firing"} => ctx[c].sessId # th[t].id

\* A live session is found under its id.
FindInv ==
  \A a \in Sessions : sess[a].st = "live" =>
    sess[a].sessId \in Ids /\ session_list[sess[a].sessId] = a

\* A check timer, from startSessTimer to stopSessTimer, has an id under which no
\* other session than its own is found.
OwnInv ==
  /\ \A t \in Threads : th[t].pc = "timer" =>
       /\ th[t].id \in Ids
       /\ th[t].sess \in Sessions
       /\ session_list[th[t].id] \in {NULL, th[t].sess}
  /\ \A c \in Timers : ctx[c].st \in {"armed", "firing"} /\ ctx[c].sessId \in Ids =>
       session_list[ctx[c].sessId] \in {NULL, ctx[c].for}
  /\ \A t \in Threads : th[t].pc \in Expiring /\ th[t].id \in Ids =>
       session_list[th[t].id] \in {NULL, ctx[th[t].ctx].for}

\* A session looked up before its release began is live and not being removed.
HeldInv ==
  \A t \in Threads : th[t].pc \in Holding /\ th[t].late = 0 =>
    /\ th[t].sess \in Sessions
    /\ sess[th[t].sess].st = "live"
    /\ \A u \in Threads : th[u].pc \in Removing => th[u].sess # th[t].sess

TimelyInv == ClaimInv /\ FindInv /\ OwnInv /\ HeldInv

-----------------------------------------------------------------------------
(* Type correctness. *)

\* An idle thread is a thread. Records updated one field at a time keep their type:
LEMMA IdleType == Idle \in Thread
BY DEF Idle, Thread, PCs, Flag

\* A thread that goes on to another point of its handler.
LEMMA ThreadPc ==
  ASSUME NEW r \in Thread, NEW p \in PCs
  PROVE  [r EXCEPT !.pc = p] \in Thread
BY DEF Thread

\* A thread that goes on with another id.
LEMMA ThreadAt ==
  ASSUME NEW r \in Thread, NEW p \in PCs, NEW i \in Ids \cup {INVALIDE_ID}
  PROVE  [r EXCEPT !.pc = p, !.id = i] \in Thread
BY DEF Thread

\* A session that is unlinked or deleted.
LEMMA SessionSt ==
  ASSUME NEW r \in Session, NEW x \in {"unlinked", "deleted"}
  PROVE  [r EXCEPT !.st = x] \in Session
BY DEF Session

\* A session whose release is started, or counted.
LEMMA SessionReleases ==
  ASSUME NEW r \in Session, NEW n \in Nat
  PROVE  /\ [r EXCEPT !.releases = n] \in Session
         /\ [r EXCEPT !.release_timer_started = 1, !.releases = n] \in Session
BY DEF Session, Flag

\* A timer whose session is dropped, that fires, or that is deleted.
LEMMA ContextUpdate ==
  ASSUME NEW r \in Context
  PROVE  /\ [r EXCEPT !.sessId = INVALIDE_ID] \in Context
         /\ [r EXCEPT !.st = "firing"] \in Context
         /\ [r EXCEPT !.st = "deleted"] \in Context
BY DEF Context

\* The initial tables are well typed.
LEMMA InitType == Init => TypeOK
<1>1. NoSession \in Session
      BY DEF NoSession, Session, Flag
<1>2. NoContext \in Context
      BY DEF NoContext, Context
<1>3. 0 \in Ids
      BY NgapSessAssumption DEF Ids
<1> QED
    BY <1>1, <1>2, <1>3, IdleType DEF Init, TypeOK

\* RemoveNgapSess keeps the heap well typed.
LEMMA RemovedType ==
  ASSUME TypeOK, NEW id \in Ids \cup {INVALIDE_ID}
  PROVE  Removed(id) \in [Sessions -> Session]
<1>1. \A a \in Sessions :
        [sess[a] EXCEPT !.release_timer_started = 1, !.releases = sess[a].releases + 1] \in Session
  <2> TAKE a \in Sessions
  <2>1. sess[a] \in Session /\ sess[a].releases + 1 \in Nat
        BY DEF TypeOK, Session
  <2> QED
      BY <2>1, SessionReleases
<1> QED
    BY <1>1 DEF TypeOK, Removed

\* A scan that moves on leaves a well-typed thread.
LEMMA ScanNextType ==
  ASSUME TypeOK, NEW t \in Threads
  PROVE  ScanNext(t) \in Thread
<1>1. th[t].id + 1 # MAX_NGAP_SESSIONS => th[t].id + 1 \in Ids
  <2>1. PICK i \in Ids \cup {INVALIDE_ID} : th[t].id = i
        BY DEF TypeOK, Thread
  <2>2. i + 1 # MAX_NGAP_SESSIONS => i + 1 \in Ids
        BY NgapSessAssumption DEF Ids, INVALIDE_ID
  <2> QED
      BY <2>1, <2>2
<1>2. ASSUME NEW p \in PCs, th[t].id + 1 \in Ids
      PROVE  [th[t] EXCEPT !.pc = p, !.id = th[t].id + 1, !.sess = NULL, !.late = 0] \in Thread
  <2>1. th[t] \in Thread
        BY DEF TypeOK
  <2>i. PICK i \in Ids : i = th[t].id + 1
        BY <1>2
  <2>2. [th[t] EXCEPT !.pc = p, !.id = i, !.sess = NULL, !.late = 0] \in Thread
        BY <1>2, <2>1 DEF Thread, Flag
  <2> QED
      BY <2>i, <2>2
<1> QED
    BY <1>1, <1>2, IdleType DEF ScanNext, PCs

\* A thread that has looked a slot up is well typed.
LEMMA HoldType ==
  ASSUME TypeOK, NEW t \in Threads, NEW id \in Ids, NEW a \in Sessions, NEW kind \in Holding
  PROVE  Hold(t, kind, id, a) \in Thread
<1>1. sess[a].release_timer_started \in Flag
      BY DEF TypeOK, Session
<1>2. kind \in PCs
      BY DEF Holding, PCs
<1> QED
    BY <1>1, <1>2 DEF Hold, Thread, TypeOK

\* Every step of every handler and timer callback keeps the tables well typed.
LEMMA NextType == TypeOK /\ IndexInv /\ [Next]_vars => TypeOK'
<1> SUFFICES ASSUME TypeOK, IndexInv, [Next]_vars PROVE TypeOK'
    OBVIOUS
<1>1. CASE UNCHANGED vars
      BY <1>1 DEF TypeOK, vars
<1>2. CASE Next
  <2> PICK t \in Threads : ThreadStep(t) \/ Request(t) \/ TimerStep(t)
      BY <1>2 DEF Next
  <2>t. th[t] \in Thread /\ th[t].id \in Ids \cup {INVALIDE_ID}
        BY DEF TypeOK, Thread
  <2>s. \A a \in Sessions : sess[a] \in Session
        BY DEF TypeOK
  <2>c. \A c \in Timers : ctx[c] \in Context
        BY DEF TypeOK
  <2>1. CASE Claim(t)
    <3>1. NextId(m_currentSessId) \in Ids
          BY NgapSessAssumption DEF TypeOK, NextId, Ids
    <3>2. [Idle EXCEPT !.pc = "add", !.id = NextId(m_currentSessId)] \in Thread
          BY <3>1, IdleType, ThreadAt DEF PCs
    <3>3. [th[t] EXCEPT !.n = th[t].n + 1] \in Thread
          BY <2>t DEF Thread
    <3> DEFINE r == IF session_list[NextId(m_currentSessId)] = NULL
                    THEN [Idle EXCEPT !.pc = "add", !.id = NextId(m_currentSessId)]
                    ELSE IF th[t].n + 1 >= MAX_NGAP_SESSIONS THEN Idle
                    ELSE [th[t] EXCEPT !.n = th[t].n + 1]
    <3>4. r \in Thread
          BY <3>2, <3>3, IdleType
    <3>5. th' = [th EXCEPT ![t] = r]
          BY <2>1 DEF Claim
    <3> HIDE DEF r
    <3> QED
        BY <2>1, <3>1, <3>4, <3>5 DEF Claim, TypeOK
  <2>2. ASSUME NEW a \in Sessions, NEW g \in Gnbs, NEW m \in Amfs, NEW k \in {"none", "on"},
               AddNgapSess(t, a, g, m, k)
        PROVE  TypeOK'
    <3>1. [NoSession EXCEPT !.st = "live", !.sessId = th[t].id, !.gnb = g, !.amf = m,
                            !.check = k] \in Session
          BY <2>t DEF NoSession, Session, Flag
    <3>2. [th[t] EXCEPT !.pc = "timer", !.sess = a] \in Thread
          BY <2>t DEF Thread, PCs
    <3> QED
        BY <2>2, <3>1, <3>2, IdleType DEF AddNgapSess, TypeOK
  <2>3. ASSUME NEW c \in Timers, StartSessTimer(t, c)
        PROVE  TypeOK'
    <3>1. [st |-> "armed", sessId |-> th[t].id, for |-> th[t].sess] \in Context
          BY <2>t DEF Context, Thread
    <3> QED
        BY <2>3, <3>1, IdleType DEF StartSessTimer, TypeOK
  <2>4. CASE TimeoutRemove(t)
    <3>1. [th[t] EXCEPT !.pc = "stop"] \in Thread
          BY <2>t, ThreadPc DEF PCs
    <3> QED
        BY <2>4, <2>t, <3>1, RemovedType DEF TimeoutRemove, TypeOK
  <2>5. CASE TimeoutStop(t)
    <3> DEFINE id == th[t].id
               old == IF id \in Ids /\ timer_list[id] # NULL
                      THEN [ctx EXCEPT ![timer_list[id]].sessId = INVALIDE_ID] ELSE ctx
    <3>1. old \in [Timers -> Context]
          BY <2>c, ContextUpdate DEF TypeOK
    <3>2. [old EXCEPT ![th[t].ctx].st = "deleted"] \in [Timers -> Context]
      <4> HIDE DEF old
      <4>1. \A c \in Timers : [old[c] EXCEPT !.st = "deleted"] \in Context
            BY <3>1, ContextUpdate
      <4> QED
          BY <3>1, <4>1
    <3> QED
        BY <2>5, <3>2, IdleType DEF TimeoutStop, TypeOK
  <2>6. CASE SafeRemoveNgapSess(t)
    <3>1. \A a \in Sessions : [sess[a] EXCEPT !.st = "unlinked"] \in Session
          BY <2>s, SessionSt
    <3>2. [th[t] EXCEPT !.pc = "delete"] \in Thread
          BY <2>t, ThreadPc DEF PCs
    <3> QED
        BY <2>6, <3>1, <3>2 DEF SafeRemoveNgapSess, TypeOK
  <2>7. CASE DeleteSess(t)
    <3>1. \A a \in Sessions : [sess[a] EXCEPT !.st = "deleted"] \in Session
          BY <2>s, SessionSt
    <3> QED
        BY <2>7, <3>1, IdleType DEF DeleteSess, TypeOK
  <2>8. CASE DeleteNgapSession(t)
        BY <2>8, <2>t, RemovedType, IdleType DEF DeleteNgapSession, TypeOK
  <2>9. CASE StopNgapSessCheck(t)
    <3>1. \A a \in Sessions : [sess[a] EXCEPT !.check = "off"] \in Session
          BY <2>s DEF Session
    <3>3. \A c \in Timers : [ctx[c] EXCEPT !.sessId = INVALIDE_ID] \in Context
          BY <2>c, ContextUpdate
    <3>2. ctx' \in [Timers -> Context] /\ timer_list' \in [Ids -> Timers \cup {NULL}]
          BY <2>9, <3>3 DEF StopNgapSessCheck, StopSessTimer, TypeOK
    <3> QED
        BY <2>9, <3>1, <3>2, IdleType DEF StopNgapSessCheck, TypeOK
  <2>10. CASE HandlerReturn(t)
        BY <2>10, IdleType DEF HandlerReturn, TypeOK
  <2>11. CASE ScanAmf(t)
    <3>1. th[t].id \in Ids
          BY <2>11 DEF ScanAmf, IndexInv, Indexing
    <3>2. session_list[th[t].id] # NULL =>
            Hold(t, "useAmf", th[t].id, session_list[th[t].id]) \in Thread
          BY <3>1, HoldType DEF Holding, TypeOK
    <3> QED
        BY <2>11, <3>2, ScanNextType DEF ScanAmf, TypeOK
  <2>12. CASE UseAmf(t)
        BY <2>12, <2>t, ScanNextType, RemovedType DEF UseAmf, TypeOK
  <2>13. CASE ScanGnb(t)
    <3>1. th[t].id \in Ids
          BY <2>13 DEF ScanGnb, IndexInv, Indexing
    <3>2. session_list[th[t].id] # NULL =>
            Hold(t, "useGnb", th[t].id, session_list[th[t].id]) \in Thread
          BY <3>1, HoldType DEF Holding, TypeOK
    <3> QED
        BY <2>13, <3>2, ScanNextType DEF ScanGnb, TypeOK
  <2>14. CASE UseGnb(t)
    <3>1. [th[t] EXCEPT !.pc = "spin"] \in Thread
          BY <2>t, ThreadPc DEF PCs
    <3> QED
        BY <2>14, <3>1, ScanNextType DEF UseGnb, TypeOK
  <2>15. CASE StartNew(t)
    <3>1. [th[t] EXCEPT !.pc = "claim", !.n = 0] \in Thread
          BY <2>t DEF Thread, PCs
    <3> QED
        BY <2>15, <3>1 DEF StartNew, TypeOK
  <2>16. CASE NoTarget(t)
        BY <2>16, IdleType DEF NoTarget, TypeOK
  <2>17. ASSUME NEW id \in Ids, GetNgapSession(t, id)
         PROVE  TypeOK'
    <3>1. Hold(t, "handler", id, session_list[id]) \in Thread
          BY <2>17, HoldType DEF GetNgapSession, Holding, TypeOK
    <3> QED
        BY <2>17, <3>1 DEF GetNgapSession, TypeOK
  <2>18. ASSUME NEW peer \in Gnbs \cup Amfs, NEW kind \in {"scanAmf", "scanGnb"},
                StartScan(t, kind, peer)
         PROVE  TypeOK'
    <3>0. 0 \in Ids
          BY NgapSessAssumption DEF Ids
    <3>1. [Idle EXCEPT !.pc = kind, !.id = 0, !.peer = peer] \in Thread
          BY <3>0 DEF Thread, Idle, PCs, Flag
    <3> QED
        BY <2>18, <3>1 DEF StartScan, TypeOK
  <2>19. ASSUME NEW c \in Timers, SessTimerFires(t, c)
         PROVE  TypeOK'
    <3>1. [Idle EXCEPT !.pc = "timeout", !.ctx = c, !.id = ctx[c].sessId] \in Thread
          BY <2>c DEF Context, Thread, Idle, PCs, Flag
    <3> QED
        BY <2>19, <2>c, <3>1, ContextUpdate DEF SessTimerFires, TypeOK
  <2>20. ASSUME NEW a \in Sessions, ReleaseTimerFires(t, a)
         PROVE  TypeOK'
    <3>1. [Idle EXCEPT !.pc = "unlink", !.sess = a, !.id = sess[a].sessId] \in Thread
          BY <2>s DEF Session, Thread, Idle, PCs, Flag
    <3>2. [sess[a] EXCEPT !.releases = sess[a].releases - 1] \in Session
          BY <2>20, <2>s DEF ReleaseTimerFires, Session
    <3> QED
        BY <2>20, <3>1, <3>2 DEF ReleaseTimerFires, TypeOK
  <2> QED
      BY NgapSessAssumption, <2>1, <2>2, <2>3, <2>4, <2>5, <2>6, <2>7, <2>8, <2>9, <2>10,
         <2>11, <2>12, <2>13, <2>14, <2>15, <2>16, <2>17, <2>18, <2>19, <2>20
         DEF ThreadStep, Request, TimerStep
<1> QED
    BY <1>1, <1>2

\* A step of one thread leaves the others where they are.
LEMMA OtherThreads ==
  ASSUME TypeOK, NEW t \in Threads, ThreadStep(t) \/ Request(t) \/ TimerStep(t)
  PROVE  \A u \in Threads \ {t} : th'[u] = th[u]
BY DEF TypeOK, ThreadStep, Request, TimerStep, Claim, AddNgapSess, StartSessTimer,
   TimeoutRemove, TimeoutStop, SafeRemoveNgapSess, DeleteSess, DeleteNgapSession,
   StopNgapSessCheck, HandlerReturn, ScanAmf, UseAmf, ScanGnb, UseGnb, StartNew, NoTarget,
   GetNgapSession, StartScan, SessTimerFires, ReleaseTimerFires

\* The steps that end what a thread was doing.
LEMMA ToIdle ==
  ASSUME TypeOK, NEW t \in Threads,
         \/ DeleteSess(t) \/ DeleteNgapSession(t) \/ StopNgapSessCheck(t) \/ HandlerReturn(t)
         \/ NoTarget(t) \/ TimeoutStop(t) \/ \E c \in Timers : StartSessTimer(t, c)
  PROVE  th'[t] = Idle
BY DEF DeleteSess, DeleteNgapSession, StopNgapSessCheck, HandlerReturn, NoTarget,
   TimeoutStop, StartSessTimer, TypeOK

\* No scan leaves the table.
LEMMA ScanNextIndex ==
  ASSUME TypeOK, NEW t \in Threads
  PROVE  /\ ScanNext(t).pc \in {"idle", "scanAmf", "scanGnb"}
         /\ ScanNext(t).pc # "idle" => ScanNext(t).id \in Ids
<1>1. th[t] \in Thread
      BY DEF TypeOK
<1>2. th[t].id + 1 # MAX_NGAP_SESSIONS => th[t].id + 1 \in Ids
  <2>1. PICK i \in Ids \cup {INVALIDE_ID} : th[t].id = i
        BY DEF TypeOK, Thread
  <2>2. i + 1 # MAX_NGAP_SESSIONS => i + 1 \in Ids
        BY NgapSessAssumption DEF Ids, INVALIDE_ID
  <2> QED
      BY <2>1, <2>2
<1> QED
    BY <1>1, <1>2 DEF ScanNext, Idle, Thread

\* No step leaves a thread with an id beyond the table that it will index.
LEMMA NextIndex == TypeOK /\ IndexInv /\ [Next]_vars => IndexInv'
<1> SUFFICES ASSUME TypeOK, IndexInv, [Next]_vars PROVE IndexInv'
    OBVIOUS
<1>1. CASE UNCHANGED vars
      BY <1>1 DEF IndexInv, vars
<1>2. CASE Next
  <2> PICK t \in Threads : ThreadStep(t) \/ Request(t) \/ TimerStep(t)
      BY <1>2 DEF Next
  <2>t. th[t] \in Thread
        BY DEF TypeOK
  <2>f. \A u \in Threads \ {t} : th'[u] = th[u]
        BY OtherThreads
  <2> SUFFICES ASSUME th'[t].pc \in Indexing
               PROVE  th'[t].id \in Ids
      BY <2>f DEF IndexInv
  <2>1. CASE Claim(t)
    <3>1. NextId(m_currentSessId) \in Ids
          BY NgapSessAssumption DEF TypeOK, NextId, Ids
    <3> QED
        BY <2>1, <2>t, <3>1 DEF Claim, TypeOK, Thread, Idle, Indexing
  <2>2. ASSUME NEW a \in Sessions, NEW g \in Gnbs, NEW m \in Amfs, NEW k \in {"none", "on"},
               AddNgapSess(t, a, g, m, k)
        PROVE  th'[t].id \in Ids
        BY <2>2, <2>t DEF AddNgapSess, TypeOK, IndexInv, Thread, Idle, Indexing
  <2>3. CASE th'[t] = Idle
        BY <2>3 DEF Idle, Indexing
  <2>4. CASE TimeoutRemove(t) \/ SafeRemoveNgapSess(t) \/ StartNew(t)
        BY <2>4, <2>t DEF TimeoutRemove, SafeRemoveNgapSess, StartNew, TypeOK, Thread, Indexing
  <2>5. CASE ScanAmf(t) \/ UseAmf(t) \/ ScanGnb(t) \/ UseGnb(t)
    <3>1. th[t].id \in Ids
          BY <2>5 DEF ScanAmf, UseAmf, ScanGnb, UseGnb, IndexInv, Indexing
    <3>2. CASE th'[t] = ScanNext(t)
          BY <3>2, ScanNextIndex DEF Indexing
    <3>3. ASSUME NEW k, NEW a, th'[t] = Hold(t, k, th[t].id, a)
          PROVE  th'[t].id \in Ids
          BY <2>t, <3>1, <3>3 DEF Hold, Thread
    <3>4. CASE th'[t] = [th[t] EXCEPT !.pc = "spin"]
          BY <2>t, <3>4 DEF Thread, Indexing
    <3> QED
        BY <2>5, <3>2, <3>3, <3>4 DEF ScanAmf, UseAmf, ScanGnb, UseGnb, TypeOK
  <2>6. ASSUME NEW id \in Ids, GetNgapSession(t, id)
        PROVE  th'[t].id \in Ids
        BY <2>6, <2>t DEF GetNgapSession, Hold, TypeOK, Thread
  <2>7. ASSUME NEW peer, NEW kind, StartScan(t, kind, peer)
        PROVE  th'[t].id \in Ids
        BY <2>7, NgapSessAssumption DEF StartScan, TypeOK, Idle, Ids
  <2>8. ASSUME NEW c \in Timers, SessTimerFires(t, c)
        PROVE  FALSE
        BY <2>8 DEF SessTimerFires, TypeOK, Idle, Indexing
  <2>9. ASSUME NEW a \in Sessions, ReleaseTimerFires(t, a)
        PROVE  FALSE
        BY <2>9 DEF ReleaseTimerFires, TypeOK, Idle, Indexing
  <2> QED
      BY <2>1, <2>2, <2>3, <2>4, <2>5, <2>6, <2>7, <2>8, <2>9, ToIdle
         DEF ThreadStep, Request, TimerStep
<1> QED
    BY <1>1, <1>2

\* Type correctness of the session tables, for every number of threads and every
\* table size.
THEOREM TypeCorrect == Spec => []TypeOK
<1>1. Init => IndexInv
      BY DEF Init, IndexInv, Idle, Indexing
<1> QED
    BY <1>1, InitType, NextType, NextIndex, PTL DEF Spec

-----------------------------------------------------------------------------
(***************************************************************************)
(* The tables.  Most steps leave the timers alone and, at most, mark a     *)
(* session for release.                                                    *)
(***************************************************************************)
\* Session a of the next state is a, or a with its one release timer started.
Marked(a) ==
  /\ sess'[a].st = sess[a].st
  /\ sess'[a].sessId = sess[a].sessId
  /\ \/ /\ sess'[a].releases = sess[a].releases
        /\ sess'[a].release_timer_started = sess[a].release_timer_started
     \/ /\ sess[a].release_timer_started = 0
        /\ sess[a].st = "live"
        /\ sess'[a].releases = sess[a].releases + 1
        /\ sess'[a].release_timer_started = 1

\* RemoveNgapSess marks at most the session in the slot.
LEMMA RemovedMarks ==
  ASSUME TypeOK, SessionListSound, NEW id \in Ids \cup {INVALIDE_ID}, sess' = Removed(id)
  PROVE  \A a \in Sessions : Marked(a)
<1> TAKE a \in Sessions
<1>1. sess[a] \in Session
      BY DEF TypeOK
<1>2. CASE sess' = sess
      BY <1>2 DEF Marked
<1>3. CASE sess' # sess
  <2>1. /\ id \in Ids /\ session_list[id] # NULL
        /\ sess[session_list[id]].release_timer_started # 1
        /\ sess' = [sess EXCEPT ![session_list[id]].release_timer_started = 1,
                                ![session_list[id]].releases = @ + 1]
        BY <1>3 DEF Removed
  <2>2. CASE a # session_list[id]
        BY <2>1, <2>2 DEF Marked, TypeOK
  <2>3. CASE a = session_list[id]
    <3>1. sess'[a] = [sess[a] EXCEPT !.release_timer_started = 1, !.releases = sess[a].releases + 1]
          BY <2>1, <2>3, <1>1 DEF TypeOK, Session
    <3>2. sess[a].st = "live" /\ sess[a].release_timer_started = 0
          BY <2>1, <2>3, <1>1 DEF SessionListSound, Session, Flag
    <3> QED
        BY <1>1, <3>1, <3>2 DEF Marked, Session
  <2> QED
      BY <2>2, <2>3
<1> QED
    BY <1>2, <1>3

\* Where a thread may be after a step: it starts to remove a session, or to
\* handle a check timer, in one way each.
LEMMA PcAfter ==
  ASSUME TypeOK, IndexInv, NEW t \in Threads, ThreadStep(t) \/ Request(t) \/ TimerStep(t)
  PROVE  /\ th'[t].pc \in Removing =>
              SafeRemoveNgapSess(t) \/ \E a \in Sessions : ReleaseTimerFires(t, a)
         /\ th'[t].pc \in Expiring =>
              TimeoutRemove(t) \/ \E c \in Timers : SessTimerFires(t, c)
<1>t. th[t] \in Thread
      BY DEF TypeOK
<1>1. CASE Claim(t)
      BY <1>1, <1>t DEF Claim, TypeOK, Thread, Idle, Removing, Expiring
<1>2. ASSUME NEW a \in Sessions, NEW g \in Gnbs, NEW m \in Amfs, NEW k \in {"none", "on"},
             AddNgapSess(t, a, g, m, k)
      PROVE  th'[t].pc \notin Removing \cup Expiring
      BY <1>2, <1>t DEF AddNgapSess, TypeOK, Thread, Idle, Removing, Expiring
<1>3. CASE th'[t] = Idle
      BY <1>3 DEF Idle, Removing, Expiring
<1>4. CASE TimeoutRemove(t)
      BY <1>4, <1>t DEF TimeoutRemove, TypeOK, Thread, Removing
<1>5. CASE SafeRemoveNgapSess(t)
      BY <1>5, <1>t DEF SafeRemoveNgapSess, TypeOK, Thread, Expiring
<1>6. CASE StartNew(t)
      BY <1>6, <1>t DEF StartNew, TypeOK, Thread, Removing, Expiring
<1>7. CASE ScanAmf(t) \/ UseAmf(t) \/ ScanGnb(t) \/ UseGnb(t)
  <2>1. CASE th'[t] = ScanNext(t)
        BY <2>1, ScanNextIndex DEF Removing, Expiring
  <2>2. ASSUME NEW k \in Holding, NEW a, th'[t] = Hold(t, k, th[t].id, a)
        PROVE  th'[t].pc \notin Removing \cup Expiring
        BY <1>t, <2>2 DEF Hold, Thread, Holding, Removing, Expiring
  <2>3. CASE th'[t] = [th[t] EXCEPT !.pc = "spin"]
        BY <1>t, <2>3 DEF Thread, Removing, Expiring
  <2> QED
      BY <1>7, <2>1, <2>2, <2>3 DEF ScanAmf, UseAmf, ScanGnb, UseGnb, TypeOK, Holding
<1>8. ASSUME NEW id \in Ids, GetNgapSession(t, id)
      PROVE  th'[t].pc \notin Removing \cup Expiring
      BY <1>8, <1>t DEF GetNgapSession, Hold, TypeOK, Thread, Removing, Expiring
<1>9. ASSUME NEW peer, NEW kind \in {"scanAmf", "scanGnb"}, StartScan(t, kind, peer)
      PROVE  th'[t].pc \notin Removing \cup Expiring
      BY <1>9 DEF StartScan, TypeOK, Idle, Removing, Expiring
<1>10. ASSUME NEW c \in Timers, SessTimerFires(t, c)
       PROVE  th'[t].pc \notin Removing
      BY <1>10 DEF SessTimerFires, TypeOK, Idle, Removing
<1>11. ASSUME NEW a \in Sessions, ReleaseTimerFires(t, a)
       PROVE  th'[t].pc \notin Expiring
      BY <1>11 DEF ReleaseTimerFires, TypeOK, Idle, Expiring
<1> QED
    BY <1>1, <1>2, <1>3, <1>4, <1>5, <1>6, <1>7, <1>8, <1>9, <1>10, <1>11, ToIdle
       DEF ThreadStep, Request, TimerStep

\* No step breaks session_list or starts a second release of a session.
LEMMA NextRelease ==
  TypeOK /\ IndexInv /\ TableInv /\ [Next]_vars => SessionListSound' /\ ReleaseInv'
<1> SUFFICES ASSUME TypeOK, IndexInv, TableInv, [Next]_vars
             PROVE  SessionListSound' /\ ReleaseInv'
    OBVIOUS
<1>i. SessionListSound /\ ReleaseInv
      BY DEF TableInv
<1>1. CASE UNCHANGED vars
      BY <1>1, <1>i DEF SessionListSound, ReleaseInv, vars
<1>2. CASE Next
  <2> PICK t \in Threads : ThreadStep(t) \/ Request(t) \/ TimerStep(t)
      BY <1>2 DEF Next
  <2>t. th[t] \in Thread /\ th[t].id \in Ids \cup {INVALIDE_ID}
        BY DEF TypeOK, Thread
  <2>f. \A u \in Threads \ {t} : th'[u] = th[u]
        BY OtherThreads
  <2>s. \A a \in Sessions : sess[a] \in Session
        BY DEF TypeOK
  <2>l. \A i \in Ids : session_list[i] # NULL => session_list[i] \in Sessions
        BY DEF TypeOK
  \* Steps that at most mark sessions for release.
  <2>1. ASSUME UNCHANGED session_list, th'[t].pc \notin Removing,
               \A a \in Sessions : Marked(a)
        PROVE  SessionListSound' /\ ReleaseInv'
    <3>1. SessionListSound'
          BY <2>1, <2>l, <1>i DEF SessionListSound, Marked
    <3>2. \A u \in Threads : th'[u].pc \in Removing => u # t /\ th'[u] = th[u] /\ th[u].pc \in Removing
          BY <2>1, <2>f
    <3>3. \A a \in Sessions :
            /\ sess'[a].releases \in {0, 1}
            /\ sess'[a].releases = 1 => sess'[a].st = "live" /\ sess'[a].release_timer_started = 1
          BY <2>1, <1>i DEF ReleaseInv, Marked
    <3>4. ASSUME NEW u \in Threads, th'[u].pc \in Removing
          PROVE  /\ th'[u].sess \in Sessions
                 /\ sess'[th'[u].sess].releases = 0
                 /\ sess'[th'[u].sess].release_timer_started = 1
                 /\ th'[u].pc = "unlink" => /\ sess'[th'[u].sess].st = "live"
                                            /\ sess'[th'[u].sess].sessId = th'[u].id
                 /\ th'[u].pc = "delete" => sess'[th'[u].sess].st = "unlinked"
          BY <3>2, <3>4, <2>1, <1>i DEF ReleaseInv, Marked
    <3> QED
        BY <3>1, <3>2, <3>3, <3>4, <1>i DEF ReleaseInv
  <2>2. ASSUME UNCHANGED <<session_list, sess>>, th'[t].pc \notin Removing
        PROVE  SessionListSound' /\ ReleaseInv'
        BY <2>1, <2>2 DEF Marked
  <2>3. ASSUME NEW a \in Sessions, NEW g \in Gnbs, NEW m \in Amfs, NEW k \in {"none", "on"},
               AddNgapSess(t, a, g, m, k)
        PROVE  SessionListSound' /\ ReleaseInv'
    <3>1. th[t].id \in Ids
          BY <2>3 DEF AddNgapSess, IndexInv, Indexing
    <3>2. /\ sess'[a].st = "live" /\ sess'[a].sessId = th[t].id
          /\ sess'[a].releases = 0
          /\ \A b \in Sessions \ {a} : sess'[b] = sess[b]
          BY <2>3 DEF AddNgapSess, TypeOK, NoSession
    <3>3. session_list' = [session_list EXCEPT ![th[t].id] = a]
          BY <2>3 DEF AddNgapSess
    <3>4. sess[a].st = "none"
          BY <2>3 DEF AddNgapSess
    <3>5. th'[t].pc \notin Removing
          BY <2>3, <2>t DEF AddNgapSess, TypeOK, Thread, Idle, Removing
    <3>6. SessionListSound'
          BY <3>1, <3>2, <3>3, <3>4, <2>l, <1>i DEF SessionListSound, TypeOK
    <3>7. \A u \in Threads : th'[u].pc \in Removing =>
            u # t /\ th'[u] = th[u] /\ th[u].pc \in Removing /\ th[u].sess # a
          BY <3>5, <3>4, <2>f, <1>i DEF ReleaseInv, Removing
    <3> QED
        BY <3>2, <3>6, <3>7, <1>i DEF ReleaseInv
  <2>4. CASE SafeRemoveNgapSess(t)
    <3> DEFINE a == th[t].sess
    <3>1. th[t].pc \in Removing /\ th[t].pc = "unlink"
          BY <2>4 DEF SafeRemoveNgapSess, Removing
    <3>2. /\ a \in Sessions /\ sess[a].releases = 0 /\ sess[a].release_timer_started = 1
          /\ sess[a].st = "live" /\ sess[a].sessId = th[t].id
          BY <3>1, <1>i DEF ReleaseInv
    <3>3. sess'[a] = [sess[a] EXCEPT !.st = "unlinked"]
          BY <2>4, <3>2 DEF SafeRemoveNgapSess, TypeOK
    <3>g. \A b \in Sessions \ {a} : sess'[b] = sess[b]
          BY <2>4, <3>2 DEF SafeRemoveNgapSess, TypeOK
    <3>4. /\ sess'[a].st = "unlinked" /\ sess'[a].releases = 0
          /\ sess'[a].release_timer_started = 1
          BY <3>2, <3>3, <2>s DEF Session
    <3>5. th'[t].pc = "delete" /\ th'[t].sess = a
          BY <2>4, <2>t DEF SafeRemoveNgapSess, TypeOK, Thread
    <3>6. session_list' = [session_list EXCEPT ![th[t].id] = NULL]
          BY <2>4 DEF SafeRemoveNgapSess
    <3> HIDE DEF a
    <3>7. SessionListSound'
          BY <3>2, <3>g, <3>6, <2>l, <1>i DEF SessionListSound, TypeOK
    <3>8. \A u \in Threads : u # t /\ th[u].pc \in Removing => th[u].sess # a
          BY <3>1, <1>i DEF ReleaseInv, a
    <3>9. \A u \in Threads : th'[u].pc \in Removing =>
            \/ u = t
            \/ u # t /\ th'[u] = th[u] /\ th[u].pc \in Removing /\ th[u].sess # a
          BY <3>8, <2>f
    <3>a. \A b \in Sessions :
            /\ sess'[b].releases \in {0, 1}
            /\ sess'[b].releases = 1 => sess'[b].st = "live" /\ sess'[b].release_timer_started = 1
          BY <3>2, <3>4, <3>g, <1>i DEF ReleaseInv
    <3>b. \A u \in Threads : th'[u].pc \in Removing =>
            /\ th'[u].sess \in Sessions
            /\ sess'[th'[u].sess].releases = 0
            /\ sess'[th'[u].sess].release_timer_started = 1
            /\ th'[u].pc = "unlink" => /\ sess'[th'[u].sess].st = "live"
                                       /\ sess'[th'[u].sess].sessId = th'[u].id
            /\ th'[u].pc = "delete" => sess'[th'[u].sess].st = "unlinked"
          BY <3>2, <3>4, <3>5, <3>9, <3>g, <1>i DEF ReleaseInv
    <3>c. \A u, v \in Threads :
            th'[u].pc \in Removing /\ th'[v].pc \in Removing /\ th'[u].sess = th'[v].sess => u = v
          BY <3>5, <3>9, <1>i DEF ReleaseInv
    <3> QED
        BY <3>a, <3>b, <3>c, <3>7 DEF ReleaseInv
  <2>5. CASE DeleteSess(t)
    <3> DEFINE a == th[t].sess
    <3>1. th[t].pc \in Removing /\ th[t].pc = "delete"
          BY <2>5 DEF DeleteSess, Removing
    <3>2. a \in Sessions /\ sess[a].releases = 0 /\ sess[a].st = "unlinked"
          BY <3>1, <1>i DEF ReleaseInv
    <3>3. sess'[a] = [sess[a] EXCEPT !.st = "deleted"]
          BY <2>5, <3>2 DEF DeleteSess, TypeOK
    <3>g. \A b \in Sessions \ {a} : sess'[b] = sess[b]
          BY <2>5, <3>2 DEF DeleteSess, TypeOK
    <3>4. sess'[a].releases = 0
          BY <3>2, <3>3, <2>s DEF Session
    <3>5. th'[t].pc \notin Removing
          BY <2>5, ToIdle DEF Idle, Removing
    <3>6. session_list' = session_list
          BY <2>5 DEF DeleteSess
    <3> HIDE DEF a
    <3>7. SessionListSound'
          BY <3>2, <3>g, <3>6, <2>l, <1>i DEF SessionListSound
    <3>8. \A u \in Threads : u # t /\ th[u].pc \in Removing => th[u].sess # a
          BY <3>1, <1>i DEF ReleaseInv, a
    <3>9. \A u \in Threads : th'[u].pc \in Removing =>
            u # t /\ th'[u] = th[u] /\ th[u].pc \in Removing /\ th[u].sess # a
          BY <3>5, <3>8, <2>f
    <3>a. \A b \in Sessions :
            /\ sess'[b].releases \in {0, 1}
            /\ sess'[b].releases = 1 => sess'[b].st = "live" /\ sess'[b].release_timer_started = 1
          BY <3>2, <3>4, <3>g, <1>i DEF ReleaseInv
    <3>b. \A u \in Threads : th'[u].pc \in Removing =>
            /\ th'[u].sess \in Sessions
            /\ sess'[th'[u].sess].releases = 0
            /\ sess'[th'[u].sess].release_timer_started = 1
            /\ th'[u].pc = "unlink" => /\ sess'[th'[u].sess].st = "live"
                                       /\ sess'[th'[u].sess].sessId = th'[u].id
            /\ th'[u].pc = "delete" => sess'[th'[u].sess].st = "unlinked"
          BY <3>9, <3>g, <1>i DEF ReleaseInv
    <3>c. \A u, v \in Threads :
            th'[u].pc \in Removing /\ th'[v].pc \in Removing /\ th'[u].sess = th'[v].sess => u = v
          BY <3>9, <1>i DEF ReleaseInv
    <3> QED
        BY <3>a, <3>b, <3>c, <3>7 DEF ReleaseInv
  <2>6. ASSUME NEW a \in Sessions, ReleaseTimerFires(t, a)
        PROVE  SessionListSound' /\ ReleaseInv'
    <3>1. sess[a].releases = 1 /\ sess[a].st = "live" /\ sess[a].release_timer_started = 1
          BY <2>6, <1>i DEF ReleaseTimerFires, ReleaseInv
    <3>2. sess'[a] = [sess[a] EXCEPT !.releases = sess[a].releases - 1]
          BY <2>6 DEF ReleaseTimerFires, TypeOK
    <3>g. \A b \in Sessions \ {a} : sess'[b] = sess[b]
          BY <2>6 DEF ReleaseTimerFires, TypeOK
    <3>3. /\ sess'[a].releases = 0 /\ sess'[a].st = "live"
          /\ sess'[a].release_timer_started = 1 /\ sess'[a].sessId = sess[a].sessId
          BY <3>1, <3>2, <2>s DEF Session
    <3>4. th'[t].pc = "unlink" /\ th'[t].sess = a /\ th'[t].id = sess[a].sessId
          BY <2>6 DEF ReleaseTimerFires, TypeOK, Idle
    <3>5. session_list' = session_list
          BY <2>6 DEF ReleaseTimerFires
    <3>6. SessionListSound'
          BY <3>g, <3>3, <3>5, <2>l, <1>i DEF SessionListSound
    <3>7. \A u \in Threads : th'[u].pc \in Removing =>
            \/ u = t
            \/ u # t /\ th'[u] = th[u] /\ th[u].pc \in Removing /\ th[u].sess # a
          BY <3>1, <2>f, <1>i DEF ReleaseInv
    <3>a. \A b \in Sessions :
            /\ sess'[b].releases \in {0, 1}
            /\ sess'[b].releases = 1 => sess'[b].st = "live" /\ sess'[b].release_timer_started = 1
          BY <3>3, <3>g, <1>i DEF ReleaseInv
    <3>b. \A u \in Threads : th'[u].pc \in Removing =>
            /\ th'[u].sess \in Sessions
            /\ sess'[th'[u].sess].releases = 0
            /\ sess'[th'[u].sess].release_timer_started = 1
            /\ th'[u].pc = "unlink" => /\ sess'[th'[u].sess].st = "live"
                                       /\ sess'[th'[u].sess].sessId = th'[u].id
            /\ th'[u].pc = "delete" => sess'[th'[u].sess].st = "unlinked"
          BY <3>3, <3>4, <3>7, <3>g, <1>i DEF ReleaseInv
    <3>c. \A u, v \in Threads :
            th'[u].pc \in Removing /\ th'[v].pc \in Removing /\ th'[u].sess = th'[v].sess => u = v
          BY <3>4, <3>7, <1>i DEF ReleaseInv
    <3> QED
        BY <3>a, <3>b, <3>c, <3>6 DEF ReleaseInv
  <2>7. CASE TimeoutRemove(t) \/ DeleteNgapSession(t) \/ UseAmf(t)
    <3>1. UNCHANGED session_list /\ (sess' = sess \/ sess' = Removed(th[t].id))
          BY <2>7 DEF TimeoutRemove, DeleteNgapSession, UseAmf
    <3>2. \A a \in Sessions : Marked(a)
          BY <3>1, <2>t, <1>i, RemovedMarks DEF Marked
    <3>3. th'[t].pc \notin Removing
          BY <2>7, <2>t, ToIdle, ScanNextIndex
             DEF TimeoutRemove, UseAmf, TypeOK, Thread, Idle, Removing
    <3> QED
        BY <3>1, <3>2, <3>3, <2>1
  <2>8. CASE StopNgapSessCheck(t)
    <3>1. \A a \in Sessions : Marked(a)
          BY <2>8, <2>s DEF StopNgapSessCheck, TypeOK, Session, Marked
    <3>2. UNCHANGED session_list
          BY <2>8 DEF StopNgapSessCheck
    <3>3. th'[t] = Idle
          BY <2>8, ToIdle
    <3>4. th'[t].pc \notin Removing
          BY <3>3 DEF Idle, Removing
    <3> QED
        BY <3>1, <3>2, <3>4, <2>1
  <2>9. CASE UNCHANGED <<session_list, sess>>
    <3>1. CASE th'[t].pc \notin Removing
          BY <2>2, <2>9, <3>1
    <3>2. CASE th'[t].pc \in Removing
          BY <2>4, <2>6, <3>2, PcAfter
    <3> QED
        BY <3>1, <3>2
  <2> QED
      BY <2>3, <2>4, <2>5, <2>6, <2>7, <2>8, <2>9
         DEF ThreadStep, Request, TimerStep, Claim, StartSessTimer, TimeoutStop,
             HandlerReturn, ScanAmf, ScanGnb, UseGnb, StartNew, NoTarget, GetNgapSession,
             StartScan, SessTimerFires
<1> QED
    BY <1>1, <1>2

\* No step breaks timer_list or gives a check timer a second thread.
LEMMA NextTimer ==
  TypeOK /\ IndexInv /\ TableInv /\ [Next]_vars => TimerListSound' /\ TimerInv'
<1> SUFFICES ASSUME TypeOK, IndexInv, TableInv, [Next]_vars
             PROVE  TimerListSound' /\ TimerInv'
    OBVIOUS
<1>i. TimerListSound /\ TimerInv
      BY DEF TableInv
<1>1. CASE UNCHANGED vars
      BY <1>1, <1>i DEF TimerListSound, TimerInv, vars
<1>2. CASE Next
  <2> PICK t \in Threads : ThreadStep(t) \/ Request(t) \/ TimerStep(t)
      BY <1>2 DEF Next
  <2>t. th[t] \in Thread /\ th[t].id \in Ids \cup {INVALIDE_ID}
        BY DEF TypeOK, Thread
  <2>f. \A u \in Threads \ {t} : th'[u] = th[u]
        BY OtherThreads
  <2>c. \A c \in Timers : ctx[c] \in Context
        BY DEF TypeOK
  <2>l. \A i \in Ids : timer_list[i] # NULL => timer_list[i] \in Timers
        BY DEF TypeOK
  <2>n. INVALIDE_ID \notin Ids
        BY NgapSessAssumption DEF INVALIDE_ID, Ids
  <2>1. ASSUME UNCHANGED <<timer_list, ctx>>, th'[t].pc \notin Expiring
        PROVE  TimerListSound' /\ TimerInv'
    <3>1. \A u \in Threads : th'[u].pc \in Expiring => th'[u] = th[u] /\ th[u].pc \in Expiring
          BY <2>1, <2>f
    <3>2. TimerListSound'
          BY <2>1, <1>i DEF TimerListSound
    <3> QED
        BY <2>1, <3>1, <3>2, <1>i DEF TimerInv
  <2>2. CASE TimeoutRemove(t)
    <3>1. /\ th'[t].ctx = th[t].ctx /\ th'[t].id = th[t].id
          /\ th[t].pc \in Expiring
          BY <2>2, <2>t DEF TimeoutRemove, TypeOK, Thread, Expiring
    <3>2. UNCHANGED <<timer_list, ctx>>
          BY <2>2 DEF TimeoutRemove
    <3>3. \A u \in Threads : th'[u].pc \in Expiring =>
            th'[u].ctx = th[u].ctx /\ th'[u].id = th[u].id /\ th[u].pc \in Expiring
          BY <3>1, <2>f
    <3>4. TimerListSound'
          BY <3>2, <1>i DEF TimerListSound
    <3> QED
        BY <3>2, <3>3, <3>4, <1>i DEF TimerInv
  <2>3. ASSUME NEW c \in Timers, SessTimerFires(t, c)
        PROVE  TimerListSound' /\ TimerInv'
    <3>1. ctx[c].st = "armed" /\ UNCHANGED timer_list
          BY <2>3 DEF SessTimerFires
    <3>2. ctx'[c].st = "firing" /\ ctx'[c].sessId = ctx[c].sessId
          BY <2>3, <2>c DEF SessTimerFires, TypeOK, Context
    <3>3. \A d \in Timers \ {c} : ctx'[d] = ctx[d]
          BY <2>3 DEF SessTimerFires, TypeOK
    <3>4. th'[t].pc \in Expiring /\ th'[t].ctx = c /\ th'[t].id = ctx[c].sessId
          BY <2>3 DEF SessTimerFires, TypeOK, Idle, Expiring
    <3>5. TimerListSound'
          BY <3>1, <3>2, <3>3, <2>l, <1>i DEF TimerListSound
    <3>6. \A u \in Threads \ {t} : th'[u].pc \in Expiring =>
            th'[u] = th[u] /\ th[u].pc \in Expiring /\ th[u].ctx \in Timers \ {c}
          BY <3>1, <2>f, <1>i DEF TimerInv
    <3> QED
        BY <3>2, <3>3, <3>4, <3>5, <3>6, <1>i DEF TimerInv
  <2>4. ASSUME NEW c \in Timers, StartSessTimer(t, c)
        PROVE  TimerListSound' /\ TimerInv'
    <3>1. ctx[c].st = "none" /\ th[t].id \in Ids
          BY <2>4 DEF StartSessTimer, IndexInv, Indexing
    <3>2. ctx'[c].st = "armed" /\ ctx'[c].sessId = th[t].id
          BY <2>4 DEF StartSessTimer, TypeOK
    <3>3. \A d \in Timers \ {c} : ctx'[d] = ctx[d]
          BY <2>4 DEF StartSessTimer, TypeOK
    <3>4. timer_list' = [timer_list EXCEPT ![th[t].id] = c]
          BY <2>4 DEF StartSessTimer
    <3>5. TimerListSound'
          BY <3>1, <3>2, <3>3, <3>4, <2>l, <1>i DEF TimerListSound, TypeOK
    <3>6. th'[t].pc \notin Expiring
          BY <2>4, ToIdle DEF Idle, Expiring
    <3>7. \A u \in Threads : th'[u].pc \in Expiring =>
            th'[u] = th[u] /\ th[u].pc \in Expiring /\ th[u].ctx \in Timers \ {c}
          BY <3>1, <3>6, <2>f, <1>i DEF TimerInv
    <3> QED
        BY <3>3, <3>5, <3>7, <1>i DEF TimerInv
  <2>5. CASE TimeoutStop(t)
    <3> DEFINE id == th[t].id
               c == th[t].ctx
               old == IF id \in Ids /\ timer_list[id] # NULL
                      THEN [ctx EXCEPT ![timer_list[id]].sessId = INVALIDE_ID] ELSE ctx
    <3>1. /\ th[t].pc \in Expiring /\ c \in Timers
          /\ ctx[c].sessId \in {id, INVALIDE_ID}
          BY <2>5, <1>i DEF TimeoutStop, Expiring, TimerInv
    <3>2. \A d \in Timers : /\ old[d].st = ctx[d].st
                            /\ old[d].sessId = IF id \in Ids /\ timer_list[id] = d
                                               THEN INVALIDE_ID ELSE ctx[d].sessId
                            /\ old[d] \in Context
          BY <2>c, <2>l, ContextUpdate, NgapSessAssumption DEF TypeOK, Context
    <3>3. ctx' = [old EXCEPT ![c].st = "deleted"] /\ DOMAIN old = Timers
          BY <2>5 DEF TimeoutStop, TypeOK
    <3>4. timer_list' = IF id \in Ids THEN [timer_list EXCEPT ![id] = NULL] ELSE timer_list
          BY <2>5 DEF TimeoutStop
    <3> HIDE DEF id, c, old
    <3>5. \A d \in Timers \ {c} : ctx'[d] = old[d]
          BY <3>3
    <3>6. \A i \in Ids : timer_list'[i] # NULL =>
            i # id /\ timer_list'[i] = timer_list[i] /\ timer_list[i] \in Timers
          BY <3>4, <2>l DEF TypeOK
    <3>7. \A i \in Ids : timer_list'[i] # NULL => timer_list[i] # c
          BY <3>1, <3>6, <2>n, <1>i DEF TimerListSound
    <3>8. \A i \in Ids : timer_list'[i] # NULL => ~(id \in Ids /\ timer_list[id] = timer_list[i])
          BY <3>6, <1>i DEF TimerListSound
    <3>9. TimerListSound'
          BY <3>2, <3>5, <3>6, <3>7, <3>8, <1>i DEF TimerListSound
    <3>10. th'[t].pc \notin Expiring
          BY <2>5, ToIdle DEF Idle, Expiring
    <3>11. \A u \in Threads : th'[u].pc \in Expiring =>
             th'[u] = th[u] /\ th[u].pc \in Expiring /\ th[u].ctx \in Timers \ {c}
          BY <3>1, <3>10, <2>f, <1>i DEF TimerInv, c
    <3> QED
        BY <3>2, <3>5, <3>9, <3>11, <1>i DEF TimerInv
  <2>6. CASE StopNgapSessCheck(t)
    <3> DEFINE id == th[t].id
    <3>1. id \in Ids
          BY <2>6 DEF StopNgapSessCheck, IndexInv, Indexing
    <3>2. \A d \in Timers : /\ ctx'[d].st = ctx[d].st
                            /\ ctx'[d].sessId = IF timer_list[id] = d
                                                THEN INVALIDE_ID ELSE ctx[d].sessId
          BY <2>6, <3>1, <2>c, <2>l, NgapSessAssumption
             DEF StopNgapSessCheck, StopSessTimer, TypeOK, Context
    <3>3. timer_list' = [timer_list EXCEPT ![id] = NULL]
          BY <2>6, <3>1 DEF StopNgapSessCheck, StopSessTimer
    <3>4. th'[t] = Idle
          BY <2>6, ToIdle
    <3> HIDE DEF id
    <3>5. \A i \in Ids : timer_list'[i] # NULL =>
            i # id /\ timer_list'[i] = timer_list[i] /\ timer_list[i] \in Timers
          BY <3>1, <3>3, <2>l DEF TypeOK
    <3>6. \A i \in Ids : timer_list'[i] # NULL => timer_list[id] # timer_list[i]
          BY <3>1, <3>5, <1>i DEF TimerListSound
    <3>7. TimerListSound'
          BY <3>2, <3>5, <3>6, <1>i DEF TimerListSound
    <3>8. th'[t].pc \notin Expiring
          BY <3>4 DEF Idle, Expiring
    <3>9. \A u \in Threads : th'[u].pc \in Expiring => th'[u] = th[u] /\ th[u].pc \in Expiring
          BY <3>8, <2>f
    <3> QED
        BY <3>2, <3>7, <3>9, <1>i DEF TimerInv
  <2>7. CASE UNCHANGED <<timer_list, ctx>>
    <3>1. CASE th'[t].pc \notin Expiring
          BY <2>1, <2>7, <3>1
    <3>2. CASE th'[t].pc \in Expiring
          BY <2>2, <2>3, <3>2, PcAfter
    <3> QED
        BY <3>1, <3>2
  <2> QED
      BY <2>3, <2>4, <2>5, <2>6, <2>7
         DEF ThreadStep, Request, TimerStep, Claim, AddNgapSess, TimeoutRemove,
             SafeRemoveNgapSess, DeleteSess, DeleteNgapSession, HandlerReturn, ScanAmf,
             UseAmf, ScanGnb, UseGnb, StartNew, NoTarget, GetNgapSession, StartScan,
             ReleaseTimerFires
<1> QED
    BY <1>1, <1>2

\* The part of the invariant that needs no timing assumption.
LEMMA TableInvariant == Spec => [](TypeOK /\ IndexInv /\ TableInv)
<1>1. Init => TypeOK /\ IndexInv /\ TableInv
  <2>1. Init => IndexInv
        BY DEF Init, IndexInv, Idle, Indexing
  <2>2. Init => TableInv
        BY DEF Init, TableInv, SessionListSound, TimerListSound, ReleaseInv, TimerInv,
           NoSession, Idle, Removing, Expiring
  <2> QED
      BY <2>1, <2>2, InitType
<1>2. TypeOK /\ IndexInv /\ TableInv /\ [Next]_vars => (TypeOK /\ IndexInv /\ TableInv)'
      BY NextType, NextIndex, NextRelease, NextTimer DEF TableInv
<1> QED
    BY <1>1, <1>2, PTL DEF Spec

\* The slot of a session id never names a freed or a foreign session.
THEOREM SessionListIsSound == Spec => []SessionListSound
<1>1. TableInv => SessionListSound
      BY DEF TableInv
<1> QED
    BY <1>1, TableInvariant, PTL

\* The slot of a check timer never names a deleted context.
THEOREM TimerListIsSound == Spec => []TimerListSound
<1>1. TableInv => TimerListSound
      BY DEF TableInv
<1> QED
    BY <1>1, TableInvariant, PTL

\* However many handlers and timers remove a session, it is released once.
THEOREM ReleasesOnce == Spec => []ReleasedOnce
<1>1. TypeOK /\ ReleaseInv => ReleasedOnce
  <2> SUFFICES ASSUME TypeOK, ReleaseInv, NEW a \in Sessions
               PROVE  LET working == {t \in Threads : th[t].pc \in {"unlink", "delete"}
                                                      /\ th[t].sess = a}
                      IN /\ sess[a].releases + Cardinality(working) <= 1
                         /\ sess[a].releases = 1 => sess[a].st = "live"
                         /\ sess[a].releases = 1 \/ working # {} => sess[a].st \in {"live", "unlinked"}
      BY DEF ReleasedOnce
  <2> DEFINE working == {t \in Threads : th[t].pc \in {"unlink", "delete"} /\ th[t].sess = a}
  <2>1. CASE working = {}
    <3>1. Cardinality(working) = 0
          BY <2>1, FS_EmptySet
    <3> QED
        BY <2>1, <3>1 DEF ReleaseInv
  <2>2. CASE working # {}
    <3>1. PICK t \in working : TRUE
          BY <2>2
    <3>2. working = {t}
          BY <3>1 DEF ReleaseInv, Removing
    <3>3. Cardinality(working) = 1
          BY <3>2, FS_Singleton
    <3>4. sess[a].releases = 0 /\ sess[a].st \in {"live", "unlinked"}
          BY <3>1 DEF ReleaseInv, Removing
    <3> QED
        BY <3>3, <3>4
  <2> QED
      BY <2>1, <2>2
<1>2. TableInv => ReleaseInv
      BY DEF TableInv
<1> QED
    BY <1>1, <1>2, TableInvariant, PTL

-----------------------------------------------------------------------------
(***************************************************************************)
(* The identity of sessions, under Timely.  What a step of thread t may do *)
(* to the ids in use, to the slots and to the check timers:                *)
(***************************************************************************)

\* Thread t has just read a session pointer from the slot of its id.
LookedUp(t) ==
  /\ th'[t].pc \in Holding
  /\ th'[t].id \in Ids
  /\ session_list[th'[t].id] \in Sessions
  /\ th'[t].sess = session_list[th'[t].id]
  /\ th'[t].late = sess[th'[t].sess].release_timer_started
  /\ UNCHANGED <<session_list, timer_list, sess, ctx>>

\* A thread that works under an id has claimed it, had it before, found a session
\* under it or was given it by a timer.
LEMMA WorkAfter ==
  ASSUME TypeOK, IndexInv, NEW t \in Threads, ThreadStep(t) \/ Request(t) \/ TimerStep(t),
         th'[t].pc \in Working
  PROVE  \/ Claim(t) /\ th'[t].pc = "add"
         \/ /\ th[t].pc \in Working /\ th'[t].id = th[t].id
            /\ \/ /\ \E a \in Sessions, g \in Gnbs, m \in Amfs : AddNgapSess(t, a, g, m, "on")
                  /\ th'[t].pc = "timer"
               \/ TimeoutRemove(t) /\ th'[t].pc = "stop" /\ th'[t].ctx = th[t].ctx
         \/ LookedUp(t)
         \/ \E c \in Timers : /\ SessTimerFires(t, c) /\ th'[t].pc = "timeout"
                              /\ th'[t].ctx = c /\ th'[t].id = ctx[c].sessId
         \/ \E a \in Sessions : /\ ReleaseTimerFires(t, a) /\ th'[t].pc = "unlink"
                                /\ th'[t].sess = a /\ th'[t].id = sess[a].sessId
<1>t. th[t] \in Thread
      BY DEF TypeOK
<1>1. CASE Claim(t)
      BY <1>1, <1>t DEF Claim, TypeOK, Thread, Idle, Working, Holding
<1>2. ASSUME NEW a \in Sessions, NEW g \in Gnbs, NEW m \in Amfs, NEW k \in {"none", "on"},
             AddNgapSess(t, a, g, m, k)
      PROVE  /\ k = "on" /\ th'[t].pc = "timer"
             /\ th[t].pc \in Working /\ th'[t].id = th[t].id
      BY <1>2, <1>t DEF AddNgapSess, TypeOK, Thread, Idle, Working, Holding
<1>3. CASE th'[t] = Idle
      BY <1>3 DEF Idle, Working, Holding
<1>4. CASE TimeoutRemove(t)
      BY <1>4, <1>t DEF TimeoutRemove, TypeOK, Thread, Working
<1>5. CASE SafeRemoveNgapSess(t) \/ StartNew(t)
      BY <1>5, <1>t DEF SafeRemoveNgapSess, StartNew, TypeOK, Thread, Working, Holding
<1>7. CASE ScanAmf(t) \/ UseAmf(t) \/ ScanGnb(t) \/ UseGnb(t)
  <2>1. CASE th'[t] = ScanNext(t)
        BY <2>1, ScanNextIndex DEF Working, Holding
  <2>2. ASSUME NEW k \in Holding, ScanAmf(t) \/ ScanGnb(t),
               session_list[th[t].id] # NULL,
               th'[t] = Hold(t, k, th[t].id, session_list[th[t].id])
        PROVE  LookedUp(t)
    <3>1. th[t].id \in Ids /\ session_list[th[t].id] \in Sessions
          BY <2>2 DEF ScanAmf, ScanGnb, IndexInv, Indexing, TypeOK
    <3>2. UNCHANGED <<session_list, timer_list, sess, ctx>>
          BY <2>2 DEF ScanAmf, ScanGnb
    <3> QED
        BY <1>t, <2>2, <3>1, <3>2 DEF Hold, Thread, LookedUp
  <2>3. CASE th'[t] = [th[t] EXCEPT !.pc = "spin"]
        BY <1>t, <2>3 DEF Thread, Working, Holding
  <2> QED
      BY <1>7, <2>1, <2>2, <2>3 DEF ScanAmf, UseAmf, ScanGnb, UseGnb, TypeOK, Holding
<1>8. ASSUME NEW id \in Ids, GetNgapSession(t, id)
      PROVE  LookedUp(t)
      BY <1>8, <1>t DEF GetNgapSession, Hold, TypeOK, Thread, LookedUp, Holding
<1>9. ASSUME NEW peer, NEW kind \in {"scanAmf", "scanGnb"}, StartScan(t, kind, peer)
      PROVE  FALSE
      BY <1>9 DEF StartScan, TypeOK, Idle, Working, Holding
<1>10. ASSUME NEW c \in Timers, SessTimerFires(t, c)
       PROVE  th'[t].pc = "timeout" /\ th'[t].ctx = c /\ th'[t].id = ctx[c].sessId
      BY <1>10 DEF SessTimerFires, TypeOK, Idle
<1>11. ASSUME NEW a \in Sessions, ReleaseTimerFires(t, a)
       PROVE  th'[t].pc = "unlink" /\ th'[t].sess = a /\ th'[t].id = sess[a].sessId
      BY <1>11 DEF ReleaseTimerFires, TypeOK, Idle
<1> QED
    BY <1>1, <1>2, <1>3, <1>4, <1>5, <1>7, <1>8, <1>9, <1>10, <1>11, ToIdle
       DEF ThreadStep, Request, TimerStep

\* A slot is filled by AddNgapSess alone.
LEMMA ListAfter ==
  ASSUME TypeOK, NEW t \in Threads, ThreadStep(t) \/ Request(t) \/ TimerStep(t), NEW i \in Ids
  PROVE  \/ session_list'[i] \in {session_list[i], NULL}
         \/ \E a \in Sessions, g \in Gnbs, m \in Amfs, k \in {"none", "on"} :
              AddNgapSess(t, a, g, m, k) /\ i = th[t].id /\ session_list'[i] = a
<1>1. CASE session_list' = session_list
      BY <1>1
<1>2. ASSUME NEW a \in Sessions, NEW g \in Gnbs, NEW m \in Amfs, NEW k \in {"none", "on"},
             AddNgapSess(t, a, g, m, k)
      PROVE  session_list'[i] = session_list[i] \/ (i = th[t].id /\ session_list'[i] = a)
      BY <1>2 DEF AddNgapSess, TypeOK
<1>3. CASE SafeRemoveNgapSess(t)
      BY <1>3 DEF SafeRemoveNgapSess, TypeOK
<1> QED
    BY <1>1, <1>2, <1>3
       DEF ThreadStep, Request, TimerStep, Claim, StartSessTimer, TimeoutRemove, TimeoutStop,
           DeleteSess, DeleteNgapSession, StopNgapSessCheck, HandlerReturn, ScanAmf, UseAmf,
           ScanGnb, UseGnb, StartNew, NoTarget, GetNgapSession, StartScan, SessTimerFires,
           ReleaseTimerFires

\* A check timer in use has just been started, or keeps its session and its id or
\* loses the id.
LEMMA CtxAfter ==
  ASSUME TypeOK, IndexInv, NEW t \in Threads, ThreadStep(t) \/ Request(t) \/ TimerStep(t),
         NEW d \in Timers, ctx'[d].st \in {"armed", "firing"}
  PROVE  \/ /\ ctx[d].st \in {"armed", "firing"}
            /\ ctx'[d].sessId \in {ctx[d].sessId, INVALIDE_ID}
         \/ StartSessTimer(t, d) /\ ctx'[d].sessId = th[t].id /\ ctx'[d].for = th[t].sess
<1>c. \A c \in Timers : ctx[c] \in Context
      BY DEF TypeOK
<1>l. \A i \in Ids : timer_list[i] # NULL => timer_list[i] \in Timers
      BY DEF TypeOK
<1>1. CASE ctx' = ctx
      BY <1>1
<1>2. ASSUME NEW c \in Timers, StartSessTimer(t, c)
      PROVE  \/ ctx'[d] = ctx[d]
             \/ StartSessTimer(t, d) /\ ctx'[d].sessId = th[t].id /\ ctx'[d].for = th[t].sess
      BY <1>2 DEF StartSessTimer, TypeOK
<1>3. ASSUME NEW c \in Timers, SessTimerFires(t, c)
      PROVE  ctx[d].st \in {"armed", "firing"} /\ ctx'[d].sessId = ctx[d].sessId
      BY <1>3, <1>c DEF SessTimerFires, TypeOK, Context
<1>4. CASE StopNgapSessCheck(t)
      BY <1>4, <1>c, <1>l DEF StopNgapSessCheck, StopSessTimer, TypeOK, Context
<1>5. CASE TimeoutStop(t)
  <2> DEFINE id == th[t].id
             old == IF id \in Ids /\ timer_list[id] # NULL
                    THEN [ctx EXCEPT ![timer_list[id]].sessId = INVALIDE_ID] ELSE ctx
  <2>a. old[d] = ctx[d] \/ old[d] = [ctx[d] EXCEPT !.sessId = INVALIDE_ID]
        BY <1>l DEF TypeOK
  <2>b. ctx[d] \in Context /\ [ctx[d] EXCEPT !.sessId = INVALIDE_ID] \in Context
        BY <1>c, ContextUpdate
  <2>1. /\ DOMAIN old = Timers
        /\ old[d].st = ctx[d].st
        /\ old[d].sessId \in {ctx[d].sessId, INVALIDE_ID}
        /\ old[d] \in Context
    <3>1. DOMAIN old = Timers
          BY DEF TypeOK
    <3> HIDE DEF old
    <3> QED
        BY <2>a, <2>b, <3>1 DEF Context
  <2>2. ctx' = [old EXCEPT ![th[t].ctx].st = "deleted"]
        BY <1>5 DEF TimeoutStop
  <2> HIDE DEF old
  <2>3. ctx'[d] = old[d] \/ ctx'[d] = [old[d] EXCEPT !.st = "deleted"]
        BY <2>1, <2>2
  <2>4. [old[d] EXCEPT !.st = "deleted"].st = "deleted"
        BY <2>1 DEF Context
  <2> QED
      BY <2>1, <2>3, <2>4
<1> QED
    BY <1>1, <1>2, <1>3, <1>4, <1>5
       DEF ThreadStep, Request, TimerStep, Claim, AddNgapSess, TimeoutRemove,
           SafeRemoveNgapSess, DeleteSess, DeleteNgapSession, HandlerReturn, ScanAmf,
           UseAmf, ScanGnb, UseGnb, StartNew, NoTarget, GetNgapSession, StartScan,
           ReleaseTimerFires

\* The session a check timer was started for never changes.
LEMMA ForAfter ==
  ASSUME TypeOK, IndexInv, NEW t \in Threads, ThreadStep(t) \/ Request(t) \/ TimerStep(t),
         NEW d \in Timers, ctx[d].st # "none"
  PROVE  ctx'[d].for = ctx[d].for
<1>c. \A c \in Timers : ctx[c] \in Context
      BY DEF TypeOK
<1>l. \A i \in Ids : timer_list[i] # NULL => timer_list[i] \in Timers
      BY DEF TypeOK
<1>1. CASE ctx' = ctx
      BY <1>1
<1>2. CASE \E c \in Timers : StartSessTimer(t, c)
      BY <1>2 DEF StartSessTimer, TypeOK
<1>3. CASE \E c \in Timers : SessTimerFires(t, c)
      BY <1>3, <1>c DEF SessTimerFires, TypeOK, Context
<1>4. CASE StopNgapSessCheck(t)
      BY <1>4, <1>c, <1>l DEF StopNgapSessCheck, StopSessTimer, TypeOK, Context
<1>5. CASE TimeoutStop(t)
  <2> DEFINE id == th[t].id
             old == IF id \in Ids /\ timer_list[id] # NULL
                    THEN [ctx EXCEPT ![timer_list[id]].sessId = INVALIDE_ID] ELSE ctx
  <2>1. DOMAIN old = Timers /\ old[d].for = ctx[d].for /\ old[d] \in Context
        BY <1>c, <1>l, ContextUpdate DEF TypeOK, Context
  <2>2. ctx' = [old EXCEPT ![th[t].ctx].st = "deleted"]
        BY <1>5 DEF TimeoutStop
  <2> HIDE DEF old
  <2>3. ctx'[d] = old[d] \/ ctx'[d] = [old[d] EXCEPT !.st = "deleted"]
        BY <2>1, <2>2
  <2>4. [old[d] EXCEPT !.st = "deleted"].for = old[d].for
        BY <2>1 DEF Context
  <2> QED
      BY <2>1, <2>3, <2>4
<1> QED
    BY <1>1, <1>2, <1>3, <1>4, <1>5
       DEF ThreadStep, Request, TimerStep, Claim, AddNgapSess, TimeoutRemove,
           SafeRemoveNgapSess, DeleteSess, DeleteNgapSession, HandlerReturn, ScanAmf,
           UseAmf, ScanGnb, UseGnb, StartNew, NoTarget, GetNgapSession, StartScan,
           ReleaseTimerFires

\* A claimed id stays the claimant's.
LEMMA NextClaim ==
  ASSUME Timely, TypeOK, IndexInv, TableInv, TimelyInv, NEW t \in Threads,
         ThreadStep(t) \/ Request(t) \/ TimerStep(t)
  PROVE  ClaimInv'
<1>i. ClaimInv /\ FindInv /\ ReleaseInv
      BY DEF TimelyInv, TableInv
<1>f. \A u \in Threads \ {t} : th'[u] = th[u]
      BY OtherThreads
<1>n. INVALIDE_ID \notin Ids
      BY NgapSessAssumption DEF INVALIDE_ID, Ids
<1> SUFFICES ASSUME NEW u \in Threads, th'[u].pc = "add"
             PROVE  /\ th'[u].id \in Ids
                    /\ session_list'[th'[u].id] = NULL
                    /\ \A v \in Threads \ {u} : th'[v].pc \in Working => th'[v].id # th'[u].id
                    /\ \A c \in Timers : ctx'[c].st \in {"armed", "firing"} =>
                                           ctx'[c].sessId # th'[u].id
    BY DEF ClaimInv
<1>1. CASE u = t
  <2>1. Claim(t)
        BY <1>1, WorkAfter DEF Working, LookedUp, Holding
  <2>2. /\ th'[t].id = NextId(m_currentSessId) /\ session_list[th'[t].id] = NULL
        /\ Unused(th'[t].id)
        /\ UNCHANGED <<session_list, ctx>>
    <3>1. th[t] \in Thread
          BY DEF TypeOK
    <3> QED
        BY <1>1, <2>1, <3>1 DEF Claim, TypeOK, Thread, Idle
  <2>3. th'[t].id \in Ids
        BY <2>2, NgapSessAssumption DEF NextId, Ids, TypeOK
  <2> QED
      BY <1>1, <1>f, <2>2, <2>3 DEF Unused
<1>2. CASE u # t
  <2>1. th'[u] = th[u] /\ th[u].pc = "add"
        BY <1>2, <1>f
  <2> DEFINE id == th[u].id
  <2>2. /\ id \in Ids /\ session_list[id] = NULL
        /\ \A v \in Threads \ {u} : th[v].pc \in Working => th[v].id # id
        /\ \A c \in Timers : ctx[c].st \in {"armed", "firing"} => ctx[c].sessId # id
        BY <2>1, <1>i DEF ClaimInv
  <2> HIDE DEF id
  <2>3. session_list'[id] = NULL
    <3>1. ASSUME NEW a \in Sessions, NEW g \in Gnbs, NEW m \in Amfs, NEW k \in {"none", "on"},
                 AddNgapSess(t, a, g, m, k), id = th[t].id
          PROVE  FALSE
          BY <1>2, <2>2, <3>1 DEF AddNgapSess, Working
    <3> QED
        BY <2>2, <3>1, ListAfter
  <2>4. th'[t].pc \in Working => th'[t].id # id
    <3> SUFFICES ASSUME th'[t].pc \in Working, th'[t].id = id
                 PROVE  FALSE
        OBVIOUS
    <3>1. CASE Claim(t) /\ th'[t].pc = "add"
      <4>1. Unused(th'[t].id)
        <5>1. th[t] \in Thread
              BY DEF TypeOK
        <5> QED
            BY <3>1, <5>1 DEF Claim, TypeOK, Thread, Idle
      <4> QED
          BY <2>1, <4>1 DEF Unused, Working, id
    <3>2. CASE th[t].pc \in Working /\ th'[t].id = th[t].id
          BY <1>2, <2>2, <3>2
    <3>3. CASE LookedUp(t)
          BY <2>2, <3>3, NgapSessAssumption DEF LookedUp
    <3>4. ASSUME NEW c \in Timers, SessTimerFires(t, c), th'[t].id = ctx[c].sessId
          PROVE  FALSE
          BY <2>2, <3>4 DEF SessTimerFires
    <3>5. ASSUME NEW a \in Sessions, ReleaseTimerFires(t, a), th'[t].id = sess[a].sessId
          PROVE  FALSE
      <4>1. sess[a].st = "live"
            BY <3>5, <1>i DEF ReleaseTimerFires, ReleaseInv
      <4> QED
          BY <2>2, <3>5, <4>1, <1>i, NgapSessAssumption DEF FindInv
    <3> QED
        BY <3>1, <3>2, <3>3, <3>4, <3>5, WorkAfter
  <2>5. ASSUME NEW c \in Timers, ctx'[c].st \in {"armed", "firing"}
        PROVE  ctx'[c].sessId # id
    <3>1. CASE StartSessTimer(t, c) /\ ctx'[c].sessId = th[t].id
          BY <1>2, <2>2, <3>1 DEF StartSessTimer, Working
    <3>2. CASE /\ ctx[c].st \in {"armed", "firing"}
               /\ ctx'[c].sessId \in {ctx[c].sessId, INVALIDE_ID}
          BY <2>2, <3>2, <1>n
    <3> QED
        BY <2>5, <3>1, <3>2, CtxAfter
  <2> QED
      BY <1>f, <2>1, <2>2, <2>3, <2>4, <2>5 DEF id
<1> QED
    BY <1>1, <1>2

\* A live session stays findable.
LEMMA NextFind ==
  ASSUME Timely, TypeOK, IndexInv, TableInv, TimelyInv, NEW t \in Threads,
         ThreadStep(t) \/ Request(t) \/ TimerStep(t)
  PROVE  FindInv'
<1>i. ClaimInv /\ FindInv /\ ReleaseInv /\ SessionListSound
      BY DEF TimelyInv, TableInv
<1>s. \A a \in Sessions : sess[a] \in Session
      BY DEF TypeOK
<1>1. ASSUME UNCHANGED session_list, \A a \in Sessions : Marked(a)
      PROVE  FindInv'
      BY <1>1, <1>i DEF FindInv, Marked
<1>2. ASSUME NEW a \in Sessions, NEW g \in Gnbs, NEW m \in Amfs, NEW k \in {"none", "on"},
             AddNgapSess(t, a, g, m, k)
      PROVE  FindInv'
  <2>1. th[t].id \in Ids /\ session_list[th[t].id] = NULL
        BY <1>2, <1>i DEF AddNgapSess, ClaimInv
  <2>2. sess'[a].sessId = th[t].id /\ \A b \in Sessions \ {a} : sess'[b] = sess[b]
        BY <1>2 DEF AddNgapSess, TypeOK, NoSession
  <2>3. session_list' = [session_list EXCEPT ![th[t].id] = a]
        BY <1>2 DEF AddNgapSess
  <2> QED
      BY <2>1, <2>2, <2>3, <1>i, NgapSessAssumption DEF FindInv, TypeOK
<1>3. CASE SafeRemoveNgapSess(t)
  <2>1. /\ th[t].sess \in Sessions /\ sess[th[t].sess].st = "live"
        /\ sess[th[t].sess].sessId = th[t].id
        BY <1>3, <1>i DEF SafeRemoveNgapSess, ReleaseInv, Removing
  <2>2. sess'[th[t].sess].st = "unlinked"
        BY <1>3, <1>s, <2>1 DEF SafeRemoveNgapSess, TypeOK, Session
  <2>3. \A b \in Sessions \ {th[t].sess} : sess'[b] = sess[b]
        BY <1>3 DEF SafeRemoveNgapSess, TypeOK
  <2>4. session_list' = [session_list EXCEPT ![th[t].id] = NULL]
        BY <1>3 DEF SafeRemoveNgapSess
  <2> QED
      BY <2>1, <2>2, <2>3, <2>4, <1>i DEF FindInv, TypeOK
<1>4. CASE DeleteSess(t)
  <2>1. th[t].sess \in Sessions
        BY <1>4, <1>i DEF DeleteSess, ReleaseInv, Removing
  <2>2. sess'[th[t].sess].st = "deleted"
        BY <1>4, <1>s, <2>1 DEF DeleteSess, TypeOK, Session
  <2>3. \A b \in Sessions \ {th[t].sess} : sess'[b] = sess[b]
        BY <1>4 DEF DeleteSess, TypeOK
  <2>4. session_list' = session_list
        BY <1>4 DEF DeleteSess
  <2> QED
      BY <2>2, <2>3, <2>4, <1>i DEF FindInv
<1>5. ASSUME NEW a \in Sessions, ReleaseTimerFires(t, a)
      PROVE  FindInv'
  <2>1. \A b \in Sessions : sess'[b].st = sess[b].st /\ sess'[b].sessId = sess[b].sessId
        BY <1>5, <1>s DEF ReleaseTimerFires, TypeOK, Session
  <2>2. session_list' = session_list
        BY <1>5 DEF ReleaseTimerFires
  <2> QED
      BY <2>1, <2>2, <1>i DEF FindInv
<1>6. CASE TimeoutRemove(t) \/ DeleteNgapSession(t) \/ UseAmf(t)
  <2>1. UNCHANGED session_list /\ (sess' = sess \/ sess' = Removed(th[t].id))
        BY <1>6 DEF TimeoutRemove, DeleteNgapSession, UseAmf
  <2>2. th[t].id \in Ids \cup {INVALIDE_ID}
        BY DEF TypeOK, Thread
  <2>3. \A a \in Sessions : Marked(a)
        BY <2>1, <2>2, <1>i, RemovedMarks DEF Marked
  <2> QED
      BY <2>1, <2>3, <1>1
<1>7. CASE StopNgapSessCheck(t)
  <2>1. \A a \in Sessions : Marked(a)
        BY <1>7, <1>s DEF StopNgapSessCheck, TypeOK, Session, Marked
  <2> QED
      BY <1>7, <2>1, <1>1 DEF StopNgapSessCheck
<1>8. CASE UNCHANGED <<session_list, sess>>
      BY <1>8, <1>1 DEF Marked
<1> QED
    BY <1>2, <1>3, <1>4, <1>5, <1>6, <1>7, <1>8
       DEF ThreadStep, Request, TimerStep, Claim, StartSessTimer, TimeoutStop,
           HandlerReturn, ScanAmf, ScanGnb, UseGnb, StartNew, NoTarget, GetNgapSession,
           StartScan, SessTimerFires

\* A check timer stays alone with its session.
LEMMA NextOwn ==
  ASSUME Timely, TypeOK, IndexInv, TableInv, TimelyInv, NEW t \in Threads,
         ThreadStep(t) \/ Request(t) \/ TimerStep(t)
  PROVE  OwnInv'
<1>i. ClaimInv /\ OwnInv /\ TimerInv
      BY DEF TimelyInv, TableInv
<1>f. \A u \in Threads \ {t} : th'[u] = th[u]
      BY OtherThreads
<1>n. INVALIDE_ID \notin Ids
      BY NgapSessAssumption DEF INVALIDE_ID, Ids
<1>t. th[t] \in Thread
      BY DEF TypeOK
\* A slot nobody has claimed keeps its session or loses it.
<1>k. ASSUME NEW i \in Ids, th[t].pc = "add" => i # th[t].id
      PROVE  session_list'[i] \in {session_list[i], NULL}
      BY <1>k, ListAfter DEF AddNgapSess
<1>1. ASSUME NEW u \in Threads, th'[u].pc = "timer"
      PROVE  /\ th'[u].id \in Ids
             /\ th'[u].sess \in Sessions
             /\ session_list'[th'[u].id] \in {NULL, th'[u].sess}
  <2>1. CASE u = t
    <3>1. PICK a \in Sessions, g \in Gnbs, m \in Amfs : AddNgapSess(t, a, g, m, "on")
          BY <1>1, <2>1, WorkAfter DEF Working, LookedUp, Holding
    <3>2. th[t].id \in Ids
          BY <3>1 DEF AddNgapSess, IndexInv, Indexing
    <3>3. th'[t].id = th[t].id /\ th'[t].sess = a
          BY <3>1, <1>t DEF AddNgapSess, TypeOK, Thread
    <3>4. session_list'[th[t].id] = a
          BY <3>1, <3>2 DEF AddNgapSess, TypeOK
    <3> QED
        BY <2>1, <3>2, <3>3, <3>4
  <2>2. CASE u # t
    <3>1. th'[u] = th[u] /\ th[u].pc = "timer"
          BY <1>1, <1>f, <2>2
    <3>2. /\ th[u].id \in Ids /\ th[u].sess \in Sessions
          /\ session_list[th[u].id] \in {NULL, th[u].sess}
          BY <3>1, <1>i DEF OwnInv
    <3>3. th[t].pc = "add" => th[u].id # th[t].id
          BY <2>2, <3>1, <1>i DEF ClaimInv, Working
    <3> QED
        BY <3>1, <3>2, <3>3, <1>k
  <2> QED
      BY <2>1, <2>2
<1>2. ASSUME NEW c \in Timers, ctx'[c].st \in {"armed", "firing"}, ctx'[c].sessId \in Ids
      PROVE  session_list'[ctx'[c].sessId] \in {NULL, ctx'[c].for}
  <2>1. CASE StartSessTimer(t, c) /\ ctx'[c].sessId = th[t].id /\ ctx'[c].for = th[t].sess
        BY <2>1, <1>i DEF StartSessTimer, OwnInv
  <2>2. CASE /\ ctx[c].st \in {"armed", "firing"}
             /\ ctx'[c].sessId \in {ctx[c].sessId, INVALIDE_ID}
    <3>1. ctx'[c].sessId = ctx[c].sessId /\ ctx[c].sessId \in Ids
          BY <1>2, <2>2, <1>n
    <3>2. ctx'[c].for = ctx[c].for
          BY <2>2, ForAfter
    <3>3. session_list[ctx[c].sessId] \in {NULL, ctx[c].for}
          BY <2>2, <3>1, <1>i DEF OwnInv
    <3>4. th[t].pc = "add" => ctx[c].sessId # th[t].id
          BY <2>2, <1>i DEF ClaimInv
    <3> QED
        BY <3>1, <3>2, <3>3, <3>4, <1>k
  <2> QED
      BY <1>2, <2>1, <2>2, CtxAfter
<1>3. ASSUME NEW u \in Threads, th'[u].pc \in Expiring, th'[u].id \in Ids
      PROVE  session_list'[th'[u].id] \in {NULL, ctx'[th'[u].ctx].for}
  <2>1. CASE u = t
    <3>1. CASE TimeoutRemove(t)
      <4>1. /\ th'[t].id = th[t].id /\ th'[t].ctx = th[t].ctx /\ th[t].pc \in Expiring
            /\ UNCHANGED <<session_list, ctx>>
            BY <3>1, <1>t DEF TimeoutRemove, TypeOK, Thread, Expiring
      <4> QED
          BY <1>3, <2>1, <4>1, <1>i DEF OwnInv
    <3>2. ASSUME NEW c \in Timers, SessTimerFires(t, c)
          PROVE  session_list'[th'[t].id] \in {NULL, ctx'[th'[t].ctx].for}
      <4>1. th'[t].id = ctx[c].sessId /\ th'[t].ctx = c /\ ctx[c].st = "armed"
            BY <3>2 DEF SessTimerFires, TypeOK, Idle
      <4>2. ctx'[c].for = ctx[c].for
            BY <4>1, ForAfter
      <4>3. session_list' = session_list
            BY <3>2 DEF SessTimerFires
      <4> QED
          BY <1>3, <2>1, <4>1, <4>2, <4>3, <1>i DEF OwnInv
    <3> QED
        BY <1>3, <2>1, <3>1, <3>2, PcAfter
  <2>2. CASE u # t
    <3>1. th'[u] = th[u] /\ th[u].pc \in Expiring /\ th[u].id \in Ids
          BY <1>3, <1>f, <2>2
    <3>2. session_list[th[u].id] \in {NULL, ctx[th[u].ctx].for}
          BY <3>1, <1>i DEF OwnInv
    <3>3. th[u].ctx \in Timers /\ ctx[th[u].ctx].st = "firing"
          BY <3>1, <1>i DEF TimerInv
    <3>4. ctx'[th[u].ctx].for = ctx[th[u].ctx].for
          BY <3>3, ForAfter
    <3>5. th[t].pc = "add" => th[u].id # th[t].id
          BY <2>2, <3>1, <1>i DEF ClaimInv, Working, Expiring
    <3> QED
        BY <3>1, <3>2, <3>4, <3>5, <1>k
  <2> QED
      BY <2>1, <2>2
<1> QED
    BY <1>1, <1>2, <1>3 DEF OwnInv

\* A session held since before its release stays out of the release's reach.
LEMMA NextHeld ==
  ASSUME Timely, TypeOK, IndexInv, TableInv, TimelyInv, NEW t \in Threads,
         ThreadStep(t) \/ Request(t) \/ TimerStep(t)
  PROVE  HeldInv'
<1>i. HeldInv /\ ReleaseInv /\ SessionListSound
      BY DEF TimelyInv, TableInv
<1>f. \A u \in Threads \ {t} : th'[u] = th[u]
      BY OtherThreads
<1>s. \A a \in Sessions : sess[a] \in Session
      BY DEF TypeOK
<1>t. th[t] \in Thread
      BY DEF TypeOK
\* Who removes after the step.
<1>r. ASSUME NEW v \in Threads, th'[v].pc \in Removing
      PROVE  \/ th[v].pc \in Removing /\ th'[v].sess = th[v].sess
             \/ v = t /\ ReleaseTimerFires(t, th'[t].sess) /\ th'[t].sess \in Sessions
  <2>1. CASE v # t
        BY <1>r, <1>f, <2>1
  <2>2. CASE v = t /\ SafeRemoveNgapSess(t)
        BY <2>2, <1>t DEF SafeRemoveNgapSess, TypeOK, Thread, Removing
  <2>3. ASSUME NEW a \in Sessions, ReleaseTimerFires(t, a)
        PROVE  th'[t].sess = a
        BY <2>3 DEF ReleaseTimerFires, TypeOK, Idle
  <2> QED
      BY <1>r, <2>1, <2>2, <2>3, PcAfter
\* A session that is live and that nobody removes stays so.
<1>k. ASSUME NEW a \in Sessions, sess[a].st = "live",
             \A v \in Threads : th[v].pc \in Removing => th[v].sess # a
      PROVE  sess'[a].st = "live"
  <2>1. CASE sess' = sess
        BY <1>k, <2>1
  <2>2. CASE sess' = Removed(th[t].id)
    <3>1. th[t].id \in Ids \cup {INVALIDE_ID}
          BY <1>t DEF Thread
    <3> QED
        BY <1>k, <2>2, <3>1, <1>i, RemovedMarks DEF Marked
  <2>3. ASSUME NEW b \in Sessions, NEW g \in Gnbs, NEW m \in Amfs, NEW k \in {"none", "on"},
               AddNgapSess(t, b, g, m, k)
        PROVE  sess'[a] = sess[a]
        BY <1>k, <2>3 DEF AddNgapSess, TypeOK
  <2>4. CASE SafeRemoveNgapSess(t) \/ DeleteSess(t)
    <3>1. th[t].sess # a
          BY <1>k, <2>4 DEF SafeRemoveNgapSess, DeleteSess, Removing
    <3> QED
        BY <1>k, <2>4, <3>1 DEF SafeRemoveNgapSess, DeleteSess, TypeOK
  <2>5. CASE \E b \in Sessions : ReleaseTimerFires(t, b)
        BY <1>k, <2>5, <1>s DEF ReleaseTimerFires, TypeOK, Session
  <2>6. CASE StopNgapSessCheck(t)
        BY <1>k, <2>6, <1>s DEF StopNgapSessCheck, TypeOK, Session
  <2> QED
      BY <1>k, <2>1, <2>2, <2>3, <2>4, <2>5, <2>6
         DEF ThreadStep, Request, TimerStep, Claim, StartSessTimer, TimeoutStop,
             TimeoutRemove, DeleteNgapSession, UseAmf,
             HandlerReturn, ScanAmf, ScanGnb, UseGnb, StartNew, NoTarget, GetNgapSession,
             StartScan, SessTimerFires
<1> SUFFICES ASSUME NEW u \in Threads, th'[u].pc \in Holding, th'[u].late = 0
             PROVE  /\ th'[u].sess \in Sessions
                    /\ sess'[th'[u].sess].st = "live"
                    /\ \A v \in Threads : th'[v].pc \in Removing => th'[v].sess # th'[u].sess
    BY DEF HeldInv
<1>1. CASE u = t
  <2>1. LookedUp(t)
        BY <1>1, WorkAfter DEF Working, Holding
  <2> DEFINE a == th'[t].sess
  <2>2. /\ a \in Sessions /\ sess[a].st = "live" /\ sess[a].release_timer_started = 0
        /\ sess' = sess
        BY <1>1, <2>1, <1>i, NgapSessAssumption DEF LookedUp, SessionListSound
  <2>3. \A v \in Threads : th[v].pc \in Removing => th[v].sess # a
        BY <2>2, <1>i DEF ReleaseInv
  <2>4. \A v \in Threads : th'[v].pc \in Removing => v # t
        BY <2>1 DEF LookedUp, Holding, Removing
  <2> QED
      BY <1>1, <1>f, <2>2, <2>3, <2>4
<1>2. CASE u # t
  <2>1. th'[u] = th[u]
        BY <1>2, <1>f
  <2>2. /\ th[u].sess \in Sessions /\ sess[th[u].sess].st = "live"
        /\ \A v \in Threads : th[v].pc \in Removing => th[v].sess # th[u].sess
        BY <2>1, <1>i DEF HeldInv
  <2>3. ~ ReleaseTimerFires(t, th[u].sess)
        BY <2>1 DEF ReleaseTimerFires
  <2> QED
      BY <2>1, <2>2, <2>3, <1>k, <1>r
<1> QED
    BY <1>1, <1>2

\* The whole inductive invariant, under the timing assumption.
LEMMA TimelyInvariant ==
  ASSUME Timely
  PROVE  Spec => [](TypeOK /\ IndexInv /\ TableInv /\ TimelyInv)
<1>1. Init => TimelyInv
      BY DEF Init, TimelyInv, ClaimInv, FindInv, OwnInv, HeldInv, NoSession, NoContext, Idle,
         Holding, Expiring
<1>2. TypeOK /\ IndexInv /\ TableInv /\ TimelyInv /\ [Next]_vars => TimelyInv'
  <2> SUFFICES ASSUME TypeOK, IndexInv, TableInv, TimelyInv, [Next]_vars
               PROVE  TimelyInv'
      OBVIOUS
  <2>1. CASE UNCHANGED vars
        BY <2>1 DEF TimelyInv, ClaimInv, FindInv, OwnInv, HeldInv, vars
  <2>2. CASE Next
        BY <2>2, NextClaim, NextFind, NextOwn, NextHeld DEF Next, TimelyInv
  <2> QED
      BY <2>1, <2>2
<1> QED
    BY <1>1, <1>2, TableInvariant, PTL DEF Spec

\* Under the timing assumption every session in service is found under its id, so
\* that session ids are unique.
THEOREM SessionsFindable ==
  ASSUME Timely
  PROVE  Spec => [](SessionFindable /\ SessionIdUnique)
<1>1. FindInv => SessionFindable /\ SessionIdUnique
      BY DEF FindInv, SessionFindable, SessionIdUnique
<1>2. TimelyInv => FindInv
      BY DEF TimelyInv
<1> QED
    BY <1>1, <1>2, TimelyInvariant, PTL

\* Under the timing assumption a check timer only ever removes its own session.
THEOREM TimeoutsHitOwnSession ==
  ASSUME Timely
  PROVE  Spec => []TimeoutHitsOwnSession
<1>1. TimelyInv => TimeoutHitsOwnSession
      BY DEF TimelyInv, OwnInv, TimeoutHitsOwnSession, Expiring
<1> QED
    BY <1>1, TimelyInvariant, PTL

\* Under the timing assumption the delayed release protects every thread that
\* looked the session up before the release began.
THEOREM HeldSessionsAlive ==
  ASSUME Timely
  PROVE  Spec => []HeldSessionAlive
<1>1. TimelyInv => HeldSessionAlive
      BY DEF TimelyInv, HeldInv, HeldSessionAlive
<1> QED
    BY <1>1, TimelyInvariant, PTL
===============================================================================
