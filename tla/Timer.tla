-------------------------------- MODULE Timer --------------------------------
(***************************************************************************)
(* agc_timer.c: threads add and delete timers, one timer thread fires the  *)
(* events that are due.  The tree is changed under TIMER_RBTREE_MUTEX, so  *)
(* a critical section is one step; the root, the key of the first node and *)
(* timer_set are read and written outside it, in steps of their own.       *)
(*                                                                         *)
(* A node stands for the event it is embedded in.  Events are never freed, *)
(* so a node that was fired or deleted is only reused by its owner.        *)
(***************************************************************************)
EXTENDS RBTree

CONSTANTS
  Delays,    \* the delays timers are added with
  MaxLag,    \* how late the timer thread and the callers may be
  OneShot,   \* events created for one timer; the others are added again and again
  Cancelled  \* one-shot events that their owner may delete

ASSUME TimerAssumption ==
  /\ OneShot \subseteq Node /\ Cancelled \subseteq OneShot
  /\ MaxLag \in Nat /\ Delays \subseteq Nat \ {0}
  \* 1) of the comment in agc_rbtree_insert_timer_value
  /\ \A d \in Delays : 2 * (d + MaxLag) < KEY_SPACE

VARIABLES
  now,             \* agc_time_now() / 1000, modulo KEY_SPACE
  SYSTEM_RUNNING,
  SYSTEM_SHUTDOWN,
  main,            \* the thread that initialises and shuts down
  pc, current_ms, root, node, \* the timer thread and its locals
  owner,           \* where in agc_timer_add_timer the owner of an event is
  due,             \* the key the owner computed
  setting,         \* events whose timer_set is still to be set by an owner
  timer_set,
  queued,          \* fired and not called back
  crashed,         \* a NULL link was followed
  raced            \* ghost: an owner came too late

threadVars == <<pc, current_ms, root, node>>
ownerVars == <<owner, due, setting>>
treeVars == <<tree, members>>
mainVars == <<SYSTEM_RUNNING, SYSTEM_SHUTDOWN, main>>
vars == <<treeVars, now, mainVars, threadVars, ownerVars, timer_set, queued, crashed, raced>>

Init ==
  /\ TreeInit
  /\ now = 0
  /\ SYSTEM_RUNNING = FALSE /\ SYSTEM_SHUTDOWN = FALSE /\ main = "launch"
  /\ pc = "start" /\ current_ms = 0 /\ root = NULL /\ node = NULL
  /\ owner = [a \in Node |-> "idle"] /\ due = [a \in Node |-> 0] /\ setting = {}
  /\ timer_set = [a \in Node |-> FALSE]
  /\ queued = {} /\ crashed = FALSE /\ raced = FALSE

\* The timer thread is at work on a.
Held(a) == \/ pc = "min" /\ root = a
           \/ pc \in {"check", "delete", "fire"} /\ node = a

\* Links of a node outside the tree are NULL: agc_rbtree_delete and
\* agc_rbtree_min follow them.
DeleteOrCrash(a) ==
  IF a \in members THEN DeleteNode(a) /\ UNCHANGED crashed
  ELSE crashed' = TRUE /\ UNCHANGED treeVars

-----------------------------------------------------------------------------
(* Owners. *)

\* agc_timer_add_timer up to the test of timer_set.  A one-shot event is a new one,
\* zeroed; the owner of another has its callback run.
AddTimer(a, d) ==
  /\ main # "launch"
  /\ owner[a] \in {"idle", "deleted"} /\ a \notin members \cup queued /\ ~Held(a)
  /\ a \in OneShot => a \notin setting
  /\ due' = [due EXCEPT ![a] = (now + d) % KEY_SPACE]
  /\ timer_set' = [timer_set EXCEPT ![a] = @ /\ a \notin OneShot]
  /\ owner' = [owner EXCEPT ![a] = IF timer_set'[a] THEN "delete" ELSE "insert"]
  /\ UNCHANGED <<treeVars, now, mainVars, threadVars, setting, queued, crashed, raced>>

\* Its call of agc_timer_del_timer.
AddDelete(a) ==
  /\ owner[a] = "delete"
  /\ DeleteOrCrash(a)
  /\ owner' = [owner EXCEPT ![a] = "insert"]
  /\ UNCHANGED <<now, mainVars, threadVars, due, setting, timer_set, queued, raced>>

AddInsert(a) ==
  /\ owner[a] = "insert"
  /\ InsertNode(a, due[a])
  /\ owner' = [owner EXCEPT ![a] = "idle"]
  /\ setting' = setting \cup {a}
  /\ UNCHANGED <<now, mainVars, threadVars, due, timer_set, queued, crashed, raced>>

\* The assignment after the unlock.
SetTimerSet(a) ==
  /\ a \in setting
  /\ setting' = setting \ {a}
  /\ timer_set' = [timer_set EXCEPT ![a] = TRUE]
  /\ raced' = (raced \/ a \notin members \/ (pc = "delete" /\ node = a))
  /\ UNCHANGED <<treeVars, now, mainVars, threadVars, owner, due, queued, crashed>>

\* agc_timer_del_timer, by an owner that has not seen the callback.
DelTimer(a) ==
  /\ a \in Cancelled /\ owner[a] = "idle" /\ a \notin setting
  /\ a \in members \cup queued \/ Held(a)
  /\ DeleteOrCrash(a)
  /\ owner' = [owner EXCEPT ![a] = "deleted"]
  /\ due' = [due EXCEPT ![a] = 0]  \* dead
  /\ raced' = (raced \/ a \notin members \/ Held(a))
  /\ UNCHANGED <<now, mainVars, threadVars, setting, timer_set, queued>>

-----------------------------------------------------------------------------
(* The timer thread, agc_timer_dispatch_timer. *)

ThreadStart ==
  /\ pc = "start"
  /\ SYSTEM_RUNNING' = TRUE /\ SYSTEM_SHUTDOWN' = FALSE
  /\ pc' = "loop"
  /\ UNCHANGED <<treeVars, now, main, current_ms, root, node, ownerVars, timer_set, queued,
                 crashed, raced>>

\* Back to the head of the loop; the locals are dead and cleared.
Continue == pc' = "loop" /\ current_ms' = 0 /\ root' = NULL /\ node' = NULL

\* Variant: the flag is looked at only where the thread starts.
ReadTimeBlind ==
  /\ pc = "loop"
  /\ pc' = "root" /\ current_ms' = now
  /\ UNCHANGED <<treeVars, now, mainVars, root, node, ownerVars, timer_set, queued, crashed, raced>>

\* The time, then SYSTEM_RUNNING.
ReadTime ==
  /\ pc = "loop"
  /\ IF SYSTEM_RUNNING
     THEN pc' = "root" /\ current_ms' = now /\ UNCHANGED SYSTEM_SHUTDOWN
     ELSE pc' = "ended" /\ SYSTEM_SHUTDOWN' = TRUE /\ UNCHANGED current_ms
  /\ UNCHANGED <<treeVars, now, SYSTEM_RUNNING, main, root, node, ownerVars, timer_set, queued,
                 crashed, raced>>

\* Variant: an empty tree ends the loop.
ReadRootQuit ==
  /\ pc = "root"
  /\ root' = tree.root
  /\ pc' = IF tree.root = Sentinel THEN "ended" ELSE "min"
  /\ UNCHANGED <<treeVars, now, mainVars, current_ms, node, ownerVars, timer_set, queued,
                 crashed, raced>>

\* The root, without the lock.
ReadRoot ==
  /\ pc = "root"
  /\ IF tree.root = Sentinel THEN Continue
     ELSE root' = tree.root /\ pc' = "min" /\ UNCHANGED <<current_ms, node>>
  /\ UNCHANGED <<treeVars, now, mainVars, ownerVars, timer_set, queued, crashed, raced>>

FindMin ==
  /\ pc = "min"
  /\ IF root \in members
     THEN node' = Min(tree, root) /\ root' = NULL /\ pc' = "check" /\ UNCHANGED crashed
     ELSE crashed' = TRUE /\ UNCHANGED <<root, node, pc>>
  /\ UNCHANGED <<treeVars, now, mainVars, current_ms, ownerVars, timer_set, queued, raced>>

\* Variant: the time and the key are compared as they are.
NotDuePlain(a) == a \in members /\ tree.at[a].key > current_ms

\* (agc_msec_int_t) (node->key - current_ms) > 0.  The key of a deleted node is 0,
\* long past.
NotDue(a) == a \in members /\ Before(current_ms, tree.at[a].key)

\* Variant: timer_set is left to the owner.
CheckDueUnset ==
  /\ pc = "check"
  /\ IF NotDue(node) THEN Continue ELSE pc' = "delete" /\ UNCHANGED <<current_ms, root, node>>
  /\ UNCHANGED <<treeVars, now, mainVars, ownerVars, timer_set, queued, crashed, raced>>

CheckDue ==
  /\ pc = "check"
  /\ IF NotDue(node) THEN Continue /\ UNCHANGED timer_set
     ELSE /\ pc' = "delete"
          /\ timer_set' = [timer_set EXCEPT ![node] = FALSE]
          /\ UNCHANGED <<current_ms, root, node>>
  /\ UNCHANGED <<treeVars, now, mainVars, ownerVars, queued, crashed, raced>>

DeleteDue ==
  /\ pc = "delete"
  /\ DeleteOrCrash(node)
  /\ pc' = "fire"
  /\ UNCHANGED <<now, mainVars, current_ms, root, node, ownerVars, timer_set, queued, raced>>

\* agc_event_fire
FireDue ==
  /\ pc = "fire"
  /\ queued' = queued \cup {node}
  /\ Continue
  /\ UNCHANGED <<treeVars, now, mainVars, ownerVars, timer_set, crashed, raced>>

ThreadStep == ReadTime \/ ReadRoot \/ FindMin \/ CheckDue \/ DeleteDue \/ FireDue

-----------------------------------------------------------------------------
(* The rest of the process. *)

\* A dispatcher calls the event's callback.
Callback(a) ==
  /\ a \in queued
  /\ queued' = queued \ {a}
  /\ due' = [due EXCEPT ![a] = 0]  \* dead
  /\ UNCHANGED <<treeVars, now, mainVars, threadVars, owner, setting, timer_set, crashed, raced>>

\* agc_timer_launch_dispatch_thread returns: the thread runs, or 2 s have passed.
LaunchReturns ==
  /\ main = "launch" /\ main' = "up"
  /\ UNCHANGED <<treeVars, now, SYSTEM_RUNNING, SYSTEM_SHUTDOWN, threadVars, ownerVars,
                 timer_set, queued, crashed, raced>>

\* agc_timer_shutdown; the wait that follows changes nothing.
Shutdown ==
  /\ main = "up" /\ main' = "down"
  /\ SYSTEM_RUNNING' = FALSE
  /\ UNCHANGED <<treeVars, now, SYSTEM_SHUTDOWN, threadVars, ownerVars, timer_set, queued,
                 crashed, raced>>

\* Time passes, but no thread falls behind by more than MaxLag.
Late(k) == (now + KEY_SPACE - k) % KEY_SPACE = MaxLag

Adding(a) == owner[a] \in {"delete", "insert"}

Tick ==
  /\ \A a \in Node : a \in members \/ Adding(a) => ~Late(due[a])
  /\ pc \notin {"start", "loop", "ended"} => ~Late(current_ms)
  /\ now' = (now + 1) % KEY_SPACE
  /\ UNCHANGED <<treeVars, mainVars, threadVars, ownerVars, timer_set, queued, crashed, raced>>

OwnerStep(a) == AddDelete(a) \/ AddInsert(a) \/ SetTimerSet(a)

Next ==
  /\ ~crashed
  /\ \/ \E a \in Node : \/ \E d \in Delays : AddTimer(a, d)
                        \/ OwnerStep(a) \/ DelTimer(a) \/ Callback(a)
     \/ ThreadStart \/ ThreadStep
     \/ LaunchReturns \/ Shutdown \/ Tick

Fairness ==
  /\ WF_vars(ThreadStart /\ ~crashed) /\ WF_vars(ThreadStep /\ ~crashed)
  /\ WF_vars(Tick /\ ~crashed)
  /\ \A a \in Node : WF_vars(OwnerStep(a) /\ ~crashed) /\ WF_vars(Callback(a) /\ ~crashed)

Spec == Init /\ [][Next]_vars

FairSpec == Spec /\ Fairness

-----------------------------------------------------------------------------
(* Properties. *)

\* agc_timer_dispatch_timer, agc_timer_del_timer: the process follows the NULL links
\* of a node outside the tree only after an owner deleted a timer that the timer
\* thread was at work on or had fired, or set timer_set after the timer had fired.
CrashOnlyByRace == crashed => raced

\* agc_timer_dispatch_timer: an event is fired when its time has come, never earlier,
\* although the time and the first node were read before the lock was taken.
FiresWhenDue == [][\A a \in queued' \ queued : ~Before(now, due[a])]_vars

\* agc_timer_dispatch_timer: while the system runs, a timer is taken out in the end, fired
\* or deleted by its owner, however many others are added meanwhile.
EventuallyFires ==
  \A a \in Node : (a \in members /\ SYSTEM_RUNNING)
                   ~> (a \notin members \/ ~SYSTEM_RUNNING \/ raced)

\* agc_timer_shutdown: a timer thread that had started when the flag was cleared ends
\* and says so, unless an owner that came too late brings it down.
ShutdownStops ==
  (main = "down" /\ pc # "start" /\ ~SYSTEM_RUNNING)
     ~> ((pc = "ended" /\ SYSTEM_SHUTDOWN) \/ raced)
===============================================================================
