------------------------------ MODULE SourceFifo ------------------------------
(***************************************************************************)
(* What agc_event promises the owner of an event source: "the same soure   *)
(* will be handled by same thread" (agc_event.h).  Every source is a FIFO  *)
(* channel with one server.  Event k of source s is the k-th one queued    *)
(* for s; it is begun once, after events 1..k-1 of s and while no other    *)
(* event of s is being handled.  The null source promises nothing but that *)
(* an event is begun at most once.                                         *)
(***************************************************************************)
EXTENDS Integers

CONSTANTS AllSources,  \* the event sources, the null source among them
          NullSource   \* EVENT_NULL_SOURCEID: events that belong to no source

VARIABLES sent,     \* sent[s]: events queued for s so far
          begun,    \* the events <<s, k>> whose handling has begun
          serving   \* the events being handled

fifoVars == <<sent, begun, serving>>

Init ==
  /\ sent = [s \in AllSources |-> 0]
  /\ begun = {}
  /\ serving = {}

Send(s) ==
  /\ sent' = [sent EXCEPT ![s] = @ + 1]
  /\ UNCHANGED <<begun, serving>>

Begin(s, k) ==
  /\ <<s, k>> \notin begun
  /\ s # NullSource => /\ \A j \in 1 .. (k - 1) : <<s, j>> \in begun
                       /\ \A e \in serving : e[1] # s
  /\ begun' = begun \cup {<<s, k>>}
  /\ serving' = serving \cup {<<s, k>>}
  /\ UNCHANGED sent

End(e) ==
  /\ e \in serving
  /\ serving' = serving \ {e}
  /\ UNCHANGED <<sent, begun>>

Next ==
  \/ \E s \in AllSources : Send(s)
  \/ \E s \in AllSources : \E k \in 1 .. sent[s] : Begin(s, k)
  \/ \E e \in serving : End(e)

Spec == Init /\ [][Next]_fifoVars
===============================================================================
