----------------------------- MODULE SigTables -----------------------------
(***************************************************************************)
(* The configuration tables of the signalling gateway, what mod_sig's      *)
(* commands do to them, and the two procedures that read them while they   *)
(* change: the answer to a gNB's NGSetupRequest and the gateway's own      *)
(* request to an AMF.  Each reads table after table, a handle for each,    *)
(* and gives up without a word where one says nothing.                     *)
(*                                                                         *)
(* Left out: names, capacities and areas, which are copied only; rows too  *)
(* long to be shown; global_nssai, which is written and never read.        *)
(***************************************************************************)
EXTENDS Naturals, FiniteSets, Sequences, SequencesExt, FiniteSetsExt

CONSTANTS Gws,          \* idSigGW
          Plmns,
          Rows,         \* table -> rows the operator may enter
          InitialDb,    \* table -> ID -> row
          Pages,        \* <<page_index, page_size>> of queries
          Short, Long,  \* too few arguments, a name too long
          Gnb, Amf,     \* the two procedures
          None

Tables == {"nssai", "vgw", "taplmn", "guami", "bplmn", "mediagw"}
ASSUME TableAssumption ==
    /\ DOMAIN Rows = Tables /\ DOMAIN InitialDb = Tables
    /\ \A t \in Tables : DOMAIN InitialDb[t] = 1..Cardinality(DOMAIN InitialDb[t])
    /\ Pages \subseteq Nat \X Nat /\ IsFiniteSet(Plmns) /\ Gnb # Amf

VARIABLES
    db,     \* table -> ID -> row
    esm,    \* esm_list: the PLMN the gNB is registered with
    job     \* the set-up being handled (Asked), None if there is none

-----------------------------------------------------------------------------
(* SigApi: one statement per command, which the database may refuse.        *)

Outcome(t, rows, ret) == [db |-> [db EXCEPT ![t] = rows], ret |-> ret]
Refused(t) == {Outcome(t, db[t], "input_error")}
Failed(t)  == Outcome(t, db[t], "database_error")
InsertInto(t, a) == {Failed(t), Outcome(t,
    [i \in DOMAIN db[t] \cup {Max(DOMAIN db[t] \cup {0}) + 1} |->
        IF i \in DOMAIN db[t] THEN db[t][i] ELSE a], "ok")}
UpdateAt(t, id, a) == {Failed(t), Outcome(t,
    [i \in DOMAIN db[t] |-> IF i = id THEN a ELSE db[t][i]], "ok")}
DeleteAt(t, id) == {Failed(t), Outcome(t,
    [i \in DOMAIN db[t] \ {id} |-> db[t][i]], "ok")}
\* LIMIT page_size OFFSET page_index, in the order of the IDs.
PageOf(rows, p) == LET ids == SetToSortSeq(DOMAIN rows, <) IN
    [k \in 1..Min({p[2], Max({0, Len(ids) - p[1]})}) |-> ids[p[1] + k]]

nssai_insert(a)       == InsertInto("nssai", a)
nssai_update(id, a)   == UpdateAt("nssai", id, a)
nssai_delete(id)      == DeleteAt("nssai", id)
nssai_queryN(p)       == PageOf(db["nssai"], p)
vgw_insert(a)         == IF a = Long THEN Refused("vgw") ELSE InsertInto("vgw", a)
vgw_update(id, a)     == IF a = Long THEN Refused("vgw") ELSE UpdateAt("vgw", id, a)
vgw_delete(id)        == DeleteAt("vgw", id)
vgw_queryN(p)         == PageOf(db["vgw"], p)
taplmn_insert(a)      == InsertInto("taplmn", a)
taplmn_update(id, a)  == UpdateAt("taplmn", id, a)
taplmn_delete(id)     == DeleteAt("taplmn", id)
taplmn_queryN(p)      == PageOf(db["taplmn"], p)
guami_insert(a)       == IF a = Long THEN Refused("guami") ELSE InsertInto("guami", a)
guami_update(id, a)   == IF a = Long THEN Refused("guami") ELSE UpdateAt("guami", id, a)
guami_delete(id)      == DeleteAt("guami", id)
guami_queryN(p)       == PageOf(db["guami"], p)
bplmn_insert(a)       == IF a = Long THEN Refused("bplmn") ELSE InsertInto("bplmn", a)
bplmn_update(id, a)   == IF a = Long THEN Refused("bplmn") ELSE UpdateAt("bplmn", id, a)
bplmn_delete(id)      == DeleteAt("bplmn", id)
bplmn_queryN(p)       == PageOf(db["bplmn"], p)
datagw_insert(a)      == IF a = Long THEN Refused("mediagw") ELSE InsertInto("mediagw", a)
datagw_update(id, a)  == IF a = Long THEN Refused("mediagw") ELSE UpdateAt("mediagw", id, a)
datagw_delete(id)     == DeleteAt("mediagw", id)
datagw_queryN(p)      == PageOf(db["mediagw"], p)

\* mod_sig's commands, table by table: [op, table, id, row] or [op, table, page].
nssai_api(m)  == CASE m.op = "add" -> nssai_insert(m.row) [] m.op = "mod" -> nssai_update(m.id, m.row)
                   [] OTHER -> nssai_delete(m.id)
vgw_api(m)    == CASE m.op = "add" -> vgw_insert(m.row) [] m.op = "mod" -> vgw_update(m.id, m.row)
                   [] OTHER -> vgw_delete(m.id)
taplmn_api(m) == CASE m.op = "add" -> taplmn_insert(m.row) [] m.op = "mod" -> taplmn_update(m.id, m.row)
                   [] OTHER -> taplmn_delete(m.id)
guami_api(m)  == CASE m.op = "add" -> guami_insert(m.row) [] m.op = "mod" -> guami_update(m.id, m.row)
                   [] OTHER -> guami_delete(m.id)
bplmn_api(m)  == CASE m.op = "add" -> bplmn_insert(m.row) [] m.op = "mod" -> bplmn_update(m.id, m.row)
                   [] OTHER -> bplmn_delete(m.id)
datagw_api(m) == CASE m.op = "add" -> datagw_insert(m.row) [] m.op = "mod" -> datagw_update(m.id, m.row)
                   [] OTHER -> datagw_delete(m.id)

\* siggw_main_real: what a command may do, one of its outcomes.
siggw_main(m) ==
    IF m.row = Short THEN Refused(m.table)
    ELSE CASE m.table = "nssai"  -> nssai_api(m)  [] m.table = "vgw"   -> vgw_api(m)
           [] m.table = "taplmn" -> taplmn_api(m) [] m.table = "guami" -> guami_api(m)
           [] m.table = "bplmn"  -> bplmn_api(m)  [] OTHER             -> datagw_api(m)
siggw_query(m) ==
    CASE m.table = "nssai"  -> nssai_queryN(m.page)  [] m.table = "vgw"   -> vgw_queryN(m.page)
      [] m.table = "taplmn" -> taplmn_queryN(m.page) [] m.table = "guami" -> guami_queryN(m.page)
      [] m.table = "bplmn"  -> bplmn_queryN(m.page)  [] OTHER             -> datagw_queryN(m.page)

-----------------------------------------------------------------------------
(* DbManager: what a SELECT finds in database d.                            *)

RowsOf(d, t) == {d[t][i] : i \in DOMAIN d[t]}
\* The last row stands; without one, param keeps what the stack held.
QueryVgwParam(d, g) ==
    LET found == {i \in DOMAIN d.vgw : d.vgw[i].gw = g} IN
    IF found = {} THEN Plmns \cup {None} ELSE {d.vgw[Max(found)].plmn}
QueryBplmn(d, g)  == {[id |-> r.bplmn, plmn |-> r.plmn] : r \in {q \in RowsOf(d, "bplmn") : q.gw = g}}
QueryGuami(d, g)  == {r.guami : r \in {q \in RowsOf(d, "guami") : q.gw = g}}
QueryTacs(d, g)   == {r.ta : r \in {q \in RowsOf(d, "taplmn") : q.gw = g}}
QueryTacPlmn(d, g, ta) ==
    {b \in QueryBplmn(d, g) : \E r \in RowsOf(d, "taplmn") : r.gw = g /\ r.ta = ta /\ r.bplmn = b.id}
QueryPlmnNssai(d, g, b) ==
    {n.slice : n \in {q \in RowsOf(d, "nssai") :
        \E r \in RowsOf(d, "bplmn") : r.gw = g /\ r.bplmn = b /\ r.nssai = q.nssai}}

-----------------------------------------------------------------------------
(* The set-ups, one SELECT per step.                                        *)

\* seen: history, the databases there have been since; faulted: history, a SELECT failed.
Asked(who, g, p, areas, at) ==
    [of |-> who, gw |-> g, plmn |-> p, areas |-> areas, at |-> at, param |-> None,
     tas |-> {}, plmns |-> {}, said |-> "nothing", list |-> {}, seen |-> {db}, faulted |-> FALSE]
\* The procedure ends: what it has said, and nothing it worked with.
Over(j, said) == [j EXCEPT !.at = "over", !.said = said, !.param = None, !.tas = {},
                           !.plmns = {}, !.list = IF said = "list" THEN @ ELSE {}]
\* A SELECT that cannot start ends the procedure; one that breaks off counts as done.
\* next: what the procedure goes on as, for each set of rows that may have been read.
Selects(next, ends) == LET rows == UNION DOMAIN next IN
    \/ job' = next[rows]
    \/ \E part \in DOMAIN next \ {rows} : job' = [next[part] EXCEPT !.faulted = TRUE]
    \/ job' = [ends EXCEPT !.faulted = TRUE]
At(who, at) == job # None /\ job.of = who /\ job.at = at

Idle == job # None => job.at = "over"

\* GNB_SetupReq, of a gNB with PLMN p and, or not, a list of areas, which is looked at
\* after the PLMN; HandlePlmn reads the virtual gateway's own PLMN ...
GNB_SetupReq(g, p, areas) ==
    Idle /\ job' = Asked(Gnb, g, p, areas, "vgw") /\ UNCHANGED <<db, esm>>
HandlePlmn_Vgw ==
    /\ At(Gnb, "vgw") /\ UNCHANGED <<db, esm>>
    /\ \/ \E p \in QueryVgwParam(db, job.gw) : job' = [job EXCEPT !.at = "bplmn", !.param = p]
       \/ \E p \in Plmns \cup {None} :
             job' = [job EXCEPT !.at = "bplmn", !.param = p, !.faulted = TRUE]
       \/ job' = [Over(job, "failure") EXCEPT !.faulted = TRUE]
\* Mutant: only the gateway's own PLMN is served.
HandlePlmnOwnOnly ==
    /\ At(Gnb, "bplmn")
    /\ LET Check[rows \in SUBSET QueryBplmn(db, job.gw)] ==
               IF job.plmn = job.param /\ job.areas THEN [job EXCEPT !.at = "param"]
               ELSE Over(job, "failure") IN
       Selects(Check, Over(job, "failure"))
    /\ esm' = IF job'.at = "param" THEN job.plmn ELSE esm
    /\ UNCHANGED db
\* ... and its broadcast PLMNs; Setup registers the gNB before it is answered.
HandlePlmn ==
    /\ At(Gnb, "bplmn")
    /\ LET Check[rows \in SUBSET QueryBplmn(db, job.gw)] ==
               IF job.plmn \in {job.param} \cup {r.plmn : r \in rows} /\ job.areas
               THEN [job EXCEPT !.at = "param"] ELSE Over(job, "failure") IN
       Selects(Check, Over(job, "failure"))
    /\ esm' = IF job'.at = "param" THEN job.plmn ELSE esm
    /\ UNCHANGED db
\* SendNgSetupResponse: PLMNs, GUAMIs, slices of each PLMN; silence if one is missing.
SendNgSetupResponse_Plmns ==
    /\ At(Gnb, "param") /\ UNCHANGED <<db, esm>>
    /\ LET Take[rows \in SUBSET QueryBplmn(db, job.gw)] ==
               IF rows = {} THEN Over(job, "nothing")
               ELSE [job EXCEPT !.at = "guami", !.plmns = rows] IN
       Selects(Take, Over(job, "nothing"))
SendNgSetupResponse_Guamis ==
    /\ At(Gnb, "guami") /\ UNCHANGED <<db, esm>>
    /\ LET Take[rows \in SUBSET QueryGuami(db, job.gw)] ==
               IF rows = {} THEN Over(job, "nothing")
               ELSE [job EXCEPT !.at = "slices"] IN
       Selects(Take, Over(job, "nothing"))

\* AsmManager::SendNgSetup: areas, PLMNs of each area, slices of each PLMN.
SendNgSetup(g) == Idle /\ job' = Asked(Amf, g, None, TRUE, "tacs") /\ UNCHANGED <<db, esm>>
SendNgSetup_Areas ==
    /\ At(Amf, "tacs") /\ UNCHANGED <<db, esm>>
    /\ LET Take[rows \in SUBSET QueryTacs(db, job.gw)] ==
               IF rows = {} THEN Over(job, "nothing")
               ELSE [job EXCEPT !.at = "slices", !.tas = rows] IN
       Selects(Take, Over(job, "nothing"))
SendNgSetup_Plmns(ta) ==
    /\ At(Amf, "slices") /\ job.plmns = {} /\ ta \in job.tas /\ UNCHANGED <<db, esm>>
    /\ LET Take[rows \in SUBSET QueryTacPlmn(db, job.gw, ta)] ==
               IF rows = {} THEN Over(job, "nothing")
               ELSE [job EXCEPT !.tas = @ \ {ta}, !.plmns = rows] IN
       Selects(Take, Over(job, "nothing"))
\* Both: the slices of one PLMN, and the message after the last.
ListSlices(b) ==
    /\ job # None /\ job.at = "slices" /\ b \in job.plmns /\ UNCHANGED <<db, esm>>
    /\ LET Take[rows \in SUBSET QueryPlmnNssai(db, job.gw, b.id)] ==
               IF rows = {} THEN Over(job, "nothing")
               ELSE LET j == [job EXCEPT !.plmns = @ \ {b},
                                         !.list = @ \cup {[plmn |-> b.plmn, slices |-> rows]}] IN
                    IF j.plmns = {} /\ j.tas = {} THEN Over(j, "list") ELSE j IN
       Selects(Take, Over(job, "nothing"))

Lookup == \/ HandlePlmn_Vgw \/ HandlePlmn
          \/ SendNgSetupResponse_Plmns \/ SendNgSetupResponse_Guamis \/ SendNgSetup_Areas
          \/ \E ta \in {r.ta : r \in RowsOf(db, "taplmn")} : SendNgSetup_Plmns(ta)
          \/ \E b \in (IF job = None THEN {} ELSE job.plmns) : ListSlices(b)

-----------------------------------------------------------------------------
(* What a set-up should come to, were db read at once.                      *)

Entry(d, g, b) == [plmn |-> b.plmn, slices |-> QueryPlmnNssai(d, g, b.id)]
PlmnsFor(d, j) == IF j.of = Gnb THEN QueryBplmn(d, j.gw)
                  ELSE UNION {QueryTacPlmn(d, j.gw, ta) : ta \in QueryTacs(d, j.gw)}
Complete(d, j) ==
    /\ PlmnsFor(d, j) # {} /\ \A b \in PlmnsFor(d, j) : QueryPlmnNssai(d, j.gw, b.id) # {}
    /\ IF j.of = Gnb THEN QueryGuami(d, j.gw) # {}
       ELSE \A ta \in QueryTacs(d, j.gw) : QueryTacPlmn(d, j.gw, ta) # {}
Served(d, j) == \/ j.of = Amf
                \/ j.areas /\ j.plmn \in QueryVgwParam(d, j.gw) \cup {b.plmn : b \in QueryBplmn(d, j.gw)}
Due(d, j) == IF ~Served(d, j) THEN "failure" ELSE IF Complete(d, j) THEN "list" ELSE "nothing"

\* A set-up says what the tables say.  While they stand still: failure to a gNB whose
\* PLMN is not served, silence where a table is empty, else all PLMNs with all their
\* slices.  When commands run between its SELECTs: still no PLMN and no slices that
\* were not in the tables meanwhile, and no answer to a gNB that is not registered.
\* (Without a row for the gateway HandlePlmn compares with an uninitialised PLMN.)
SetupsFollowTables == job # None /\ job.at = "over" /\ ~job.faulted =>
    /\ \A d \in job.seen : job.seen = {d} /\ Cardinality(QueryVgwParam(d, job.gw)) = 1 =>
          /\ job.said = Due(d, job)
          /\ job.said = "list" => job.list = {Entry(d, job.gw, b) : b \in PlmnsFor(d, job)}
    /\ \A e \in job.list : \E d, k \in job.seen : \E b \in PlmnsFor(d, job) :
          b.plmn = e.plmn /\ e.slices = QueryPlmnNssai(k, job.gw, b.id) /\ e.slices # {}
    /\ job.of = Gnb /\ job.said = "list" =>
          esm = job.plmn /\ \E d \in job.seen : Served(d, job)
=============================================================================
