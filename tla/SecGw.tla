------------------------------- MODULE SecGw -------------------------------
(***************************************************************************)
(* The IPsec gateway, mod_ipsec.  Its commands change tables, one file per *)
(* tunnel and secret, and the running strongSwan (charon), in this order:  *)
(* charon by a vici request, the file, the table.  charon may restart with *)
(* nothing loaded; a timer notices and reloads all from the files.         *)
(* Commands run in the threads of their callers on one database handle,    *)
(* one vici connection and one set of result buffers, without a lock.      *)
(*                                                                         *)
(* Left out: what a tunnel is made of besides its name, its credential and *)
(* the rest as one value; commands with missing arguments; a request on a  *)
(* vici connection that is gone (conn = "none"), where libvici would crash.*)
(***************************************************************************)
EXTENDS SigTables

CONSTANTS Callers,     \* the threads that may run a command
          SecRows,     \* table -> rows the operator may enter
          InitialSec,  \* table -> ID -> row
          MaxRows      \* SECGW_MAX_QUERY_ROWS

Filed == {"conns", "secrets"}             \* the tables with a file per row
SecTables == Filed \cup {"certs", "infos"}
SecNames  == UNION {{r.name : r \in SecRows[t]} : t \in Filed}
States == {"up", "down", "other"}         \* of a tunnel
InitialRows(t) == {InitialSec[t][i] : i \in DOMAIN InitialSec[t]}
\* Rows are [name, auth, id, cfg], [name, id, data], [name, file, type] and [name, state];
\* the tables begin as an earlier run may leave them.
ASSUME SecAssumption ==
    /\ DOMAIN SecRows = SecTables \ {"infos"} /\ DOMAIN InitialSec = SecTables
    /\ \A t \in SecTables : /\ IsFiniteSet(DOMAIN InitialSec[t])
                            /\ DOMAIN InitialSec[t] = 1..Cardinality(DOMAIN InitialSec[t])
    /\ \A t \in SecTables \ {"certs"} : \A i, j \in DOMAIN InitialSec[t] :
          InitialSec[t][i].name = InitialSec[t][j].name => i = j
    /\ \A r \in InitialRows("infos") : r.state \in States \ {"down"}
    /\ \A r, q \in SecRows["secrets"] \cup InitialRows("secrets") : r.id # q.name
    /\ MaxRows \in Nat
    /\ None \notin States /\ None \notin [name : SecNames, state : States, at : {"verify", "save", "alarm"}]

VARIABLES
    sec,     \* table -> ID -> row
    conf,    \* swanctl's files: conns and secrets by name, certs uploaded
    charon,  \* strongSwan: [up, conns, secrets, certs] and, history, loaded
    link,    \* m_viciConn: conn ok, broken by a restart or none; loading: ViciInit goes on
    call,    \* per caller at work: its command, and where it is
    lists,   \* g_*_total_rows, g_*_rows and g_*_query, per table
    ike,     \* the tunnel event vici's thread is handling
    alarms,  \* the tunnels reported down
    told,    \* history: per tunnel, its last event and the last one that found it configured
    doubt    \* history: <<place, table, name>> that a failure or overlap may have split
secgw == <<sec, conf, charon, link, call, lists, ike, alarms, told, doubt>>

InfosOf(n)   == {i \in DOMAIN sec.infos : sec.infos[i].name = n}
SecRowsOf(t) == {sec[t][i] : i \in DOMAIN sec[t]}
ByName(t)    == [n \in {r.name : r \in SecRowsOf(t)} |-> CHOOSE r \in SecRowsOf(t) : r.name = n]
With(f, n, r) == [k \in DOMAIN f \cup {n} |-> IF k = n THEN r ELSE f[k]]
Without(f, n) == [k \in DOMAIN f \ {n} |-> f[k]]
Shared(r)    == [owner |-> r.id, data |-> r.data]
CertFile(r)  == [file |-> r.file, type |-> r.type]

\* What swanctl makes of the files of secrets.
FiledSecrets == [k \in {<<"ike", n>> : n \in DOMAIN conf.secrets} |-> Shared(conf.secrets[k[2]])]

SecInit ==
    /\ sec = InitialSec
    /\ conf = [conns |-> ByName("conns"), secrets |-> ByName("secrets"),
               certs |-> {CertFile(r) : r \in SecRowsOf("certs")}]
    /\ charon = [up |-> TRUE, loaded |-> TRUE, conns |-> conf.conns,
                 secrets |-> FiledSecrets, certs |-> conf.certs]
    /\ link = [conn |-> "ok", loading |-> FALSE] /\ call = <<>> /\ ike = None /\ alarms = {}
    /\ lists = [t \in SecTables |-> [total |-> 0, rows |-> <<>>]]
    /\ told = [n \in SecNames |-> [known |-> None, last |->
          IF InfosOf(n) = {} THEN None ELSE sec.infos[CHOOSE i \in InfosOf(n) : TRUE].state]]
    /\ doubt = {}

-----------------------------------------------------------------------------
(* A command, step by step: check (the lookups), vici, file, save; or       *)
(* count, page, body; then fire.                                            *)

Involved(m) ==
    (IF m.op \in {"add", "mod"} THEN {m.row.name} ELSE {})
      \cup (IF m.op \in {"mod", "rmv"} THEN {sec[m.table][i].name : i \in {m.id} \cap DOMAIN sec[m.table]}
            ELSE {})
\* row is that of a deletion, once Del_Check has read it.
About(c) == Involved(call[c].m) \cup
    (IF call[c].m.op = "rmv" /\ call[c].at # "check" THEN {call[c].row.name} ELSE {})
On(t)    == {c \in DOMAIN call : call[c].m.table = t /\ call[c].m.op # "done"}
Busy(t)  == UNION {About(c) : c \in On(t)}
Running(c, at) == c \in DOMAIN call /\ call[c].at = at
Go(c, at)      == call' = [call EXCEPT ![c].at = at]
\* The command ends with config_return_msg ret.
Ends(c, ret)   == call' = [call EXCEPT ![c].at = "fire", ![c].ret = ret, ![c].row = None,
                                       ![c].m = [op |-> "done", table |-> @.table]]
Doubt(places, t, names) == doubt' = doubt \cup (places \X {t} \X names)

\* secgw_main_real: the command is found, its arguments are copied.
secgw_main(c, m) ==
    /\ c \notin DOMAIN call
    /\ LET clash  == {d \in On(m.table) : Involved(m) \cap About(d) # {}}
           mixing == {d \in On(m.table) : m.op = "query" /\ call[d].m.op = "query"} IN
       /\ call' = [d \in DOMAIN call \cup {c} |->
            IF d = c THEN [m |-> m, at |-> IF m.op = "query" THEN "zero" ELSE "check", ret |-> "ok",
                           row |-> None, body |-> None,
                           saw |-> [total |-> 0, rows |-> <<>>], mixed |-> mixing # {}]
            ELSE IF d \in mixing THEN [call[d] EXCEPT !.mixed = TRUE] ELSE call[d]]
       /\ Doubt({"file", "charon"}, m.table,
                UNION {Involved(m) \cup About(d) : d \in clash})
    /\ UNCHANGED <<sec, conf, charon, link, lists, ike, alarms, told>>

\* verify_conn_config's lookup of the credential.
find_cert_from_db(r)   == \E q \in SecRowsOf("certs") : q.name = r.id
find_secret_from_db(r) == \E q \in SecRowsOf("secrets") : q.id = r.id
verify_conn_config(r)  == /\ r.auth = "pubkey" => find_cert_from_db(r)
                          /\ r.auth = "psk" => find_secret_from_db(r)
\* A failing lookup of the name finds nothing; one of the credential refuses.
Add_Check(c) ==
    /\ Running(c, "check") /\ call[c].m.op = "add"
    /\ LET m == call[c].m
           known == \E r \in SecRowsOf(m.table) : r.name = m.row.name IN
       \E lost \in BOOLEAN :
          /\ \/ (known /\ ~lost) /\ Ends(c, "verify")
             \/ ~(known /\ ~lost) /\ m.table = "conns" /\ Ends(c, "verify")
             \/ /\ ~(known /\ ~lost) /\ (m.table = "conns" => verify_conn_config(m.row))
                /\ Go(c, "vici")
          /\ IF known /\ lost THEN Doubt({"file", "charon"}, m.table, {m.row.name})
             ELSE UNCHANGED doubt
    /\ UNCHANGED <<sec, conf, charon, link, lists, ike, alarms, told>>
\* config_mod_*: the row is looked up by its ID, a new name is not compared with others.
Mod_Check(c) ==
    /\ Running(c, "check") /\ call[c].m.op = "mod"
    /\ LET m == call[c].m IN
       /\ \/ Ends(c, "no_record")
          \/ m.id \in DOMAIN sec[m.table] /\ m.table = "conns" /\ Ends(c, "verify")
          \/ /\ m.id \in DOMAIN sec[m.table] /\ (m.table = "conns" => verify_conn_config(m.row))
             /\ Go(c, "vici")
       /\ IF m.id \in DOMAIN sec[m.table] /\ sec[m.table][m.id].name # m.row.name
          THEN Doubt({"file", "charon"}, m.table, Involved(m)) ELSE UNCHANGED doubt
    /\ UNCHANGED <<sec, conf, charon, link, lists, ike, alarms, told>>
\* config_del_*: the row tells what to unload; a certificate stays where it is.
Del_Check(c) ==
    /\ Running(c, "check") /\ call[c].m.op = "rmv"
    /\ LET m == call[c].m IN
       \/ Ends(c, "no_record")
       \/ /\ m.id \in DOMAIN sec[m.table]
          /\ call' = [call EXCEPT ![c].at = IF m.table = "certs" THEN "save" ELSE "vici",
                                  ![c].row = sec[m.table][m.id]]
    /\ UNCHANGED <<sec, conf, charon, link, lists, ike, alarms, told, doubt>>

-----------------------------------------------------------------------------
(* vici_api: requests, which may be refused or fail, and files.             *)

\* An answer comes only from the charon the connection was made with.
Reached == link.conn = "ok" /\ charon.up
\* load-shared names a secret by its name, unload-shared by its owner, swanctl ike-<name>.
vici_add_conn(r)     == [charon EXCEPT !.conns = With(@, r.name, r)]
vici_unload_conn(r)  == [charon EXCEPT !.conns = Without(@, r.name)]
load_secret(r)  == [charon EXCEPT !.secrets = With(@, <<"vici", r.name>>, Shared(r))]
unload_secret(r) == [charon EXCEPT !.secrets = Without(@, <<"vici", r.id>>)]
vici_load_cert(r) == [charon EXCEPT !.certs = @ \cup {CertFile(r)}]

\* A certificate is read from its uploaded file first.
TakeEffect(c) ==
    /\ Running(c, "vici") /\ call[c].m.op # "rmv" /\ link.conn # "none"
    /\ LET m == call[c].m IN
       \/ /\ Reached /\ (m.table = "certs" => CertFile(m.row) \in conf.certs)
          /\ charon' = CASE m.table = "conns" -> vici_add_conn(m.row)
                         [] m.table = "secrets" -> load_secret(m.row) [] OTHER -> vici_load_cert(m.row)
          /\ Go(c, IF m.table = "certs" THEN "save" ELSE "file")
       \/ \E ret \in {"no_effect"} \cup (IF m.table = "certs" THEN {"verify"} ELSE {}) :
             Ends(c, ret) /\ UNCHANGED charon
    /\ UNCHANGED <<sec, conf, link, lists, ike, alarms, told, doubt>>
\* Whether the daemon could unload it or not, the command goes on.
Unload(c) ==
    /\ Running(c, "vici") /\ call[c].m.op = "rmv" /\ link.conn # "none"
    /\ LET t == call[c].m.table
           r == call[c].row IN
       \/ /\ Reached /\ charon' = IF t = "conns" THEN vici_unload_conn(r) ELSE unload_secret(r)
          /\ UNCHANGED doubt
       \/ /\ UNCHANGED charon
          /\ IF charon.loaded THEN Doubt({"charon"}, t, {r.name}) ELSE UNCHANGED doubt
    /\ Go(c, "file") /\ UNCHANGED <<sec, conf, link, lists, ike, alarms, told>>

add_conn_file(r)      == [conf EXCEPT !.conns = With(@, r.name, r)]
delete_conn_file(n)   == [conf EXCEPT !.conns = Without(@, n)]
create_secret_file(r) == [conf EXCEPT !.secrets = With(@, r.name, r)]
delete_secret_file(n) == [conf EXCEPT !.secrets = Without(@, n)]
\* Mutant: a change appends to the file it should replace, so the old values stand.
WriteFileOnce(c) ==
    /\ Running(c, "file") /\ call[c].m.op # "rmv"
    /\ LET m == call[c].m
           r == m.row
           old == conf[m.table] IN
       conf' = IF r.name \in DOMAIN old THEN conf
               ELSE IF m.table = "conns" THEN add_conn_file(r) ELSE create_secret_file(r)
    /\ Go(c, "save") /\ UNCHANGED <<sec, charon, link, lists, ike, alarms, told, doubt>>
\* A change first removes the file of the new name; nobody looks whether files could be
\* removed or opened.
WriteFile(c) ==
    /\ Running(c, "file") /\ call[c].m.op # "rmv"
    /\ LET m == call[c].m
           r == m.row IN
       \/ /\ conf' = IF m.table = "conns" THEN add_conn_file(r) ELSE create_secret_file(r)
          /\ UNCHANGED doubt
       \/ /\ conf' = IF m.op = "add" THEN conf
                     ELSE IF m.table = "conns" THEN delete_conn_file(r.name) ELSE delete_secret_file(r.name)
          /\ Doubt({"file", "charon"}, m.table, {r.name})
    /\ Go(c, "save") /\ UNCHANGED <<sec, charon, link, lists, ike, alarms, told>>
RemoveFile(c) ==
    /\ Running(c, "file") /\ call[c].m.op = "rmv"
    /\ LET t == call[c].m.table
           n == call[c].row.name IN
       \/ /\ conf' = IF t = "conns" THEN delete_conn_file(n) ELSE delete_secret_file(n)
          /\ UNCHANGED doubt
       \/ UNCHANGED conf /\ Doubt({"file", "charon"}, t, {n})
    /\ Go(c, "save") /\ UNCHANGED <<sec, charon, link, lists, ike, alarms, told>>
\* add_cert_file, for an upload_cert_file event.
add_cert_file(f) ==
    /\ f \notin conf.certs /\ conf' = [conf EXCEPT !.certs = @ \cup {f}]
    /\ UNCHANGED <<sec, charon, link, call, lists, ike, alarms, told, doubt>>

-----------------------------------------------------------------------------
(* secgw_db_api: the table.                                                 *)

Insert(t, r) == {[sec EXCEPT ![t] = With(@, Max(DOMAIN @ \cup {0}) + 1, r)]}
save_conn_to_db(r)   == Insert("conns", r)
save_secret_to_db(r) == Insert("secrets", r)
save_cert_to_db(r)   == Insert("certs", r)
\* An UPDATE whose row is gone changes nothing, and succeeds.
Update(t, i, r) == {[sec EXCEPT ![t] = IF i \in DOMAIN @ THEN With(@, i, r) ELSE @]}
update_conn_to_db(i, r)   == Update("conns", i, r)
update_secret_to_db(i, r) == Update("secrets", i, r)
update_cert_to_db(i, r)   == Update("certs", i, r)
DeleteId(t, i) == {[sec EXCEPT ![t] = Without(@, i)]}
delete_conn_by_id(i)   == DeleteId("conns", i)
delete_secret_by_id(i) == DeleteId("secrets", i)
delete_cert_by_id(i)   == DeleteId("certs", i)

config_conn(m)   == CASE m.op = "add" -> save_conn_to_db(m.row) [] m.op = "mod" -> update_conn_to_db(m.id, m.row)
                      [] OTHER -> delete_conn_by_id(m.id)
config_secret(m) == CASE m.op = "add" -> save_secret_to_db(m.row) [] m.op = "mod" -> update_secret_to_db(m.id, m.row)
                      [] OTHER -> delete_secret_by_id(m.id)
config_cert(m)   == CASE m.op = "add" -> save_cert_to_db(m.row) [] m.op = "mod" -> update_cert_to_db(m.id, m.row)
                      [] OTHER -> delete_cert_by_id(m.id)
\* A new row may get the ID of a deleted one that another command still names.
NamedIds(t) == {call[d].m.id : d \in {d \in On(t) : call[d].m.op \in {"mod", "rmv"}}}
Reused(t)   == {sec'[t][i].name : i \in (NamedIds(t) \cap DOMAIN sec'[t]) \ DOMAIN sec[t]}
Save(c) ==
    /\ Running(c, "save")
    /\ LET m == call[c].m IN
       \/ /\ sec' \in CASE m.table = "conns" -> config_conn(m) [] m.table = "secrets" -> config_secret(m)
                        [] OTHER -> config_cert(m)
          /\ Ends(c, "ok") /\ Doubt({"file", "charon"}, m.table, Reused(m.table))
       \/ UNCHANGED sec /\ Ends(c, "database") /\ Doubt({"file"}, m.table, Involved(m))
    /\ UNCHANGED <<conf, charon, link, lists, ike, alarms, told>>

\* Mutant: the total of the last list stands.
List_ZeroNot(c) ==
    /\ Running(c, "zero") /\ Go(c, "count")
    /\ UNCHANGED <<sec, conf, charon, link, lists, ike, alarms, told, doubt>>
\* secgw_list_ipsec_*_api: the total and the page go through the table's buffers.
List_Zero(c) ==
    /\ Running(c, "zero") /\ lists' = [lists EXCEPT ![call[c].m.table].total = 0]
    /\ Go(c, "count")
    /\ UNCHANGED <<sec, conf, charon, link, ike, alarms, told, doubt>>
List_Count(c) ==
    /\ Running(c, "count")
    /\ LET t == call[c].m.table
           n == Cardinality(DOMAIN sec[t]) IN
       \/ call' = [call EXCEPT ![c].at = "body", ![c].ret = "database"] /\ UNCHANGED lists
       \/ /\ lists' = [lists EXCEPT ![t].total = n]
          /\ call' = [call EXCEPT ![c].at = "page", ![c].saw.total = n]
    /\ UNCHANGED <<sec, conf, charon, link, ike, alarms, told, doubt>>
List_Page(c) ==
    /\ Running(c, "page")
    /\ LET t == call[c].m.table
           rows == PageOf(sec[t], call[c].m.page) IN
       IF lists[t].total = 0 THEN Go(c, "body") /\ UNCHANGED lists
       ELSE \/ call' = [call EXCEPT ![c].at = "body", ![c].ret = "database"] /\ UNCHANGED lists
            \/ /\ call[c].m.page[2] <= MaxRows /\ lists' = [lists EXCEPT ![t].rows = rows]
               /\ call' = [call EXCEPT ![c].at = "body", ![c].saw.rows = rows]
    /\ UNCHANGED <<sec, conf, charon, link, ike, alarms, told, doubt>>
Body(c) == LET l == lists[call[c].m.table] IN
    [total |-> l.total, rows |-> IF call[c].ret = "ok" /\ l.total > 0 THEN l.rows ELSE <<>>]
List_Body(c) ==
    /\ Running(c, "body") /\ call' = [call EXCEPT ![c].at = "fire", ![c].body = Body(c)]
    /\ UNCHANGED <<sec, conf, charon, link, lists, ike, alarms, told, doubt>>

SecStep(c) == \/ Add_Check(c) \/ Mod_Check(c) \/ Del_Check(c) \/ TakeEffect(c) \/ Unload(c)
              \/ WriteFile(c) \/ RemoveFile(c) \/ Save(c)
              \/ List_Zero(c) \/ List_Count(c) \/ List_Page(c) \/ List_Body(c)

-----------------------------------------------------------------------------
(* strongSwan restarts, and the timer that notices.                         *)

CharonDies ==
    /\ charon.up /\ link' = [link EXCEPT !.conn = IF @ = "ok" THEN "broken" ELSE @]
    /\ charon' = [up |-> FALSE, loaded |-> FALSE, conns |-> <<>>, secrets |-> <<>>, certs |-> {}]
    /\ UNCHANGED <<sec, conf, call, lists, ike, alarms, told, doubt>>
CharonStarts ==
    /\ ~charon.up /\ charon' = [charon EXCEPT !.up = TRUE]
    /\ UNCHANGED <<sec, conf, link, call, lists, ike, alarms, told, doubt>>
\* vici_get_version fails: ViciInit connects and registers; a connection that could not
\* be made or registered is gone for all.
secgw_timer_callback ==
    /\ link.conn = "broken" /\ ~link.loading
    /\ \/ charon.up /\ link' = [conn |-> "ok", loading |-> TRUE]
       \/ link' = [conn |-> "none", loading |-> FALSE]
    /\ UNCHANGED <<sec, conf, charon, call, lists, ike, alarms, told, doubt>>
\* ViciInit: swanctl --load-all, on a connection of its own; it is not tried again.
\* A command between charon and its file is overtaken.
LoadAll ==
    /\ link.loading /\ link' = [link EXCEPT !.loading = FALSE]
    /\ \/ UNCHANGED <<charon, doubt>>
       \/ /\ charon.up
          /\ charon' = [up |-> TRUE, loaded |-> TRUE, conns |-> conf.conns,
                        secrets |-> FiledSecrets, certs |-> conf.certs]
          /\ doubt' = {d \in doubt : d[1] # "charon" \/ On(d[2]) # {}} \cup
                 UNION {{"charon"} \X {call[c].m.table} \X About(c)
                           : c \in {d \in DOMAIN call : Running(d, "file")}}
    /\ UNCHANGED <<sec, conf, call, lists, ike, alarms, told>>

-----------------------------------------------------------------------------
(* parseIkeEvent, on vici's thread: a tunnel is up, down, or between.       *)

parseIkeEvent(n, state) ==
    /\ ike = None /\ Reached /\ (state = "up" => n \in DOMAIN charon.conns)
    /\ ike' = [name |-> n, state |-> state, at |-> "verify"]
    /\ UNCHANGED <<sec, conf, charon, link, call, lists, alarms, told, doubt>>
\* Mutant: the old record of a tunnel stays.
verify_ike_info_keeps ==
    /\ ike # None /\ ike.at = "verify" /\ ike' = [ike EXCEPT !.at = "save"]
    /\ UNCHANGED <<sec, conf, charon, link, call, lists, alarms, told, doubt>>
\* The old record goes; if it cannot be found the new one joins it, if it cannot be
\* deleted the new one is not saved.
verify_ike_info_to_db ==
    /\ ike # None /\ ike.at = "verify"
    /\ \/ /\ sec' = [sec EXCEPT !.infos = [i \in DOMAIN @ \ InfosOf(ike.name) |-> @[i]]]
          /\ ike' = [ike EXCEPT !.at = "save"] /\ UNCHANGED doubt
       \/ /\ InfosOf(ike.name) # {} /\ UNCHANGED sec
          /\ \E at \in {"save", "alarm"} : ike' = [ike EXCEPT !.at = at]
          /\ Doubt({"file"}, "infos", {ike.name})
    /\ UNCHANGED <<conf, charon, link, call, lists, alarms, told>>
save_ike_info_to_db ==
    /\ ike # None /\ ike.at = "save" /\ ike' = [ike EXCEPT !.at = "alarm"]
    /\ IF ike.state = "down" THEN UNCHANGED <<sec, doubt>>
       ELSE \/ sec' \in Insert("infos", [name |-> ike.name, state |-> ike.state]) /\ UNCHANGED doubt
            \/ UNCHANGED sec /\ Doubt({"file"}, "infos", {ike.name})
    /\ UNCHANGED <<conf, charon, link, call, lists, alarms, told>>
\* Only for a tunnel that is configured; a failing SELECT counts as not configured.
secgw_ike_conn_alarm ==
    /\ ike # None /\ ike.at = "alarm" /\ ike' = None
    /\ LET n == ike.name
           known == \E r \in SecRowsOf("conns") : r.name = n IN
       \/ /\ known
          /\ alarms' = CASE ike.state = "up" -> alarms \ {n} [] ike.state = "down" -> alarms \cup {n}
                         [] OTHER -> alarms
          /\ told' = [told EXCEPT ![n].last = ike.state,
                          ![n].known = IF ike.state \in {"up", "down"} THEN ike.state ELSE @]
       \/ told' = [told EXCEPT ![n].last = ike.state] /\ UNCHANGED alarms
    /\ UNCHANGED <<sec, conf, charon, link, call, lists, doubt>>
Tunnels == verify_ike_info_to_db \/ save_ike_info_to_db \/ secgw_ike_conn_alarm

-----------------------------------------------------------------------------
(* Properties.                                                              *)

\* A restart brings back what the tables say: once the commands about it have ended, a
\* tunnel or secret is in the table, in its file and - since the last reload - in
\* charon with the same contents, or in none of them, and every certificate of the table
\* is uploaded and loaded, whatever was refused and whenever charon restarted.  Excepted
\* are names that a failing file or table, a lookup that failed, two commands at once, an
\* ID used again or a change of name has split (doubt), and secrets charon was told to
\* forget, which are unloaded by their owner instead of their name and stay until the
\* next restart.
ServedAsConfigured ==
    /\ \A t \in Filed : \A n \in SecNames \ Busy(t) :
          LET filed == {conf[t][k] : k \in DOMAIN conf[t] \cap {n}}
              live  == {charon.secrets[k] : k \in DOMAIN charon.secrets \cap ({"ike", "vici"} \X {n})} IN
          /\ <<"file", t, n>> \notin doubt => filed = {r \in SecRowsOf(t) : r.name = n}
          /\ charon.loaded /\ <<"charon", t, n>> \notin doubt =>
               IF t = "conns" THEN {charon.conns[k] : k \in DOMAIN charon.conns \cap {n}} = filed
               ELSE \A r \in filed : Shared(r) \in live
    /\ \A r \in SecRowsOf("certs") :
          CertFile(r) \in conf.certs /\ (charon.loaded => CertFile(r) \in charon.certs)

\* A list tells what its own SELECTs found, unless another list of the same table ran
\* at the same time: the total and the rows pass through buffers all callers share.
ListsOwnRows == \A c \in Callers :
    Running(c, "fire") /\ call[c].m.op = "query" /\ ~call[c].mixed => call[c].body = call[c].saw

\* A tunnel has at most one record, of its last state and none once it is down; its alarm
\* stands while the last event whose lookup found it configured took it down.  Excepted
\* are tunnels whose record the database failed to read or write.
TunnelsAsReported == \A n \in SecNames : (ike # None => ike.name # n) =>
    /\ <<"file", "infos", n>> \notin doubt =>
          IF told[n].last \in {None, "down"} THEN InfosOf(n) = {}
          ELSE Cardinality(InfosOf(n)) = 1 /\ \A i \in InfosOf(n) : sec.infos[i].state = told[n].last
    /\ n \in alarms <=> told[n].known = "down"
=============================================================================
