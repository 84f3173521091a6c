---------------------------- MODULE MCManagement ----------------------------
(* Management with one gateway, two PLMNs and two connections. *)
EXTENDS Management, TLC
CONSTANTS p1, p2, c1, c2, t1, t2, s1, o1, k1, v1, v2

Row(t) == CASE t = "nssai"  -> [nssai : {1}, slice : {1, 2}]
            [] t = "vgw"    -> [gw : {1}, plmn : {p1, p2}]
            [] t = "taplmn" -> [gw : {1}, ta : {1, 2}, bplmn : {1}]
            [] t = "guami"  -> [gw : {1}, guami : {1}]
            [] t = "bplmn"  -> [gw : {1}, bplmn : {1, 2}, plmn : {p2}, nssai : {1}]
            [] OTHER        -> [gw : {1}, name : {1}]
MCRows == [t \in Tables |-> IF t \in {"vgw", "guami", "bplmn", "mediagw"}
                            THEN Row(t) \cup {Long} ELSE Row(t)]
MCDb == [t \in Tables |-> <<CHOOSE r \in Row(t) : TRUE>>]
MCPages == {<<0, 1>>, <<1, 1>>}
SecRow(t) ==
    CASE t = "conns"   -> [name : {t1, t2}, auth : {"psk"}, id : {o1}, cfg : {v1, v2}]
      [] t = "secrets" -> [name : {s1}, id : {o1}, data : {v1, v2}]
      [] OTHER         -> [name : {k1}, file : {v1, v2}, type : {"cert"}]
MCSecRows == [t \in {"conns", "secrets", "certs"} |-> SecRow(t)]
MCSec == [t \in {"conns", "secrets", "certs", "infos"} |-> CASE
            t = "conns"   -> <<[name |-> t1, auth |-> "psk", id |-> o1, cfg |-> v1]>>
         [] t = "secrets" -> <<[name |-> s1, id |-> o1, data |-> v1]>>
         [] t = "certs"   -> <<[name |-> k1, file |-> v1, type |-> "cert"]>>
         [] OTHER         -> <<[name |-> t1, state |-> "up"]>>]
None0 == [connects |-> 0, exits |-> 0, changes |-> 0, queries |-> 0, resubscriptions |-> 0,
          setups |-> 0, shutdown |-> 0, secgw |-> 0, lists |-> 0, uploads |-> 0,
          restarts |-> 0, tunnels |-> 0, on |-> {}]
Bound(n, x, a, b, c, d, e, on) ==
    [None0 EXCEPT !.connects = n, !.exits = x, !.changes = a, !.queries = b,
                  !.resubscriptions = c, !.setups = d, !.shutdown = e, !.on = on]
SecBound(n, a, b, c, d, e, on) ==
    [None0 EXCEPT !.connects = n, !.secgw = a, !.lists = b, !.uploads = c, !.restarts = d,
                  !.tunnels = e, !.on = on]
MCBudgets == {
    Bound(1, 0, 1, 0, 0, 1, 0, Tables),               \* any command meets a set-up
    Bound(1, 0, 2, 0, 0, 1, 0, {"bplmn"}),            \* two commands meet a set-up
    Bound(1, 0, 2, 0, 0, 1, 0, {"nssai"}),
    Bound(2, 0, 2, 0, 2, 0, 0, {"mediagw"}),          \* two results, a queue of one
    Bound(2, 1, 1, 0, 1, 0, 1, {"mediagw"}),          \* an exit and a shutdown
    Bound(2, 0, 1, 1, 1, 0, 0, {"nssai"}),            \* a change and a query
    Bound(1, 0, 0, 1, 1, 0, 0, Tables),               \* any query
    SecBound(2, 2, 0, 0, 0, 0, {"conns"}),            \* two commands on tunnels, at once
    SecBound(1, 2, 0, 0, 1, 0, {"conns"}),            \* a restart between them
    SecBound(1, 2, 0, 0, 1, 0, {"secrets"}),          \* the same for secrets
    SecBound(1, 2, 0, 1, 1, 0, {"certs"}),            \* and for certificates, one uploaded
    SecBound(2, 0, 2, 0, 0, 0, SecTables),            \* any two lists at once
    SecBound(1, 0, 2, 0, 0, 1, {"infos"}),            \* lists meet a tunnel's event
    SecBound(1, 1, 0, 0, 0, 1, {"conns"}),            \* so does a command
    SecBound(0, 0, 0, 0, 0, 3, {})}                   \* the events of tunnels
Symmetry == Permutations(Conns)
=============================================================================
