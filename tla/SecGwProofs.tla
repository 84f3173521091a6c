----------------------------- MODULE SecGwProofs -----------------------------
(***************************************************************************)
(* Theorems about the IPsec gateway under the commands of the event        *)
(* socket, for any number of connections, any rows and any restarts.       *)
(***************************************************************************)
EXTENDS ManagementProofs

-----------------------------------------------------------------------------
(* Shapes.                                                                  *)

Edited == Filed \cup {"certs"}            \* the tables commands change
Walk   == {"check", "vici", "file", "save"}

\* A call has its seven fields; a change stands where its kind of command can be.
Call(m, at, ret, row, body, saw, mixed) ==
  [m |-> m, at |-> at, ret |-> ret, row |-> row, body |-> body, saw |-> saw, mixed |-> mixed]
Shaped(r) == r = Call(r.m, r.at, r.ret, r.row, r.body, r.saw, r.mixed)
PlaceOf(m, at) ==
  \/ /\ m.op \in {"add", "mod"} /\ m.table \in Edited /\ m.row \in SecRows[m.table]
     /\ at \in Walk /\ (m.table = "certs" => at # "file")
  \/ /\ m.op = "rmv" /\ m.table \in Edited /\ at \in Walk
     /\ (m.table = "certs" => at \in {"check", "save"})
  \/ /\ m.op = "query" /\ m.table \in SecTables
     /\ at \in {"zero", "count", "page", "body", "fire"}
  \/ m.op = "done" /\ m.table \in SecTables /\ at = "fire"
Placed(r) == PlaceOf(r.m, r.at)
CallShape == \A c \in DOMAIN call : Shaped(call[c]) /\ Placed(call[c])

\* Tables, files, what strongSwan has loaded and the buffers; IDs are bounded.
Bounded(S) == \E k \in Nat : S \subseteq 0 .. k
SecShape  == DOMAIN sec = SecTables /\ \A t \in SecTables : Bounded(DOMAIN sec[t])
Conf(conns, secrets, certs) == [conns |-> conns, secrets |-> secrets, certs |-> certs]
ConfShape == conf = Conf(conf.conns, conf.secrets, conf.certs)
Charon(up, loaded, conns, secrets, certs) ==
  [up |-> up, loaded |-> loaded, conns |-> conns, secrets |-> secrets, certs |-> certs]
CharonShape == charon = Charon(charon.up, charon.loaded, charon.conns, charon.secrets, charon.certs)
DataShape == SecShape /\ ConfShape /\ CharonShape
ShapeInv == CallShape /\ DataShape

-----------------------------------------------------------------------------
(* The invariant of the lists.                                              *)

\* Two lists of one table at once are both marked; an unmarked one finds in the buffers
\* what its own SELECTs have put there.
ListOf(l) == l = [total |-> l.total, rows |-> l.rows] /\ l.total \in Nat
Asks(c, t) == c \in DOMAIN call /\ call[c].m.op = "query" /\ call[c].m.table = t
Unmixed(r, l) ==
  /\ r.at \in {"zero", "count"} => r.ret = "ok" /\ r.saw = [total |-> 0, rows |-> <<>>]
  /\ r.at = "count" => l.total = 0
  /\ r.at = "page" => r.ret = "ok" /\ r.saw = [total |-> l.total, rows |-> <<>>]
  /\ r.at = "body" => r.saw = [total |-> l.total,
                               rows |-> IF r.ret = "ok" /\ l.total > 0 THEN l.rows ELSE <<>>]
  /\ r.at = "fire" => r.body = r.saw
BufferInv ==
  /\ DOMAIN lists = SecTables /\ \A t \in SecTables : ListOf(lists[t])
  /\ \A c, d \in DOMAIN call, t \in SecTables :
        c # d /\ Asks(c, t) /\ Asks(d, t) => call[c].mixed
  /\ \A c \in DOMAIN call, t \in SecTables :
        Asks(c, t) /\ ~call[c].mixed => Unmixed(call[c], lists[t])

-----------------------------------------------------------------------------
(* The invariant of the tunnels.                                            *)

\* A name of a table that a failure or an overlap may have split.
Split(t, n) == <<"file", t, n>> \in doubt
\* Where the record of a tunnel stands while its event is handled.
TunnelEvents == [name : SecNames, state : States, at : {"verify", "save", "alarm"}]
Recorded(n, state) ==
  IF state \in {None, "down"} THEN InfosOf(n) = {}
  ELSE \E i \in DOMAIN sec.infos : InfosOf(n) = {i} /\ sec.infos[i].state = state
Handled(n) == ike # None /\ ike.name = n /\ ike.at # "verify"
TunnelInv ==
  /\ ike = None \/ ike \in TunnelEvents
  /\ DOMAIN told = SecNames
  /\ \A n \in SecNames : /\ told[n] = [known |-> told[n].known, last |-> told[n].last]
                         /\ told[n].last \in States \cup {None}
                         /\ n \in alarms <=> told[n].known = "down"
  /\ \A n \in SecNames : ~Split("infos", n) =>
        /\ ~Handled(n) => Recorded(n, told[n].last)
        /\ Handled(n) /\ ike.at = "save" => InfosOf(n) = {}
        /\ Handled(n) /\ ike.at = "alarm" => Recorded(n, ike.state)

-----------------------------------------------------------------------------
(* The invariant of tables, files and strongSwan.                           *)

\* A command that changes something, from its start until it ends; past its check, it
\* works on a name, which it writes to strongSwan, to a file and to the table.
Doing(c, t) == c \in DOMAIN call /\ call[c].m.op \in {"add", "mod", "rmv"} /\ call[c].m.table = t
Past(c, t)  == Doing(c, t) /\ call[c].at # "check"
Deletes(r)  == r.m.op = "rmv"
Works(r)    == IF Deletes(r) THEN r.row.name ELSE r.m.row.name
Written(r)  == IF Deletes(r) THEN {} ELSE {r.m.row}
Stands(c, t, n, at) == Past(c, t) /\ call[c].at = at /\ Works(call[c]) = n

\* The files, rows and loaded tunnels or secrets of a name.
FilesOf(t, n) == {conf[t][k] : k \in DOMAIN conf[t] \cap {n}}
RowsNamed(t, n) == {r \in SecRowsOf(t) : r.name = n}
TunnelsOf(n) == {charon.conns[k] : k \in DOMAIN charon.conns \cap {n}}
SecretsOf(n) == {charon.secrets[k] : k \in DOMAIN charon.secrets \cap ({"ike", "vici"} \X {n})}
AllSecrets == SecRows["secrets"] \cup InitialRows("secrets")

Parted(t, n) == <<"charon", t, n>> \in doubt
Both(t, n) == Split(t, n) /\ Parted(t, n)

\* Two commands about one name are known to overlap, and so are two that name one ID,
\* whatever row is under it by now.
ByID(c, t) == Doing(c, t) /\ call[c].m.op \in {"mod", "rmv"}
Overlap(c, d, t) ==
  /\ \A n \in About(c) \cap About(d) : Both(t, n)
  /\ ByID(c, t) /\ ByID(d, t) /\ call[c].m.id = call[d].m.id => \A n \in About(c) : Both(t, n)
OverlapInv == \A t \in Filed : \A c, d :
  c # d /\ Doing(c, t) /\ Doing(d, t) => Overlap(c, d, t)

\* Past its check a command's row is as it was found: none of a new name, or under the
\* command's ID the one of its name; a name has one row.
FoundNew(c, t) == Past(c, t) /\ call[c].m.op = "add" /\ ~Split(t, Works(call[c])) =>
  RowsNamed(t, Works(call[c])) = {}
FoundOld(c, t) == Past(c, t) /\ call[c].m.op # "add" =>
  LET i == call[c].m.id IN
  /\ i \in DOMAIN sec[t] => sec[t][i].name = Works(call[c]) \/ Split(t, sec[t][i].name)
  /\ Split(t, Works(call[c])) \/ (i \in DOMAIN sec[t] /\ sec[t][i].name = Works(call[c]))
Unique(t) == \A i, j \in DOMAIN sec[t] :
  sec[t][i].name = sec[t][j].name /\ ~Split(t, sec[t][i].name) => i = j
FoundInv == \A t \in Filed : Unique(t) /\ \A c : FoundNew(c, t) /\ FoundOld(c, t)

\* A name's file holds what the table holds, or what is about to be saved.
FileAt(t, n) ==
  /\ (\A c : ~Stands(c, t, n, "save")) => FilesOf(t, n) = RowsNamed(t, n)
  /\ \A c : Stands(c, t, n, "save") => FilesOf(t, n) = Written(call[c])
FileInv == \A t \in Filed : \A n : ~Split(t, n) => FileAt(t, n)

\* strongSwan has loaded what the file holds, or what is about to be written.
TunnelAt(n) ==
  /\ (\A c : ~Stands(c, "conns", n, "file")) => TunnelsOf(n) = FilesOf("conns", n)
  /\ \A c : Stands(c, "conns", n, "file") => TunnelsOf(n) = Written(call[c])
SecretAt(n) ==
  /\ (\A c : ~Stands(c, "secrets", n, "file")) =>
        \A r \in FilesOf("secrets", n) : Shared(r) \in SecretsOf(n)
  /\ \A c : Stands(c, "secrets", n, "file") =>
        \A r \in Written(call[c]) : Shared(r) \in SecretsOf(n)
LoadedInv == charon.loaded => \A n :
  (~Parted("conns", n) => TunnelAt(n)) /\ (~Parted("secrets", n) => SecretAt(n))

\* Secrets are those entered, so that none is named like another's owner.
SecretInv ==
  /\ \A r \in SecRowsOf("secrets") : r \in AllSecrets
  /\ \A n \in DOMAIN conf.secrets : \E r \in AllSecrets : r.name = n
  /\ \A c : Past(c, "secrets") /\ Deletes(call[c]) => call[c].row \in AllSecrets

\* A certificate is uploaded and loaded before it is saved.
CertServed(r) == CertFile(r) \in conf.certs /\ (charon.loaded => CertFile(r) \in charon.certs)
CertInv ==
  /\ \A r \in SecRowsOf("certs") : CertServed(r)
  /\ \A c : Past(c, "certs") /\ call[c].at = "save" /\ ~Deletes(call[c]) => CertServed(call[c].m.row)
ConfigInv == OverlapInv /\ FoundInv /\ FileInv /\ LoadedInv /\ SecretInv /\ CertInv
SecInv == ShapeInv /\ BufferInv /\ TunnelInv /\ ConfigInv

-----------------------------------------------------------------------------
(* What steps do to calls and doubts.                                       *)

\* Doubts are added.
LEMMA DoubtIs ==
  ASSUME NEW places, NEW t, NEW names, Doubt(places, t, names)
  PROVE  \A p, u, n : <<p, u, n>> \in doubt' <=>
            <<p, u, n>> \in doubt \/ (p \in places /\ u = t /\ n \in names)
BY DEF Doubt

\* One field of a call changes; several do one after the other.
WithM(r, x) == [r EXCEPT !.m = x]
WithAt(r, x) == [r EXCEPT !.at = x]
WithRet(r, x) == [r EXCEPT !.ret = x]
WithRow(r, x) == [r EXCEPT !.row = x]
WithBody(r, x) == [r EXCEPT !.body = x]
WithSaw(r, x) == [r EXCEPT !.saw = x]
WithMixed(r, x) == [r EXCEPT !.mixed = x]
\* What one field's change makes of a call.
LEMMA CallField ==
  ASSUME NEW r, Shaped(r), NEW x
  PROVE  /\ WithM(r, x) = Call(x, r.at, r.ret, r.row, r.body, r.saw, r.mixed)
         /\ WithAt(r, x) = Call(r.m, x, r.ret, r.row, r.body, r.saw, r.mixed)
         /\ WithRet(r, x) = Call(r.m, r.at, x, r.row, r.body, r.saw, r.mixed)
         /\ WithRow(r, x) = Call(r.m, r.at, r.ret, x, r.body, r.saw, r.mixed)
         /\ WithBody(r, x) = Call(r.m, r.at, r.ret, r.row, x, r.saw, r.mixed)
         /\ WithSaw(r, x) = Call(r.m, r.at, r.ret, r.row, r.body, x, r.mixed)
         /\ WithMixed(r, x) = Call(r.m, r.at, r.ret, r.row, r.body, r.saw, x)
<1>1. PICK m, at, ret, row, body, saw, mixed : r = Call(m, at, ret, row, body, saw, mixed)
      BY DEF Shaped
<1>2. /\ r.m = m /\ r.at = at /\ r.ret = ret /\ r.row = row /\ r.body = body /\ r.saw = saw
      /\ r.mixed = mixed
      BY <1>1 DEF Call
<1>3. WithM(r, x) = Call(x, at, ret, row, body, saw, mixed)
      BY <1>1, SMTT(30) DEF Call, WithM
<1>4. WithAt(r, x) = Call(m, x, ret, row, body, saw, mixed)
      BY <1>1, SMTT(30) DEF Call, WithAt
<1>5. WithRet(r, x) = Call(m, at, x, row, body, saw, mixed)
      BY <1>1, SMTT(30) DEF Call, WithRet
<1>6. WithRow(r, x) = Call(m, at, ret, x, body, saw, mixed)
      BY <1>1, SMTT(30) DEF Call, WithRow
<1>7. WithBody(r, x) = Call(m, at, ret, row, x, saw, mixed)
      BY <1>1, SMTT(30) DEF Call, WithBody
<1>8. WithSaw(r, x) = Call(m, at, ret, row, body, x, mixed)
      BY <1>1, SMTT(30) DEF Call, WithSaw
<1>9. WithMixed(r, x) = Call(m, at, ret, row, body, saw, x)
      BY <1>1, SMTT(30) DEF Call, WithMixed
<1> QED
    BY <1>2, <1>3, <1>4, <1>5, <1>6, <1>7, <1>8, <1>9

\* The fields of a call.
LEMMA CallHas ==
  ASSUME NEW m, NEW at, NEW ret, NEW row, NEW body, NEW saw, NEW mixed
  PROVE  LET r == Call(m, at, ret, row, body, saw, mixed) IN
         /\ r.m = m /\ r.at = at /\ r.ret = ret /\ r.row = row /\ r.body = body /\ r.saw = saw
         /\ r.mixed = mixed /\ Shaped(r)
BY DEF Call, Shaped

\* Call c becomes r, the others stay.
Turns(c, r) == /\ c \in DOMAIN call /\ DOMAIN call' = DOMAIN call /\ call'[c] = r
               /\ \A d \in DOMAIN call : d # c => call'[d] = call[d]
\* A changed call goes on elsewhere.
LEMMA GoIs ==
  ASSUME CallShape, NEW c \in DOMAIN call, NEW at, Go(c, at)
  PROVE  Turns(c, Call(call[c].m, at, call[c].ret, call[c].row, call[c].body, call[c].saw,
                       call[c].mixed))
<1>1. PICK r : r = call[c] /\ Shaped(r)
      BY DEF CallShape
<1>2. PICK q : q = WithAt(r, at)
      OBVIOUS
<1>3. call' = [call EXCEPT ![c] = q]
      BY <1>1, <1>2 DEF Go, WithAt
<1>4. q = Call(r.m, at, r.ret, r.row, r.body, r.saw, r.mixed)
      BY <1>1, <1>2, CallField
<1> QED
    BY <1>1, <1>3, <1>4 DEF Turns

\* A command ends.
LEMMA EndsIs ==
  ASSUME CallShape, NEW c \in DOMAIN call, NEW ret, Ends(c, ret)
  PROVE  Turns(c, Call([op |-> "done", table |-> call[c].m.table], "fire", ret, None,
                       call[c].body, call[c].saw, call[c].mixed))
<1>1. PICK r : r = call[c] /\ Shaped(r)
      BY DEF CallShape
<1>2. PICK d : d = [op |-> "done", table |-> call[c].m.table]
      OBVIOUS
<1>3. PICK q : q = [r EXCEPT !.at = "fire", !.ret = ret, !.row = None, !.m = d]
      OBVIOUS
<1>4. call' = [call EXCEPT ![c] = q]
      BY <1>1, <1>2, <1>3 DEF Ends, Shaped
<1>5. q = Call(d, "fire", ret, None, r.body, r.saw, r.mixed)
  <2>1. PICK q1 : q1 = WithAt(r, "fire")
        OBVIOUS
  <2>2. PICK q2 : q2 = WithRet(q1, ret)
        OBVIOUS
  <2>3. PICK q3 : q3 = WithRow(q2, None)
        OBVIOUS
  <2>4. q = WithM(q3, d)
        BY <2>1, <2>2, <2>3, <1>3 DEF WithAt, WithRet, WithRow, WithM
  <2>5. q1 = Call(r.m, "fire", r.ret, r.row, r.body, r.saw, r.mixed)
        BY <2>1, <1>1, CallField
  <2>6. q2 = Call(r.m, "fire", ret, r.row, r.body, r.saw, r.mixed)
        BY <2>2, <2>5, CallField, CallHas
  <2>7. q3 = Call(r.m, "fire", ret, None, r.body, r.saw, r.mixed)
        BY <2>3, <2>6, CallField, CallHas
  <2> QED
      BY <2>4, <2>7, CallField, CallHas
<1> QED
    BY <1>1, <1>2, <1>4, <1>5 DEF Turns

\* Call c goes on at another place, or its command ends, or a list goes on.
Moves(c, at) == Turns(c, Call(call[c].m, at, call[c].ret, call[c].row, call[c].body,
                              call[c].saw, call[c].mixed))
Finishes(c, ret) == Turns(c, Call([op |-> "done", table |-> call[c].m.table], "fire", ret, None,
                                  call[c].body, call[c].saw, call[c].mixed))
Lists(c, at, ret, body, saw) ==
  Turns(c, Call(call[c].m, at, ret, call[c].row, body, saw, call[c].mixed))

\* The record of another call may be marked as mixed, and nothing else.
Marked(d) == /\ d \in DOMAIN call' /\ call'[d].m = call[d].m /\ call'[d].at = call[d].at
             /\ call'[d].ret = call[d].ret /\ call'[d].row = call[d].row
             /\ call'[d].body = call[d].body /\ call'[d].saw = call[d].saw /\ Shaped(call'[d])

\* A command of mod_ipsec begins.
Starts(c, m) ==
  /\ c \notin DOMAIN call /\ DOMAIN call' = DOMAIN call \cup {c}
  /\ \E yes \in BOOLEAN :
        /\ yes = (m.op = "query" /\ \E d \in On(m.table) : call[d].m.op = "query")
        /\ call'[c] = Call(m, IF m.op = "query" THEN "zero" ELSE "check", "ok", None, None,
                           [total |-> 0, rows |-> <<>>], yes)
  /\ \A d \in DOMAIN call : /\ Marked(d)
                            /\ call'[d].mixed = call[d].mixed \/ call'[d].mixed = TRUE
                            /\ m.op = "query" /\ d \in On(m.table) /\ call[d].m.op = "query"
                                 => call'[d].mixed = TRUE
\* secgw_main starts a command, and doubts the names of those it overlaps.
LEMMA StartsIs ==
  ASSUME CallShape, NEW c, NEW m, secgw_main(c, m)
  PROVE  /\ Starts(c, m)
         /\ Doubt({"file", "charon"}, m.table,
                  UNION {Involved(m) \cup About(d) : d \in {d \in On(m.table) : Involved(m) \cap About(d) # {}}})
         /\ UNCHANGED <<sec, conf, charon, link, lists, ike, alarms, told>>
<1>1. PICK mixing : mixing = {d \in On(m.table) : m.op = "query" /\ call[d].m.op = "query"}
      OBVIOUS
<1>2. PICK new : new = Call(m, IF m.op = "query" THEN "zero" ELSE "check", "ok", None, None,
                            [total |-> 0, rows |-> <<>>], mixing # {})
      OBVIOUS
<1>3. /\ c \notin DOMAIN call
      /\ call' = [d \in DOMAIN call \cup {c} |-> IF d = c THEN new
                    ELSE IF d \in mixing THEN WithMixed(call[d], TRUE) ELSE call[d]]
      BY <1>1, <1>2 DEF secgw_main, Call, WithMixed
<1>4. DOMAIN call' = DOMAIN call \cup {c} /\ call'[c] = new
      BY <1>3
<1>5. \A d \in DOMAIN call : call'[d] = IF d \in mixing THEN WithMixed(call[d], TRUE) ELSE call[d]
      BY <1>3
<1>6. ASSUME NEW d \in DOMAIN call
      PROVE  /\ Marked(d)
             /\ call'[d].mixed = call[d].mixed \/ call'[d].mixed = TRUE
             /\ d \in mixing => call'[d].mixed = TRUE
  <2>1. PICK r : r = call[d] /\ Shaped(r)
        BY DEF CallShape
  <2>2. PICK yes \in BOOLEAN : yes = TRUE
        OBVIOUS
  <2>3. WithMixed(r, yes) = Call(r.m, r.at, r.ret, r.row, r.body, r.saw, yes)
        BY <2>1, CallField
  <2>4. CASE d \in mixing
    <3>1. call'[d] = Call(r.m, r.at, r.ret, r.row, r.body, r.saw, yes)
          BY <1>5, <2>1, <2>2, <2>3, <2>4
    <3>2. Marked(d)
          BY <3>1, <2>1, <1>4, CallHas DEF Marked
    <3>3. call'[d].mixed = yes
          BY <3>1, CallHas
    <3> QED
        BY <3>2, <3>3, <2>2, <2>4
  <2>5. CASE d \notin mixing
        BY <1>4, <1>5, <2>1, <2>5 DEF Marked
  <2> QED
      BY <2>4, <2>5
<1>7. PICK yes \in BOOLEAN : yes = (mixing # {})
      OBVIOUS
<1>8. /\ yes = (m.op = "query" /\ \E d \in On(m.table) : call[d].m.op = "query")
      /\ call'[c] = Call(m, IF m.op = "query" THEN "zero" ELSE "check", "ok", None, None,
                         [total |-> 0, rows |-> <<>>], yes)
      BY <1>1, <1>2, <1>4, <1>7
<1>9. Starts(c, m)
      BY <1>1, <1>3, <1>4, <1>6, <1>8 DEF Starts
<1> QED
    BY <1>9 DEF secgw_main

\* Whose result is fired leaves.
Leaves(c) == /\ c \in DOMAIN call /\ call[c].at = "fire" /\ DOMAIN call' = DOMAIN call \ {c}
             /\ \A d \in DOMAIN call' : call'[d] = call[d]
Replied(c) == /\ Running(c, "fire") /\ call' = Without(call, c)
              /\ UNCHANGED <<sec, conf, charon, link, lists, ike, alarms, told, doubt>>
\* It is taken from the calls.
LEMMA LeavesIs ==
  ASSUME NEW c, Replied(c)
  PROVE  Leaves(c)
BY DEF Replied, Leaves, Running, Without

-----------------------------------------------------------------------------
(* What each step of a command does.                                        *)

More == \A p, u, n : <<p, u, n>> \in doubt => <<p, u, n>> \in doubt'
\* No doubt changes, or some are added.
LEMMA DoubtMore ==
  ASSUME doubt' = doubt \/ \E places, t, names : Doubt(places, t, names)
  PROVE  More
BY DoubtIs DEF More

\* Nothing is looked up: the command is past its check, or only reads.
Elsewhere == UNCHANGED <<lists, ike, alarms, told>>

\* Add_Check: refused, or nothing has the name, or a lookup that failed has split it.
LEMMA AddCheckIs ==
  ASSUME CallShape, NEW c, Add_Check(c), NEW t, NEW n,
         t = call[c].m.table, n = call[c].m.row.name
  PROVE  /\ c \in DOMAIN call /\ call[c].at = "check" /\ call[c].m.op = "add"
         /\ \/ \E ret : Finishes(c, ret)
            \/ Moves(c, "vici") /\ (RowsNamed(t, n) = {} \/ Both(t, n)')
         /\ More /\ UNCHANGED <<sec, conf, charon>> /\ Elsewhere
<1>1. /\ c \in DOMAIN call /\ call[c].at = "check" /\ call[c].m.op = "add"
      /\ UNCHANGED <<sec, conf, charon>> /\ Elsewhere
      BY DEF Add_Check, Running, Elsewhere
<1>3. PICK known \in BOOLEAN, lost \in BOOLEAN :
        /\ known = (\E r \in SecRowsOf(t) : r.name = n)
        /\ Ends(c, "verify") \/ (Go(c, "vici") /\ ~(known /\ ~lost))
        /\ IF known /\ lost THEN Doubt({"file", "charon"}, t, {n}) ELSE UNCHANGED doubt
      BY DEF Add_Check
<1>4. (\E ret : Finishes(c, ret)) \/ (Moves(c, "vici") /\ ~(known /\ ~lost))
      BY <1>1, <1>3, GoIs, EndsIs DEF Moves, Finishes
<1>5. ASSUME ~(known /\ ~lost) PROVE RowsNamed(t, n) = {} \/ Both(t, n)'
      BY <1>3, <1>5, DoubtIs DEF RowsNamed, Both, Split, Parted
<1>6. More
      BY <1>3, DoubtMore
<1> QED
    BY <1>1, <1>4, <1>5, <1>6

\* Mod_Check: refused, or the row under the ID has the name, or both names are split.
LEMMA ModCheckIs ==
  ASSUME CallShape, NEW c, Mod_Check(c), NEW t, NEW i, NEW n, NEW k,
         t = call[c].m.table, i = call[c].m.id, n = call[c].m.row.name, k = sec[t][i].name
  PROVE  /\ c \in DOMAIN call /\ call[c].at = "check" /\ call[c].m.op = "mod"
         /\ \/ \E ret : Finishes(c, ret)
            \/ /\ Moves(c, "vici") /\ i \in DOMAIN sec[t]
               /\ k = n \/ (Both(t, k)' /\ Both(t, n)')
         /\ More /\ UNCHANGED <<sec, conf, charon>> /\ Elsewhere
<1>1. /\ c \in DOMAIN call /\ call[c].at = "check" /\ call[c].m.op = "mod"
      /\ UNCHANGED <<sec, conf, charon>> /\ Elsewhere
      BY DEF Mod_Check, Running, Elsewhere
<1>3. /\ Ends(c, "no_record") \/ Ends(c, "verify") \/ (Go(c, "vici") /\ i \in DOMAIN sec[t])
      /\ IF i \in DOMAIN sec[t] /\ k # n
         THEN Doubt({"file", "charon"}, t, Involved(call[c].m)) ELSE UNCHANGED doubt
      BY DEF Mod_Check
<1>4. (\E ret : Finishes(c, ret)) \/ (Moves(c, "vici") /\ i \in DOMAIN sec[t])
      BY <1>1, <1>3, GoIs, EndsIs DEF Moves, Finishes
<1>5. ASSUME i \in DOMAIN sec[t], k # n
      PROVE  Both(t, k)' /\ Both(t, n)'
  <2>1. k \in Involved(call[c].m) /\ n \in Involved(call[c].m)
        BY <1>1, <1>5 DEF Involved
  <2>2. \A p \in {"file", "charon"}, a \in Involved(call[c].m) : <<p, t, a>> \in doubt'
        BY <1>3, <1>5, DoubtIs
  <2> QED
      BY <2>1, <2>2 DEF Both, Split, Parted
<1>6. More
      BY <1>3, DoubtMore
<1> QED
    BY <1>1, <1>4, <1>5, <1>6

\* Del_Check: refused, or the row is remembered.
LEMMA DelCheckIs ==
  ASSUME CallShape, NEW c, Del_Check(c), NEW t, NEW i,
         t = call[c].m.table, i = call[c].m.id
  PROVE  /\ c \in DOMAIN call /\ call[c].at = "check" /\ call[c].m.op = "rmv"
         /\ \/ \E ret : Finishes(c, ret)
            \/ /\ i \in DOMAIN sec[t]
               /\ Turns(c, Call(call[c].m, IF t = "certs" THEN "save" ELSE "vici", call[c].ret,
                                sec[t][i], call[c].body, call[c].saw, call[c].mixed))
         /\ doubt' = doubt /\ UNCHANGED <<sec, conf, charon>> /\ Elsewhere
<1>1. /\ c \in DOMAIN call /\ call[c].at = "check" /\ call[c].m.op = "rmv"
      /\ doubt' = doubt /\ UNCHANGED <<sec, conf, charon>> /\ Elsewhere
      BY DEF Del_Check, Running, Elsewhere
<1>3. PICK r : r = call[c] /\ Shaped(r)
      BY <1>1 DEF CallShape
<1>4. PICK at, q1, q2 : /\ at = (IF t = "certs" THEN "save" ELSE "vici")
                        /\ q1 = WithAt(r, at) /\ q2 = WithRow(q1, sec[t][i])
      OBVIOUS
<1>5. q1 = Call(r.m, at, r.ret, r.row, r.body, r.saw, r.mixed)
      BY <1>3, <1>4, CallField
<1>6. q2 = Call(r.m, at, r.ret, sec[t][i], r.body, r.saw, r.mixed)
      BY <1>4, <1>5, CallField, CallHas
<1>7. Ends(c, "no_record") \/ (i \in DOMAIN sec[t] /\ call' = [call EXCEPT ![c] = q2])
      BY <1>3, <1>4 DEF Del_Check, WithAt, WithRow
<1>8. (\E ret : Finishes(c, ret)) \/ (i \in DOMAIN sec[t] /\ Turns(c, q2))
      BY <1>1, <1>7, EndsIs DEF Finishes, Turns
<1> QED
    BY <1>1, <1>3, <1>4, <1>6, <1>8

\* TakeEffect: refused, or strongSwan has loaded the row.
Loads(t, row) == \/ t = "conns" /\ charon' = vici_add_conn(row)
                 \/ t = "secrets" /\ charon' = load_secret(row)
                 \/ t = "certs" /\ charon' = vici_load_cert(row) /\ CertFile(row) \in conf.certs
\* The step in these terms.
LEMMA TakeEffectIs ==
  ASSUME CallShape, NEW c, TakeEffect(c), NEW t, NEW row,
         t = call[c].m.table, row = call[c].m.row
  PROVE  /\ c \in DOMAIN call /\ call[c].at = "vici" /\ call[c].m.op \in {"add", "mod"}
         /\ t \in Edited /\ row \in SecRows[t]
         /\ \/ charon' = charon /\ \E ret : Finishes(c, ret)
            \/ Loads(t, row) /\ Moves(c, IF t = "certs" THEN "save" ELSE "file")
         /\ doubt' = doubt /\ UNCHANGED <<sec, conf>> /\ Elsewhere
<1>1. /\ c \in DOMAIN call /\ call[c].at = "vici" /\ call[c].m.op # "rmv"
      /\ doubt' = doubt /\ UNCHANGED <<sec, conf>> /\ Elsewhere
      BY DEF TakeEffect, Running, Elsewhere
<1>2. call[c].m.op \in {"add", "mod"} /\ t \in Edited /\ row \in SecRows[t]
      BY <1>1 DEF CallShape, Placed, PlaceOf
<1>3. PICK at : at = IF t = "certs" THEN "save" ELSE "file"
      OBVIOUS
<1>4. \/ Loads(t, row) /\ Go(c, at)
      \/ charon' = charon /\ \E ret : Ends(c, ret)
  <2>1. \/ /\ t = "certs" => CertFile(row) \in conf.certs
           /\ charon' = CASE t = "conns" -> vici_add_conn(row)
                          [] t = "secrets" -> load_secret(row) [] OTHER -> vici_load_cert(row)
           /\ Go(c, at)
        \/ charon' = charon /\ \E ret : Ends(c, ret)
        BY <1>3 DEF TakeEffect
  <2>2. t \in {"conns", "secrets", "certs"}
        BY <1>2 DEF Edited, Filed
  <2> QED
      BY <2>1, <2>2 DEF Loads
<1>5. Go(c, at) => Moves(c, at)
      BY <1>1, GoIs DEF Moves
<1>6. \A ret : Ends(c, ret) => Finishes(c, ret)
      BY <1>1, EndsIs DEF Finishes
<1> QED
    BY <1>1, <1>2, <1>3, <1>4, <1>5, <1>6

\* Unload: unloaded, or parted from its file.
LEMMA UnloadIs ==
  ASSUME CallShape, NEW c, Unload(c), NEW t, NEW r,
         t = call[c].m.table, r = call[c].row
  PROVE  /\ c \in DOMAIN call /\ call[c].at = "vici" /\ call[c].m.op = "rmv" /\ t \in Filed
         /\ Moves(c, "file")
         /\ \/ t = "conns" /\ charon' = vici_unload_conn(r)
            \/ t = "secrets" /\ charon' = unload_secret(r)
            \/ charon' = charon /\ (charon.loaded => Parted(t, r.name)')
         /\ More /\ UNCHANGED <<sec, conf>> /\ Elsewhere
<1>1. /\ c \in DOMAIN call /\ call[c].at = "vici" /\ call[c].m.op = "rmv"
      /\ Go(c, "file") /\ UNCHANGED <<sec, conf>> /\ Elsewhere
      BY DEF Unload, Running, Elsewhere
<1>2. t \in Filed
      BY <1>1 DEF CallShape, Placed, PlaceOf, Edited
<1>3. Moves(c, "file")
      BY <1>1, GoIs DEF Moves
<1>4. \/ /\ charon' = (IF t = "conns" THEN vici_unload_conn(r) ELSE unload_secret(r))
         /\ doubt' = doubt
      \/ /\ charon' = charon
         /\ IF charon.loaded THEN Doubt({"charon"}, t, {r.name}) ELSE doubt' = doubt
      BY DEF Unload
<1>5. More
      BY <1>4, DoubtMore
<1>6. charon' = charon /\ charon.loaded /\ Doubt({"charon"}, t, {r.name}) => Parted(t, r.name)'
  <2>1. PICK n : n = r.name
        OBVIOUS
  <2>2. Doubt({"charon"}, t, {n}) => <<"charon", t, n>> \in doubt'
        BY DoubtIs
  <2> QED
      BY <2>1, <2>2 DEF Parted
<1> QED
    BY <1>1, <1>2, <1>3, <1>4, <1>5, <1>6 DEF Filed

\* WriteFile: the name's file holds the row, or the name is split.
Writes(t, row) == \/ t = "conns" /\ conf' = add_conn_file(row)
                  \/ t = "secrets" /\ conf' = create_secret_file(row)
Erases(t, n) == \/ t = "conns" /\ conf' = delete_conn_file(n)
                \/ t = "secrets" /\ conf' = delete_secret_file(n)
\* The step in these terms.
LEMMA WriteFileIs ==
  ASSUME CallShape, NEW c, WriteFile(c), NEW t, NEW row, NEW n,
         t = call[c].m.table, row = call[c].m.row, n = row.name
  PROVE  /\ c \in DOMAIN call /\ call[c].at = "file" /\ call[c].m.op \in {"add", "mod"}
         /\ t \in Filed /\ row \in SecRows[t] /\ Moves(c, "save")
         /\ Writes(t, row) \/ ((conf' = conf \/ Erases(t, n)) /\ Both(t, n)')
         /\ More /\ UNCHANGED <<sec, charon>> /\ Elsewhere
<1>1. /\ c \in DOMAIN call /\ call[c].at = "file" /\ call[c].m.op # "rmv"
      /\ Go(c, "save") /\ UNCHANGED <<sec, charon>> /\ Elsewhere
      BY DEF WriteFile, Running, Elsewhere
<1>2. t \in Filed /\ row \in SecRows[t] /\ call[c].m.op \in {"add", "mod"}
      BY <1>1 DEF CallShape, Placed, PlaceOf, Edited
<1>3. Moves(c, "save")
      BY <1>1, GoIs DEF Moves
<1>4. \/ conf' = (IF t = "conns" THEN add_conn_file(row) ELSE create_secret_file(row)) /\ doubt' = doubt
      \/ /\ conf' = (IF call[c].m.op = "add" THEN conf
                     ELSE IF t = "conns" THEN delete_conn_file(n) ELSE delete_secret_file(n))
         /\ Doubt({"file", "charon"}, t, {n})
      BY DEF WriteFile
<1>5. More
      BY <1>4, DoubtMore
<1>6. Doubt({"file", "charon"}, t, {n}) => Both(t, n)'
      BY DoubtIs DEF Both, Split, Parted
<1> QED
    BY <1>1, <1>2, <1>3, <1>4, <1>5, <1>6 DEF Filed, Writes, Erases

\* RemoveFile: the name's file is gone, or the name is split.
LEMMA RemoveFileIs ==
  ASSUME CallShape, NEW c, RemoveFile(c), NEW t, NEW n,
         t = call[c].m.table, n = call[c].row.name
  PROVE  /\ c \in DOMAIN call /\ call[c].at = "file" /\ call[c].m.op = "rmv"
         /\ t \in Filed /\ Moves(c, "save")
         /\ Erases(t, n) \/ (conf' = conf /\ Both(t, n)')
         /\ More /\ UNCHANGED <<sec, charon>> /\ Elsewhere
<1>1. /\ c \in DOMAIN call /\ call[c].at = "file" /\ call[c].m.op = "rmv"
      /\ Go(c, "save") /\ UNCHANGED <<sec, charon>> /\ Elsewhere
      BY DEF RemoveFile, Running, Elsewhere
<1>2. t \in Filed
      BY <1>1 DEF CallShape, Placed, PlaceOf, Edited
<1>3. Moves(c, "save")
      BY <1>1, GoIs DEF Moves
<1>4. \/ conf' = (IF t = "conns" THEN delete_conn_file(n) ELSE delete_secret_file(n)) /\ doubt' = doubt
      \/ conf' = conf /\ Doubt({"file", "charon"}, t, {n})
      BY DEF RemoveFile
<1>5. More
      BY <1>4, DoubtMore
<1>6. Doubt({"file", "charon"}, t, {n}) => Both(t, n)'
      BY DoubtIs DEF Both, Split, Parted
<1> QED
    BY <1>1, <1>2, <1>3, <1>4, <1>5, <1>6 DEF Filed, Erases

\* Lists read, one place after the other.
LEMMA ListZeroIs ==
  ASSUME CallShape, NEW c, List_Zero(c)
  PROVE  /\ c \in DOMAIN call /\ call[c].m.op = "query" /\ call[c].at = "zero"
         /\ Lists(c, "count", call[c].ret, call[c].body, call[c].saw)
         /\ lists' = [lists EXCEPT ![call[c].m.table].total = 0]
         /\ doubt' = doubt /\ UNCHANGED <<sec, conf, charon, ike, alarms, told>>
<1>1. /\ c \in DOMAIN call /\ call[c].at = "zero" /\ Go(c, "count")
      /\ lists' = [lists EXCEPT ![call[c].m.table].total = 0]
      /\ doubt' = doubt /\ UNCHANGED <<sec, conf, charon, ike, alarms, told>>
      BY DEF List_Zero, Running
<1>2. call[c].m.op = "query"
      BY <1>1 DEF CallShape, Placed, PlaceOf, Walk
<1> QED
    BY <1>1, <1>2, GoIs DEF Lists

\* A total or rows in a table's buffer, or among what a list saw.
SetTotal(l, x) == [l EXCEPT !.total = x]
SetRows(l, x)  == [l EXCEPT !.rows = x]
\* List_Count: the total goes to the buffer, or the command fails.
LEMMA ListCountIs ==
  ASSUME CallShape, SecShape, NEW c, List_Count(c), NEW t, t = call[c].m.table
  PROVE  /\ c \in DOMAIN call /\ call[c].m.op = "query" /\ call[c].at = "count"
         /\ \/ Lists(c, "body", "database", call[c].body, call[c].saw) /\ lists' = lists
            \/ \E n \in Nat :
                      /\ Lists(c, "page", call[c].ret, call[c].body, SetTotal(call[c].saw, n))
                      /\ lists' = [lists EXCEPT ![t] = SetTotal(@, n)]
         /\ doubt' = doubt /\ UNCHANGED <<sec, conf, charon, ike, alarms, told>>
<1>1. /\ c \in DOMAIN call /\ call[c].at = "count"
      /\ doubt' = doubt /\ UNCHANGED <<sec, conf, charon, ike, alarms, told>>
      BY DEF List_Count, Running
<1>2. call[c].m.op = "query"
      BY <1>1 DEF CallShape, Placed, PlaceOf, Walk
<1>3. PICK r, n : r = call[c] /\ Shaped(r) /\ n = Cardinality(DOMAIN sec[t])
      BY <1>1 DEF CallShape
<1>11. n \in Nat
  <2>1. t \in SecTables
        BY <1>1, <1>2 DEF CallShape, Placed, PlaceOf
  <2>2. PICK k \in Nat : DOMAIN sec[t] \subseteq 0 .. k
        BY <2>1 DEF SecShape, Bounded
  <2>3. IsFiniteSet(0 .. k)
        BY <2>2, FS_Interval
  <2> QED
      BY <2>2, <2>3, <1>3, FS_Subset, FS_CardinalityType
<1>4. PICK q1, q2, q3, q4 : /\ q1 = WithAt(r, "body") /\ q2 = WithRet(q1, "database")
                            /\ q3 = WithAt(r, "page") /\ q4 = WithSaw(q3, SetTotal(q3.saw, n))
      OBVIOUS
<1>5. q1 = Call(r.m, "body", r.ret, r.row, r.body, r.saw, r.mixed)
      BY <1>3, <1>4, CallField
<1>6. q2 = Call(r.m, "body", "database", r.row, r.body, r.saw, r.mixed)
      BY <1>4, <1>5, CallField, CallHas
<1>7. q3 = Call(r.m, "page", r.ret, r.row, r.body, r.saw, r.mixed)
      BY <1>3, <1>4, CallField
<1>8. q4 = Call(r.m, "page", r.ret, r.row, r.body, SetTotal(r.saw, n), r.mixed)
      BY <1>4, <1>7, CallField, CallHas
<1>9. \/ call' = [call EXCEPT ![c] = q2] /\ lists' = lists
      \/ call' = [call EXCEPT ![c] = q4] /\ lists' = [lists EXCEPT ![t] = SetTotal(@, n)]
      BY <1>3, <1>4 DEF List_Count, WithAt, WithRet, WithSaw, SetTotal
<1>10. \/ Turns(c, q2) /\ lists' = lists
       \/ Turns(c, q4) /\ lists' = [lists EXCEPT ![t] = SetTotal(@, n)]
      BY <1>1, <1>9 DEF Turns
<1> QED
    BY <1>1, <1>2, <1>3, <1>6, <1>8, <1>10, <1>11 DEF Lists

\* List_Page: so do the rows, unless there are none to ask for.
LEMMA ListPageIs ==
  ASSUME CallShape, NEW c, List_Page(c), NEW t, t = call[c].m.table
  PROVE  /\ c \in DOMAIN call /\ call[c].m.op = "query" /\ call[c].at = "page"
         /\ \/ /\ lists[t].total = 0 /\ lists' = lists
               /\ Lists(c, "body", call[c].ret, call[c].body, call[c].saw)
            \/ /\ lists' = lists
               /\ Lists(c, "body", "database", call[c].body, call[c].saw)
            \/ /\ lists[t].total # 0
               /\ \E rows : /\ Lists(c, "body", call[c].ret, call[c].body, SetRows(call[c].saw, rows))
                            /\ lists' = [lists EXCEPT ![t] = SetRows(@, rows)]
         /\ doubt' = doubt /\ UNCHANGED <<sec, conf, charon, ike, alarms, told>>
<1>1. /\ c \in DOMAIN call /\ call[c].at = "page"
      /\ doubt' = doubt /\ UNCHANGED <<sec, conf, charon, ike, alarms, told>>
      BY DEF List_Page, Running
<1>2. call[c].m.op = "query"
      BY <1>1 DEF CallShape, Placed, PlaceOf, Walk
<1>3. PICK r, rows : r = call[c] /\ Shaped(r) /\ rows = PageOf(sec[t], call[c].m.page)
      BY <1>1 DEF CallShape
<1>4. PICK q1, q2, q3 : /\ q1 = WithAt(r, "body") /\ q2 = WithRet(q1, "database")
                        /\ q3 = WithSaw(q1, SetRows(q1.saw, rows))
      OBVIOUS
<1>5. q1 = Call(r.m, "body", r.ret, r.row, r.body, r.saw, r.mixed)
      BY <1>3, <1>4, CallField
<1>6. q2 = Call(r.m, "body", "database", r.row, r.body, r.saw, r.mixed)
      BY <1>4, <1>5, CallField, CallHas
<1>7. q3 = Call(r.m, "body", r.ret, r.row, r.body, SetRows(r.saw, rows), r.mixed)
      BY <1>4, <1>5, CallField, CallHas
<1>8. \/ lists[t].total = 0 /\ call' = [call EXCEPT ![c] = q1] /\ lists' = lists
      \/ call' = [call EXCEPT ![c] = q2] /\ lists' = lists
      \/ /\ lists[t].total # 0 /\ call' = [call EXCEPT ![c] = q3]
         /\ lists' = [lists EXCEPT ![t] = SetRows(@, rows)]
      BY <1>3, <1>4 DEF List_Page, Go, WithAt, WithRet, WithSaw, SetRows
<1>9. \/ lists[t].total = 0 /\ Turns(c, q1) /\ lists' = lists
      \/ Turns(c, q2) /\ lists' = lists
      \/ lists[t].total # 0 /\ Turns(c, q3) /\ lists' = [lists EXCEPT ![t] = SetRows(@, rows)]
      BY <1>1, <1>8 DEF Turns
<1> QED
    BY <1>1, <1>2, <1>3, <1>5, <1>6, <1>7, <1>9 DEF Lists

\* List_Body: the answer is made of what the buffers hold.
LEMMA ListBodyIs ==
  ASSUME CallShape, NEW c, List_Body(c)
  PROVE  /\ c \in DOMAIN call /\ call[c].m.op = "query" /\ call[c].at = "body"
         /\ Lists(c, "fire", call[c].ret, Body(c), call[c].saw)
         /\ doubt' = doubt /\ UNCHANGED <<sec, conf, charon, lists, ike, alarms, told>>
<1>1. /\ c \in DOMAIN call /\ call[c].at = "body"
      /\ doubt' = doubt /\ UNCHANGED <<sec, conf, charon, lists, ike, alarms, told>>
      BY DEF List_Body, Running
<1>2. call[c].m.op = "query"
      BY <1>1 DEF CallShape, Placed, PlaceOf, Walk
<1>3. PICK r, body : r = call[c] /\ Shaped(r) /\ body = Body(c)
      BY <1>1 DEF CallShape
<1>4. PICK q1, q2 : q1 = WithAt(r, "fire") /\ q2 = WithBody(q1, body)
      OBVIOUS
<1>5. q1 = Call(r.m, "fire", r.ret, r.row, r.body, r.saw, r.mixed)
      BY <1>3, <1>4, CallField
<1>6. q2 = Call(r.m, "fire", r.ret, r.row, body, r.saw, r.mixed)
      BY <1>4, <1>5, CallField, CallHas
<1>7. call' = [call EXCEPT ![c] = q2]
      BY <1>3, <1>4 DEF List_Body, WithAt, WithBody
<1> QED
    BY <1>1, <1>2, <1>3, <1>6, <1>7 DEF Lists, Turns

\* Save: the table has one row more, another or less, or the name is split from its file.
Inserts(t, i, row) == /\ i \notin DOMAIN sec[t] /\ DOMAIN sec'[t] = DOMAIN sec[t] \cup {i}
                      /\ sec'[t][i] = row /\ \A j \in DOMAIN sec[t] : sec'[t][j] = sec[t][j]
Updates(t, i, row) == /\ DOMAIN sec'[t] = DOMAIN sec[t]
                      /\ \A j \in DOMAIN sec[t] : sec'[t][j] = IF j = i THEN row ELSE sec[t][j]
Removes(t, i) == /\ DOMAIN sec'[t] = DOMAIN sec[t] \ {i}
                 /\ \A j \in DOMAIN sec'[t] : sec'[t][j] = sec[t][j]
OnlyTable(t)  == /\ DOMAIN sec' = SecTables /\ \A u \in SecTables : u # t => sec'[u] = sec[u]

\* A new ID is greater than any there is.
LEMMA NewID ==
  ASSUME NEW S, Bounded(S)
  PROVE  LET i == Max(S \cup {0}) + 1 IN i \notin S /\ Bounded(S \cup {i})
<1>1. PICK k \in Nat : S \subseteq 0 .. k
      BY DEF Bounded
<1>2. PICK S0 : S0 = S \cup {0}
      OBVIOUS
<1>3. \E x \in S0 : \A y \in S0 : x >= y
  <2>1. PICK U : U = {b \in 0 .. k : \A x \in S0 : x <= b}
        OBVIOUS
  <2>2. k \in U /\ U \subseteq Nat
        BY <1>1, <1>2, <2>1
  <2>3. PICK b \in U : \A a \in U : b <= a
        BY <2>2, LeastElement
  <2>4. CASE b \in S0
        BY <2>1, <2>3, <2>4, <1>1, <1>2
  <2>5. CASE b \notin S0
    <3>1. b \in 0 .. k /\ b # 0 /\ \A x \in S0 : x \in Nat /\ x <= b /\ x # b
          BY <2>1, <2>3, <2>5, <1>1, <1>2
    <3>2. b - 1 \in U
          BY <3>1, <2>1
    <3> QED
        BY <3>1, <3>2, <2>3
  <2> QED
      BY <2>4, <2>5
<1>4. PICK x : x = Max(S0)
      OBVIOUS
<1>5. x \in S0 /\ \A y \in S0 : x >= y
      BY <1>3, <1>4 DEF Max
<1>6. x \in Nat /\ x + 1 \notin S /\ S \cup {x + 1} \subseteq 0 .. (x + 1)
      BY <1>1, <1>2, <1>5
<1> QED
    BY <1>2, <1>4, <1>6 DEF Bounded

\* INSERT, UPDATE and DELETE by ID.
LEMMA StatementsAre ==
  ASSUME DataShape, NEW t \in SecTables, NEW i, NEW row
  PROVE  /\ sec' \in Insert(t, row) => OnlyTable(t) /\ \E j \in Nat : Inserts(t, j, row)
         /\ sec' \in Insert(t, row) => Bounded(DOMAIN sec'[t])
         /\ sec' \in Update(t, i, row) => OnlyTable(t) /\ Updates(t, i, row)
         /\ sec' \in DeleteId(t, i) => OnlyTable(t) /\ Removes(t, i)
<1>1. DOMAIN sec = SecTables /\ Bounded(DOMAIN sec[t])
      BY DEF DataShape, SecShape
<1>2. PICK j : j = Max(DOMAIN sec[t] \cup {0}) + 1
      OBVIOUS
<1>3. j \notin DOMAIN sec[t] /\ Bounded(DOMAIN sec[t] \cup {j})
      BY <1>1, <1>2, NewID
<1>4. j \in Nat
      BY <1>3 DEF Bounded
<1>5. ASSUME sec' \in Insert(t, row)
      PROVE  OnlyTable(t) /\ Inserts(t, j, row)
  <2>1. PICK rows : rows = With(sec[t], j, row)
        OBVIOUS
  <2>2. sec' = [sec EXCEPT ![t] = rows]
        BY <1>5, <1>2, <2>1 DEF Insert
  <2>3. /\ DOMAIN rows = DOMAIN sec[t] \cup {j}
        /\ \A k \in DOMAIN rows : rows[k] = IF k = j THEN row ELSE sec[t][k]
        BY <2>1 DEF With
  <2>4. sec'[t] = rows /\ OnlyTable(t)
        BY <2>2, <1>1 DEF OnlyTable
  <2> QED
      BY <2>3, <2>4, <1>3 DEF Inserts
<1>6. ASSUME sec' \in Update(t, i, row)
      PROVE  OnlyTable(t) /\ Updates(t, i, row)
  <2>1. PICK rows : rows = IF i \in DOMAIN sec[t] THEN With(sec[t], i, row) ELSE sec[t]
        OBVIOUS
  <2>2. sec' = [sec EXCEPT ![t] = rows]
        BY <1>6, <2>1 DEF Update
  <2>3. /\ DOMAIN rows = DOMAIN sec[t]
        /\ \A k \in DOMAIN rows : rows[k] = IF k = i THEN row ELSE sec[t][k]
        BY <2>1 DEF With
  <2>4. sec'[t] = rows /\ OnlyTable(t)
        BY <2>2, <1>1 DEF OnlyTable
  <2> QED
      BY <2>3, <2>4 DEF Updates
<1>7. ASSUME sec' \in DeleteId(t, i)
      PROVE  OnlyTable(t) /\ Removes(t, i)
  <2>1. PICK rows : rows = Without(sec[t], i)
        OBVIOUS
  <2>2. sec' = [sec EXCEPT ![t] = rows]
        BY <1>7, <2>1 DEF DeleteId
  <2>3. DOMAIN rows = DOMAIN sec[t] \ {i} /\ \A k \in DOMAIN rows : rows[k] = sec[t][k]
        BY <2>1 DEF Without
  <2>4. sec'[t] = rows /\ OnlyTable(t)
        BY <2>2, <1>1 DEF OnlyTable
  <2> QED
      BY <2>3, <2>4 DEF Removes
<1>8. sec' \in Insert(t, row) => Bounded(DOMAIN sec'[t])
      BY <1>3, <1>5 DEF Inserts
<1> QED
    BY <1>4, <1>5, <1>6, <1>7, <1>8

\* Save: the statement of the command has run, and a row under an ID that a command still
\* names is split; or the database has failed, and the names of the command are split.
Runs(t, m) ==
  \/ m.op = "add" /\ m.row \in SecRows[t] /\ \E j \in Nat : Inserts(t, j, m.row)
  \/ m.op = "mod" /\ m.row \in SecRows[t] /\ Updates(t, m.id, m.row)
  \/ m.op = "rmv" /\ Removes(t, m.id)
Reuses(t) == \A i \in NamedIds(t) : \A n :
  i \in DOMAIN sec'[t] \ DOMAIN sec[t] /\ n = sec'[t][i].name => Both(t, n)'
\* What Save does, by the statement of its command.
LEMMA SaveIs ==
  ASSUME CallShape, DataShape, NEW c, Save(c), NEW t, NEW m,
         t = call[c].m.table, m = call[c].m
  PROVE  /\ c \in DOMAIN call /\ call[c].at = "save" /\ m.op \in {"add", "mod", "rmv"}
         /\ t \in Edited
         /\ \/ /\ \E ret : Finishes(c, ret)
               /\ Runs(t, m) /\ OnlyTable(t) /\ Bounded(DOMAIN sec'[t]) /\ Reuses(t)
            \/ /\ \E ret : Finishes(c, ret)
               /\ sec' = sec /\ \A n \in Involved(m) : Split(t, n)'
         /\ More /\ UNCHANGED <<conf, charon>> /\ Elsewhere
<1>1. /\ c \in DOMAIN call /\ call[c].at = "save"
      /\ UNCHANGED <<conf, charon>> /\ Elsewhere
      BY DEF Save, Running, Elsewhere
<1>2. /\ t \in Edited /\ t \in SecTables
      /\ \/ m.op \in {"add", "mod"} /\ m.row \in SecRows[t]
         \/ m.op = "rmv"
      BY <1>1 DEF CallShape, Placed, PlaceOf, Edited, Filed, SecTables
<1>3. PICK names : names = Reused(t)
      OBVIOUS
<1>4. \/ /\ sec' \in (CASE t = "conns" -> config_conn(m) [] t = "secrets" -> config_secret(m)
                        [] OTHER -> config_cert(m))
         /\ Ends(c, "ok") /\ Doubt({"file", "charon"}, t, names)
      \/ sec' = sec /\ Ends(c, "database") /\ Doubt({"file"}, t, Involved(m))
      BY <1>3 DEF Save
<1>5. More
      BY <1>4, DoubtMore
<1>6. \A ret : Ends(c, ret) => Finishes(c, ret)
      BY <1>1, EndsIs DEF Finishes
<1>7. ASSUME sec' \in (CASE t = "conns" -> config_conn(m) [] t = "secrets" -> config_secret(m)
                        [] OTHER -> config_cert(m))
      PROVE  Runs(t, m) /\ OnlyTable(t) /\ Bounded(DOMAIN sec'[t])
  <2>1. \/ m.op = "add" /\ sec' \in Insert(t, m.row)
        \/ m.op = "mod" /\ sec' \in Update(t, m.id, m.row)
        \/ m.op = "rmv" /\ sec' \in DeleteId(t, m.id)
    <3>1. CASE t = "conns"
          BY <3>1, <1>2, <1>7 DEF config_conn, save_conn_to_db, update_conn_to_db, delete_conn_by_id
    <3>2. CASE t = "secrets"
          BY <3>2, <1>2, <1>7 DEF config_secret, save_secret_to_db, update_secret_to_db, delete_secret_by_id
    <3>3. CASE t = "certs"
          BY <3>3, <1>2, <1>7 DEF config_cert, save_cert_to_db, update_cert_to_db, delete_cert_by_id
    <3> QED
        BY <3>1, <3>2, <3>3, <1>2 DEF Edited, Filed
  <2>2. Runs(t, m) /\ OnlyTable(t)
        BY <2>1, <1>2, StatementsAre DEF Runs
  <2>3. Bounded(DOMAIN sec[t])
        BY <1>2 DEF DataShape, SecShape
  <2>4. sec' \in Insert(t, m.row) => Bounded(DOMAIN sec'[t])
        BY <1>2, StatementsAre
  <2>5. sec' \notin Insert(t, m.row) => DOMAIN sec'[t] \subseteq DOMAIN sec[t]
    <3>1. ASSUME sec' \notin Insert(t, m.row)
          PROVE  Updates(t, m.id, m.row) \/ Removes(t, m.id)
          BY <3>1, <2>1, <1>2, StatementsAre
    <3> QED
        BY <3>1 DEF Updates, Removes
  <2> QED
      BY <2>2, <2>3, <2>4, <2>5 DEF Bounded
<1>8. Doubt({"file", "charon"}, t, names) => Reuses(t)
  <2>1. ASSUME Doubt({"file", "charon"}, t, names), NEW i \in NamedIds(t), NEW n,
               i \in DOMAIN sec'[t] \ DOMAIN sec[t], n = sec'[t][i].name
        PROVE  Both(t, n)'
    <3>1. n \in names
          BY <2>1, <1>3 DEF Reused
    <3>2. <<"file", t, n>> \in doubt' /\ <<"charon", t, n>> \in doubt'
          BY <3>1, <2>1, DoubtIs
    <3> QED
        BY <3>2 DEF Both, Split, Parted
  <2> QED
      BY <2>1 DEF Reuses
<1>9. Doubt({"file"}, t, Involved(m)) => \A n \in Involved(m) : Split(t, n)'
  <2>1. PICK all : all = Involved(m)
        OBVIOUS
  <2> QED
      BY <2>1, DoubtIs DEF Split
<1> QED
    BY <1>1, <1>2, <1>4, <1>5, <1>6, <1>7, <1>8, <1>9

-----------------------------------------------------------------------------
(* Shapes stay.                                                             *)

\* A call that turns into one that stands where it can be.
LEMMA TurnsShape ==
  ASSUME CallShape, NEW c, NEW m, NEW at, NEW ret, NEW row, NEW body, NEW saw, NEW mixed,
         Turns(c, Call(m, at, ret, row, body, saw, mixed)), PlaceOf(m, at)
  PROVE  CallShape'
<1>1. PICK r : r = Call(m, at, ret, row, body, saw, mixed)
      OBVIOUS
<1>2. Shaped(r) /\ Placed(r)
      BY <1>1, CallHas DEF Placed
<1>3. Turns(c, r)
      BY <1>1
<1> QED
    BY <1>2, <1>3 DEF CallShape, Turns

\* So with a call that goes on, ends, or lists.
LEMMA MovesShape ==
  ASSUME CallShape, NEW c \in DOMAIN call
  PROVE  /\ \A at : Moves(c, at) /\ PlaceOf(call[c].m, at) => CallShape'
         /\ \A ret : Finishes(c, ret) => CallShape'
         /\ \A at, ret, body, saw :
               Lists(c, at, ret, body, saw) /\ PlaceOf(call[c].m, at) => CallShape'
<1>1. PICK r : r = call[c] /\ Shaped(r) /\ Placed(r)
      BY DEF CallShape
<1>2. PICK m : m = [op |-> "done", table |-> r.m.table]
      OBVIOUS
<1>3. PlaceOf(m, "fire")
      BY <1>1, <1>2 DEF Placed, PlaceOf, Edited, Filed, SecTables
<1>4. ASSUME NEW at, Moves(c, at), PlaceOf(r.m, at) PROVE CallShape'
  <2>1. Turns(c, Call(r.m, at, r.ret, r.row, r.body, r.saw, r.mixed))
        BY <1>1, <1>4 DEF Moves
  <2> QED
      BY <1>4, <2>1, TurnsShape
<1>5. ASSUME NEW ret, Finishes(c, ret) PROVE CallShape'
  <2>1. Turns(c, Call(m, "fire", ret, None, r.body, r.saw, r.mixed))
        BY <1>1, <1>2, <1>5 DEF Finishes
  <2> QED
      BY <1>3, <2>1, TurnsShape
<1>6. ASSUME NEW at, NEW ret, NEW body, NEW saw, Lists(c, at, ret, body, saw), PlaceOf(r.m, at)
      PROVE  CallShape'
  <2>1. Turns(c, Call(r.m, at, ret, r.row, body, saw, r.mixed))
        BY <1>1, <1>6 DEF Lists
  <2> QED
      BY <1>6, <2>1, TurnsShape
<1> QED
    BY <1>1, <1>4, <1>5, <1>6

\* A command begins with a row among those the operator may enter, with an ID there is.
Entered(m) == /\ \/ /\ m.op \in {"add", "mod"} /\ m.table \in Edited /\ m.row \in SecRows[m.table]
                 \/ m.op = "rmv" /\ m.table \in Edited
                 \/ m.op = "query" /\ m.table \in SecTables
              /\ m.op \in {"mod", "rmv"} => m.id \in DOMAIN sec[m.table]
\* The commands of the model are such.
LEMMA AllEntered ==
  \A m \in SecChanges \cup SecLists : Entered(m)
<1>1. ASSUME NEW m \in SecChanges PROVE Entered(m)
  <2>1. PICK t \in SecTables \ {"infos"} : m \in Commands(t, SecRows[t], DOMAIN sec[t])
        BY <1>1 DEF SecChanges
  <2>2. t \in Edited
        BY <2>1 DEF Edited, SecTables
  <2>3. m.table = t
        BY <2>1 DEF Commands
  <2>4. /\ (m.op \in {"add", "mod"} /\ m.row \in SecRows[t]) \/ m.op = "rmv"
        /\ m.op \in {"mod", "rmv"} => m.id \in DOMAIN sec[t]
        BY <2>1 DEF Commands
  <2> QED
      BY <2>2, <2>3, <2>4 DEF Entered
<1>2. ASSUME NEW m \in SecLists PROVE Entered(m)
      BY <1>2 DEF SecLists, Entered
<1> QED
    BY <1>1, <1>2

\* Calls stay well-formed when one begins or leaves.
LEMMA StartsShape ==
  ASSUME CallShape, NEW c, NEW m, Entered(m), Starts(c, m)
  PROVE  CallShape'
<1>1. PICK yes, new : /\ new = Call(m, IF m.op = "query" THEN "zero" ELSE "check", "ok", None, None,
                                    [total |-> 0, rows |-> <<>>], yes)
                      /\ call'[c] = new
      BY DEF Starts
<1>2. Shaped(new) /\ new.m = m /\ new.at = (IF m.op = "query" THEN "zero" ELSE "check")
      BY <1>1, CallHas
<1>3. Placed(new)
      BY <1>2 DEF Placed, PlaceOf, Entered, Walk
<1>4. DOMAIN call' = DOMAIN call \cup {c}
      BY DEF Starts
<1>5. ASSUME NEW d \in DOMAIN call PROVE Shaped(call'[d]) /\ Placed(call'[d])
  <2>1. Marked(d)
        BY <1>5 DEF Starts
  <2> QED
      BY <2>1, <1>5 DEF Marked, CallShape, Placed
<1> QED
    BY <1>1, <1>2, <1>3, <1>4, <1>5 DEF CallShape
\* The same for a call that has been answered.
LEMMA LeavesShape ==
  ASSUME CallShape, NEW c, Leaves(c)
  PROVE  CallShape'
BY DEF Leaves, CallShape

-----------------------------------------------------------------------------
(* What steps do to files and to strongSwan.                                *)

\* The records' fields.
LEMMA ConfHas ==
  ASSUME NEW conns, NEW secrets, NEW certs
  PROVE  LET f == Conf(conns, secrets, certs) IN
         f.conns = conns /\ f.secrets = secrets /\ f.certs = certs
BY DEF Conf
\* The same for strongSwan's.
LEMMA CharonHas ==
  ASSUME NEW up, NEW loaded, NEW conns, NEW secrets, NEW certs
  PROVE  LET f == Charon(up, loaded, conns, secrets, certs) IN
         /\ f.up = up /\ f.loaded = loaded /\ f.conns = conns
         /\ f.secrets = secrets /\ f.certs = certs
BY DEF Charon

\* One table of files changes, and in it only name n.
FilesBut(t, n) ==
  /\ ConfShape' /\ conf'.certs = conf.certs
  /\ \A u \in Filed : \A k : u # t \/ k # n => FilesOf(u, k)' = FilesOf(u, k)
  /\ DOMAIN conf'.secrets \subseteq DOMAIN conf.secrets \cup (IF t = "secrets" THEN {n} ELSE {})
\* The file of a row is written, or that of a name erased.
LEMMA FilesChange ==
  ASSUME DataShape, NEW t
  PROVE  /\ \A row, n : n = row.name /\ Writes(t, row) => FilesBut(t, n) /\ FilesOf(t, n)' = {row}
         /\ \A n : Erases(t, n) => FilesBut(t, n) /\ FilesOf(t, n)' = {}
<1>1. PICK a, b, e : conf = Conf(a, b, e)
      BY DEF DataShape, ConfShape
<1>2. conf.conns = a /\ conf.secrets = b /\ conf.certs = e
      BY <1>1, ConfHas
<1>3. ASSUME NEW row, NEW n, n = row.name, Writes(t, row)
      PROVE  FilesBut(t, n) /\ FilesOf(t, n)' = {row}
  <2>1. PICK a1, b1 : a1 = With(a, n, row) /\ b1 = With(b, n, row)
        OBVIOUS
  <2>2. \/ t = "conns" /\ conf' = Conf(a1, b, e)
        \/ t = "secrets" /\ conf' = Conf(a, b1, e)
        BY <1>1, <1>2, <1>3, <2>1, SMTT(30) DEF Writes, add_conn_file, create_secret_file, Conf
  <2>3. \/ t = "conns" /\ conf'.conns = a1 /\ conf'.secrets = b
        \/ t = "secrets" /\ conf'.conns = a /\ conf'.secrets = b1
        BY <2>2, ConfHas
  <2>4. ConfShape' /\ conf'.certs = e
        BY <2>2, ConfHas DEF ConfShape
  <2>5. /\ DOMAIN a1 = DOMAIN a \cup {n} /\ a1[n] = row /\ \A k \in DOMAIN a : k # n => a1[k] = a[k]
        /\ DOMAIN b1 = DOMAIN b \cup {n} /\ b1[n] = row /\ \A k \in DOMAIN b : k # n => b1[k] = b[k]
        BY <2>1 DEF With
  <2>6. FilesOf(t, n)' = {row}
        BY <2>3, <2>5 DEF FilesOf
  <2>7. \A u \in Filed : \A k : u # t \/ k # n => FilesOf(u, k)' = FilesOf(u, k)
        BY <2>3, <2>5, <1>2 DEF FilesOf, Filed
  <2>8. DOMAIN conf'.secrets \subseteq DOMAIN b \cup (IF t = "secrets" THEN {n} ELSE {})
        BY <2>3, <2>5
  <2> QED
      BY <2>4, <2>6, <2>7, <2>8, <1>2 DEF FilesBut
<1>4. ASSUME NEW n, Erases(t, n)
      PROVE  FilesBut(t, n) /\ FilesOf(t, n)' = {}
  <2>1. PICK a1, b1 : a1 = Without(a, n) /\ b1 = Without(b, n)
        OBVIOUS
  <2>2. \/ t = "conns" /\ conf' = Conf(a1, b, e)
        \/ t = "secrets" /\ conf' = Conf(a, b1, e)
        BY <1>1, <1>2, <1>4, <2>1, SMTT(30) DEF Erases, delete_conn_file, delete_secret_file, Conf
  <2>3. \/ t = "conns" /\ conf'.conns = a1 /\ conf'.secrets = b
        \/ t = "secrets" /\ conf'.conns = a /\ conf'.secrets = b1
        BY <2>2, ConfHas
  <2>4. ConfShape' /\ conf'.certs = e
        BY <2>2, ConfHas DEF ConfShape
  <2>5. /\ DOMAIN a1 = DOMAIN a \ {n} /\ \A k \in DOMAIN a1 : a1[k] = a[k]
        /\ DOMAIN b1 = DOMAIN b \ {n} /\ \A k \in DOMAIN b1 : b1[k] = b[k]
        BY <2>1 DEF Without
  <2>6. FilesOf(t, n)' = {}
        BY <2>3, <2>5 DEF FilesOf
  <2>7. \A u \in Filed : \A k : u # t \/ k # n => FilesOf(u, k)' = FilesOf(u, k)
        BY <2>3, <2>5, <1>2 DEF FilesOf, Filed
  <2>8. DOMAIN conf'.secrets \subseteq DOMAIN b \cup (IF t = "secrets" THEN {n} ELSE {})
        BY <2>3, <2>5
  <2> QED
      BY <2>4, <2>6, <2>7, <2>8, <1>2 DEF FilesBut
<1> QED
    BY <1>3, <1>4

\* strongSwan takes a row or lets one go, and keeps the rest.
TunnelsBut(n) == \A k : k # n => TunnelsOf(k)' = TunnelsOf(k)
SecretsBut(n) == \A k : k # n => SecretsOf(k)' = SecretsOf(k)
SameTunnels == charon'.conns = charon.conns
SameSecrets == charon'.secrets = charon.secrets
StillLoaded == CharonShape' /\ charon'.loaded = charon.loaded
\* A row is loaded.
LEMMA LoadsIs ==
  ASSUME DataShape, NEW t, NEW row, NEW n, n = row.name, Loads(t, row)
  PROVE  /\ StillLoaded
         /\ \/ /\ t = "conns" /\ TunnelsOf(n)' = {row} /\ TunnelsBut(n)
               /\ SameSecrets /\ charon'.certs = charon.certs
            \/ /\ t = "secrets" /\ Shared(row) \in SecretsOf(n)' /\ SecretsBut(n)
               /\ SameTunnels /\ charon'.certs = charon.certs
            \/ /\ t = "certs" /\ SameTunnels /\ SameSecrets /\ CertFile(row) \in conf.certs
               /\ charon'.certs = charon.certs \cup {CertFile(row)}
<1>1. PICK u, l, a, b, e : charon = Charon(u, l, a, b, e)
      BY DEF DataShape, CharonShape
<1>2. charon.loaded = l /\ charon.conns = a /\ charon.secrets = b /\ charon.certs = e
      BY <1>1, CharonHas
<1>3. PICK a1, b1, e1 : /\ a1 = With(a, n, row) /\ b1 = With(b, <<"vici", n>>, Shared(row))
                        /\ e1 = e \cup {CertFile(row)}
      OBVIOUS
<1>4. \/ t = "conns" /\ charon' = Charon(u, l, a1, b, e)
      \/ t = "secrets" /\ charon' = Charon(u, l, a, b1, e)
      \/ t = "certs" /\ charon' = Charon(u, l, a, b, e1) /\ CertFile(row) \in conf.certs
      BY <1>1, <1>2, <1>3, SMTT(30) DEF Loads, vici_add_conn, load_secret, vici_load_cert, Charon
<1>5. StillLoaded
      BY <1>2, <1>4, CharonHas DEF StillLoaded, CharonShape
<1>6. \/ t = "conns" /\ charon'.conns = a1 /\ charon'.secrets = b /\ charon'.certs = e
      \/ t = "secrets" /\ charon'.conns = a /\ charon'.secrets = b1 /\ charon'.certs = e
      \/ t = "certs" /\ charon'.conns = a /\ charon'.secrets = b /\ charon'.certs = e1
      BY <1>4, CharonHas
<1>7. CASE t = "conns"
  <2>1. DOMAIN a1 = DOMAIN a \cup {n} /\ a1[n] = row /\ \A k \in DOMAIN a : k # n => a1[k] = a[k]
        BY <1>3 DEF With
  <2>2. TunnelsOf(n)' = {row} /\ TunnelsBut(n)
        BY <2>1, <1>2, <1>6, <1>7 DEF TunnelsOf, TunnelsBut
  <2> QED
      BY <2>2, <1>2, <1>5, <1>6, <1>7 DEF SameSecrets
<1>8. CASE t = "secrets"
  <2>1. PICK k1 : k1 = <<"vici", n>>
        OBVIOUS
  <2>2. DOMAIN b1 = DOMAIN b \cup {k1} /\ b1[k1] = Shared(row) /\ \A k \in DOMAIN b : k # k1 => b1[k] = b[k]
        BY <2>1, <1>3 DEF With
  <2>3. k1 \in {"ike", "vici"} \X {n} /\ \A k : k # n => k1 \notin {"ike", "vici"} \X {k}
        BY <2>1
  <2>4. Shared(row) \in SecretsOf(n)' /\ SecretsBut(n)
        BY <2>2, <2>3, <1>2, <1>6, <1>8 DEF SecretsOf, SecretsBut
  <2> QED
      BY <2>4, <1>2, <1>5, <1>6, <1>8 DEF SameTunnels
<1>9. CASE t = "certs"
      BY <1>2, <1>3, <1>4, <1>5, <1>6, <1>9 DEF SameTunnels, SameSecrets
<1> QED
    BY <1>4, <1>7, <1>8, <1>9

\* A tunnel, or the secret of an owner, is unloaded.
LEMMA UnloadsIs ==
  ASSUME DataShape, NEW r
  PROVE  /\ charon' = vici_unload_conn(r) =>
              /\ StillLoaded /\ TunnelsOf(r.name)' = {} /\ TunnelsBut(r.name)
              /\ SameSecrets /\ charon'.certs = charon.certs
         /\ charon' = unload_secret(r) =>
              /\ StillLoaded /\ SecretsBut(r.id)
              /\ SameTunnels /\ charon'.certs = charon.certs
<1>1. PICK u, l, a, b, e : charon = Charon(u, l, a, b, e)
      BY DEF DataShape, CharonShape
<1>2. charon.loaded = l /\ charon.conns = a /\ charon.secrets = b /\ charon.certs = e
      BY <1>1, CharonHas
<1>3. PICK n, o, k1, a1, b1 : /\ n = r.name /\ o = r.id /\ k1 = <<"vici", o>>
                              /\ a1 = Without(a, n) /\ b1 = Without(b, k1)
      OBVIOUS
<1>4. ASSUME charon' = vici_unload_conn(r)
      PROVE  /\ StillLoaded /\ TunnelsOf(n)' = {} /\ TunnelsBut(n)
             /\ SameSecrets /\ charon'.certs = charon.certs
  <2>1. charon' = Charon(u, l, a1, b, e)
        BY <1>1, <1>2, <1>3, <1>4, SMTT(30) DEF vici_unload_conn, Charon
  <2>2. StillLoaded /\ charon'.conns = a1 /\ charon'.secrets = b /\ charon'.certs = e
        BY <1>2, <2>1, CharonHas DEF StillLoaded, CharonShape
  <2>3. DOMAIN a1 = DOMAIN a \ {n} /\ \A k \in DOMAIN a1 : a1[k] = a[k]
        BY <1>3 DEF Without
  <2>4. TunnelsOf(n)' = {} /\ TunnelsBut(n)
        BY <1>2, <2>2, <2>3 DEF TunnelsOf, TunnelsBut
  <2> QED
      BY <1>2, <2>2, <2>4 DEF SameSecrets
<1>5. ASSUME charon' = unload_secret(r)
      PROVE  /\ StillLoaded /\ SecretsBut(o) /\ SameTunnels /\ charon'.certs = charon.certs
  <2>1. charon' = Charon(u, l, a, b1, e)
        BY <1>1, <1>2, <1>3, <1>5, SMTT(30) DEF unload_secret, Charon
  <2>2. StillLoaded /\ charon'.conns = a /\ charon'.secrets = b1 /\ charon'.certs = e
        BY <1>2, <2>1, CharonHas DEF StillLoaded, CharonShape
  <2>3. DOMAIN b1 = DOMAIN b \ {k1} /\ \A k \in DOMAIN b1 : b1[k] = b[k]
        BY <1>3 DEF Without
  <2>4. \A k : k # o => k1 \notin {"ike", "vici"} \X {k}
        BY <1>3
  <2>5. SecretsBut(o)
        BY <1>2, <2>2, <2>3, <2>4 DEF SecretsOf, SecretsBut
  <2> QED
      BY <1>2, <2>2, <2>5 DEF SameTunnels
<1> QED
    BY <1>3, <1>4, <1>5

-----------------------------------------------------------------------------
(* What the other steps do.                                                 *)

\* The tables of the commands stay, and what was split stays split.
OnlyInfos == OnlyTable("infos") /\ More
\* The old record of a tunnel goes, or is split.
LEMMA VerifyIs ==
  ASSUME DataShape, verify_ike_info_to_db, NEW n, n = ike.name
  PROVE  /\ ike # None /\ ike.at = "verify" /\ OnlyInfos
         /\ UNCHANGED <<conf, charon, link, call, lists, alarms, told>>
         /\ \/ /\ ike' = [ike EXCEPT !.at = "save"] /\ doubt' = doubt
               /\ DOMAIN sec'["infos"] = DOMAIN sec["infos"] \ InfosOf(n)
               /\ \A i \in DOMAIN sec'["infos"] : sec'["infos"][i] = sec["infos"][i]
            \/ /\ \E at \in {"save", "alarm"} : ike' = [ike EXCEPT !.at = at]
               /\ sec' = sec /\ Split("infos", n)'
               /\ \A k : k # n => (Split("infos", k)' <=> Split("infos", k))
<1>1. /\ ike # None /\ ike.at = "verify"
      /\ UNCHANGED <<conf, charon, link, call, lists, alarms, told>>
      BY DEF verify_ike_info_to_db
<1>2. DOMAIN sec = SecTables
      BY DEF DataShape, SecShape
<1>3. \/ /\ sec' = [sec EXCEPT !.infos = [i \in DOMAIN @ \ InfosOf(n) |-> @[i]]]
         /\ ike' = [ike EXCEPT !.at = "save"] /\ doubt' = doubt
      \/ /\ sec' = sec /\ \E at \in {"save", "alarm"} : ike' = [ike EXCEPT !.at = at]
         /\ Doubt({"file"}, "infos", {n})
      BY DEF verify_ike_info_to_db
<1>4. CASE sec' = sec /\ Doubt({"file"}, "infos", {n})
  <2>1. More
        BY <1>4, DoubtMore
  <2>2. Split("infos", n)' /\ \A k : k # n => (Split("infos", k)' <=> Split("infos", k))
        BY <1>4, DoubtIs DEF Split
  <2>3. OnlyTable("infos")
        BY <1>2, <1>4 DEF OnlyTable
  <2> QED
      BY <1>1, <1>3, <1>4, <2>1, <2>2, <2>3, "infos" \in SecTables DEF OnlyInfos, SecTables
<1>5. CASE /\ sec' = [sec EXCEPT !.infos = [i \in DOMAIN @ \ InfosOf(n) |-> @[i]]]
           /\ ike' = [ike EXCEPT !.at = "save"] /\ doubt' = doubt
  <2>1. PICK old, rows : old = sec["infos"] /\ rows = [i \in DOMAIN old \ InfosOf(n) |-> old[i]]
        OBVIOUS
  <2>2. sec' = [sec EXCEPT !["infos"] = rows]
        BY <1>5, <2>1
  <2>3. "infos" \in SecTables
        BY DEF SecTables
  <2>4. sec'["infos"] = rows /\ OnlyTable("infos")
        BY <1>2, <2>2, <2>3 DEF OnlyTable
  <2>5. More
        BY <1>5, DoubtMore
  <2> QED
      BY <1>1, <1>5, <2>1, <2>4, <2>5 DEF OnlyInfos
<1> QED
    BY <1>3, <1>4, <1>5

\* A new record joins, or the tunnel is split.
LEMMA SaveInfoIs ==
  ASSUME DataShape, save_ike_info_to_db, NEW n, n = ike.name
  PROVE  /\ ike # None /\ ike.at = "save" /\ ike' = [ike EXCEPT !.at = "alarm"] /\ OnlyInfos
         /\ UNCHANGED <<conf, charon, link, call, lists, alarms, told>>
         /\ \/ ike.state = "down" /\ sec' = sec /\ doubt' = doubt
            \/ /\ ike.state # "down" /\ doubt' = doubt /\ Bounded(DOMAIN sec'["infos"])
               /\ \E j : Inserts("infos", j, [name |-> n, state |-> ike.state])
            \/ /\ sec' = sec /\ Split("infos", n)'
               /\ \A k : k # n => (Split("infos", k)' <=> Split("infos", k))
<1>1. /\ ike # None /\ ike.at = "save" /\ ike' = [ike EXCEPT !.at = "alarm"]
      /\ UNCHANGED <<conf, charon, link, call, lists, alarms, told>>
      BY DEF save_ike_info_to_db
<1>2. DOMAIN sec = SecTables /\ "infos" \in SecTables
      BY DEF DataShape, SecShape, SecTables
<1>3. PICK row : row = [name |-> n, state |-> ike.state]
      OBVIOUS
<1>4. \/ ike.state = "down" /\ sec' = sec /\ doubt' = doubt
      \/ ike.state # "down" /\ sec' \in Insert("infos", row) /\ doubt' = doubt
      \/ sec' = sec /\ Doubt({"file"}, "infos", {n})
      BY <1>3 DEF save_ike_info_to_db
<1>5. sec' \in Insert("infos", row) =>
        OnlyTable("infos") /\ Bounded(DOMAIN sec'["infos"]) /\ \E j : Inserts("infos", j, row)
      BY <1>2, StatementsAre
<1>6. sec' = sec => OnlyTable("infos")
      BY <1>2 DEF OnlyTable
<1>7. More
      BY <1>4, DoubtMore
<1>8. OnlyInfos
      BY <1>4, <1>5, <1>6, <1>7 DEF OnlyInfos
<1>9. Doubt({"file"}, "infos", {n}) =>
        Split("infos", n)' /\ \A k : k # n => (Split("infos", k)' <=> Split("infos", k))
      BY DoubtIs DEF Split
<1> QED
    BY <1>1, <1>3, <1>4, <1>5, <1>8, <1>9

\* The alarm rings or not; nothing else is touched.
LEMMA AlarmIs ==
  ASSUME DataShape, secgw_ike_conn_alarm
  PROVE  OnlyInfos /\ sec' = sec /\ doubt' = doubt /\ UNCHANGED <<conf, charon, call, lists>>
<1>1. sec' = sec /\ doubt' = doubt /\ UNCHANGED <<conf, charon, call, lists>>
      BY DEF secgw_ike_conn_alarm
<1>2. OnlyTable("infos")
      BY <1>1 DEF OnlyTable, DataShape, SecShape
<1>3. More
      BY <1>1, DoubtMore
<1> QED
    BY <1>1, <1>2, <1>3 DEF OnlyInfos

\* The steps of mod_ipsec and its surroundings.
SecActs ==
  \/ \E c \in Callers : (\E m : Entered(m) /\ secgw_main(c, m)) \/ SecStep(c) \/ Replied(c)
  \/ \E f : add_cert_file(f)
  \/ \E n \in SecNames, state \in States : parseIkeEvent(n, state)
  \/ CharonDies \/ CharonStarts \/ secgw_timer_callback \/ LoadAll \/ Tunnels

\* Every step of the whole is one of them, or leaves mod_ipsec as it is.
LEMMA SecNext == ASSUME [Next]_vars PROVE SecActs \/ UNCHANGED secgw
<1>1. CASE UNCHANGED vars
      BY <1>1 DEF vars, tables
<1>2. ASSUME NEW c \in Conns,
             \/ Accept(c) \/ Count(c) \/ add_conn(c) \/ SendQueued(c) \/ Exits(c)
             \/ \E want \in {"results", "others", "unknown"} : EventClears(c, want)
             \/ EventSets(c) \/ remove_conn(c) \/ release_connection(c) \/ Uncount(c)
             \/ \E m \in Changes : Change(c, m)
             \/ \E m \in Queries : Query(c, m)
             \/ QueryPage(c) \/ siggw_fire_event(c)
      PROVE  UNCHANGED secgw
      BY <1>2 DEF Accept, Count, add_conn, SendQueued, Exits, EventClears, EventSets, remove_conn,
                  release_connection, Uncount, Change, Query, QueryPage, siggw_fire_event, tables
<1>3. ASSUME NEW c \in Conns, NEW m \in SecChanges \cup SecLists,
             secgw_starts(c, m, "secgw") \/ secgw_starts(c, m, "lists")
      PROVE  SecActs
      BY <1>3, AllEntered, SocketAssumption DEF SecActs, secgw_starts
<1>4. ASSUME NEW c \in Conns, secgw_goes_on(c)
      PROVE  SecActs
      BY <1>4, SocketAssumption DEF SecActs, secgw_goes_on
<1>5. ASSUME NEW c \in Conns, secgw_fire_event(c)
      PROVE  SecActs
      BY <1>5, SocketAssumption DEF SecActs, secgw_fire_event, Replied
<1>6. CASE \E r \in fired : handle_event(r)
      BY <1>6 DEF handle_event, tables
<1>7. CASE ShutdownStarts \/ Unbind \/ Kill \/ WaitThreads
      BY <1>7 DEF ShutdownStarts, Unbind, Kill, WaitThreads, tables
<1>8. CASE Setups \/ Reads
      BY <1>8 DEF Setups, Reads
<1>9. CASE SecgwEvents
      BY <1>9 DEF SecgwEvents, SecActs
<1> QED
    BY <1>1, <1>2, <1>3, <1>4, <1>5, <1>6, <1>7, <1>8, <1>9 DEF Next

\* What strongSwan loses when it dies, and what a reload brings.
LEMMA CharonDiesIs ==
  ASSUME CharonDies
  PROVE  /\ CharonShape' /\ ~charon'.loaded
         /\ UNCHANGED <<sec, conf, call, lists, ike, alarms, told, doubt>>
<1>1. PICK no \in BOOLEAN : no = FALSE
      OBVIOUS
<1>2. charon' = Charon(no, no, <<>>, <<>>, {})
      BY <1>1 DEF CharonDies, Charon
<1>3. CharonShape' /\ charon'.loaded = no
      BY <1>2, CharonHas DEF CharonShape
<1> QED
    BY <1>1, <1>3 DEF CharonDies
\* strongSwan is up again.
LEMMA CharonStartsIs ==
  ASSUME CharonStarts, CharonShape
  PROVE  /\ StillLoaded /\ SameTunnels /\ SameSecrets /\ charon'.certs = charon.certs
         /\ UNCHANGED <<sec, conf, call, lists, ike, alarms, told, doubt>>
<1>1. PICK u, l, a, b, e : charon = Charon(u, l, a, b, e)
      BY DEF CharonShape
<1>2. charon.loaded = l /\ charon.conns = a /\ charon.secrets = b /\ charon.certs = e
      BY <1>1, CharonHas
<1>3. PICK yes \in BOOLEAN : yes = TRUE
      OBVIOUS
<1>4. charon' = [charon EXCEPT !.up = yes]
      BY <1>3 DEF CharonStarts
<1>5. charon' = Charon(yes, l, a, b, e)
      BY <1>1, <1>4 DEF Charon
<1>6. /\ charon'.loaded = l /\ charon'.conns = a /\ charon'.secrets = b /\ charon'.certs = e
      /\ CharonShape'
      BY <1>5, CharonHas DEF CharonShape
<1> QED
    BY <1>2, <1>6 DEF CharonStarts, StillLoaded, SameTunnels, SameSecrets
\* Everything in the files is loaded; what was parted is not, but for the tables that
\* commands work on and for what they have not yet written.
Reloads ==
  /\ CharonShape' /\ charon'.loaded
  /\ \A n : TunnelsOf(n)' = FilesOf("conns", n)
  /\ \A n : SecretsOf(n)' = {Shared(r) : r \in FilesOf("secrets", n)}
  /\ charon'.certs = conf.certs
  /\ \A t, n : Parted(t, n)' <=> \/ Parted(t, n) /\ On(t) # {}
                                 \/ \E c : Running(c, "file") /\ call[c].m.table = t /\ n \in About(c)
\* The step in these terms, or nothing but the connection changes.
LEMMA LoadAllIs ==
  ASSUME LoadAll
  PROVE  /\ UNCHANGED <<sec, conf, call, lists, ike, alarms, told>>
         /\ \A t, n : Split(t, n)' <=> Split(t, n)
         /\ (charon' = charon /\ doubt' = doubt) \/ Reloads
<1>1. UNCHANGED <<sec, conf, call, lists, ike, alarms, told>>
      BY DEF LoadAll
<1>2. CASE charon' = charon /\ doubt' = doubt
      BY <1>1, <1>2 DEF Split
<1>3. CASE /\ charon' = [up |-> TRUE, loaded |-> TRUE, conns |-> conf.conns,
                         secrets |-> FiledSecrets, certs |-> conf.certs]
           /\ doubt' = {d \in doubt : d[1] # "charon" \/ On(d[2]) # {}} \cup
                 UNION {{"charon"} \X {call[c].m.table} \X About(c)
                           : c \in {d \in DOMAIN call : Running(d, "file")}}
  <2>1. PICK all : all = FiledSecrets
        OBVIOUS
  <2>2. PICK yes \in BOOLEAN : yes = TRUE
        OBVIOUS
  <2>3. charon' = Charon(yes, yes, conf.conns, all, conf.certs)
        BY <1>3, <2>1, <2>2 DEF Charon
  <2>4. /\ CharonShape' /\ charon'.loaded = yes
        /\ charon'.conns = conf.conns /\ charon'.secrets = all /\ charon'.certs = conf.certs
        BY <2>3, CharonHas DEF CharonShape
  <2>5. \A n : TunnelsOf(n)' = FilesOf("conns", n)
        BY <2>4 DEF TunnelsOf, FilesOf
  <2>6. ASSUME NEW n PROVE SecretsOf(n)' = {Shared(r) : r \in FilesOf("secrets", n)}
    <3>1. PICK key : key = <<"ike", n>>
          OBVIOUS
    <3>2. DOMAIN all = {<<"ike", k>> : k \in DOMAIN conf.secrets}
          BY <2>1 DEF FiledSecrets
    <3>3. DOMAIN all \cap ({"ike", "vici"} \X {n}) = IF n \in DOMAIN conf.secrets THEN {key} ELSE {}
          BY <3>1, <3>2
    <3>4. n \in DOMAIN conf.secrets => all[key] = Shared(conf.secrets[n])
      <4>1. ASSUME n \in DOMAIN conf.secrets PROVE key \in DOMAIN all /\ key[2] = n
            BY <3>1, <3>2, <4>1
      <4> QED
          BY <4>1, <2>1 DEF FiledSecrets
    <3>5. SecretsOf(n)' = {all[k] : k \in DOMAIN all \cap ({"ike", "vici"} \X {n})}
          BY <2>4 DEF SecretsOf
    <3>6. FilesOf("secrets", n) = IF n \in DOMAIN conf.secrets THEN {conf.secrets[n]} ELSE {}
          BY DEF FilesOf
    <3> QED
        BY <3>3, <3>4, <3>5, <3>6
  <2>7. PICK cs : cs = {d \in DOMAIN call : Running(d, "file")}
        OBVIOUS
  <2>8. \A p, t, n : <<p, t, n>> \in doubt' <=>
           \/ <<p, t, n>> \in doubt /\ (p # "charon" \/ On(t) # {})
           \/ \E c \in cs : p = "charon" /\ t = call[c].m.table /\ n \in About(c)
    <3>1. PICK A, B : /\ A = {d \in doubt : d[1] # "charon" \/ On(d[2]) # {}}
                      /\ B = UNION {{"charon"} \X {call[c].m.table} \X About(c) : c \in cs}
          OBVIOUS
    <3>2. doubt' = A \cup B
          BY <1>3, <2>7, <3>1
    <3>3. ASSUME NEW p, NEW t, NEW n
          PROVE  /\ <<p, t, n>> \in A <=> <<p, t, n>> \in doubt /\ (p # "charon" \/ On(t) # {})
                 /\ <<p, t, n>> \in B <=>
                       \E c \in cs : p = "charon" /\ t = call[c].m.table /\ n \in About(c)
          BY <3>1
    <3> QED
        BY <3>2, <3>3
  <2>9. \A t, n : Split(t, n)' <=> Split(t, n)
        BY <2>8 DEF Split
  <2>10. \A t, n : Parted(t, n)' <=> \/ Parted(t, n) /\ On(t) # {}
                                     \/ \E c : Running(c, "file") /\ call[c].m.table = t /\ n \in About(c)
         BY <2>7, <2>8 DEF Parted, Running
  <2> QED
      BY <1>1, <2>2, <2>4, <2>5, <2>6, <2>9, <2>10 DEF Reloads
<1> QED
    BY <1>2, <1>3 DEF LoadAll
\* An uploaded certificate joins the others.
LEMMA UploadIs ==
  ASSUME ConfShape, NEW f, add_cert_file(f)
  PROVE  /\ ConfShape' /\ conf'.conns = conf.conns /\ conf'.secrets = conf.secrets
         /\ conf'.certs = conf.certs \cup {f}
         /\ UNCHANGED <<sec, charon, link, call, lists, ike, alarms, told, doubt>>
<1>1. PICK a, b, e : conf = Conf(a, b, e)
      BY DEF ConfShape
<1>2. conf.conns = a /\ conf.secrets = b /\ conf.certs = e
      BY <1>1, ConfHas
<1>3. PICK e1 : e1 = e \cup {f}
      OBVIOUS
<1>4. conf' = Conf(a, b, e1)
      BY <1>1, <1>2, <1>3 DEF add_cert_file, Conf
<1>5. conf'.conns = a /\ conf'.secrets = b /\ conf'.certs = e1
      BY <1>4, ConfHas
<1> QED
    BY <1>2, <1>3, <1>4, <1>5 DEF ConfShape, add_cert_file

\* A table's rows change, the others do not.
LEMMA SecShapeStays ==
  ASSUME SecShape, NEW t \in SecTables, OnlyTable(t), Bounded(DOMAIN sec'[t])
  PROVE  SecShape'
BY DEF SecShape, OnlyTable

\* A step of a command leaves calls and data as they should be.
LEMMA SecStepShape ==
  ASSUME ShapeInv, NEW c, SecStep(c)
  PROVE  ShapeInv'
<1>0. CallShape /\ DataShape /\ SecShape /\ ConfShape /\ CharonShape
      BY DEF ShapeInv, DataShape
<1>1. PICK t, m, row, n, i : /\ t = call[c].m.table /\ m = call[c].m /\ row = call[c].m.row
                             /\ n = row.name /\ i = m.id
      OBVIOUS
<1>2. ASSUME c \in DOMAIN call PROVE PlaceOf(m, call[c].at)
      BY <1>0, <1>1, <1>2 DEF CallShape, Placed
<1>3. ASSUME UNCHANGED <<sec, conf, charon>> PROVE DataShape'
      BY <1>0, <1>3 DEF DataShape, SecShape, ConfShape, CharonShape
<1>4. CASE Add_Check(c)
  <2>1. /\ c \in DOMAIN call /\ call[c].at = "check" /\ m.op = "add"
        /\ (\E ret : Finishes(c, ret)) \/ Moves(c, "vici")
        /\ UNCHANGED <<sec, conf, charon>>
        BY <1>0, <1>1, <1>4, AddCheckIs
  <2>2. PlaceOf(m, "vici")
        BY <2>1, <1>2 DEF PlaceOf, Walk
  <2> QED
      BY <2>1, <2>2, <1>0, <1>1, <1>3, MovesShape DEF ShapeInv
<1>5. CASE Mod_Check(c)
  <2>1. /\ c \in DOMAIN call /\ call[c].at = "check" /\ m.op = "mod"
        /\ (\E ret : Finishes(c, ret)) \/ Moves(c, "vici")
        /\ UNCHANGED <<sec, conf, charon>>
        BY <1>0, <1>1, <1>5, ModCheckIs
  <2>2. PlaceOf(m, "vici")
        BY <2>1, <1>2 DEF PlaceOf, Walk
  <2> QED
      BY <2>1, <2>2, <1>0, <1>1, <1>3, MovesShape DEF ShapeInv
<1>6. CASE Del_Check(c)
  <2>0. PICK at, old : at = (IF t = "certs" THEN "save" ELSE "vici") /\ old = sec[t][i]
        OBVIOUS
  <2>1. /\ c \in DOMAIN call /\ call[c].at = "check" /\ m.op = "rmv"
        /\ \/ \E ret : Finishes(c, ret)
           \/ Turns(c, Call(m, at, call[c].ret, old, call[c].body, call[c].saw, call[c].mixed))
        /\ UNCHANGED <<sec, conf, charon>>
        BY <1>0, <1>1, <1>6, <2>0, DelCheckIs
  <2>2. PlaceOf(m, at)
        BY <2>0, <2>1, <1>1, <1>2 DEF PlaceOf, Walk
  <2>3. CallShape'
        BY <2>1, <2>2, <1>0, MovesShape, TurnsShape
  <2> QED
      BY <2>1, <2>3, <1>3 DEF ShapeInv
<1>7. CASE TakeEffect(c)
  <2>0. PICK at : at = IF t = "certs" THEN "save" ELSE "file"
        OBVIOUS
  <2>1. /\ c \in DOMAIN call /\ call[c].at = "vici" /\ m.op \in {"add", "mod"}
        /\ \/ charon' = charon /\ \E ret : Finishes(c, ret)
           \/ Loads(t, row) /\ Moves(c, at)
        /\ UNCHANGED <<sec, conf>>
        BY <1>0, <1>1, <1>7, <2>0, TakeEffectIs
  <2>2. PlaceOf(m, at)
        BY <2>0, <2>1, <1>1, <1>2 DEF PlaceOf, Walk
  <2>3. Loads(t, row) => StillLoaded
        BY <1>0, <1>1, LoadsIs
  <2>4. CharonShape'
        BY <2>1, <2>3, <1>0 DEF StillLoaded, CharonShape
  <2>5. SecShape' /\ ConfShape'
        BY <2>1, <1>0 DEF SecShape, ConfShape
  <2> QED
      BY <2>1, <2>2, <2>4, <2>5, <1>0, <1>1, MovesShape DEF ShapeInv, DataShape
<1>8. CASE Unload(c)
  <2>0. PICK r : r = call[c].row
        OBVIOUS
  <2>1. /\ c \in DOMAIN call /\ call[c].at = "vici" /\ m.op = "rmv" /\ Moves(c, "file") /\ t \in Filed
        /\ charon' = vici_unload_conn(r) \/ charon' = unload_secret(r) \/ charon' = charon
        /\ UNCHANGED <<sec, conf>>
        BY <1>0, <1>1, <1>8, <2>0, UnloadIs
  <2>2. PlaceOf(m, "file")
        BY <2>1, <1>1, <1>2 DEF PlaceOf, Walk, Filed
  <2>3. charon' # charon => StillLoaded
        BY <2>1, <1>0, UnloadsIs
  <2>4. CharonShape'
        BY <2>3, <1>0 DEF StillLoaded, CharonShape
  <2>5. SecShape' /\ ConfShape'
        BY <2>1, <1>0 DEF SecShape, ConfShape
  <2> QED
      BY <2>1, <2>2, <2>4, <2>5, <1>0, <1>1, MovesShape DEF ShapeInv, DataShape
<1>9. CASE WriteFile(c)
  <2>1. /\ c \in DOMAIN call /\ call[c].at = "file" /\ m.op \in {"add", "mod"} /\ Moves(c, "save")
        /\ Writes(t, row) \/ conf' = conf \/ Erases(t, n)
        /\ UNCHANGED <<sec, charon>>
        BY <1>0, <1>1, <1>9, WriteFileIs
  <2>2. PlaceOf(m, "save")
        BY <2>1, <1>2 DEF PlaceOf, Walk
  <2>3. conf' # conf => FilesBut(t, n)
        BY <2>1, <1>0, <1>1, FilesChange
  <2>4. ConfShape'
        BY <2>3, <1>0 DEF FilesBut, ConfShape
  <2>5. SecShape' /\ CharonShape'
        BY <2>1, <1>0 DEF SecShape, CharonShape
  <2> QED
      BY <2>1, <2>2, <2>4, <2>5, <1>0, <1>1, MovesShape DEF ShapeInv, DataShape
<1>10. CASE RemoveFile(c)
  <2>0. PICK k : k = call[c].row.name
        OBVIOUS
  <2>1. /\ c \in DOMAIN call /\ call[c].at = "file" /\ m.op = "rmv" /\ Moves(c, "save") /\ t \in Filed
        /\ conf' = conf \/ Erases(t, k)
        /\ UNCHANGED <<sec, charon>>
        BY <1>0, <1>1, <1>10, <2>0, RemoveFileIs
  <2>2. PlaceOf(m, "save")
        BY <2>1, <1>2 DEF PlaceOf, Walk
  <2>3. conf' # conf => FilesBut(t, k)
        BY <2>1, <1>0, FilesChange
  <2>4. ConfShape'
        BY <2>3, <1>0 DEF FilesBut, ConfShape
  <2>5. SecShape' /\ CharonShape'
        BY <2>1, <1>0 DEF SecShape, CharonShape
  <2> QED
      BY <2>1, <2>2, <2>4, <2>5, <1>0, <1>1, MovesShape DEF ShapeInv, DataShape
<1>11. CASE Save(c)
  <2>1. /\ c \in DOMAIN call /\ (\E ret : Finishes(c, ret)) /\ t \in Edited
        /\ (OnlyTable(t) /\ Bounded(DOMAIN sec'[t])) \/ sec' = sec
        /\ UNCHANGED <<conf, charon>>
        BY <1>0, <1>1, <1>11, SaveIs
  <2>2. SecShape'
        BY <2>1, <1>0, SecShapeStays DEF SecShape, Edited, Filed, SecTables
  <2>3. ConfShape' /\ CharonShape'
        BY <2>1, <1>0 DEF ConfShape, CharonShape
  <2> QED
      BY <2>1, <2>2, <2>3, <1>0, MovesShape DEF ShapeInv, DataShape
<1>12. CASE List_Zero(c) \/ List_Count(c) \/ List_Page(c) \/ List_Body(c)
  <2>1. /\ c \in DOMAIN call /\ m.op = "query"
        /\ \E at \in {"count", "page", "body", "fire"} : \E ret, body, saw : Lists(c, at, ret, body, saw)
        /\ UNCHANGED <<sec, conf, charon>>
    <3>1. CASE List_Zero(c)
          BY <3>1, <1>0, <1>1, ListZeroIs
    <3>2. CASE List_Count(c)
          BY <3>2, <1>0, <1>1, ListCountIs
    <3>3. CASE List_Page(c)
          BY <3>3, <1>0, <1>1, ListPageIs
    <3>4. CASE List_Body(c)
          BY <3>4, <1>0, <1>1, ListBodyIs
    <3> QED
        BY <3>1, <3>2, <3>3, <3>4, <1>12
  <2>2. \A at \in {"count", "page", "body", "fire"} : PlaceOf(m, at)
        BY <2>1, <1>2 DEF PlaceOf
  <2> QED
      BY <2>1, <2>2, <1>0, <1>1, <1>3, MovesShape DEF ShapeInv
<1> QED
    BY <1>4, <1>5, <1>6, <1>7, <1>8, <1>9, <1>10, <1>11, <1>12 DEF SecStep

\* So does every step.
LEMMA ShapeStays ==
  ASSUME ShapeInv, SecActs \/ UNCHANGED secgw
  PROVE  ShapeInv'
<1>0. CallShape /\ DataShape /\ SecShape /\ ConfShape /\ CharonShape
      BY DEF ShapeInv, DataShape
<1>1. ASSUME call' = call PROVE CallShape'
      BY <1>0, <1>1 DEF CallShape
<1>2. ASSUME UNCHANGED <<sec, conf, charon>> PROVE DataShape'
      BY <1>0, <1>2 DEF DataShape, SecShape, ConfShape, CharonShape
<1>3. ASSUME NEW c, NEW m, Entered(m), secgw_main(c, m)
      PROVE  ShapeInv'
  <2>1. Starts(c, m) /\ UNCHANGED <<sec, conf, charon>>
        BY <1>0, <1>3, StartsIs
  <2> QED
      BY <2>1, <1>0, <1>2, <1>3, StartsShape DEF ShapeInv
<1>4. ASSUME NEW c, SecStep(c)
      PROVE  ShapeInv'
      BY <1>4, SecStepShape
<1>5. ASSUME NEW c, Replied(c)
      PROVE  ShapeInv'
  <2>1. Leaves(c) /\ UNCHANGED <<sec, conf, charon>>
        BY <1>5, LeavesIs DEF Replied
  <2> QED
      BY <2>1, <1>0, <1>2, LeavesShape DEF ShapeInv
<1>6. ASSUME NEW f, add_cert_file(f)
      PROVE  ShapeInv'
      BY <1>0, <1>1, <1>6, UploadIs DEF ShapeInv, DataShape, SecShape, CharonShape
<1>7. CASE UNCHANGED <<call, sec, conf, charon>>
      BY <1>1, <1>2, <1>7 DEF ShapeInv
<1>8. CASE CharonDies
      BY <1>0, <1>1, <1>8, CharonDiesIs DEF ShapeInv, DataShape, SecShape, ConfShape
<1>9. CASE CharonStarts
      BY <1>0, <1>1, <1>9, CharonStartsIs DEF ShapeInv, DataShape, SecShape, ConfShape, StillLoaded
<1>10. CASE LoadAll
      BY <1>0, <1>1, <1>10, LoadAllIs DEF ShapeInv, DataShape, SecShape, ConfShape, CharonShape, Reloads
<1>11. CASE Tunnels
  <2>1. /\ OnlyInfos /\ UNCHANGED <<conf, charon, call>>
        /\ Bounded(DOMAIN sec'["infos"]) \/ DOMAIN sec'["infos"] \subseteq DOMAIN sec["infos"]
        BY <1>0, <1>11, VerifyIs, SaveInfoIs, AlarmIs DEF Tunnels
  <2>2. "infos" \in SecTables
        BY DEF SecTables
  <2>3. Bounded(DOMAIN sec["infos"])
        BY <1>0, <2>2 DEF SecShape
  <2>4. Bounded(DOMAIN sec'["infos"])
        BY <2>1, <2>3 DEF Bounded
  <2>5. SecShape'
        BY <2>1, <2>2, <2>4, <1>0, SecShapeStays DEF OnlyInfos
  <2> QED
      BY <2>1, <2>5, <1>0, <1>1 DEF ShapeInv, DataShape, ConfShape, CharonShape
<1>12. CASE (\E n \in SecNames, state \in States : parseIkeEvent(n, state)) \/ secgw_timer_callback
            \/ UNCHANGED secgw
       BY <1>7, <1>12 DEF parseIkeEvent, secgw_timer_callback, secgw
<1> QED
    BY <1>3, <1>4, <1>5, <1>6, <1>8, <1>9, <1>10, <1>11, <1>12 DEF SecActs

-----------------------------------------------------------------------------
(* Lists tell what their SELECTs found.                                     *)

\* The steps of other commands, and answers, disturb no list.
LEMMA BufferStays ==
  ASSUME BufferInv, lists' = lists,
         \/ call' = call
         \/ \E c : Leaves(c)
         \/ \E c, r : Turns(c, r) /\ call[c].m.op # "query" /\ r.m.op # "query"
  PROVE  BufferInv'
<1>1. ASSUME NEW d \in DOMAIN call', NEW t, Asks(d, t)'
      PROVE  d \in DOMAIN call /\ Asks(d, t) /\ call'[d] = call[d]
  <2>1. CASE call' = call
        BY <1>1, <2>1 DEF Asks
  <2>2. CASE \E c : Leaves(c)
        BY <1>1, <2>2 DEF Asks, Leaves
  <2>3. ASSUME NEW c, NEW r, Turns(c, r), call[c].m.op # "query", r.m.op # "query"
        PROVE  d \in DOMAIN call /\ Asks(d, t) /\ call'[d] = call[d]
        BY <1>1, <2>3 DEF Asks, Turns
  <2> QED
      BY <2>1, <2>2, <2>3
<1> QED
    BY <1>1 DEF BufferInv

\* A list that goes on writes one buffer, where another list is marked.
LEMMA BufferListed ==
  ASSUME BufferInv, CallShape, NEW c \in DOMAIN call, call[c].m.op = "query",
         NEW at, NEW ret, NEW body, NEW saw, Lists(c, at, ret, body, saw),
         NEW t \in SecTables, t = call[c].m.table, NEW l, ListOf(l),
         (lists' = lists /\ l = lists[t]) \/ lists' = [lists EXCEPT ![t] = l],
         NEW r, r = Call(call[c].m, at, ret, call[c].row, body, saw, call[c].mixed),
         ~call[c].mixed => Unmixed(r, l)
  PROVE  BufferInv'
<1>1. /\ DOMAIN lists' = SecTables /\ lists'[t] = l
      /\ \A u \in SecTables : u # t => lists'[u] = lists[u]
      BY DEF BufferInv
<1>2. /\ DOMAIN call' = DOMAIN call /\ call'[c] = r
      /\ \A d \in DOMAIN call : d # c => call'[d] = call[d]
      BY DEF Lists, Turns
<1>3. r.m = call[c].m /\ r.mixed = call[c].mixed
      BY CallHas
<1>4. \A d \in DOMAIN call, u \in SecTables : /\ Asks(d, u)' <=> Asks(d, u)
                                              /\ call'[d].mixed = call[d].mixed
      BY <1>2, <1>3 DEF Asks
<1>5. ASSUME NEW d \in DOMAIN call, NEW u \in SecTables, Asks(d, u), ~call[d].mixed
      PROVE  Unmixed(call'[d], lists'[u])
  <2>1. CASE d = c
        BY <2>1, <1>1, <1>2, <1>5 DEF Asks
  <2>2. CASE d # c
    <3>1. u # t
          BY <2>2, <1>5 DEF BufferInv, Asks
    <3> QED
        BY <2>2, <3>1, <1>1, <1>2, <1>5 DEF BufferInv
  <2> QED
      BY <2>1, <2>2
<1> QED
    BY <1>1, <1>2, <1>4, <1>5 DEF BufferInv

\* Fields of a buffer.
LEMMA BufferHas ==
  ASSUME NEW l, ListOf(l), NEW x
  PROVE  /\ x \in Nat => ListOf(SetTotal(l, x))
         /\ SetTotal(l, x) = [total |-> x, rows |-> l.rows]
         /\ ListOf(SetRows(l, x)) /\ SetRows(l, x) = [total |-> l.total, rows |-> x]
<1>1. PICK a, b : l = [total |-> a, rows |-> b]
      BY DEF ListOf
<1>2. SetTotal(l, x) = [total |-> x, rows |-> b]
      BY <1>1 DEF SetTotal
<1>3. SetRows(l, x) = [total |-> a, rows |-> x]
      BY <1>1 DEF SetRows
<1> QED
    BY <1>1, <1>2, <1>3 DEF ListOf

\* A new list marks those it meets.
LEMMA BufferStarts ==
  ASSUME BufferInv, CallShape, NEW c, NEW m, Starts(c, m), Entered(m), lists' = lists
  PROVE  BufferInv'
<1>1. PICK yes, new :
        /\ yes = (m.op = "query" /\ \E d \in On(m.table) : call[d].m.op = "query")
        /\ new = Call(m, IF m.op = "query" THEN "zero" ELSE "check", "ok", None, None,
                      [total |-> 0, rows |-> <<>>], yes)
        /\ call'[c] = new
      BY DEF Starts
<1>2. /\ new.m = m /\ new.at = (IF m.op = "query" THEN "zero" ELSE "check") /\ new.ret = "ok"
      /\ new.saw = [total |-> 0, rows |-> <<>>] /\ new.mixed = yes
      BY <1>1, CallHas
<1>3. /\ c \notin DOMAIN call /\ DOMAIN call' = DOMAIN call \cup {c}
      /\ \A d \in DOMAIN call : /\ Marked(d)
                                /\ call'[d].mixed = call[d].mixed \/ call'[d].mixed = TRUE
                                /\ m.op = "query" /\ d \in On(m.table) /\ call[d].m.op = "query"
                                     => call'[d].mixed = TRUE
      BY DEF Starts
<1>4. \A d \in DOMAIN call : \A t : Asks(d, t)' <=> Asks(d, t)
      BY <1>3 DEF Asks, Marked
<1>5. \A t : Asks(c, t)' <=> m.op = "query" /\ m.table = t
      BY <1>1, <1>2, <1>3 DEF Asks
<1>6. \A d \in DOMAIN call : \A t : Asks(d, t) <=> d \in On(t) /\ call[d].m.op = "query"
      BY DEF Asks, On
<1>7. ASSUME NEW d \in DOMAIN call, NEW t, Asks(d, t), Asks(c, t)'
      PROVE  call'[c].mixed /\ call'[d].mixed
      BY <1>1, <1>2, <1>3, <1>5, <1>6, <1>7
<1>8. ASSUME NEW d, NEW e, d \in DOMAIN call', e \in DOMAIN call', NEW t \in SecTables, d # e,
             Asks(d, t)', Asks(e, t)'
      PROVE  call'[d].mixed
  <2>1. CASE d = c \/ e = c
        BY <2>1, <1>3, <1>4, <1>7, <1>8
  <2>2. CASE d # c /\ e # c
    <3>1. d \in DOMAIN call /\ e \in DOMAIN call /\ call[d].mixed
          BY <2>2, <1>3, <1>4, <1>8 DEF BufferInv
    <3> QED
        BY <3>1, <1>3
  <2> QED
      BY <2>1, <2>2
<1>9. ASSUME NEW d, d \in DOMAIN call', NEW t \in SecTables, Asks(d, t)', ~call'[d].mixed
      PROVE  Unmixed(call'[d], lists[t])
  <2>1. CASE d = c
        BY <2>1, <1>1, <1>2, <1>5, <1>9 DEF Unmixed
  <2>2. CASE d # c
    <3>1. d \in DOMAIN call /\ ~call[d].mixed /\ Asks(d, t)
          BY <2>2, <1>3, <1>4, <1>9
    <3>2. Unmixed(call[d], lists[t]) /\ Marked(d)
          BY <3>1, <1>3, <1>9 DEF BufferInv
    <3> QED
        BY <3>2 DEF Unmixed, Marked
  <2> QED
      BY <2>1, <2>2
<1> QED
    BY <1>8, <1>9 DEF BufferInv

\* The lists' own steps.
LEMMA BufferLists ==
  ASSUME BufferInv, CallShape, SecShape, NEW c,
         List_Zero(c) \/ List_Count(c) \/ List_Page(c) \/ List_Body(c)
  PROVE  BufferInv'
<1>1. PICK t, r : t = call[c].m.table /\ r = call[c]
      OBVIOUS
<1>2. c \in DOMAIN call /\ r.m.op = "query" /\ r.at \in {"zero", "count", "page", "body"}
  <2>1. CASE List_Zero(c)
        BY <2>1, <1>1, ListZeroIs
  <2>2. CASE List_Count(c)
        BY <2>2, <1>1, ListCountIs
  <2>3. CASE List_Page(c)
        BY <2>3, <1>1, ListPageIs
  <2>4. CASE List_Body(c)
        BY <2>4, <1>1, ListBodyIs
  <2> QED
      BY <2>1, <2>2, <2>3, <2>4
<1>3. t \in SecTables
      BY <1>1, <1>2 DEF CallShape, Placed, PlaceOf
<1>4. PICK l : l = lists[t]
      OBVIOUS
<1>5. ListOf(l) /\ l.total \in Nat /\ DOMAIN lists = SecTables
      BY <1>3, <1>4 DEF BufferInv, ListOf
<1>6. ~r.mixed => Unmixed(r, l)
      BY <1>1, <1>2, <1>3, <1>4 DEF BufferInv, Asks
<1>7. CASE List_Zero(c)
  <2>1. r.at = "zero" /\ Lists(c, "count", r.ret, r.body, r.saw)
        BY <1>1, <1>7, ListZeroIs
  <2>2. PICK z, l2 : z = 0 /\ l2 = SetTotal(l, z)
        OBVIOUS
  <2>3. lists' = [lists EXCEPT ![t] = l2]
        BY <1>1, <1>4, <1>7, <2>2, ListZeroIs DEF SetTotal
  <2>4. ListOf(l2) /\ l2.total = 0
        BY <1>5, <2>2, BufferHas
  <2>5. PICK q : q = Call(r.m, "count", r.ret, r.row, r.body, r.saw, r.mixed)
        OBVIOUS
  <2>6. ~r.mixed => Unmixed(q, l2)
        BY <2>1, <2>4, <2>5, <1>6, CallHas DEF Unmixed
  <2>7. c \in DOMAIN call /\ call[c].m.op = "query" /\ t \in SecTables /\ t = call[c].m.table
        BY <1>1, <1>2, <1>3
  <2>8. PICK ret, body, saw : ret = r.ret /\ body = r.body /\ saw = r.saw
        OBVIOUS
  <2>9. /\ Lists(c, "count", ret, body, saw)
        /\ q = Call(call[c].m, "count", ret, call[c].row, body, saw, call[c].mixed)
        /\ ~call[c].mixed => Unmixed(q, l2)
        BY <2>1, <2>5, <2>6, <2>8, <1>1
  <2> QED
      BY <2>3, <2>4, <2>7, <2>9, BufferListed
<1>8. CASE List_Count(c)
  <2>1. /\ r.at = "count"
        /\ \/ Lists(c, "body", "database", r.body, r.saw) /\ lists' = lists
           \/ \E n \in Nat : /\ Lists(c, "page", r.ret, r.body, SetTotal(r.saw, n))
                             /\ lists' = [lists EXCEPT ![t] = SetTotal(@, n)]
        BY <1>1, <1>8, ListCountIs
  <2>2. CASE Lists(c, "body", "database", r.body, r.saw) /\ lists' = lists
    <3>1. PICK q : q = Call(r.m, "body", "database", r.row, r.body, r.saw, r.mixed)
          OBVIOUS
    <3>2. ~r.mixed => Unmixed(q, l)
          BY <2>1, <3>1, <1>6, CallHas DEF Unmixed
    <3> QED
        BY <2>2, <3>1, <3>2, <1>1, <1>2, <1>3, <1>4, <1>5, BufferListed
  <2>3. ASSUME NEW n \in Nat, Lists(c, "page", r.ret, r.body, SetTotal(r.saw, n)),
               lists' = [lists EXCEPT ![t] = SetTotal(@, n)]
        PROVE  BufferInv'
    <3>1. PICK l2, saw : l2 = SetTotal(l, n) /\ saw = SetTotal(r.saw, n)
          OBVIOUS
    <3>2. ListOf(l2) /\ l2.total = n /\ lists' = [lists EXCEPT ![t] = l2]
          BY <1>4, <1>5, <2>3, <3>1, BufferHas
    <3>3. PICK q : q = Call(r.m, "page", r.ret, r.row, r.body, saw, r.mixed)
          OBVIOUS
    <3>4. ~r.mixed => saw = [total |-> n, rows |-> <<>>]
      <4>1. ASSUME ~r.mixed PROVE r.saw = [total |-> 0, rows |-> <<>>]
            BY <4>1, <2>1, <1>6 DEF Unmixed
      <4> QED
          BY <4>1, <3>1 DEF SetTotal
    <3>5. ~r.mixed => Unmixed(q, l2)
          BY <2>1, <3>2, <3>3, <3>4, <1>6, CallHas DEF Unmixed
    <3>6. Lists(c, "page", r.ret, r.body, saw)
          BY <2>3, <3>1
    <3> QED
        BY <3>2, <3>3, <3>5, <3>6, <1>1, <1>2, <1>3, BufferListed
  <2> QED
      BY <2>1, <2>2, <2>3
<1>9. CASE List_Page(c)
  <2>1. /\ r.at = "page"
        /\ \/ l.total = 0 /\ lists' = lists /\ Lists(c, "body", r.ret, r.body, r.saw)
           \/ lists' = lists /\ Lists(c, "body", "database", r.body, r.saw)
           \/ /\ l.total # 0
              /\ \E rows : /\ Lists(c, "body", r.ret, r.body, SetRows(r.saw, rows))
                           /\ lists' = [lists EXCEPT ![t] = SetRows(@, rows)]
        BY <1>1, <1>4, <1>9, ListPageIs
  <2>2. ASSUME NEW ret, lists' = lists, Lists(c, "body", ret, r.body, r.saw),
               ret = "database" \/ (ret = r.ret /\ l.total = 0)
        PROVE  BufferInv'
    <3>1. PICK q : q = Call(r.m, "body", ret, r.row, r.body, r.saw, r.mixed)
          OBVIOUS
    <3>2. ~r.mixed => Unmixed(q, l)
          BY <2>1, <2>2, <3>1, <1>6, CallHas DEF Unmixed
    <3> QED
        BY <2>2, <3>1, <3>2, <1>1, <1>2, <1>3, <1>4, <1>5, BufferListed
  <2>3. ASSUME l.total # 0, NEW rows, Lists(c, "body", r.ret, r.body, SetRows(r.saw, rows)),
               lists' = [lists EXCEPT ![t] = SetRows(@, rows)]
        PROVE  BufferInv'
    <3>1. PICK l2, saw : l2 = SetRows(l, rows) /\ saw = SetRows(r.saw, rows)
          OBVIOUS
    <3>2. /\ ListOf(l2) /\ l2.total = l.total /\ l2.rows = rows
          /\ lists' = [lists EXCEPT ![t] = l2]
          BY <1>4, <1>5, <2>3, <3>1, BufferHas
    <3>3. PICK q : q = Call(r.m, "body", r.ret, r.row, r.body, saw, r.mixed)
          OBVIOUS
    <3>4. ~r.mixed => saw = [total |-> l.total, rows |-> rows] /\ r.ret = "ok"
      <4>1. ASSUME ~r.mixed PROVE r.saw = [total |-> l.total, rows |-> <<>>] /\ r.ret = "ok"
            BY <4>1, <2>1, <1>6 DEF Unmixed
      <4> QED
          BY <4>1, <3>1 DEF SetRows
    <3>5. l.total > 0
          BY <1>5, <2>3
    <3>6. ~r.mixed => Unmixed(q, l2)
          BY <2>1, <3>2, <3>3, <3>4, <3>5, CallHas DEF Unmixed
    <3>7. Lists(c, "body", r.ret, r.body, saw)
          BY <2>3, <3>1
    <3> QED
        BY <3>2, <3>3, <3>6, <3>7, <1>1, <1>2, <1>3, BufferListed
  <2> QED
      BY <2>1, <2>2, <2>3
<1>10. CASE List_Body(c)
  <2>1. PICK body : body = Body(c)
        OBVIOUS
  <2>2. r.at = "body" /\ Lists(c, "fire", r.ret, body, r.saw) /\ lists' = lists
        BY <1>1, <1>10, <2>1, ListBodyIs
  <2>3. PICK q : q = Call(r.m, "fire", r.ret, r.row, body, r.saw, r.mixed)
        OBVIOUS
  <2>4. body = [total |-> l.total, rows |-> IF r.ret = "ok" /\ l.total > 0 THEN l.rows ELSE <<>>]
        BY <1>1, <1>4, <2>1 DEF Body
  <2>5. ~r.mixed => body = r.saw
        BY <2>2, <2>4, <1>6 DEF Unmixed
  <2>6. ~r.mixed => Unmixed(q, l)
        BY <2>3, <2>5, CallHas DEF Unmixed
  <2> QED
      BY <2>2, <2>3, <2>6, <1>1, <1>2, <1>3, <1>4, <1>5, BufferListed
<1> QED
    BY <1>7, <1>8, <1>9, <1>10

\* The steps of commands that change something.
Command(c) == \/ Add_Check(c) \/ Mod_Check(c) \/ Del_Check(c) \/ TakeEffect(c) \/ Unload(c)
              \/ WriteFile(c) \/ RemoveFile(c) \/ Save(c)
\* They touch neither buffers nor the records of tunnels.
LEMMA CommandIs ==
  ASSUME CallShape, DataShape, NEW c, Command(c)
  PROVE  /\ \E r : Turns(c, r) /\ call[c].m.op # "query" /\ r.m.op # "query"
         /\ More /\ Elsewhere /\ sec'["infos"] = sec["infos"]
<1>1. PICK t, m, row, n, i, old, k :
        /\ t = call[c].m.table /\ m = call[c].m /\ row = call[c].m.row
        /\ n = row.name /\ i = m.id /\ old = call[c].row /\ k = old.name
      OBVIOUS
<1>2. PICK r : r = call[c]
      OBVIOUS
<1>3. ASSUME m.op # "query", (\E at : Moves(c, at)) \/ (\E ret : Finishes(c, ret))
      PROVE  \E q : Turns(c, q) /\ m.op # "query" /\ q.m.op # "query"
  <2>1. ASSUME NEW at, Moves(c, at) PROVE \E q : Turns(c, q) /\ q.m.op # "query"
        BY <2>1, <1>1, <1>3, CallHas DEF Moves
  <2>2. ASSUME NEW ret, Finishes(c, ret) PROVE \E q : Turns(c, q) /\ q.m.op # "query"
        BY <2>2, CallHas DEF Finishes
  <2> QED
      BY <2>1, <2>2, <1>3
<1>4. ASSUME sec' = sec PROVE sec'["infos"] = sec["infos"]
      BY <1>4
<1>5. doubt' = doubt => More
      BY DEF More
<1>6. CASE Add_Check(c)
  <2>1. /\ m.op = "add" /\ ((\E ret : Finishes(c, ret)) \/ Moves(c, "vici"))
        /\ More /\ sec' = sec /\ Elsewhere
        BY <1>1, <1>6, AddCheckIs
  <2> QED
      BY <2>1, <1>1, <1>3, <1>4
<1>7. CASE Mod_Check(c)
  <2>1. /\ m.op = "mod" /\ ((\E ret : Finishes(c, ret)) \/ Moves(c, "vici"))
        /\ More /\ sec' = sec /\ Elsewhere
        BY <1>1, <1>7, ModCheckIs
  <2> QED
      BY <2>1, <1>1, <1>3, <1>4
<1>8. CASE Del_Check(c)
  <2>1. PICK at, was : at = (IF t = "certs" THEN "save" ELSE "vici") /\ was = sec[t][i]
        OBVIOUS
  <2>2. /\ m.op = "rmv"
        /\ \/ \E ret : Finishes(c, ret)
           \/ Turns(c, Call(m, at, r.ret, was, r.body, r.saw, r.mixed))
        /\ doubt' = doubt /\ sec' = sec /\ Elsewhere
        BY <1>1, <1>2, <1>8, <2>1, DelCheckIs
  <2>3. PICK q : q = Call(m, at, r.ret, was, r.body, r.saw, r.mixed)
        OBVIOUS
  <2>4. q.m = m
        BY <2>3, CallHas
  <2> QED
      BY <2>2, <2>3, <2>4, <1>1, <1>3, <1>4, <1>5
<1>9. CASE TakeEffect(c)
  <2>1. PICK at : at = IF t = "certs" THEN "save" ELSE "file"
        OBVIOUS
  <2>2. /\ m.op \in {"add", "mod"} /\ ((\E ret : Finishes(c, ret)) \/ Moves(c, at))
        /\ doubt' = doubt /\ sec' = sec /\ Elsewhere
        BY <1>1, <1>9, <2>1, TakeEffectIs
  <2> QED
      BY <2>2, <1>1, <1>3, <1>4, <1>5
<1>10. CASE Unload(c)
  <2>1. m.op = "rmv" /\ Moves(c, "file") /\ More /\ sec' = sec /\ Elsewhere
        BY <1>1, <1>10, UnloadIs
  <2> QED
      BY <2>1, <1>1, <1>3, <1>4
<1>11. CASE WriteFile(c)
  <2>1. m.op \in {"add", "mod"} /\ Moves(c, "save") /\ More /\ sec' = sec /\ Elsewhere
        BY <1>1, <1>11, WriteFileIs
  <2> QED
      BY <2>1, <1>1, <1>3, <1>4
<1>12. CASE RemoveFile(c)
  <2>1. m.op = "rmv" /\ Moves(c, "save") /\ More /\ sec' = sec /\ Elsewhere
        BY <1>1, <1>12, RemoveFileIs
  <2> QED
      BY <2>1, <1>1, <1>3, <1>4
<1>13. CASE Save(c)
  <2>1. /\ m.op \in {"add", "mod", "rmv"} /\ t \in Edited /\ (\E ret : Finishes(c, ret))
        /\ OnlyTable(t) \/ sec' = sec
        /\ More /\ Elsewhere
        BY <1>1, <1>13, SaveIs
  <2>2. sec'["infos"] = sec["infos"]
        BY <2>1 DEF OnlyTable, Edited, Filed, SecTables
  <2> QED
      BY <2>1, <2>2, <1>1, <1>3
<1> QED
    BY <1>6, <1>7, <1>8, <1>9, <1>10, <1>11, <1>12, <1>13 DEF Command

\* Every step keeps what is said of the lists.
LEMMA BufferKept ==
  ASSUME ShapeInv, BufferInv, SecActs \/ UNCHANGED secgw
  PROVE  BufferInv'
<1>0. CallShape /\ DataShape /\ SecShape /\ ConfShape /\ CharonShape
      BY DEF ShapeInv, DataShape
<1>1. ASSUME NEW c, NEW m, Entered(m), secgw_main(c, m)
      PROVE  BufferInv'
      BY <1>0, <1>1, StartsIs, BufferStarts
<1>2. ASSUME NEW c, SecStep(c)
      PROVE  BufferInv'
  <2>1. CASE Command(c)
    <3>1. lists' = lists /\ \E r : Turns(c, r) /\ call[c].m.op # "query" /\ r.m.op # "query"
          BY <2>1, <1>0, CommandIs DEF Elsewhere
    <3> QED
        BY <3>1, BufferStays
  <2>2. CASE List_Zero(c) \/ List_Count(c) \/ List_Page(c) \/ List_Body(c)
        BY <2>2, <1>0, BufferLists
  <2> QED
      BY <2>1, <2>2, <1>2 DEF SecStep, Command
<1>3. ASSUME NEW c, Replied(c)
      PROVE  BufferInv'
      BY <1>3, LeavesIs, BufferStays DEF Replied
<1>4. CASE UNCHANGED <<call, lists>>
      BY <1>4, BufferStays
<1>5. ASSUME NEW f, add_cert_file(f) PROVE UNCHANGED <<call, lists>>
      BY <1>5 DEF add_cert_file
<1>6. ASSUME \/ \E n \in SecNames, state \in States : parseIkeEvent(n, state)
             \/ CharonDies \/ CharonStarts \/ secgw_timer_callback \/ LoadAll \/ Tunnels
             \/ UNCHANGED secgw
      PROVE  UNCHANGED <<call, lists>>
      BY <1>6 DEF parseIkeEvent, CharonDies, CharonStarts, secgw_timer_callback, LoadAll, Tunnels,
                  verify_ike_info_to_db, save_ike_info_to_db, secgw_ike_conn_alarm, secgw
<1> QED
    BY <1>1, <1>2, <1>3, <1>4, <1>5, <1>6 DEF SecActs

-----------------------------------------------------------------------------
(* Records and alarms of tunnels follow their events.                       *)

\* What touches no record, event, alarm or history keeps the tunnels as they are.
LEMMA TunnelStays ==
  ASSUME TunnelInv, UNCHANGED <<ike, told, alarms>>, sec'["infos"] = sec["infos"],
         \A n : Split("infos", n) => Split("infos", n)'
  PROVE  TunnelInv'
<1>1. \A n : InfosOf(n)' = InfosOf(n)
      BY DEF InfosOf
<1>2. \A n, state : Recorded(n, state)' <=> Recorded(n, state)
      BY <1>1 DEF Recorded
<1>3. \A n : Handled(n)' <=> Handled(n)
      BY DEF Handled
<1> QED
    BY <1>1, <1>2, <1>3 DEF TunnelInv

\* An event whose place changes.
LEMMA EventAt ==
  ASSUME ike \in TunnelEvents, NEW at, ike' = [ike EXCEPT !.at = at]
  PROVE  ike' = [name |-> ike.name, state |-> ike.state, at |-> at]
<1>1. PICK n, s, a : ike = [name |-> n, state |-> s, at |-> a]
      BY DEF TunnelEvents
<1> QED
    BY <1>1

\* A tunnel's record does not change with that of another.
LEMMA RecordStays ==
  ASSUME NEW n, InfosOf(n)' = InfosOf(n),
         \A i \in InfosOf(n) : sec'["infos"][i] = sec["infos"][i]
  PROVE  \A state : Recorded(n, state) => Recorded(n, state)'
BY DEF Recorded, InfosOf

\* Its handling goes on: the old record goes, the new one joins.
LEMMA TunnelHandled ==
  ASSUME TunnelInv, NEW n, NEW state, NEW at, ike # None, n = ike.name, state = ike.state,
         at \in {"save", "alarm"}, ike.at \in {"verify", "save"}, ike' = [ike EXCEPT !.at = at],
         UNCHANGED <<told, alarms>>,
         \A k : Split("infos", k) => Split("infos", k)',
         \A k : k # n => /\ InfosOf(k)' = InfosOf(k)
                         /\ \A i \in InfosOf(k) : sec'["infos"][i] = sec["infos"][i],
         \/ Split("infos", n)'
         \/ at = "save" /\ InfosOf(n)' = {}
         \/ at = "alarm" /\ Recorded(n, state)'
  PROVE  TunnelInv'
<1>1. ike \in TunnelEvents /\ n \in SecNames /\ state \in States
      BY DEF TunnelInv, TunnelEvents
<1>2. ike' = [name |-> n, state |-> state, at |-> at]
      BY <1>1, EventAt
<1>3. ike' \in TunnelEvents /\ ike'.name = n /\ ike'.state = state /\ ike'.at = at
      BY <1>1, <1>2 DEF TunnelEvents
<1>4. ike' # None
      BY <1>3, SecAssumption DEF TunnelEvents
<1>5. Handled(n)' /\ \A k : k # n => ~Handled(k)' /\ ~Handled(k)
      BY <1>3, <1>4 DEF Handled
<1>6. ASSUME NEW k \in SecNames, ~Split("infos", k)'
      PROVE  /\ ~Handled(k)' => Recorded(k, told[k].last)'
             /\ Handled(k)' /\ ike'.at = "save" => InfosOf(k)' = {}
             /\ Handled(k)' /\ ike'.at = "alarm" => Recorded(k, ike.state)'
  <2>1. CASE k = n
    <3>1. \/ ike'.at = "save" /\ InfosOf(k)' = {}
          \/ ike'.at = "alarm" /\ Recorded(k, state)'
          BY <2>1, <1>3, <1>6
    <3>2. Recorded(k, state)' => Recorded(k, ike.state)'
          BY <1>3 DEF Recorded
    <3> QED
        BY <2>1, <3>1, <3>2, <1>5
  <2>2. CASE k # n
    <3>1. PICK last : last = told[k].last
          OBVIOUS
    <3>2. Recorded(k, last)
          BY <2>2, <3>1, <1>5, <1>6 DEF TunnelInv
    <3>3. Recorded(k, last)' /\ told'[k].last = last
          BY <2>2, <3>1, <3>2, RecordStays
    <3> QED
        BY <2>2, <3>3, <1>5
  <2> QED
      BY <2>1, <2>2
<1> QED
    BY <1>3, <1>6 DEF TunnelInv

\* The three steps of an event keep records and alarms as they should be.
LEMMA TunnelEventStep ==
  ASSUME TunnelInv, DataShape, Tunnels
  PROVE  TunnelInv'
<1>1. PICK n, state : n = ike.name /\ state = ike.state
      OBVIOUS
<1>2. OnlyInfos => \A k : Split("infos", k) => Split("infos", k)'
      BY DEF OnlyInfos, More, Split
<1>3. ASSUME sec' = sec
      PROVE  \A k : InfosOf(k)' = InfosOf(k) /\ \A i \in InfosOf(k) : sec'["infos"][i] = sec["infos"][i]
      BY <1>3 DEF InfosOf
<1>4. CASE verify_ike_info_to_db
  <2>1. /\ ike # None /\ ike.at = "verify" /\ UNCHANGED <<told, alarms>>
        /\ \A k : Split("infos", k) => Split("infos", k)'
        /\ \/ /\ ike' = [ike EXCEPT !.at = "save"]
              /\ DOMAIN sec'["infos"] = DOMAIN sec["infos"] \ InfosOf(n)
              /\ \A i \in DOMAIN sec'["infos"] : sec'["infos"][i] = sec["infos"][i]
           \/ /\ \E at \in {"save", "alarm"} : ike' = [ike EXCEPT !.at = at]
              /\ sec' = sec /\ Split("infos", n)'
        BY <1>1, <1>2, <1>4, VerifyIs
  <2>2. CASE /\ ike' = [ike EXCEPT !.at = "save"]
             /\ DOMAIN sec'["infos"] = DOMAIN sec["infos"] \ InfosOf(n)
             /\ \A i \in DOMAIN sec'["infos"] : sec'["infos"][i] = sec["infos"][i]
    <3>1. InfosOf(n)' = {}
          BY <2>2 DEF InfosOf
    <3>2. ASSUME NEW k, k # n
          PROVE  InfosOf(k)' = InfosOf(k) /\ \A i \in InfosOf(k) : sec'["infos"][i] = sec["infos"][i]
          BY <2>2, <3>2 DEF InfosOf
    <3>3. PICK at : at = "save" /\ ike' = [ike EXCEPT !.at = at]
          BY <2>2
    <3> QED
        BY <2>1, <3>1, <3>2, <3>3, <1>1, TunnelHandled
  <2>3. ASSUME NEW at \in {"save", "alarm"}, ike' = [ike EXCEPT !.at = at], sec' = sec, Split("infos", n)'
        PROVE  TunnelInv'
        BY <2>1, <2>3, <1>1, <1>3, TunnelHandled
  <2> QED
      BY <2>1, <2>2, <2>3
<1>5. CASE save_ike_info_to_db
  <2>0. PICK row : row = [name |-> n, state |-> state]
        OBVIOUS
  <2>1. /\ ike # None /\ ike.at = "save" /\ UNCHANGED <<told, alarms>>
        /\ \A k : Split("infos", k) => Split("infos", k)'
        /\ ike' = [ike EXCEPT !.at = "alarm"]
        /\ \/ state = "down" /\ sec' = sec
           \/ state # "down" /\ \E j : Inserts("infos", j, row)
           \/ sec' = sec /\ Split("infos", n)'
        BY <1>1, <1>2, <1>5, <2>0, SaveInfoIs
  <2>2. PICK at : at = "alarm" /\ ike' = [ike EXCEPT !.at = at]
        BY <2>1
  <2>3. n \in SecNames /\ state \in States
        BY <2>1, <1>1 DEF TunnelInv, TunnelEvents
  <2>4. ~Split("infos", n) => InfosOf(n) = {}
        BY <2>1, <2>3, <1>1 DEF TunnelInv, Handled
  <2>5. ASSUME NEW k PROVE Recorded(k, state)' <=>
                             (IF state \in {None, "down"} THEN InfosOf(k)' = {}
                              ELSE \E i \in DOMAIN sec'["infos"] : InfosOf(k)' = {i} /\ sec'["infos"][i].state = state)
        BY DEF Recorded
  <2>6. CASE state = "down" /\ sec' = sec
    <3>1. Split("infos", n)' \/ Recorded(n, state)'
          BY <2>1, <2>4, <2>5, <2>6, <1>3
    <3> QED
        BY <2>1, <2>2, <2>6, <3>1, <1>1, <1>3, TunnelHandled
  <2>7. ASSUME NEW j, state # "down", Inserts("infos", j, row)
        PROVE  TunnelInv'
    <3>1. /\ j \notin DOMAIN sec["infos"] /\ DOMAIN sec'["infos"] = DOMAIN sec["infos"] \cup {j}
          /\ sec'["infos"][j] = row /\ row.name = n /\ row.state = state
          /\ \A i \in DOMAIN sec["infos"] : sec'["infos"][i] = sec["infos"][i]
          BY <2>0, <2>7 DEF Inserts
    <3>2. ASSUME NEW k, k # n
          PROVE  InfosOf(k)' = InfosOf(k) /\ \A i \in InfosOf(k) : sec'["infos"][i] = sec["infos"][i]
          BY <3>1, <3>2 DEF InfosOf
    <3>3. InfosOf(n)' = InfosOf(n) \cup {j}
          BY <3>1 DEF InfosOf
    <3>4. state # None
          BY <2>3, SecAssumption
    <3>5. Split("infos", n)' \/ Recorded(n, state)'
          BY <2>1, <2>4, <2>5, <2>7, <3>1, <3>3, <3>4
    <3> QED
        BY <2>1, <2>2, <3>2, <3>5, <1>1, TunnelHandled
  <2>8. CASE sec' = sec /\ Split("infos", n)'
        BY <2>1, <2>2, <2>8, <1>1, <1>3, TunnelHandled
  <2> QED
      BY <2>1, <2>6, <2>7, <2>8
<1>6. CASE secgw_ike_conn_alarm
  <2>1. /\ ike # None /\ ike.at = "alarm" /\ ike' = None /\ sec' = sec /\ doubt' = doubt
        BY <1>6 DEF secgw_ike_conn_alarm
  <2>2. n \in SecNames /\ state \in States /\ DOMAIN told = SecNames
        BY <2>1, <1>1 DEF TunnelInv, TunnelEvents
  <2>3. PICK known, last : told[n] = [known |-> known, last |-> last]
        BY <2>2 DEF TunnelInv
  <2>4. \/ /\ alarms' = CASE state = "up" -> alarms \ {n} [] state = "down" -> alarms \cup {n}
                           [] OTHER -> alarms
           /\ told' = [told EXCEPT ![n].last = state,
                           ![n].known = IF state \in {"up", "down"} THEN state ELSE @]
        \/ told' = [told EXCEPT ![n].last = state] /\ alarms' = alarms
        BY <1>1, <1>6 DEF secgw_ike_conn_alarm
  <2>5. PICK now : /\ DOMAIN told' = SecNames /\ told'[n] = [known |-> now, last |-> state]
                   /\ \A k \in SecNames : k # n => told'[k] = told[k]
                   /\ \/ now \in {"up", "down"} /\ alarms' = (IF now = "up" THEN alarms \ {n} ELSE alarms \cup {n})
                      \/ now = known /\ alarms' = alarms
    <3>1. CASE told' = [told EXCEPT ![n].last = state] /\ alarms' = alarms
          BY <2>2, <2>3, <3>1
    <3>2. CASE /\ alarms' = CASE state = "up" -> alarms \ {n} [] state = "down" -> alarms \cup {n}
                               [] OTHER -> alarms
               /\ told' = [told EXCEPT ![n].last = state,
                               ![n].known = IF state \in {"up", "down"} THEN state ELSE @]
      <4>1. PICK now : now = IF state \in {"up", "down"} THEN state ELSE known
            OBVIOUS
      <4>2. told' = [told EXCEPT ![n] = [known |-> now, last |-> state]]
        <5>1. told[n].known = known
              BY <2>3
        <5>2. PICK r : r = [told[n] EXCEPT !.last = state, !.known = now]
              OBVIOUS
        <5>3. told' = [told EXCEPT ![n].last = state, ![n].known = now]
              BY <2>2, <3>2, <4>1, <5>1
        <5>4. told' = [told EXCEPT ![n] = r]
              BY <5>2, <5>3
        <5>5. r = [known |-> now, last |-> state]
              BY <2>3, <5>2
        <5> QED
            BY <5>4, <5>5
      <4>3. DOMAIN told' = SecNames /\ told'[n] = [known |-> now, last |-> state]
            BY <2>2, <4>2
      <4>4. \A k \in SecNames : k # n => told'[k] = told[k]
            BY <2>2, <4>2
      <4>5. \/ now \in {"up", "down"} /\ alarms' = (IF now = "up" THEN alarms \ {n} ELSE alarms \cup {n})
            \/ now = known /\ alarms' = alarms
            BY <3>2, <4>1
      <4> QED
          BY <4>3, <4>4, <4>5
    <3> QED
        BY <2>4, <3>1, <3>2
  <2>6. /\ told'[n].known = now /\ told'[n].last = state
        /\ told[n].known = known
        BY <2>3, <2>5
  <2>7. ~Handled(n)' /\ \A k : ~Handled(k)' /\ (k # n => ~Handled(k))
        BY <2>1, <1>1 DEF Handled
  <2>8. \A k, s : Recorded(k, s) => Recorded(k, s)'
        BY <2>1 DEF Recorded, InfosOf
  <2>9. \A k : Split("infos", k)' <=> Split("infos", k)
        BY <2>1 DEF Split
  <2>10. ASSUME NEW k \in SecNames, ~Split("infos", k)' PROVE Recorded(k, told[k].last)'
    <3>1. CASE k = n
      <4>1. Recorded(n, state)'
            BY <2>1, <2>2, <2>8, <2>9, <2>10, <3>1, <1>1 DEF TunnelInv, Handled
      <4> QED
          BY <2>6, <3>1, <4>1 DEF Recorded
    <3>2. CASE k # n
      <4>1. PICK was : was = told[k].last
            OBVIOUS
      <4>2. Recorded(k, was)'
            BY <2>7, <2>8, <2>9, <2>10, <3>2, <4>1 DEF TunnelInv
      <4> QED
          BY <2>5, <3>2, <4>1, <4>2 DEF Recorded
    <3> QED
        BY <3>1, <3>2
  <2>11. ASSUME NEW k \in SecNames
         PROVE  /\ told'[k] = [known |-> told'[k].known, last |-> told'[k].last]
                /\ told'[k].last \in States \cup {None}
                /\ k \in alarms' <=> told'[k].known = "down"
    <3>1. CASE k = n
      <4>1. n \in alarms <=> known = "down"
            BY <2>2, <2>6 DEF TunnelInv
      <4>2. n \in alarms' <=> now = "down"
            BY <4>1, <2>5
      <4> QED
          BY <2>2, <2>5, <2>6, <3>1, <4>2
    <3>2. CASE k # n
      <4>1. k \in alarms' <=> k \in alarms
            BY <2>5, <3>2
      <4> QED
          BY <2>5, <3>2, <4>1 DEF TunnelInv
    <3> QED
        BY <3>1, <3>2
  <2> QED
      BY <2>1, <2>5, <2>7, <2>10, <2>11 DEF TunnelInv
<1> QED
    BY <1>4, <1>5, <1>6 DEF Tunnels

\* Every step keeps what is said of the tunnels.
LEMMA TunnelKept ==
  ASSUME ShapeInv, TunnelInv, SecActs \/ UNCHANGED secgw
  PROVE  TunnelInv'
<1>0. CallShape /\ DataShape /\ SecShape /\ ConfShape /\ CharonShape
      BY DEF ShapeInv, DataShape
<1>1. More => \A n : Split("infos", n) => Split("infos", n)'
      BY DEF More, Split
<1>2. doubt' = doubt => \A n : Split("infos", n) => Split("infos", n)'
      BY DEF Split
<1>3. sec' = sec => sec'["infos"] = sec["infos"]
      OBVIOUS
<1>4. ASSUME NEW c, NEW m, secgw_main(c, m)
      PROVE  TunnelInv'
  <2>1. UNCHANGED <<sec, ike, told, alarms>>
        BY <1>4 DEF secgw_main
  <2>2. \E places, t, names : Doubt(places, t, names)
        BY <1>4 DEF secgw_main
  <2> QED
      BY <2>1, <2>2, <1>1, <1>3, DoubtMore, TunnelStays
<1>5. ASSUME NEW c, SecStep(c)
      PROVE  TunnelInv'
  <2>1. CASE Command(c)
    <3>1. More /\ Elsewhere /\ sec'["infos"] = sec["infos"]
          BY <2>1, <1>0, CommandIs
    <3> QED
        BY <3>1, <1>1, TunnelStays DEF Elsewhere
  <2>2. CASE List_Zero(c) \/ List_Count(c) \/ List_Page(c) \/ List_Body(c)
    <3>1. doubt' = doubt /\ UNCHANGED <<sec, ike, told, alarms>>
          BY <2>2 DEF List_Zero, List_Count, List_Page, List_Body
    <3> QED
        BY <3>1, <1>2, <1>3, TunnelStays
  <2> QED
      BY <2>1, <2>2, <1>5 DEF SecStep, Command
<1>6. CASE doubt' = doubt /\ UNCHANGED <<sec, ike, told, alarms>>
      BY <1>6, <1>2, <1>3, TunnelStays
<1>7. CASE \/ \E c : Replied(c)
           \/ \E f : add_cert_file(f)
           \/ CharonDies \/ CharonStarts \/ secgw_timer_callback
           \/ UNCHANGED secgw
      BY <1>6, <1>7 DEF Replied, add_cert_file, CharonDies, CharonStarts, secgw_timer_callback, secgw
<1>8. CASE LoadAll
  <2>1. UNCHANGED <<sec, ike, told, alarms>> /\ \A n : Split("infos", n)' <=> Split("infos", n)
        BY <1>8, LoadAllIs
  <2> QED
      BY <2>1, <1>3, TunnelStays
<1>9. ASSUME NEW n \in SecNames, NEW state \in States, parseIkeEvent(n, state)
      PROVE  TunnelInv'
  <2>1. /\ ike = None /\ ike' = [name |-> n, state |-> state, at |-> "verify"]
        /\ UNCHANGED <<sec, told, alarms, doubt>>
        BY <1>9 DEF parseIkeEvent
  <2>2. ike' \in TunnelEvents
        BY <2>1 DEF TunnelEvents
  <2>3. \A k : ~Handled(k) /\ ~Handled(k)'
        BY <2>1 DEF Handled
  <2>4. /\ \A k, s : Recorded(k, s)' <=> Recorded(k, s)
        /\ \A k : Split("infos", k)' <=> Split("infos", k)
        BY <2>1 DEF Recorded, InfosOf, Split
  <2> QED
      BY <2>1, <2>2, <2>3, <2>4 DEF TunnelInv
<1> QED
    BY <1>0, <1>4, <1>5, <1>7, <1>8, <1>9, TunnelEventStep DEF SecActs

-----------------------------------------------------------------------------
(* How the work of commands relates from state to state.                    *)

\* All commands but c stay where they are; c goes on, or works no more.
SameCall(d) == /\ call'[d].m = call[d].m /\ call'[d].at = call[d].at
               /\ call'[d].row = call[d].row
Others(c) == \A d, t : d # c => /\ Doing(d, t)' <=> Doing(d, t)
                                /\ Doing(d, t) => SameCall(d)
Goes(c, at) == /\ \A t : Doing(c, t)' <=> Doing(c, t)
               /\ call'[c].m = call[c].m /\ call'[c].row = call[c].row /\ call'[c].at = at
Quits(c) == \A t : ~Doing(c, t)'
\* Turns, moves, ends, starts and answers in these terms.
LEMMA WorkTurns ==
  ASSUME NEW c
  PROVE  /\ (\E r : Turns(c, r)) => Others(c)
         /\ \A at : Moves(c, at) => Goes(c, at)
         /\ \A ret : Finishes(c, ret) => Quits(c)
<1>1. \A r : Turns(c, r) => Others(c)
      BY DEF Turns, Others, Doing, SameCall
<1>2. ASSUME NEW at, Moves(c, at) PROVE Goes(c, at)
  <2>1. PICK r : r = Call(call[c].m, at, call[c].ret, call[c].row, call[c].body, call[c].saw,
                          call[c].mixed)
        OBVIOUS
  <2>2. r.m = call[c].m /\ r.row = call[c].row /\ r.at = at
        BY <2>1, CallHas
  <2>3. Turns(c, r)
        BY <2>1, <1>2 DEF Moves
  <2> QED
      BY <2>2, <2>3 DEF Turns, Goes, Doing
<1>3. ASSUME NEW ret, Finishes(c, ret) PROVE Quits(c)
  <2>1. PICK m, r : /\ m = [op |-> "done", table |-> call[c].m.table]
                    /\ r = Call(m, "fire", ret, None, call[c].body, call[c].saw, call[c].mixed)
        OBVIOUS
  <2>2. r.m = m /\ m.op = "done"
        BY <2>1, CallHas
  <2>3. Turns(c, r)
        BY <2>1, <1>3 DEF Finishes
  <2> QED
      BY <2>2, <2>3 DEF Turns, Quits, Doing
<1> QED
    BY <1>1, <1>2, <1>3

\* A command that does not touch c's work: nobody starts or stops to work.
Idles(c) == Others(c) /\ \A t : ~Doing(c, t) /\ ~Doing(c, t)'
\* Lists and answers.
LEMMA WorkIdles ==
  ASSUME NEW c
  PROVE  /\ CallShape /\ Leaves(c) => Idles(c)
         /\ \A r : Turns(c, r) /\ call[c].m.op = "query" /\ r.m = call[c].m => Idles(c)
<1>1. ASSUME CallShape, Leaves(c) PROVE Idles(c)
  <2>1. c \in DOMAIN call /\ Placed(call[c]) /\ call[c].at = "fire" /\ c \notin DOMAIN call'
        BY <1>1 DEF Leaves, CallShape
  <2>2. \A t : ~Doing(c, t) /\ ~Doing(c, t)'
        BY <2>1 DEF Placed, PlaceOf, Walk, Doing
  <2>3. Others(c)
        BY <1>1 DEF Others, Leaves, Doing, SameCall
  <2> QED
      BY <2>2, <2>3 DEF Idles
<1>2. ASSUME NEW r, Turns(c, r), call[c].m.op = "query", r.m = call[c].m PROVE Idles(c)
  <2>1. \A t : ~Doing(c, t) /\ ~Doing(c, t)'
        BY <1>2 DEF Turns, Doing
  <2> QED
      BY <2>1, <1>2, WorkTurns DEF Idles
<1> QED
    BY <1>1, <1>2

\* Where a call is the same, so is where it stands and what it works on.
LEMMA WorkSame ==
  ASSUME NEW d, NEW t, Doing(d, t)' <=> Doing(d, t), Doing(d, t) => SameCall(d)
  PROVE  /\ Past(d, t)' <=> Past(d, t)
         /\ \A n, at : Stands(d, t, n, at)' <=> Stands(d, t, n, at)
         /\ Doing(d, t) => /\ Works(call'[d]) = Works(call[d]) /\ Written(call'[d]) = Written(call[d])
                           /\ Deletes(call'[d]) <=> Deletes(call[d])
BY DEF Past, Stands, SameCall, Works, Written, Deletes

\* Where c goes on, what it works on is the same.
LEMMA WorkGoes ==
  ASSUME NEW c, NEW at, Goes(c, at)
  PROVE  /\ Works(call'[c]) = Works(call[c]) /\ Written(call'[c]) = Written(call[c])
         /\ Deletes(call'[c]) <=> Deletes(call[c])
         /\ \A t, n, a : Stands(c, t, n, a)' <=>
                           Doing(c, t) /\ at # "check" /\ at = a /\ Works(call[c]) = n
         /\ \A t : Past(c, t)' <=> Doing(c, t) /\ at # "check"
BY DEF Goes, Past, Stands, Works, Written, Deletes

\* A command is about the name it works on; two that work on one name are known to overlap.
LEMMA WorksIsAbout ==
  ASSUME NEW c, NEW t, Past(c, t)
  PROVE  Works(call[c]) \in About(c)
BY DEF Past, Doing, Works, Deletes, About, Involved
\* So a name nobody may have split has one command that works on it.
LEMMA Alone ==
  ASSUME OverlapInv, NEW t \in Filed, NEW c, NEW d, c # d, Past(c, t), Past(d, t),
         Works(call[c]) = Works(call[d])
  PROVE  Both(t, Works(call[c]))
BY WorksIsAbout DEF OverlapInv, Overlap, Past

-----------------------------------------------------------------------------
(* What a step leaves alone stays as the invariant says.                    *)

\* What commands are about does not grow while their tables stay.
LEMMA AboutStays ==
  ASSUME NEW d, NEW t, Doing(d, t), Doing(d, t)', sec'[t] = sec[t], call'[d].m = call[d].m,
         Past(d, t)' /\ Deletes(call[d]) => call'[d].row.name \in About(d)
  PROVE  \A n \in About(d)' : n \in About(d)
BY DEF About, Involved, Doing, Past, Deletes

\* Overlaps stay known, as long as what is new to a command is split.
LEMMA OverlapStays ==
  ASSUME OverlapInv,
         \A t \in Filed : \A d : Doing(d, t)' =>
            /\ Doing(d, t) /\ call'[d].m = call[d].m
            /\ \A n \in About(d)' : n \in About(d) \/ Both(t, n)'
            /\ \A n : Both(t, n) => Both(t, n)'
  PROVE  OverlapInv'
<1>1. SUFFICES ASSUME NEW t \in Filed, NEW c, NEW d, c # d, Doing(c, t)', Doing(d, t)'
               PROVE  Overlap(c, d, t)'
      BY DEF OverlapInv
<1>2. /\ Doing(c, t) /\ Doing(d, t) /\ call'[c].m = call[c].m /\ call'[d].m = call[d].m
      /\ \A n \in About(c)' : n \in About(c) \/ Both(t, n)'
      /\ \A n \in About(d)' : n \in About(d) \/ Both(t, n)'
      /\ \A n : Both(t, n) => Both(t, n)'
      BY <1>1
<1>3. Overlap(c, d, t)
      BY <1>1, <1>2 DEF OverlapInv
<1>4. ASSUME NEW n \in About(c)', n \in About(d)' PROVE Both(t, n)'
      BY <1>2, <1>3, <1>4 DEF Overlap
<1>5. ASSUME NEW n \in About(c)', ByID(c, t)', ByID(d, t)', call'[c].m.id = call'[d].m.id
      PROVE  Both(t, n)'
      BY <1>2, <1>3, <1>5 DEF Overlap, ByID
<1> QED
    BY <1>4, <1>5 DEF Overlap

\* They do in particular while the tables stay and nobody starts or looks up a row.
LEMMA OverlapKept ==
  ASSUME OverlapInv, More, NEW c, Others(c),
         \A t \in Filed : sec'[t] = sec[t],
         \/ Quits(c) \/ Idles(c)
         \/ \E at : Goes(c, at) /\ \A t : Doing(c, t) /\ Deletes(call[c]) => Past(c, t)
  PROVE  OverlapInv'
<1>1. ASSUME NEW t \in Filed, NEW d, Doing(d, t)'
      PROVE  /\ Doing(d, t) /\ call'[d].m = call[d].m
             /\ \A n \in About(d)' : n \in About(d) \/ Both(t, n)'
  <2>1. Doing(d, t) /\ call'[d].m = call[d].m /\ call'[d].row = call[d].row
        BY <1>1 DEF Others, SameCall, Quits, Idles, Goes
  <2>2. Past(d, t)' /\ Deletes(call[d]) => Past(d, t)
        BY <1>1, <2>1, WorkSame DEF Others, Quits, Idles, Goes
  <2>3. Past(d, t) /\ Deletes(call[d]) => call[d].row.name \in About(d)
        BY WorksIsAbout DEF Works
  <2> QED
      BY <1>1, <2>1, <2>2, <2>3, AboutStays
<1>2. \A t, n : Both(t, n) => Both(t, n)'
      BY DEF More, Both, Split, Parted
<1> QED
    BY <1>1, <1>2, OverlapStays

\* What commands have found stays found.
LEMMA FoundStays ==
  ASSUME FoundInv, \A t, n : Split(t, n) => Split(t, n)',
         \A t \in Filed : sec'[t] = sec[t],
         \A t \in Filed : \A d : Past(d, t)' =>
            \/ Past(d, t) /\ call'[d].m = call[d].m /\ Works(call'[d]) = Works(call[d])
            \/ FoundNew(d, t)' /\ FoundOld(d, t)'
  PROVE  FoundInv'
<1>1. ASSUME NEW t \in Filed PROVE Unique(t)'
      BY <1>1 DEF FoundInv, Unique
<1>2. ASSUME NEW t \in Filed, NEW d PROVE FoundNew(d, t)' /\ FoundOld(d, t)'
  <2>1. CASE ~Past(d, t)'
        BY <2>1 DEF FoundNew, FoundOld
  <2>2. ASSUME Past(d, t), call'[d].m = call[d].m, Works(call'[d]) = Works(call[d])
        PROVE  FoundNew(d, t)' /\ FoundOld(d, t)'
    <3>1. FoundNew(d, t) /\ FoundOld(d, t) /\ sec'[t] = sec[t]
          BY <1>2 DEF FoundInv
    <3>2. PICK n, m : n = Works(call[d]) /\ m = call[d].m
          OBVIOUS
    <3>3. RowsNamed(t, n)' = RowsNamed(t, n)
          BY <3>1 DEF RowsNamed, SecRowsOf
    <3>4. FoundNew(d, t)'
          BY <2>2, <3>1, <3>2, <3>3 DEF FoundNew
    <3>5. FoundOld(d, t)'
          BY <2>2, <3>1, <3>2 DEF FoundOld
    <3> QED
        BY <3>4, <3>5
  <2> QED
      BY <1>2, <2>1, <2>2
<1> QED
    BY <1>1, <1>2 DEF FoundInv

\* One name's file, and its tunnel or secret, as long as no one that works on it moves.
StandsSame(t, n, at) ==
  \A d : /\ Stands(d, t, n, at)' <=> Stands(d, t, n, at)
         /\ Stands(d, t, n, at) => Written(call'[d]) = Written(call[d])
\* The file.
LEMMA FilePoint ==
  ASSUME NEW t, NEW n, FileAt(t, n), StandsSame(t, n, "save"),
         FilesOf(t, n)' = FilesOf(t, n), RowsNamed(t, n)' = RowsNamed(t, n)
  PROVE  FileAt(t, n)'
BY DEF FileAt, StandsSame
\* The tunnel.
LEMMA TunnelPoint ==
  ASSUME NEW n, TunnelAt(n), StandsSame("conns", n, "file"),
         FilesOf("conns", n)' = FilesOf("conns", n), TunnelsOf(n)' = TunnelsOf(n)
  PROVE  TunnelAt(n)'
BY DEF TunnelAt, StandsSame
\* The secret.
LEMMA SecretPoint ==
  ASSUME NEW n, SecretAt(n), StandsSame("secrets", n, "file"),
         FilesOf("secrets", n)' = FilesOf("secrets", n), SecretsOf(n)' = SecretsOf(n)
  PROVE  SecretAt(n)'
BY DEF SecretAt, StandsSame

\* No one moves at a name who idles, works on another, or neither comes nor goes there.
LEMMA StandsStay ==
  ASSUME NEW c, Others(c), NEW t, NEW n, NEW at,
         ~Stands(c, t, n, at), ~Stands(c, t, n, at)'
  PROVE  StandsSame(t, n, at)
<1>1. ASSUME NEW d, d # c
      PROVE  /\ Stands(d, t, n, at)' <=> Stands(d, t, n, at)
             /\ Stands(d, t, n, at) => Written(call'[d]) = Written(call[d])
  <2>1. (Doing(d, t)' <=> Doing(d, t)) /\ (Doing(d, t) => SameCall(d))
        BY <1>1 DEF Others
  <2>2. Stands(d, t, n, at) => Doing(d, t)
        BY DEF Stands, Past
  <2> QED
      BY <2>1, <2>2, WorkSame
<1> QED
    BY <1>1 DEF StandsSame

\* Files, strongSwan, secrets and certificates stay in turn.
LEMMA FileKept ==
  ASSUME FileInv, \A t, n : Split(t, n) => Split(t, n)',
         \A t \in Filed : sec'[t] = sec[t],
         \A t \in Filed : \A n : FilesOf(t, n)' = FilesOf(t, n) /\ StandsSame(t, n, "save")
  PROVE  FileInv'
<1>1. ASSUME NEW t \in Filed, NEW n, ~Split(t, n)' PROVE FileAt(t, n)'
  <2>1. FileAt(t, n)
        BY <1>1 DEF FileInv
  <2>2. RowsNamed(t, n)' = RowsNamed(t, n)
        BY DEF RowsNamed, SecRowsOf
  <2> QED
      BY <2>1, <2>2, FilePoint
<1> QED
    BY <1>1 DEF FileInv
\* strongSwan.
LEMMA LoadedKept ==
  ASSUME LoadedInv, \A t, n : Parted(t, n) => Parted(t, n)', charon'.loaded => charon.loaded,
         \A t \in Filed : \A n : FilesOf(t, n)' = FilesOf(t, n) /\ StandsSame(t, n, "file"),
         \A n : TunnelsOf(n)' = TunnelsOf(n) /\ SecretsOf(n)' = SecretsOf(n)
  PROVE  LoadedInv'
<1>1. "conns" \in Filed /\ "secrets" \in Filed
      BY DEF Filed
<1>2. ASSUME charon'.loaded, NEW n, ~Parted("conns", n)' PROVE TunnelAt(n)'
  <2>1. TunnelAt(n)
        BY <1>2 DEF LoadedInv
  <2> QED
      BY <2>1, <1>1, TunnelPoint
<1>3. ASSUME charon'.loaded, NEW n, ~Parted("secrets", n)' PROVE SecretAt(n)'
  <2>1. SecretAt(n)
        BY <1>3 DEF LoadedInv
  <2> QED
      BY <2>1, <1>1, SecretPoint
<1> QED
    BY <1>2, <1>3 DEF LoadedInv
\* Secrets.
LEMMA SecretKept ==
  ASSUME SecretInv,
         \A r \in SecRowsOf("secrets")' : r \in SecRowsOf("secrets") \/ r \in AllSecrets,
         \A n \in DOMAIN conf'.secrets : n \in DOMAIN conf.secrets \/ \E r \in AllSecrets : r.name = n,
         \A d : Past(d, "secrets")' /\ Deletes(call'[d]) =>
            \/ call'[d].row \in AllSecrets
            \/ Past(d, "secrets") /\ Deletes(call[d]) /\ call'[d].row = call[d].row
  PROVE  SecretInv'
<1>1. AllSecrets' = AllSecrets
      BY DEF AllSecrets, InitialRows
<1> QED
    BY <1>1 DEF SecretInv
\* Certificates.
CertWaits(d) == Past(d, "certs") /\ call[d].at = "save" /\ ~Deletes(call[d])
\* One that waits to be saved stays served, like those saved.
LEMMA CertKept ==
  ASSUME CertInv, \A r \in SecRowsOf("certs")' : r \in SecRowsOf("certs") \/ CertServed(r)',
         conf.certs \subseteq conf'.certs,
         charon'.loaded => charon.loaded /\ charon.certs \subseteq charon'.certs,
         \A d : CertWaits(d)' => \/ CertServed(call[d].m.row)'
                                 \/ CertWaits(d) /\ call'[d].m = call[d].m
  PROVE  CertInv'
<1>1. ASSUME NEW r, CertServed(r) PROVE CertServed(r)'
      BY <1>1 DEF CertServed
<1>2. ASSUME NEW d, CertWaits(d), call'[d].m = call[d].m PROVE CertServed(call[d].m.row)'
  <2>1. PICK r : r = call[d].m.row
        OBVIOUS
  <2>2. CertServed(r)'
        BY <1>1, <1>2, <2>1 DEF CertInv, CertWaits
  <2> QED
      BY <1>2, <2>1, <2>2 DEF CertServed
<1>3. \A r \in SecRowsOf("certs")' : CertServed(r)'
      BY <1>1 DEF CertInv
<1>4. \A d : CertWaits(d)' => CertServed(call[d].m.row)'
      BY <1>2
<1> QED
    BY <1>3, <1>4 DEF CertInv, CertWaits

\* A step that neither writes nor loads anything and lets nobody come or go at a file or a
\* table that matters keeps all but what is found.
RowsServed == \A r \in SecRowsOf("certs")' : r \in SecRowsOf("certs") \/ CertServed(r)'
Stills(c) == /\ Others(c)
             /\ \A n, t : ~Stands(c, t, n, "file") /\ ~Stands(c, t, n, "file")'
             /\ \A n : \A t \in Filed : ~Stands(c, t, n, "save") /\ ~Stands(c, t, n, "save")'
             /\ CertWaits(c)' => \/ CertServed(call[c].m.row)'
                                 \/ CertWaits(c) /\ call'[c].m = call[c].m
             /\ Past(c, "secrets")' /\ Deletes(call'[c]) =>
                   \/ call'[c].row \in AllSecrets
                   \/ Past(c, "secrets") /\ Deletes(call[c]) /\ call'[c].row = call[c].row
\* Such a step.
LEMMA StillKept ==
  ASSUME ConfigInv, More, call' = call \/ \E c : Stills(c),
         \A t \in Filed : sec'[t] = sec[t],
         sec'["certs"] = sec["certs"] \/ RowsServed,
         conf'.conns = conf.conns, conf'.secrets = conf.secrets, conf.certs \subseteq conf'.certs,
         charon'.loaded = charon.loaded, charon.certs \subseteq charon'.certs,
         charon'.conns = charon.conns, charon'.secrets = charon.secrets
  PROVE  FileInv' /\ LoadedInv' /\ SecretInv' /\ CertInv'
<1>1. \A t \in Filed : sec'[t] = sec[t]
      OBVIOUS
<1>2. /\ SecRowsOf("secrets")' = SecRowsOf("secrets")
      /\ \A r \in SecRowsOf("certs")' : r \in SecRowsOf("certs") \/ CertServed(r)'
      BY DEF Filed, SecRowsOf, RowsServed
<1>3. \A t, n : (Split(t, n) => Split(t, n)') /\ (Parted(t, n) => Parted(t, n)')
      BY DEF More, Split, Parted
<1>4. \A t \in Filed : \A n : FilesOf(t, n)' = FilesOf(t, n)
      BY DEF FilesOf, Filed
<1>5. \A n : TunnelsOf(n)' = TunnelsOf(n) /\ SecretsOf(n)' = SecretsOf(n)
      BY DEF TunnelsOf, SecretsOf
<1>6. ASSUME NEW t \in Filed, NEW n PROVE StandsSame(t, n, "save") /\ StandsSame(t, n, "file")
  <2>1. CASE call' = call
        BY <2>1 DEF StandsSame, Stands, Past, Doing
  <2>2. ASSUME NEW c, Stills(c) PROVE StandsSame(t, n, "save") /\ StandsSame(t, n, "file")
        BY <2>2, <1>6, StandsStay DEF Stills
  <2> QED
      BY <2>1, <2>2
<1>7. ASSUME NEW d, CertWaits(d)'
      PROVE  CertServed(call[d].m.row)' \/ (CertWaits(d) /\ call'[d].m = call[d].m)
  <2>1. CASE call' = call
        BY <1>7, <2>1 DEF CertWaits, Past, Doing
  <2>2. ASSUME NEW c, Stills(c), d # c PROVE CertWaits(d) /\ call'[d].m = call[d].m
    <3>1. (Doing(d, "certs")' <=> Doing(d, "certs")) /\ (Doing(d, "certs") => SameCall(d))
          BY <2>2 DEF Stills, Others
    <3> QED
        BY <1>7, <3>1, WorkSame DEF CertWaits, Past, SameCall
  <2> QED
      BY <1>7, <2>1, <2>2 DEF Stills
<1>8. ASSUME NEW d, Past(d, "secrets")', Deletes(call'[d])
      PROVE  \/ call'[d].row \in AllSecrets
             \/ Past(d, "secrets") /\ Deletes(call[d]) /\ call'[d].row = call[d].row
  <2>1. CASE call' = call
        BY <1>8, <2>1 DEF Past, Doing
  <2>2. ASSUME NEW c, Stills(c), d # c
        PROVE  Past(d, "secrets") /\ Deletes(call[d]) /\ call'[d].row = call[d].row
    <3>1. (Doing(d, "secrets")' <=> Doing(d, "secrets")) /\ (Doing(d, "secrets") => SameCall(d))
          BY <2>2 DEF Stills, Others
    <3> QED
        BY <1>8, <3>1, WorkSame DEF Past, SameCall
  <2> QED
      BY <1>8, <2>1, <2>2 DEF Stills
<1>9. FileInv'
      BY <1>1, <1>3, <1>4, <1>6, FileKept DEF ConfigInv
<1>10. LoadedInv'
       BY <1>3, <1>4, <1>5, <1>6, LoadedKept DEF ConfigInv
<1>11. SecretInv'
       BY <1>2, <1>8, SecretKept DEF ConfigInv
<1>12. CertInv'
       BY <1>2, <1>7, CertKept DEF ConfigInv
<1> QED
    BY <1>9, <1>10, <1>11, <1>12

\* Such a step by which nobody begins or goes on keeps what is found, too.
LEMMA ConfigStays ==
  ASSUME ConfigInv, More, call' = call \/ \E c : Stills(c) /\ (Quits(c) \/ Idles(c)),
         \A t \in Filed : sec'[t] = sec[t],
         sec'["certs"] = sec["certs"] \/ RowsServed,
         conf'.conns = conf.conns, conf'.secrets = conf.secrets, conf.certs \subseteq conf'.certs,
         charon'.loaded = charon.loaded, charon.certs \subseteq charon'.certs,
         charon'.conns = charon.conns, charon'.secrets = charon.secrets
  PROVE  ConfigInv'
<1>0. OverlapInv /\ FoundInv
      BY DEF ConfigInv
<1>1. FileInv' /\ LoadedInv' /\ SecretInv' /\ CertInv'
      BY StillKept
<1>2. \A t \in Filed : sec'[t] = sec[t]
      OBVIOUS
<1>3. /\ \A t, n : Split(t, n) => Split(t, n)'
      /\ \A t, n : Both(t, n) => Both(t, n)'
      BY DEF More, Split, Parted, Both
<1>4. CASE call' = call
  <2>1. \A d, t : /\ (Doing(d, t)' <=> Doing(d, t)) /\ (Past(d, t)' <=> Past(d, t))
                  /\ call'[d].m = call[d].m /\ call'[d].row = call[d].row
                  /\ Works(call'[d]) = Works(call[d])
        BY <1>4 DEF Doing, Past
  <2>2. ASSUME NEW t \in Filed, NEW d, Doing(d, t)'
        PROVE  \A n \in About(d)' : n \in About(d)
    <3>1. Past(d, t)' /\ Deletes(call[d]) => call'[d].row.name \in About(d)
          BY <2>1, WorksIsAbout DEF Works
    <3> QED
        BY <2>1, <2>2, <3>1, <1>2, AboutStays
  <2>3. OverlapInv'
        BY <2>1, <2>2, <1>0, <1>3, OverlapStays
  <2>4. FoundInv'
        BY <2>1, <1>0, <1>2, <1>3, FoundStays
  <2> QED
      BY <2>3, <2>4, <1>1 DEF ConfigInv
<1>5. ASSUME NEW c, Stills(c), Quits(c) \/ Idles(c) PROVE ConfigInv'
  <2>1. OverlapInv'
        BY <1>0, <1>2, <1>5, OverlapKept DEF Stills
  <2>2. ASSUME NEW t \in Filed, NEW d, Past(d, t)'
        PROVE  Past(d, t) /\ call'[d].m = call[d].m /\ Works(call'[d]) = Works(call[d])
    <3>1. d # c
          BY <1>5, <2>2 DEF Quits, Idles, Past
    <3>2. (Doing(d, t)' <=> Doing(d, t)) /\ (Doing(d, t) => SameCall(d))
          BY <1>5, <3>1 DEF Stills, Others
    <3> QED
        BY <2>2, <3>2, WorkSame DEF Past, SameCall
  <2>3. FoundInv'
        BY <2>2, <1>0, <1>2, <1>3, FoundStays
  <2> QED
      BY <2>1, <2>3, <1>1 DEF ConfigInv
<1> QED
    BY <1>4, <1>5

\* Who quits before it has written or loaded anything, and who idles, is still.
LEMMA StillQuits ==
  ASSUME NEW c, Others(c), Idles(c) \/ (Quits(c) /\ call[c].at \in {"check", "vici"})
  PROVE  Stills(c)
BY DEF Stills, Idles, Quits, Stands, Past, CertWaits

\* A command begins: the overlaps it makes are known.
LEMMA ConfigStarts ==
  ASSUME ConfigInv, CallShape, NEW c, NEW m, Entered(m), secgw_main(c, m)
  PROVE  ConfigInv'
<1>1. /\ Starts(c, m) /\ UNCHANGED <<sec, conf, charon>>
      /\ c \notin DOMAIN call
      BY StartsIs DEF Starts
<1>2. PICK names : names = UNION {Involved(m) \cup About(d) : d \in {d \in On(m.table) : Involved(m) \cap About(d) # {}}}
      OBVIOUS
<1>3. Doubt({"file", "charon"}, m.table, names)
      BY <1>2 DEF secgw_main
<1>4. More
      BY <1>3, DoubtMore
<1>5. \A n \in names : Both(m.table, n)'
      BY <1>3, DoubtIs DEF Both, Split, Parted
<1>6. ASSUME NEW d, d # c, NEW t
      PROVE  (Doing(d, t)' <=> Doing(d, t)) /\ (Doing(d, t) => SameCall(d))
  <2>1. DOMAIN call' = DOMAIN call \cup {c} /\ \A e \in DOMAIN call : Marked(e)
        BY <1>1 DEF Starts
  <2> QED
      BY <1>6, <2>1 DEF Marked, Doing, SameCall
<1>7. call'[c].m = m /\ (call'[c].at = "check" \/ m.op = "query")
  <2>1. PICK yes, new : /\ new = Call(m, IF m.op = "query" THEN "zero" ELSE "check", "ok", None, None,
                                      [total |-> 0, rows |-> <<>>], yes)
                        /\ call'[c] = new
        BY <1>1 DEF Starts
  <2> QED
      BY <2>1, CallHas
<1>8. \A t : ~Doing(c, t) /\ ~Past(c, t)'
      BY <1>1, <1>7 DEF Doing, Past
<1>9. Stills(c)
      BY <1>6, <1>8 DEF Stills, Others, Stands, Past, CertWaits
<1>10. FileInv' /\ LoadedInv' /\ SecretInv' /\ CertInv'
       BY <1>1, <1>4, <1>9, StillKept
<1>11. FoundInv'
  <2>1. ASSUME NEW t \in Filed, NEW d, Past(d, t)'
        PROVE  Past(d, t) /\ call'[d].m = call[d].m /\ Works(call'[d]) = Works(call[d])
    <3>1. d # c
          BY <1>8, <2>1
    <3> QED
        BY <2>1, <3>1, <1>6, WorkSame DEF Past, SameCall
  <2>2. \A t, n : Split(t, n) => Split(t, n)'
        BY <1>4 DEF More, Split
  <2> QED
      BY <2>1, <2>2, <1>1, FoundStays DEF ConfigInv
<1>12. ASSUME NEW d, NEW t, d # c, Doing(d, t)
       PROVE  \A n : n \in About(d)' <=> n \in About(d)
       BY <1>1, <1>6, <1>12 DEF About, Involved, SameCall
<1>13. \A n : n \in About(c)' <=> n \in Involved(m)
  <2>1. m.op = "query" => Involved(m) = {}
        BY DEF Involved
  <2> QED
      BY <1>1, <1>7, <2>1 DEF About, Involved
<1>14. ASSUME NEW t \in Filed, NEW d, d # c, Doing(c, t)', Doing(d, t)
       PROVE  /\ \A n \in Involved(m) \cap About(d) : Both(t, n)'
              /\ m.op \in {"mod", "rmv"} /\ ByID(d, t) /\ m.id = call[d].m.id =>
                   \A n \in Involved(m) \cup About(d) : Both(t, n)'
  <2>1. m.table = t /\ d \in On(t)
        BY <1>7, <1>14 DEF Doing, On
  <2>2. Involved(m) \cap About(d) # {} => \A n \in Involved(m) \cup About(d) : Both(t, n)'
        BY <2>1, <1>2, <1>5
  <2>3. ASSUME m.op \in {"mod", "rmv"}, ByID(d, t), m.id = call[d].m.id
        PROVE  sec[t][m.id].name \in Involved(m) \cap About(d)
    <3>1. m.id \in DOMAIN sec[t]
          BY <2>1, <2>3 DEF Entered
    <3> QED
        BY <2>1, <2>3, <3>1 DEF About, Involved, ByID, Doing
  <2> QED
      BY <2>2, <2>3
<1>15. \A t, n : Both(t, n) => Both(t, n)'
       BY <1>4 DEF More, Both, Split, Parted
<1>16. ASSUME NEW t \in Filed, NEW d, NEW e, d # e, Doing(d, t)', Doing(e, t)'
       PROVE  Overlap(d, e, t)'
  <2>1. CASE d = c
    <3>1. Doing(e, t) /\ call'[e].m = call[e].m
          BY <2>1, <1>6, <1>16 DEF SameCall
    <3> QED
        BY <2>1, <3>1, <1>7, <1>12, <1>13, <1>14, <1>16 DEF Overlap, ByID
  <2>2. CASE e = c
    <3>1. Doing(d, t) /\ call'[d].m = call[d].m
          BY <2>2, <1>6, <1>16 DEF SameCall
    <3> QED
        BY <2>2, <3>1, <1>7, <1>12, <1>13, <1>14, <1>16 DEF Overlap, ByID
  <2>3. CASE d # c /\ e # c
    <3>1. /\ Doing(d, t) /\ call'[d].m = call[d].m
          /\ Doing(e, t) /\ call'[e].m = call[e].m
          BY <2>3, <1>6, <1>16 DEF SameCall
    <3>2. Overlap(d, e, t)
          BY <3>1, <1>16 DEF ConfigInv, OverlapInv
    <3> QED
        BY <2>3, <3>1, <3>2, <1>12, <1>15 DEF Overlap, ByID
  <2> QED
      BY <2>1, <2>2, <2>3
<1>17. OverlapInv'
       BY <1>16 DEF OverlapInv
<1> QED
    BY <1>10, <1>11, <1>17 DEF ConfigInv

-----------------------------------------------------------------------------
(* The steps of commands, one after the other.                              *)

\* What all but c have found stays found.
LEMMA FoundGoes ==
  ASSUME FoundInv, More, \A t \in Filed : sec'[t] = sec[t], NEW c, Others(c),
         \A t \in Filed : Past(c, t)' =>
            \/ Past(c, t) /\ call'[c].m = call[c].m /\ Works(call'[c]) = Works(call[c])
            \/ FoundNew(c, t)' /\ FoundOld(c, t)'
  PROVE  FoundInv'
<1>1. ASSUME NEW t \in Filed, NEW d, d # c, Past(d, t)'
      PROVE  Past(d, t) /\ call'[d].m = call[d].m /\ Works(call'[d]) = Works(call[d])
      BY <1>1, WorkSame DEF Others, Past, SameCall
<1>2. \A t, n : Split(t, n) => Split(t, n)'
      BY DEF More, Split
<1> QED
    BY <1>1, <1>2, FoundStays

\* Add_Check and Mod_Check.
LEMMA ConfigChecks ==
  ASSUME ConfigInv, CallShape, NEW c, Add_Check(c) \/ Mod_Check(c)
  PROVE  ConfigInv'
<1>1. PICK t, m, n, i, k :
        /\ t = call[c].m.table /\ m = call[c].m /\ n = m.row.name /\ i = m.id /\ k = sec[t][i].name
      OBVIOUS
<1>2. /\ c \in DOMAIN call /\ call[c].at = "check" /\ m.op \in {"add", "mod"}
      /\ More /\ UNCHANGED <<sec, conf, charon>>
      BY <1>1, AddCheckIs, ModCheckIs
<1>3. \/ \E ret : Finishes(c, ret)
      \/ /\ Moves(c, "vici")
         /\ m.op = "add" => RowsNamed(t, n) = {} \/ Both(t, n)'
         /\ m.op = "mod" => i \in DOMAIN sec[t] /\ (k = n \/ (Both(t, k)' /\ Both(t, n)'))
  <2>1. CASE Add_Check(c)
        BY <2>1, <1>1, AddCheckIs
  <2>2. CASE Mod_Check(c)
        BY <2>2, <1>1, ModCheckIs
  <2> QED
      BY <2>1, <2>2
<1>4. Others(c)
      BY <1>3, WorkTurns DEF Finishes, Moves
<1>5. CASE \E ret : Finishes(c, ret)
  <2>1. Quits(c)
        BY <1>5, WorkTurns
  <2> QED
      BY <2>1, <1>2, <1>4, StillQuits, ConfigStays
<1>6. CASE /\ Moves(c, "vici")
           /\ m.op = "add" => RowsNamed(t, n) = {} \/ Both(t, n)'
           /\ m.op = "mod" => i \in DOMAIN sec[t] /\ (k = n \/ (Both(t, k)' /\ Both(t, n)'))
  <2>1. Goes(c, "vici")
        BY <1>6, WorkTurns
  <2>2. /\ ~Deletes(call[c]) /\ ~Deletes(call'[c]) /\ Works(call[c]) = n /\ Works(call'[c]) = n
        /\ call'[c].m = m /\ call'[c].at = "vici"
        BY <2>1, <1>1, <1>2 DEF Deletes, Works, Goes
  <2>3. Stills(c)
        BY <2>2, <1>2, <1>4 DEF Stills, Stands, CertWaits
  <2>4. FileInv' /\ LoadedInv' /\ SecretInv' /\ CertInv'
        BY <2>3, <1>2, StillKept
  <2>5. OverlapInv'
        BY <2>1, <2>2, <1>2, <1>4, OverlapKept DEF ConfigInv
  <2>6. ASSUME NEW u \in Filed, Past(c, u)' PROVE FoundNew(c, u)' /\ FoundOld(c, u)'
    <3>1. u = t
          BY <2>2, <2>6, <1>1 DEF Past, Doing
    <3>2. FoundNew(c, t)'
      <4>1. m.op = "add" => RowsNamed(t, n)' = {} \/ Split(t, n)'
            BY <1>2, <1>6 DEF RowsNamed, SecRowsOf, Both
      <4> QED
          BY <2>2, <4>1 DEF FoundNew
    <3>3. FoundOld(c, t)'
      <4>1. m.op = "mod" => i \in DOMAIN sec'[t] /\ sec'[t][i].name = k /\ (k = n \/ (Split(t, k)' /\ Split(t, n)'))
            BY <1>1, <1>2, <1>6 DEF Both
      <4>2. m.op # "add" => m.op = "mod"
            BY <1>2
      <4>3. k = n \/ (Split(t, k)' /\ Split(t, n)') => (m.op = "mod" => FoundOld(c, t)')
            BY <2>2, <4>1, <1>1 DEF FoundOld, Split
      <4> QED
          BY <2>2, <4>1, <4>2, <4>3 DEF FoundOld
    <3> QED
        BY <3>1, <3>2, <3>3
  <2>7. FoundInv'
        BY <2>6, <1>2, <1>4, FoundGoes DEF ConfigInv
  <2> QED
      BY <2>4, <2>5, <2>7 DEF ConfigInv
<1> QED
    BY <1>3, <1>5, <1>6

\* Del_Check: what the row tells is what the command was about already.
LEMMA ConfigLooksUp ==
  ASSUME ConfigInv, CallShape, NEW c, Del_Check(c)
  PROVE  ConfigInv'
<1>1. PICK t, m, i, old, at :
        /\ t = call[c].m.table /\ m = call[c].m /\ i = m.id /\ old = sec[t][i]
        /\ at = IF t = "certs" THEN "save" ELSE "vici"
      OBVIOUS
<1>2. PICK r : r = Call(m, at, call[c].ret, old, call[c].body, call[c].saw, call[c].mixed)
      OBVIOUS
<1>3. /\ c \in DOMAIN call /\ call[c].at = "check" /\ m.op = "rmv"
      /\ doubt' = doubt /\ UNCHANGED <<sec, conf, charon>>
      /\ (\E ret : Finishes(c, ret)) \/ (i \in DOMAIN sec[t] /\ Turns(c, r))
      BY <1>1, <1>2, DelCheckIs
<1>4. More
      BY <1>3 DEF More
<1>5. CASE \E ret : Finishes(c, ret)
  <2>1. Quits(c) /\ Others(c)
        BY <1>5, WorkTurns DEF Finishes
  <2> QED
      BY <2>1, <1>3, <1>4, StillQuits, ConfigStays
<1>6. CASE i \in DOMAIN sec[t] /\ Turns(c, r)
  <2>1. Others(c)
        BY <1>6, WorkTurns
  <2>2. /\ call'[c].m = m /\ call'[c].at = at /\ call'[c].row = old
        /\ c \in DOMAIN call'
        BY <1>2, <1>6, CallHas DEF Turns
  <2>3. \A u : (Doing(c, u)' <=> Doing(c, u)) /\ (Doing(c, u) => u = t)
        BY <2>2, <1>1, <1>3 DEF Doing
  <2>4. Deletes(call[c]) /\ Deletes(call'[c]) /\ Works(call'[c]) = old.name
        BY <2>2, <1>1, <1>3 DEF Deletes, Works
  <2>5. ASSUME Past(c, "secrets")' PROVE old \in AllSecrets
    <3>1. t = "secrets" /\ old \in SecRowsOf("secrets")
          BY <2>3, <2>5, <1>1, <1>6 DEF Past, SecRowsOf
    <3> QED
        BY <3>1 DEF ConfigInv, SecretInv
  <2>6. Stills(c)
    <3>1. \A n, u : ~Stands(c, u, n, "file") /\ ~Stands(c, u, n, "file")'
          BY <2>2, <1>1, <1>3 DEF Stands
    <3>2. \A n : \A u \in Filed : ~Stands(c, u, n, "save") /\ ~Stands(c, u, n, "save")'
          BY <2>2, <2>3, <1>1, <1>3 DEF Stands, Past, Filed
    <3> QED
        BY <2>1, <2>2, <2>4, <2>5, <3>1, <3>2 DEF Stills, CertWaits
  <2>7. FileInv' /\ LoadedInv' /\ SecretInv' /\ CertInv'
        BY <2>6, <1>3, <1>4, StillKept
  <2>8. \A t1, n : Both(t1, n) => Both(t1, n)'
        BY <1>3 DEF Both, Split, Parted
  <2>9. ASSUME NEW u \in Filed, NEW d, Doing(d, u)'
        PROVE  /\ Doing(d, u) /\ call'[d].m = call[d].m
               /\ \A n \in About(d)' : n \in About(d)
    <3>1. Doing(d, u) /\ call'[d].m = call[d].m
          BY <2>1, <2>2, <2>3, <2>9, <1>1 DEF Others, SameCall
    <3>2. Past(d, u)' /\ Deletes(call[d]) => call'[d].row.name \in About(d)
      <4>1. CASE d = c
        <5>1. old.name \in About(c)
              BY <1>1, <1>3, <1>6 DEF About, Involved
        <5> QED
            BY <4>1, <5>1, <2>2
      <4>2. CASE d # c
        <5>1. Past(d, u)' => Past(d, u) /\ call'[d].row = call[d].row
              BY <4>2, <3>1, <2>1, WorkSame DEF Others, SameCall
        <5> QED
            BY <5>1, WorksIsAbout DEF Works
      <4> QED
          BY <4>1, <4>2
    <3> QED
        BY <2>9, <3>1, <3>2, <1>3, AboutStays
  <2>10. OverlapInv'
         BY <2>8, <2>9, OverlapStays DEF ConfigInv
  <2>11. ASSUME NEW u \in Filed, Past(c, u)' PROVE FoundNew(c, u)' /\ FoundOld(c, u)'
    <3>1. u = t /\ m.op # "add"
          BY <2>3, <2>11, <1>3 DEF Past
    <3> QED
        BY <2>2, <2>4, <3>1, <1>1, <1>3, <1>6 DEF FoundNew, FoundOld
  <2>12. FoundInv'
         BY <2>1, <2>11, <1>3, <1>4, FoundGoes DEF ConfigInv
  <2> QED
      BY <2>7, <2>10, <2>12 DEF ConfigInv
<1> QED
    BY <1>3, <1>5, <1>6

\* A step at one name of one table: elsewhere files and rows stay, here they are shown.
LEMMA FileBut ==
  ASSUME FileInv, More, NEW c, Others(c), NEW t \in Filed, NEW n,
         \A u, k : Stands(c, u, k, "save") \/ Stands(c, u, k, "save")' => u = t /\ k = n,
         \A u \in Filed : \A k : u # t \/ k # n =>
            \/ Split(u, k)'
            \/ FilesOf(u, k)' = FilesOf(u, k) /\ RowsNamed(u, k)' = RowsNamed(u, k),
         ~Split(t, n)' => FileAt(t, n)'
  PROVE  FileInv'
<1>1. ASSUME NEW u \in Filed, NEW k, ~Split(u, k)', u # t \/ k # n PROVE FileAt(u, k)'
  <2>1. StandsSame(u, k, "save")
        BY <1>1, StandsStay
  <2>2. FileAt(u, k)
        BY <1>1 DEF FileInv, More, Split
  <2> QED
      BY <1>1, <2>1, <2>2, FilePoint
<1> QED
    BY <1>1 DEF FileInv

\* The same for what is loaded; a secret may go whose name nobody has.
LEMMA LoadedBut ==
  ASSUME LoadedInv, More, charon'.loaded => charon.loaded,
         NEW c, Others(c), NEW t \in Filed, NEW n,
         \A u, k : Stands(c, u, k, "file") \/ Stands(c, u, k, "file")' => u = t /\ k = n,
         \A u \in Filed : \A k : u # t \/ k # n => FilesOf(u, k)' = FilesOf(u, k),
         \A k : t # "conns" \/ k # n => TunnelsOf(k)' = TunnelsOf(k),
         \A k : t # "secrets" \/ k # n => SecretsOf(k)' = SecretsOf(k) \/ SecretAt(k)',
         t = "conns" /\ charon'.loaded /\ ~Parted(t, n)' => TunnelAt(n)',
         t = "secrets" /\ charon'.loaded /\ ~Parted(t, n)' => SecretAt(n)'
  PROVE  LoadedInv'
<1>1. "conns" \in Filed /\ "secrets" \in Filed
      BY DEF Filed
<1>2. ASSUME charon'.loaded, NEW k, ~Parted("conns", k)', t # "conns" \/ k # n PROVE TunnelAt(k)'
  <2>1. StandsSame("conns", k, "file")
        BY <1>2, StandsStay
  <2>2. TunnelAt(k)
        BY <1>2 DEF LoadedInv, More, Parted
  <2> QED
      BY <1>1, <1>2, <2>1, <2>2, TunnelPoint
<1>3. ASSUME charon'.loaded, NEW k, ~Parted("secrets", k)', t # "secrets" \/ k # n PROVE SecretAt(k)'
  <2>1. StandsSame("secrets", k, "file")
        BY <1>3, StandsStay
  <2>2. SecretAt(k)
        BY <1>3 DEF LoadedInv, More, Parted
  <2> QED
      BY <1>1, <1>3, <2>1, <2>2, SecretPoint
<1> QED
    BY <1>2, <1>3 DEF LoadedInv

\* A name nobody may have split is worked on by one command alone.
LEMMA Sole ==
  ASSUME OverlapInv, NEW c, Others(c), NEW t \in Filed, Past(c, t), NEW n, n = Works(call[c]),
         ~Both(t, n)
  PROVE  \A d, at : d # c => ~Stands(d, t, n, at) /\ ~Stands(d, t, n, at)'
<1>1. ASSUME NEW d, NEW at, d # c PROVE ~Stands(d, t, n, at)
      BY <1>1, Alone DEF Stands
<1>2. ASSUME NEW d, NEW at, d # c PROVE ~Stands(d, t, n, at)'
  <2>1. (Doing(d, t)' <=> Doing(d, t)) /\ (Doing(d, t) => SameCall(d))
        BY <1>2 DEF Others
  <2> QED
      BY <2>1, <1>1, <1>2, WorkSame
<1> QED
    BY <1>1, <1>2

\* A command of a filed table that goes on past its check keeps the rest.
LEMMA GoesKeeps ==
  ASSUME ConfigInv, More, NEW c, NEW at, Others(c), Goes(c, at), NEW t \in Filed, Past(c, t),
         sec' = sec, conf'.certs = conf.certs,
         charon'.loaded = charon.loaded, charon'.certs = charon.certs,
         \A n \in DOMAIN conf'.secrets : n \in DOMAIN conf.secrets \/ \E r \in AllSecrets : r.name = n
  PROVE  OverlapInv' /\ FoundInv' /\ SecretInv' /\ CertInv'
<1>1. ASSUME NEW d, NEW u, Past(d, u)'
      PROVE  /\ Past(d, u) /\ call'[d].m = call[d].m /\ call'[d].row = call[d].row
             /\ Works(call'[d]) = Works(call[d]) /\ (Deletes(call'[d]) <=> Deletes(call[d]))
  <2>1. CASE d = c
    <3>1. Doing(c, u)
          BY <1>1, <2>1 DEF Past, Goes
    <3>2. u = t
          BY <3>1 DEF Past, Doing
    <3> QED
        BY <2>1, <3>2, WorkGoes DEF Goes
  <2>2. CASE d # c
    <3>1. (Doing(d, u)' <=> Doing(d, u)) /\ (Doing(d, u) => SameCall(d))
          BY <2>2 DEF Others
    <3> QED
        BY <1>1, <3>1, WorkSame DEF Past, SameCall
  <2> QED
      BY <2>1, <2>2
<1>2. \A u : Doing(c, u) => Past(c, u)
      BY DEF Past, Doing
<1>3. OverlapInv'
      BY <1>2, OverlapKept DEF ConfigInv
<1>4. FoundInv'
      BY <1>1, FoundGoes DEF ConfigInv
<1>5. SecretInv'
  <2>1. SecRowsOf("secrets")' = SecRowsOf("secrets")
        BY DEF SecRowsOf
  <2> QED
      BY <1>1, <2>1, SecretKept DEF ConfigInv
<1>6. CertInv'
  <2>1. SecRowsOf("certs")' = SecRowsOf("certs")
        BY DEF SecRowsOf
  <2>2. ASSUME NEW d, CertWaits(d)' PROVE CertWaits(d) /\ call'[d].m = call[d].m
    <3>1. Past(d, "certs") /\ d # c
          BY <1>1, <2>2 DEF CertWaits, Past, Doing, Filed
    <3>2. SameCall(d)
          BY <3>1 DEF Past, Others
    <3> QED
        BY <1>1, <2>2, <3>1, <3>2 DEF CertWaits, SameCall
  <2> QED
      BY <2>1, <2>2, CertKept DEF ConfigInv
<1> QED
    BY <1>3, <1>4, <1>5, <1>6

\* Where c stands while it works on name n of table t.
LEMMA WhereStands ==
  ASSUME NEW c, NEW at, Goes(c, at), at # "check", NEW t, Past(c, t), NEW n, n = Works(call[c])
  PROVE  /\ \A u, k, a : Stands(c, u, k, a) <=> u = t /\ k = n /\ a = call[c].at
         /\ \A u, k, a : Stands(c, u, k, a)' <=> u = t /\ k = n /\ a = at
<1>1. \A u : Doing(c, u) <=> u = t
      BY DEF Past, Doing
<1> QED
    BY <1>1, WorkGoes DEF Stands, Past

\* TakeEffect: refused, or strongSwan has what the file is to hold.
LEMMA ConfigLoads ==
  ASSUME ConfigInv, CallShape, DataShape, NEW c, TakeEffect(c)
  PROVE  ConfigInv'
<1>1. PICK t, row, n, at : /\ t = call[c].m.table /\ row = call[c].m.row /\ n = row.name
                           /\ at = IF t = "certs" THEN "save" ELSE "file"
      OBVIOUS
<1>2. /\ c \in DOMAIN call /\ call[c].at = "vici" /\ call[c].m.op \in {"add", "mod"}
      /\ t \in Edited /\ doubt' = doubt /\ UNCHANGED <<sec, conf>>
      /\ \/ charon' = charon /\ \E ret : Finishes(c, ret)
         \/ Loads(t, row) /\ Moves(c, at)
      BY <1>1, TakeEffectIs
<1>3. More
      BY <1>2 DEF More
<1>4. CASE charon' = charon /\ \E ret : Finishes(c, ret)
  <2>1. Quits(c) /\ Others(c)
        BY <1>4, WorkTurns DEF Finishes
  <2>2. \E e : Stills(e) /\ (Quits(e) \/ Idles(e))
        BY <2>1, <1>2, StillQuits
  <2> QED
      BY <2>2, <1>2, <1>3, <1>4, ConfigStays
<1>5. CASE Loads(t, row) /\ Moves(c, at)
  <2>1. Goes(c, at) /\ Others(c) /\ at # "check"
        BY <1>1, <1>5, WorkTurns DEF Moves
  <2>2. Past(c, t) /\ n = Works(call[c]) /\ Written(call'[c]) = {row} /\ ~Deletes(call'[c])
        BY <2>1, <1>1, <1>2 DEF Past, Doing, Works, Written, Deletes, Goes
  <2>3. /\ \A u, k, a : Stands(c, u, k, a) <=> u = t /\ k = n /\ a = "vici"
        /\ \A u, k, a : Stands(c, u, k, a)' <=> u = t /\ k = n /\ a = at
        BY <2>1, <2>2, <1>2, WhereStands
  <2>4. \A u, k : FilesOf(u, k)' = FilesOf(u, k)
        BY <1>2 DEF FilesOf
  <2>5. /\ charon'.loaded = charon.loaded
        /\ \/ /\ t = "conns" /\ TunnelsOf(n)' = {row} /\ TunnelsBut(n)
              /\ SameSecrets /\ charon'.certs = charon.certs
           \/ /\ t = "secrets" /\ Shared(row) \in SecretsOf(n)' /\ SecretsBut(n)
              /\ SameTunnels /\ charon'.certs = charon.certs
           \/ /\ t = "certs" /\ SameTunnels /\ SameSecrets /\ CertFile(row) \in conf.certs
              /\ charon'.certs = charon.certs \cup {CertFile(row)}
        BY <1>1, <1>5, LoadsIs DEF StillLoaded
  <2>6. (SameTunnels => \A k : TunnelsOf(k)' = TunnelsOf(k)) /\ (SameSecrets => \A k : SecretsOf(k)' = SecretsOf(k))
        BY DEF SameTunnels, SameSecrets, TunnelsOf, SecretsOf
  <2>7. ASSUME t \in Filed PROVE ConfigInv'
    <3>1. t # "certs" /\ at = "file"
          BY <1>1, <2>7 DEF Filed
    <3>2. OverlapInv' /\ FoundInv' /\ SecretInv' /\ CertInv'
          BY <2>1, <2>2, <2>5, <2>7, <3>1, <1>2, <1>3, GoesKeeps
    <3>3. ASSUME NEW u \in Filed, NEW k PROVE StandsSame(u, k, "save")
          BY <2>1, <2>3, <3>1, StandsStay
    <3>4. FileInv'
          BY <2>4, <3>3, <1>2, FileKept DEF ConfigInv, Split
    <3>5. ASSUME ~Parted(t, n)'
          PROVE  \A d : d # c => ~Stands(d, t, n, "file")'
      <4>1. ~Both(t, n)
            BY <3>5, <1>2 DEF Both, Parted
      <4> QED
          BY <4>1, <2>1, <2>2, <2>7, Sole DEF ConfigInv
    <3>6. t = "conns" /\ ~Parted(t, n)' => TunnelAt(n)'
          BY <3>1, <3>5, <2>2, <2>3, <2>5 DEF TunnelAt
    <3>7. t = "secrets" /\ ~Parted(t, n)' => SecretAt(n)'
          BY <3>1, <3>5, <2>2, <2>3, <2>5 DEF SecretAt
    <3>8. \A u, k : Stands(c, u, k, "file") \/ Stands(c, u, k, "file")' => u = t /\ k = n
          BY <2>3
    <3>9. /\ \A k : t # "conns" \/ k # n => TunnelsOf(k)' = TunnelsOf(k)
          /\ \A k : t # "secrets" \/ k # n => SecretsOf(k)' = SecretsOf(k)
          BY <2>5, <2>6, <3>1 DEF TunnelsBut, SecretsBut
    <3>10. LoadedInv'
           BY <2>1, <2>4, <2>5, <2>7, <3>6, <3>7, <3>8, <3>9, <1>3, LoadedBut DEF ConfigInv
    <3> QED
        BY <3>2, <3>4, <3>10 DEF ConfigInv
  <2>8. ASSUME t = "certs" PROVE ConfigInv'
    <3>1. at = "save" /\ t \notin Filed
          BY <1>1, <2>8 DEF Filed
    <3>2. CertServed(row)' /\ call'[c].m.row = row
          BY <2>1, <2>5, <2>8, <1>1, <1>2 DEF CertServed, Goes
    <3>3. Stills(c)
      <4>1. \A k, u : ~Stands(c, u, k, "file") /\ ~Stands(c, u, k, "file")'
            BY <2>3, <3>1
      <4>2. \A k : \A u \in Filed : ~Stands(c, u, k, "save") /\ ~Stands(c, u, k, "save")'
            BY <2>3, <3>1
      <4>3. CertServed(call[c].m.row)'
            BY <3>2 DEF CertServed
      <4> QED
          BY <2>1, <2>2, <4>1, <4>2, <4>3 DEF Stills
    <3>4. FileInv' /\ LoadedInv' /\ SecretInv' /\ CertInv'
          BY <2>5, <2>8, <3>3, <1>2, <1>3, StillKept DEF SameTunnels, SameSecrets
    <3>5. \A u : Doing(c, u) => u = t /\ Past(c, u)
          BY <2>2 DEF Past, Doing
    <3>6. OverlapInv'
          BY <2>1, <3>5, <1>2, <1>3, OverlapKept DEF ConfigInv
    <3>7. \A u \in Filed : ~Past(c, u)'
          BY <2>1, <3>1, <3>5 DEF Past, Goes
    <3>8. FoundInv'
          BY <2>1, <3>7, <1>2, <1>3, FoundGoes DEF ConfigInv
    <3> QED
        BY <3>4, <3>6, <3>8 DEF ConfigInv
  <2> QED
      BY <2>7, <2>8, <1>2 DEF Edited
<1> QED
    BY <1>2, <1>4, <1>5

\* WriteFile and RemoveFile: the file holds what strongSwan has loaded, or is split from it.
LEMMA ConfigWrites ==
  ASSUME ConfigInv, DataShape, NEW c, NEW t \in Filed, Past(c, t), call[c].at = "file", Moves(c, "save"),
         NEW n, n = Works(call[c]), More, UNCHANGED <<sec, charon>>,
         \/ /\ FilesBut(t, n) /\ FilesOf(t, n)' = Written(call[c])
         \/ /\ conf' = conf \/ FilesBut(t, n)
            /\ Both(t, n)',
         t = "secrets" => \E r \in AllSecrets : r.name = n
  PROVE  ConfigInv'
<1>1. Goes(c, "save") /\ Others(c)
      BY WorkTurns DEF Moves
<1>2. /\ \A u, k, a : Stands(c, u, k, a) <=> u = t /\ k = n /\ a = "file"
      /\ \A u, k, a : Stands(c, u, k, a)' <=> u = t /\ k = n /\ a = "save"
      BY <1>1, WhereStands
<1>3. Written(call'[c]) = Written(call[c])
      BY <1>1, WorkGoes
<1>4. /\ conf'.certs = conf.certs
      /\ \A k \in DOMAIN conf'.secrets : k \in DOMAIN conf.secrets \/ \E r \in AllSecrets : r.name = k
      BY DEF FilesBut
<1>5. \A u \in Filed : \A k : u # t \/ k # n => FilesOf(u, k)' = FilesOf(u, k)
      BY DEF FilesBut, FilesOf
<1>6. OverlapInv' /\ FoundInv' /\ SecretInv' /\ CertInv'
      BY <1>1, <1>4, GoesKeeps
<1>7. \A u, k : RowsNamed(u, k)' = RowsNamed(u, k)
      BY DEF RowsNamed, SecRowsOf
<1>8. ASSUME ~Both(t, n)'
      PROVE  /\ FilesOf(t, n)' = Written(call[c])
             /\ \A d, a : d # c => ~Stands(d, t, n, a) /\ ~Stands(d, t, n, a)'
  <2>1. ~Both(t, n)
        BY <1>8 DEF More, Both, Split, Parted
  <2> QED
      BY <2>1, <1>1, <1>8, Sole DEF ConfigInv
<1>9. ASSUME ~Split(t, n)' PROVE FileAt(t, n)'
      BY <1>2, <1>3, <1>8, <1>9 DEF FileAt, Both
<1>10. FileInv'
       BY <1>1, <1>2, <1>5, <1>7, <1>9, FileBut DEF ConfigInv
<1>11. ASSUME t = "conns", charon.loaded, ~Parted(t, n)' PROVE TunnelAt(n)'
  <2>1. TunnelsOf(n) = Written(call[c])
    <3>1. TunnelAt(n)
          BY <1>11 DEF ConfigInv, LoadedInv, More, Parted
    <3> QED
        BY <3>1, <1>2, <1>11 DEF TunnelAt
  <2>2. TunnelsOf(n)' = TunnelsOf(n)
        BY DEF TunnelsOf
  <2>3. FilesOf("conns", n)' = Written(call[c]) /\ \A d : ~Stands(d, "conns", n, "file")'
        BY <1>2, <1>8, <1>11 DEF Both
  <2> QED
      BY <2>1, <2>2, <2>3 DEF TunnelAt
<1>12. ASSUME t = "secrets", charon.loaded, ~Parted(t, n)' PROVE SecretAt(n)'
  <2>1. \A r \in Written(call[c]) : Shared(r) \in SecretsOf(n)
    <3>1. SecretAt(n)
          BY <1>12 DEF ConfigInv, LoadedInv, More, Parted
    <3> QED
        BY <3>1, <1>2, <1>12 DEF SecretAt
  <2>2. SecretsOf(n)' = SecretsOf(n)
        BY DEF SecretsOf
  <2>3. FilesOf("secrets", n)' = Written(call[c]) /\ \A d : ~Stands(d, "secrets", n, "file")'
        BY <1>2, <1>8, <1>12 DEF Both
  <2> QED
      BY <2>1, <2>2, <2>3 DEF SecretAt
<1>13. \A k : TunnelsOf(k)' = TunnelsOf(k) /\ SecretsOf(k)' = SecretsOf(k)
       BY DEF TunnelsOf, SecretsOf
<1>14. \A u, k : Stands(c, u, k, "file") \/ Stands(c, u, k, "file")' => u = t /\ k = n
       BY <1>2
<1>15. LoadedInv'
       BY <1>1, <1>5, <1>11, <1>12, <1>13, <1>14, LoadedBut DEF ConfigInv
<1> QED
    BY <1>6, <1>10, <1>15 DEF ConfigInv

\* Both in turn.
LEMMA ConfigFiles ==
  ASSUME ConfigInv, CallShape, DataShape, NEW c, WriteFile(c) \/ RemoveFile(c)
  PROVE  ConfigInv'
<1>1. PICK t, row, n : t = call[c].m.table /\ row = call[c].m.row /\ n = row.name
      OBVIOUS
<1>2. PICK k : k = call[c].row.name
      OBVIOUS
<1>3. CASE WriteFile(c)
  <2>1. /\ c \in DOMAIN call /\ call[c].at = "file" /\ call[c].m.op \in {"add", "mod"}
        /\ t \in Filed /\ row \in SecRows[t] /\ Moves(c, "save")
        /\ Writes(t, row) \/ ((conf' = conf \/ Erases(t, n)) /\ Both(t, n)')
        /\ More /\ UNCHANGED <<sec, charon>>
        BY <1>1, <1>3, WriteFileIs
  <2>2. Past(c, t) /\ n = Works(call[c]) /\ Written(call[c]) = {row}
        BY <2>1, <1>1 DEF Past, Doing, Works, Written, Deletes
  <2>3. /\ Writes(t, row) => FilesBut(t, n) /\ FilesOf(t, n)' = {row}
        /\ Erases(t, n) => FilesBut(t, n)
        BY <1>1, FilesChange
  <2>4. t = "secrets" => \E r \in AllSecrets : r.name = n
        BY <2>1, <1>1 DEF AllSecrets
  <2> QED
      BY <2>1, <2>2, <2>3, <2>4, ConfigWrites
<1>4. CASE RemoveFile(c)
  <2>1. /\ c \in DOMAIN call /\ call[c].at = "file" /\ call[c].m.op = "rmv"
        /\ t \in Filed /\ Moves(c, "save")
        /\ Erases(t, k) \/ (conf' = conf /\ Both(t, k)')
        /\ More /\ UNCHANGED <<sec, charon>>
        BY <1>1, <1>2, <1>4, RemoveFileIs
  <2>2. Past(c, t) /\ k = Works(call[c]) /\ Written(call[c]) = {} /\ Deletes(call[c])
        BY <2>1, <1>1, <1>2 DEF Past, Doing, Works, Written, Deletes
  <2>3. Erases(t, k) => FilesBut(t, k) /\ FilesOf(t, k)' = {}
        BY FilesChange
  <2>4. t = "secrets" => \E r \in AllSecrets : r.name = k
        BY <2>2, <1>2 DEF ConfigInv, SecretInv
  <2> QED
      BY <2>1, <2>2, <2>3, <2>4, ConfigWrites
<1> QED
    BY <1>3, <1>4

\* Unload: strongSwan has let the row go, or is parted from its file.  A secret goes by its
\* owner's name, which is no secret's.
LEMMA ConfigUnloads ==
  ASSUME ConfigInv, CallShape, DataShape, NEW c, Unload(c)
  PROVE  ConfigInv'
<1>1. PICK t, r, n : t = call[c].m.table /\ r = call[c].row /\ n = r.name
      OBVIOUS
<1>2. /\ c \in DOMAIN call /\ call[c].at = "vici" /\ call[c].m.op = "rmv" /\ t \in Filed
      /\ Moves(c, "file")
      /\ \/ t = "conns" /\ charon' = vici_unload_conn(r)
         \/ t = "secrets" /\ charon' = unload_secret(r)
         \/ charon' = charon /\ (charon.loaded => Parted(t, n)')
      /\ More /\ UNCHANGED <<sec, conf>>
      BY <1>1, UnloadIs
<1>3. Goes(c, "file") /\ Others(c)
      BY <1>2, WorkTurns DEF Moves
<1>4. Past(c, t) /\ n = Works(call[c]) /\ Written(call'[c]) = {} /\ Deletes(call[c])
      BY <1>1, <1>2, <1>3 DEF Past, Doing, Works, Written, Deletes, Goes
<1>5. /\ \A u, k, a : Stands(c, u, k, a) <=> u = t /\ k = n /\ a = "vici"
      /\ \A u, k, a : Stands(c, u, k, a)' <=> u = t /\ k = n /\ a = "file"
      BY <1>2, <1>3, <1>4, WhereStands
<1>6. /\ charon'.loaded = charon.loaded /\ charon'.certs = charon.certs
      /\ \/ t = "conns" /\ TunnelsOf(n)' = {} /\ TunnelsBut(n) /\ SameSecrets
         \/ t = "secrets" /\ SecretsBut(r.id) /\ SameTunnels
         \/ charon' = charon /\ (charon.loaded => Parted(t, n)')
      BY <1>1, <1>2, UnloadsIs DEF StillLoaded
<1>7. OverlapInv' /\ FoundInv' /\ SecretInv' /\ CertInv'
      BY <1>2, <1>3, <1>4, <1>6, GoesKeeps
<1>8. \A u, k : FilesOf(u, k)' = FilesOf(u, k)
      BY <1>2 DEF FilesOf
<1>9. FileInv'
  <2>1. ASSUME NEW u \in Filed, NEW k PROVE StandsSame(u, k, "save")
        BY <1>3, <1>5, StandsStay
  <2> QED
      BY <2>1, <1>2, <1>8, FileKept DEF ConfigInv, More, Split
<1>10. (SameTunnels => \A k : TunnelsOf(k)' = TunnelsOf(k)) /\ (SameSecrets => \A k : SecretsOf(k)' = SecretsOf(k))
       BY DEF SameTunnels, SameSecrets, TunnelsOf, SecretsOf
<1>11. charon' = charon => SameTunnels /\ SameSecrets
       BY DEF SameTunnels, SameSecrets
<1>12. ASSUME ~Parted(t, n)' PROVE \A d : d # c => ~Stands(d, t, n, "file")'
  <2>1. ~Both(t, n)
        BY <1>12, <1>2 DEF Both, Parted, More
  <2> QED
      BY <2>1, <1>2, <1>3, <1>4, Sole DEF ConfigInv
<1>13. t = "conns" /\ charon'.loaded /\ ~Parted(t, n)' => TunnelAt(n)'
       BY <1>4, <1>5, <1>6, <1>12 DEF TunnelAt
<1>14. t = "secrets" /\ charon'.loaded /\ ~Parted(t, n)' => SecretAt(n)'
       BY <1>4, <1>5, <1>6, <1>12 DEF SecretAt
<1>15. ASSUME t = "secrets" PROVE SecretAt(r.id)'
  <2>1. \A q \in AllSecrets : q.name # r.id
    <3>1. r \in AllSecrets
          BY <1>1, <1>4, <1>15 DEF ConfigInv, SecretInv
    <3> QED
        BY <3>1, SecAssumption DEF AllSecrets
  <2>2. FilesOf("secrets", r.id) = {}
    <3>1. \A k \in DOMAIN conf.secrets : k # r.id
          BY <2>1 DEF ConfigInv, SecretInv
    <3> QED
        BY <3>1 DEF FilesOf
  <2>3. ASSUME NEW d, Stands(d, "secrets", r.id, "file")' PROVE Written(call'[d]) = {}
    <3>1. CASE d = c
          BY <3>1, <1>4
    <3>2. CASE d # c
      <4>1. Stands(d, "secrets", r.id, "file") /\ Written(call'[d]) = Written(call[d])
        <5>1. (Doing(d, "secrets")' <=> Doing(d, "secrets")) /\ (Doing(d, "secrets") => SameCall(d))
              BY <3>2, <1>3 DEF Others
        <5> QED
            BY <5>1, <2>3, WorkSame DEF Stands, Past
      <4>2. d \in DOMAIN call /\ call[d].m.op \in {"add", "mod", "rmv"} /\ call[d].m.table = "secrets"
            BY <4>1 DEF Stands, Past, Doing
      <4>3. call[d].m.op # "rmv" => call[d].m.row \in AllSecrets
            BY <4>2 DEF CallShape, Placed, PlaceOf, AllSecrets
      <4>4. Works(call[d]) = r.id
            BY <4>1 DEF Stands
      <4> QED
          BY <4>1, <4>3, <4>4, <2>1 DEF Works, Deletes, Written
    <3> QED
        BY <3>1, <3>2
  <2>4. (FilesOf("secrets", r.id) = {})'
        BY <2>2, <1>8
  <2> QED
      BY <2>3, <2>4 DEF SecretAt
<1>16. \A u, k : Stands(c, u, k, "file") \/ Stands(c, u, k, "file")' => u = t /\ k = n
       BY <1>5
<1>17. /\ \A k : t # "conns" \/ k # n => TunnelsOf(k)' = TunnelsOf(k)
       /\ \A k : t # "secrets" \/ k # n => SecretsOf(k)' = SecretsOf(k) \/ SecretAt(k)'
  <2>1. CASE t = "conns" /\ TunnelsBut(n) /\ SameSecrets
        BY <2>1, <1>10 DEF TunnelsBut
  <2>2. CASE t = "secrets" /\ SecretsBut(r.id) /\ SameTunnels
        BY <2>2, <1>10, <1>15 DEF SecretsBut
  <2>3. CASE charon' = charon
        BY <2>3, <1>10, <1>11
  <2> QED
      BY <2>1, <2>2, <2>3, <1>6
<1>18. LoadedInv'
       BY <1>2, <1>3, <1>6, <1>8, <1>13, <1>14, <1>16, <1>17, LoadedBut DEF ConfigInv
<1> QED
    BY <1>7, <1>9, <1>18 DEF ConfigInv

\* What the statement of a command does to rows.
NewRow(t, m, j) == /\ m.op \in {"add", "mod"} /\ m.row \in SecRows[t] /\ sec'[t][j] = m.row
                   /\ m.op = "add" => j \notin DOMAIN sec[t]
                   /\ m.op = "mod" => j = m.id /\ j \in DOMAIN sec[t]
SameRow(t, j) == j \in DOMAIN sec[t] /\ j \in DOMAIN sec'[t] /\ sec'[t][j] = sec[t][j]
\* Each statement in these terms.
LEMMA RowsAfter ==
  ASSUME NEW t, NEW m, Runs(t, m)
  PROVE  /\ \A j \in DOMAIN sec'[t] : SameRow(t, j) \/ NewRow(t, m, j)
         /\ \A j \in DOMAIN sec[t] : SameRow(t, j) \/ (m.op \in {"mod", "rmv"} /\ j = m.id)
         /\ m.op = "add" => \E j \in DOMAIN sec'[t] : sec'[t][j] = m.row
         /\ m.op = "mod" /\ m.id \in DOMAIN sec[t] => m.id \in DOMAIN sec'[t] /\ sec'[t][m.id] = m.row
         /\ m.op = "rmv" => m.id \notin DOMAIN sec'[t]
<1>1. CASE m.op = "add"
  <2>1. PICK j : m.row \in SecRows[t] /\ Inserts(t, j, m.row)
        BY <1>1 DEF Runs
  <2> QED
      BY <2>1, <1>1 DEF Inserts, SameRow, NewRow
<1>2. CASE m.op = "mod"
      BY <1>2 DEF Runs, Updates, SameRow, NewRow
<1>3. CASE m.op = "rmv"
      BY <1>3 DEF Runs, Removes, SameRow, NewRow
<1> QED
    BY <1>1, <1>2, <1>3 DEF Runs

\* The command that saves, alone with the rows of its name unless the name is split.
Saves(c, t, m, n) ==
  /\ Past(c, t) /\ m = call[c].m /\ n = Works(call[c]) /\ call[c].at = "save"
  /\ Quits(c) /\ Others(c) /\ More
\* Overlaps stay known: a row that is new to a command is there under an ID used again.
LEMMA SaveOverlap ==
  ASSUME OverlapInv, NEW t \in Filed, NEW c, NEW m, NEW n, Saves(c, t, m, n),
         Runs(t, m), Reuses(t), \A u \in Filed : u # t => sec'[u] = sec[u]
  PROVE  OverlapInv'
<1>1. \A u, k : Both(u, k) => Both(u, k)'
      BY DEF Saves, More, Both, Split, Parted
<1>2. ASSUME NEW u \in Filed, NEW d, Doing(d, u)'
      PROVE  /\ Doing(d, u) /\ call'[d].m = call[d].m
             /\ \A k \in About(d)' : k \in About(d) \/ Both(u, k)'
  <2>1. d # c
        BY <1>2 DEF Saves, Quits
  <2>2. /\ Doing(d, u) /\ call'[d].m = call[d].m /\ call'[d].at = call[d].at
        /\ call'[d].row = call[d].row
        BY <1>2, <2>1 DEF Saves, Others, SameCall
  <2>3. PICK i : i = call[d].m.id
        OBVIOUS
  <2>4. call[d].m.table = u
        BY <2>2 DEF Doing
  <2>5. ASSUME NEW k \in About(d)'
        PROVE  \/ k \in About(d)
               \/ /\ call[d].m.op \in {"mod", "rmv"} /\ i \in DOMAIN sec'[u] /\ k = sec'[u][i].name
        BY <2>2, <2>3, <2>4, <2>5 DEF About, Involved
  <2>6. ASSUME call[d].m.op \in {"mod", "rmv"}, i \in DOMAIN sec[u] PROVE sec[u][i].name \in About(d)
        BY <2>3, <2>4, <2>6 DEF About, Involved
  <2>7. ASSUME NEW k, call[d].m.op \in {"mod", "rmv"}, i \in DOMAIN sec'[u], k = sec'[u][i].name
        PROVE  k \in About(d) \/ Both(u, k)'
    <3>1. CASE u # t
          BY <3>1, <2>6, <2>7
    <3>2. CASE u = t
      <4>1. CASE SameRow(t, i)
            BY <3>2, <4>1, <2>6, <2>7 DEF SameRow
      <4>2. CASE NewRow(t, m, i) /\ m.op = "add"
        <5>1. i \in NamedIds(t)
              BY <2>2, <2>3, <2>4, <2>7, <3>2 DEF NamedIds, On, Doing
        <5>2. i \in DOMAIN sec'[t] \ DOMAIN sec[t]
              BY <4>2, <2>7, <3>2 DEF NewRow
        <5> QED
            BY <5>1, <5>2, <2>7, <3>2 DEF Reuses
      <4>3. CASE NewRow(t, m, i) /\ m.op = "mod"
        <5>1. ByID(c, t) /\ ByID(d, t) /\ call[c].m.id = i
              BY <4>3, <2>2, <2>7, <3>2 DEF Saves, Past, ByID, NewRow
        <5>2. Doing(c, t) /\ Doing(d, t)
              BY <5>1 DEF ByID
        <5>3. \A x \in About(c) : Both(t, x)
              BY <5>1, <5>2, <2>1, <2>3 DEF OverlapInv, Overlap
        <5>4. k = n
              BY <4>3, <2>7, <3>2 DEF NewRow, Saves, Works, Deletes
        <5>5. n \in About(c)
              BY WorksIsAbout DEF Saves
        <5> QED
            BY <5>3, <5>4, <5>5, <3>2, <1>1
      <4> QED
          BY <4>1, <4>2, <4>3, <2>7, <3>2, RowsAfter DEF NewRow
    <3> QED
        BY <3>1, <3>2
  <2> QED
      BY <2>2, <2>5, <2>7
<1> QED
    BY <1>1, <1>2, OverlapStays

\* The saved command and its row: nothing had a new name, its own row was under its ID.
LEMMA SaveFinds ==
  ASSUME FoundInv, NEW t \in Filed, NEW c, NEW m, NEW n, Saves(c, t, m, n), Runs(t, m),
         ~Split(t, n)
  PROVE  /\ m.op = "add" => RowsNamed(t, n) = {}
         /\ m.op # "add" => /\ m.id \in DOMAIN sec[t] /\ sec[t][m.id].name = n
                            /\ \A j \in DOMAIN sec[t] : sec[t][j].name = n => j = m.id
         /\ \A j \in DOMAIN sec'[t] : \A k \in DOMAIN sec'[t] :
               sec'[t][j].name = n /\ sec'[t][k].name = n => j = k
         /\ RowsNamed(t, n)' = Written(call[c])
<1>1. /\ Past(c, t) /\ m = call[c].m /\ n = Works(call[c])
      /\ FoundNew(c, t) /\ FoundOld(c, t) /\ Unique(t)
      BY DEF Saves, FoundInv
<1>2. m.op \in {"add", "mod", "rmv"} /\ (m.op # "rmv" => m.row.name = n)
      BY <1>1 DEF Runs, Works, Deletes
<1>3. m.op = "add" => RowsNamed(t, n) = {}
      BY <1>1 DEF FoundNew
<1>4. m.op # "add" => m.id \in DOMAIN sec[t] /\ sec[t][m.id].name = n
      BY <1>1 DEF FoundOld
<1>5. m.op # "add" => \A j \in DOMAIN sec[t] : sec[t][j].name = n => j = m.id
      BY <1>1, <1>4 DEF Unique
<1>6. m.op = "add" => \A j \in DOMAIN sec[t] : sec[t][j].name # n
      BY <1>3 DEF RowsNamed, SecRowsOf
<1>7. CASE m.op = "add"
  <2>1. PICK j : j \notin DOMAIN sec[t] /\ DOMAIN sec'[t] = DOMAIN sec[t] \cup {j}
                 /\ sec'[t][j] = m.row /\ \A k \in DOMAIN sec[t] : sec'[t][k] = sec[t][k]
        BY <1>7 DEF Runs, Inserts
  <2>2. \A k \in DOMAIN sec'[t] : sec'[t][k].name = n <=> k = j
        BY <2>1, <1>2, <1>6, <1>7
  <2>3. RowsNamed(t, n)' = {m.row}
        BY <2>1, <2>2 DEF RowsNamed, SecRowsOf
  <2> QED
      BY <2>2, <2>3, <1>1, <1>3, <1>7 DEF Written, Deletes
<1>8. CASE m.op = "mod"
  <2>1. /\ DOMAIN sec'[t] = DOMAIN sec[t]
        /\ \A k \in DOMAIN sec[t] : sec'[t][k] = IF k = m.id THEN m.row ELSE sec[t][k]
        BY <1>8 DEF Runs, Updates
  <2>2. \A k \in DOMAIN sec'[t] : sec'[t][k].name = n <=> k = m.id
        BY <2>1, <1>2, <1>5, <1>8
  <2>3. RowsNamed(t, n)' = {m.row}
        BY <2>1, <2>2, <1>4, <1>8 DEF RowsNamed, SecRowsOf
  <2> QED
      BY <2>2, <2>3, <1>1, <1>4, <1>5, <1>8 DEF Written, Deletes
<1>9. CASE m.op = "rmv"
  <2>1. /\ DOMAIN sec'[t] = DOMAIN sec[t] \ {m.id}
        /\ \A k \in DOMAIN sec'[t] : sec'[t][k] = sec[t][k]
        BY <1>9 DEF Runs, Removes
  <2>2. \A k \in DOMAIN sec'[t] : sec'[t][k].name # n
        BY <2>1, <1>5, <1>9
  <2>3. RowsNamed(t, n)' = {}
        BY <2>2 DEF RowsNamed, SecRowsOf
  <2> QED
      BY <2>2, <2>3, <1>1, <1>4, <1>5, <1>9 DEF Written, Deletes
<1> QED
    BY <1>2, <1>7, <1>8, <1>9

\* What the others have found stays found, and names have one row.
LEMMA SaveFound ==
  ASSUME OverlapInv, FoundInv, NEW t \in Filed, NEW c, NEW m, NEW n, Saves(c, t, m, n),
         Runs(t, m), Reuses(t), \A u \in Filed : u # t => sec'[u] = sec[u]
  PROVE  FoundInv'
<1>1. /\ Past(c, t) /\ m = call[c].m /\ n = Works(call[c]) /\ Quits(c) /\ Others(c)
      /\ \A u, k : Split(u, k) => Split(u, k)'
      BY DEF Saves, More, Split
<1>2. m.op # "rmv" => m.row.name = n
      BY <1>1 DEF Works, Deletes
<1>3. \A j \in DOMAIN sec'[t] : SameRow(t, j) \/ (NewRow(t, m, j) /\ sec'[t][j].name = n)
      BY <1>2, RowsAfter DEF NewRow
<1>4. ASSUME NEW u \in Filed PROVE Unique(u)'
  <2>1. CASE u # t
        BY <2>1 DEF FoundInv, Unique, Split, More, Saves
  <2>2. CASE u = t
    <3>1. ASSUME NEW i \in DOMAIN sec'[t], NEW j \in DOMAIN sec'[t],
                 sec'[t][i].name = sec'[t][j].name, ~Split(t, sec[t][i].name)'
          PROVE  i = j
      <4>1. PICK x : x = sec'[t][i].name
            OBVIOUS
      <4>2. ~Split(t, x)' /\ ~Split(t, x)
            BY <3>1, <4>1, <1>1 DEF Split
      <4>3. CASE x = n
        <5>1. ~Split(t, n)
              BY <4>2, <4>3
        <5>2. \A a \in DOMAIN sec'[t] : \A b \in DOMAIN sec'[t] :
                sec'[t][a].name = n /\ sec'[t][b].name = n => a = b
              BY <5>1, SaveFinds
        <5> QED
            BY <3>1, <4>1, <4>3, <5>2
      <4>4. CASE x # n
        <5>1. SameRow(t, i) /\ SameRow(t, j)
              BY <3>1, <4>1, <4>4, <1>3
        <5> QED
            BY <3>1, <4>1, <4>2, <5>1 DEF SameRow, FoundInv, Unique
      <4> QED
          BY <4>3, <4>4
    <3> QED
        BY <2>2, <3>1 DEF Unique
  <2> QED
      BY <2>1, <2>2
<1>5. ASSUME NEW u \in Filed, NEW d, Past(d, u)' PROVE FoundNew(d, u)' /\ FoundOld(d, u)'
  <2>1. d # c
        BY <1>1, <1>5 DEF Quits, Past
  <2>2. (Doing(d, u)' <=> Doing(d, u)) /\ (Doing(d, u) => SameCall(d))
        BY <2>1, <1>1 DEF Others
  <2>3. /\ Past(d, u) /\ call'[d].m = call[d].m /\ Works(call'[d]) = Works(call[d])
        BY <2>2, <1>5, WorkSame DEF SameCall, Past
  <2>4. PICK k, i : k = Works(call[d]) /\ i = call[d].m.id
        OBVIOUS
  <2>5. FoundNew(d, u) /\ FoundOld(d, u)
        BY <1>5 DEF FoundInv
  <2>6. CASE u # t
    <3>1. sec'[u] = sec[u] /\ RowsNamed(u, k)' = RowsNamed(u, k)
          BY <2>6 DEF RowsNamed, SecRowsOf
    <3>2. FoundNew(d, u)'
          BY <2>3, <2>4, <2>5, <3>1, <1>1 DEF FoundNew
    <3>3. FoundOld(d, u)'
      <4>1. call[d].m.op # "add" =>
              /\ i \in DOMAIN sec[u] => sec[u][i].name = k \/ Split(u, sec[u][i].name)
              /\ Split(u, k) \/ (i \in DOMAIN sec[u] /\ sec[u][i].name = k)
            BY <2>3, <2>4, <2>5 DEF FoundOld
      <4>2. call[d].m.op # "add" /\ i \in DOMAIN sec'[u] => (sec'[u][i].name = k \/ Split(u, sec[u][i].name)')
            BY <4>1, <3>1, <1>1 DEF Split, Saves, More
      <4> QED
          BY <2>3, <2>4, <4>1, <4>2, <3>1, <1>1 DEF FoundOld
    <3> QED
        BY <3>2, <3>3
  <2>7. CASE u = t
    <3>1. Both(t, k) \/ k # n
          BY <2>1, <2>3, <2>4, <2>7, <1>1, Alone
    <3>2. FoundNew(d, t)'
      <4>1. ASSUME call[d].m.op = "add", ~Split(t, k)' PROVE RowsNamed(t, k)' = {}
        <5>1. ~Split(t, k) /\ k # n
              BY <4>1, <3>1, <1>1 DEF Both
        <5>2. RowsNamed(t, k) = {}
              BY <5>1, <4>1, <2>3, <2>4, <2>5, <2>7 DEF FoundNew
        <5>3. \A j \in DOMAIN sec[t] : sec[t][j].name # k
              BY <5>2 DEF RowsNamed, SecRowsOf
        <5>4. \A j \in DOMAIN sec'[t] : sec'[t][j].name # k
              BY <5>1, <5>3, <1>3 DEF SameRow
        <5> QED
            BY <5>4 DEF RowsNamed, SecRowsOf
      <4> QED
          BY <2>3, <2>4, <4>1 DEF FoundNew
    <3>3. FoundOld(d, t)'
      <4>1. ASSUME call[d].m.op # "add"
            PROVE  /\ i \in DOMAIN sec[t] => sec[t][i].name = k \/ Split(t, sec[t][i].name)
                   /\ Split(t, k) \/ (i \in DOMAIN sec[t] /\ sec[t][i].name = k)
            BY <4>1, <2>3, <2>4, <2>5, <2>7 DEF FoundOld
      <4>2. ASSUME call[d].m.op # "add" PROVE d \in On(t) /\ ByID(d, t) /\ i \in NamedIds(t)
            BY <4>2, <2>3, <2>4, <2>7 DEF Past, Doing, On, ByID, NamedIds
      <4>3. ASSUME call[d].m.op # "add", m.op # "add", m.id = i PROVE Both(t, n)
        <5>1. ByID(c, t) /\ ByID(d, t) /\ Doing(c, t) /\ Doing(d, t) /\ call[c].m.id = call[d].m.id
              BY <4>2, <4>3, <2>4, <1>1 DEF Past, Doing, ByID
        <5>2. \A x \in About(c) : Both(t, x)
              BY <5>1, <2>1 DEF OverlapInv, Overlap
        <5> QED
            BY <5>2, <1>1, WorksIsAbout
      <4>4. ASSUME call[d].m.op # "add", i \in DOMAIN sec'[t], NEW x, x = sec'[t][i].name
            PROVE  x = k \/ Split(t, x)'
        <5>1. CASE SameRow(t, i)
              BY <4>1, <4>4, <5>1, <1>1 DEF SameRow
        <5>2. CASE NewRow(t, m, i) /\ m.op = "add"
          <6>1. i \in DOMAIN sec'[t] \ DOMAIN sec[t]
                BY <4>4, <5>2 DEF NewRow
          <6> QED
              BY <6>1, <4>2, <4>4 DEF Reuses, Both
        <5>3. CASE NewRow(t, m, i) /\ m.op = "mod"
          <6>1. Both(t, n) /\ x = n
                BY <4>3, <4>4, <5>3, <1>2 DEF NewRow
          <6> QED
              BY <6>1, <1>1 DEF Both
        <5> QED
            BY <5>1, <5>2, <5>3, <4>4, <1>3 DEF NewRow
      <4>5. ASSUME call[d].m.op # "add", ~Split(t, k)'
            PROVE  i \in DOMAIN sec'[t] /\ sec'[t][i].name = k
        <5>1. i \in DOMAIN sec[t] /\ sec[t][i].name = k /\ ~Split(t, k) /\ k # n
              BY <4>1, <4>5, <3>1, <1>1 DEF Both
        <5>2. CASE SameRow(t, i)
              BY <5>1, <5>2 DEF SameRow
        <5>3. CASE m.op \in {"mod", "rmv"} /\ i = m.id
          <6>1. FoundOld(c, t)
                BY DEF FoundInv
          <6>2. sec[t][i].name = n \/ Split(t, sec[t][i].name)
                BY <6>1, <5>1, <5>3, <1>1 DEF FoundOld
          <6> QED
              BY <6>2, <5>1
        <5> QED
            BY <5>1, <5>2, <5>3, RowsAfter
      <4>6. call[d].m.op # "add" /\ i \in DOMAIN sec'[t] => (sec'[t][i].name = k \/ Split(t, sec[t][i].name)')
        <5>1. PICK x : x = sec'[t][i].name
              OBVIOUS
        <5> QED
            BY <5>1, <4>4 DEF Split
      <4> QED
          BY <2>3, <2>4, <4>5, <4>6 DEF FoundOld
    <3> QED
        BY <2>7, <3>2, <3>3
  <2> QED
      BY <2>6, <2>7
<1>6. \A u, d : ~Past(d, u)' => FoundNew(d, u)' /\ FoundOld(d, u)'
      BY DEF FoundNew, FoundOld
<1> QED
    BY <1>4, <1>5, <1>6 DEF FoundInv

\* Save: the table holds what the file does, or the database failed and the names are split.
LEMMA ConfigSaves ==
  ASSUME ConfigInv, CallShape, DataShape, NEW c, Save(c)
  PROVE  ConfigInv'
<1>1. PICK t, m, n : t = call[c].m.table /\ m = call[c].m /\ n = Works(call[c])
      OBVIOUS
<1>2. /\ c \in DOMAIN call /\ call[c].at = "save" /\ m.op \in {"add", "mod", "rmv"}
      /\ t \in Edited /\ More /\ UNCHANGED <<conf, charon>>
      /\ \E ret : Finishes(c, ret)
      /\ \/ Runs(t, m) /\ OnlyTable(t) /\ Reuses(t)
         \/ sec' = sec /\ \A k \in Involved(m) : Split(t, k)'
      BY <1>1, SaveIs
<1>3. Quits(c) /\ Others(c)
      BY <1>2, WorkTurns DEF Finishes
<1>4. Past(c, t) /\ Saves(c, t, m, n)
      BY <1>1, <1>2, <1>3 DEF Past, Doing, Saves
<1>5. \A u, k, a : ~Stands(c, u, k, a)'
      BY <1>3 DEF Quits, Stands, Past
<1>6. \A u, k, a : Stands(c, u, k, a) <=> u = t /\ k = n /\ a = "save"
      BY <1>1, <1>2, <1>4 DEF Stands, Past, Doing
<1>7. CASE t = "certs"
  <2>1. t \notin Filed
        BY <1>7 DEF Filed
  <2>2. Stills(c)
    <3>1. \A k, u : ~Stands(c, u, k, "file") /\ ~Stands(c, u, k, "file")'
          BY <1>5, <1>6
    <3>2. \A k : \A u \in Filed : ~Stands(c, u, k, "save") /\ ~Stands(c, u, k, "save")'
          BY <1>5, <1>6, <2>1
    <3> QED
        BY <1>3, <3>1, <3>2 DEF Stills, CertWaits, Quits, Past
  <2>3. \A u \in Filed : sec'[u] = sec[u]
        BY <1>2, <2>1 DEF OnlyTable, Filed, SecTables
  <2>4. ASSUME Runs(t, m) PROVE RowsServed
    <3>1. ASSUME NEW r \in SecRowsOf("certs")', r \notin SecRowsOf("certs") PROVE CertServed(r)'
      <4>1. PICK j : j \in DOMAIN sec'["certs"] /\ r = sec'["certs"][j]
            BY <3>1 DEF SecRowsOf
      <4>2. m.op \in {"add", "mod"} /\ r = m.row
            BY <1>7, <2>4, <3>1, <4>1, RowsAfter DEF SameRow, NewRow, SecRowsOf
      <4>3. CertServed(r)
            BY <4>2, <1>1, <1>2, <1>4, <1>7 DEF ConfigInv, CertInv, Deletes
      <4> QED
          BY <4>3, <1>2 DEF CertServed
    <3> QED
        BY <3>1 DEF RowsServed
  <2>5. sec'["certs"] = sec["certs"] \/ RowsServed
        BY <1>2, <2>4
  <2> QED
      BY <2>2, <2>3, <2>5, <1>2, <1>3, ConfigStays
<1>8. CASE t \in Filed
  <2>1. sec'["certs"] = sec["certs"] /\ \A u \in Filed : u # t => sec'[u] = sec[u]
        BY <1>2, <1>8 DEF OnlyTable, Filed, SecTables
  <2>2. (\A u, k : FilesOf(u, k)' = FilesOf(u, k)) /\ \A k : TunnelsOf(k)' = TunnelsOf(k) /\ SecretsOf(k)' = SecretsOf(k)
        BY <1>2 DEF FilesOf, TunnelsOf, SecretsOf
  <2>3. LoadedInv'
    <3>1. ASSUME NEW u \in Filed, NEW k PROVE StandsSame(u, k, "file")
          BY <1>3, <1>5, <1>6, StandsStay
    <3> QED
        BY <3>1, <2>2, <1>2, LoadedKept DEF ConfigInv, More, Parted
  <2>4. ASSUME NEW d, NEW u, Past(d, u)'
        PROVE  Past(d, u) /\ SameCall(d) /\ (Deletes(call'[d]) <=> Deletes(call[d]))
    <3>1. d # c
          BY <1>3, <2>4 DEF Quits, Past
    <3>2. (Doing(d, u)' <=> Doing(d, u)) /\ (Doing(d, u) => SameCall(d))
          BY <3>1, <1>3 DEF Others
    <3> QED
        BY <2>4, <3>2, WorkSame DEF Past, SameCall
  <2>5. SecretInv'
    <3>1. ASSUME NEW r \in SecRowsOf("secrets")' PROVE r \in SecRowsOf("secrets") \/ r \in AllSecrets
      <4>1. PICK j : j \in DOMAIN sec'["secrets"] /\ r = sec'["secrets"][j]
            BY <3>1 DEF SecRowsOf
      <4>2. CASE sec'["secrets"] = sec["secrets"]
            BY <4>1, <4>2 DEF SecRowsOf
      <4>3. CASE t = "secrets" /\ Runs(t, m)
        <5>1. SameRow(t, j) \/ NewRow(t, m, j)
              BY <4>1, <4>3, RowsAfter
        <5> QED
            BY <4>1, <4>3, <5>1 DEF SameRow, NewRow, SecRowsOf, AllSecrets
      <4> QED
          BY <4>2, <4>3, <2>1, <1>2 DEF Filed
    <3> QED
        BY <3>1, <2>4, <1>2, SecretKept DEF ConfigInv, SameCall
  <2>6. CertInv'
    <3>1. SecRowsOf("certs")' = SecRowsOf("certs")
          BY <2>1 DEF SecRowsOf
    <3>2. ASSUME NEW d, CertWaits(d)' PROVE CertWaits(d) /\ call'[d].m = call[d].m
          BY <3>2, <2>4 DEF CertWaits, SameCall
    <3> QED
        BY <3>1, <3>2, <1>2, CertKept DEF ConfigInv
  <2>7. CASE sec' = sec /\ \A k \in Involved(m) : Split(t, k)'
    <3>1. Split(t, n)'
      <4>1. CASE m.op = "rmv"
        <5>1. FoundOld(c, t)
              BY <1>8 DEF ConfigInv, FoundInv
        <5>2. Split(t, n) \/ (m.id \in DOMAIN sec[t] /\ sec[t][m.id].name = n)
              BY <5>1, <4>1, <1>1, <1>4 DEF FoundOld
        <5>3. m.id \in DOMAIN sec[t] => sec[t][m.id].name \in Involved(m)
              BY <4>1, <1>1 DEF Involved
        <5> QED
            BY <5>2, <5>3, <2>7, <1>2 DEF More, Split
      <4>2. CASE m.op \in {"add", "mod"}
        <5>1. n \in Involved(m)
              BY <4>2, <1>1 DEF Works, Deletes, Involved
        <5> QED
            BY <5>1, <2>7
      <4> QED
          BY <4>1, <4>2, <1>2
    <3>2. \A u, k : RowsNamed(u, k)' = RowsNamed(u, k)
          BY <2>7 DEF RowsNamed, SecRowsOf
    <3>3. \A u, k : Stands(c, u, k, "save") \/ Stands(c, u, k, "save")' => u = t /\ k = n
          BY <1>5, <1>6
    <3>4. FileInv'
          BY <3>1, <3>2, <3>3, <2>2, <1>2, <1>3, <1>8, FileBut DEF ConfigInv
    <3>5. OverlapInv'
          BY <2>7, <1>2, <1>3, OverlapKept DEF ConfigInv
    <3>6. \A u \in Filed : ~Past(c, u)'
          BY <1>3 DEF Quits, Past
    <3>7. FoundInv'
          BY <3>6, <2>7, <1>2, <1>3, FoundGoes DEF ConfigInv
    <3> QED
        BY <3>4, <3>5, <3>7, <2>3, <2>5, <2>6 DEF ConfigInv
  <2>8. CASE Runs(t, m) /\ OnlyTable(t) /\ Reuses(t)
    <3>1. OverlapInv' /\ FoundInv'
          BY <2>1, <2>8, <1>4, <1>8, SaveOverlap, SaveFound DEF ConfigInv
    <3>2. \A u, k : Stands(c, u, k, "save") \/ Stands(c, u, k, "save")' => u = t /\ k = n
          BY <1>5, <1>6
    <3>3. ASSUME ~Split(t, n)' PROVE FileAt(t, n)'
      <4>1. ~Split(t, n) /\ ~Both(t, n)
            BY <3>3, <1>2 DEF Split, Both, More
      <4>2. RowsNamed(t, n)' = Written(call[c])
            BY <4>1, <2>8, <1>4, <1>8, SaveFinds DEF ConfigInv
      <4>3. FilesOf(t, n) = Written(call[c])
        <5>1. FileAt(t, n)
              BY <4>1, <1>8 DEF ConfigInv, FileInv
        <5> QED
            BY <5>1, <1>6 DEF FileAt
      <4>4. \A d : ~Stands(d, t, n, "save")'
        <5>1. \A d : d # c => ~Stands(d, t, n, "save")'
              BY <4>1, <1>1, <1>3, <1>4, <1>8, Sole DEF ConfigInv
        <5> QED
            BY <5>1, <1>5
      <4> QED
          BY <4>2, <4>3, <4>4, <2>2 DEF FileAt
    <3>4. ASSUME NEW u \in Filed, NEW k, u # t \/ k # n, ~Split(u, k)'
          PROVE  RowsNamed(u, k)' = RowsNamed(u, k)
      <4>1. CASE u # t
            BY <4>1, <2>1 DEF RowsNamed, SecRowsOf
      <4>2. CASE u = t
        <5>1. k # n /\ ~Split(t, k)
              BY <3>4, <4>2, <1>2 DEF Split, More
        <5>2. m.op # "rmv" => m.row.name = n
              BY <1>1 DEF Works, Deletes
        <5>3. \A j \in DOMAIN sec'[t] : sec'[t][j].name = k => SameRow(t, j)
              BY <5>1, <5>2, <2>8, RowsAfter DEF NewRow
        <5>4. \A j \in DOMAIN sec[t] : sec[t][j].name = k => SameRow(t, j)
          <6>1. ASSUME NEW j \in DOMAIN sec[t], sec[t][j].name = k, m.op \in {"mod", "rmv"}, j = m.id
                PROVE  FALSE
            <7>1. FoundOld(c, t)
                  BY <1>8 DEF ConfigInv, FoundInv
            <7>2. sec[t][j].name = n \/ Split(t, sec[t][j].name)
                  BY <7>1, <6>1, <1>1, <1>4 DEF FoundOld
            <7> QED
                BY <7>2, <6>1, <5>1
          <6> QED
              BY <6>1, <2>8, RowsAfter
        <5> QED
            BY <5>3, <5>4, <4>2 DEF SameRow, RowsNamed, SecRowsOf
      <4> QED
          BY <4>1, <4>2
    <3>5. FileInv'
          BY <3>2, <3>3, <3>4, <2>2, <1>2, <1>3, <1>8, FileBut DEF ConfigInv
    <3> QED
        BY <3>1, <3>5, <2>3, <2>5, <2>6 DEF ConfigInv
  <2> QED
      BY <2>7, <2>8, <1>2
<1> QED
    BY <1>2, <1>7, <1>8 DEF Edited

-----------------------------------------------------------------------------
(* The other steps.                                                         *)

\* Lists and answers change nothing that is configured.
LEMMA ConfigIdles ==
  ASSUME ConfigInv, CallShape, DataShape, NEW c,
         \/ List_Zero(c) \/ List_Count(c) \/ List_Page(c) \/ List_Body(c) \/ Replied(c)
  PROVE  ConfigInv'
<1>1. doubt' = doubt /\ UNCHANGED <<sec, conf, charon>>
      BY DEF List_Zero, List_Count, List_Page, List_Body, Replied
<1>2. More
      BY <1>1 DEF More
<1>3. Idles(c)
  <2>1. CASE Replied(c)
        BY <2>1, LeavesIs, WorkIdles
  <2>2. ASSUME call[c].m.op = "query", NEW at, NEW ret, NEW body, NEW saw, Lists(c, at, ret, body, saw)
        PROVE  Idles(c)
    <3>1. PICK r : r = Call(call[c].m, at, ret, call[c].row, body, saw, call[c].mixed)
          OBVIOUS
    <3>2. Turns(c, r) /\ r.m = call[c].m
          BY <2>2, <3>1, CallHas DEF Lists
    <3> QED
        BY <2>2, <3>2, WorkIdles
  <2>3. CASE List_Zero(c)
        BY <2>2, <2>3, ListZeroIs
  <2>4. CASE List_Count(c)
    <3>1. PICK t : t = call[c].m.table
          OBVIOUS
    <3>2. call[c].m.op = "query" /\ \E at, ret, body, saw : Lists(c, at, ret, body, saw)
          BY <2>4, <3>1, ListCountIs DEF DataShape
    <3> QED
        BY <3>2, <2>2
  <2>5. CASE List_Page(c)
    <3>1. PICK t : t = call[c].m.table
          OBVIOUS
    <3>2. call[c].m.op = "query" /\ \E at, ret, body, saw : Lists(c, at, ret, body, saw)
          BY <2>5, <3>1, ListPageIs
    <3> QED
        BY <3>2, <2>2
  <2>6. CASE List_Body(c)
        BY <2>2, <2>6, ListBodyIs
  <2> QED
      BY <2>1, <2>3, <2>4, <2>5, <2>6
<1>4. Stills(c)
      BY <1>3, StillQuits DEF Idles
<1> QED
    BY <1>1, <1>2, <1>3, <1>4, ConfigStays

\* strongSwan dies: nothing is loaded, the rest stays.
LEMMA ConfigDies ==
  ASSUME ConfigInv, CharonDies
  PROVE  ConfigInv'
<1>1. ~charon'.loaded /\ UNCHANGED <<sec, conf, call, doubt>>
      BY CharonDiesIs
<1>2. OverlapInv'
      BY <1>1 DEF ConfigInv, OverlapInv, Overlap, ByID, Doing, About, Involved, Both, Split, Parted
<1>3. FoundInv'
  <2>1. \A t : Unique(t) => Unique(t)'
        BY <1>1 DEF Unique, Split
  <2>2. \A c, t : FoundNew(c, t) => FoundNew(c, t)'
        BY <1>1 DEF FoundNew, Past, Doing, Works, Deletes, RowsNamed, SecRowsOf, Split
  <2>3. \A c, t : FoundOld(c, t) => FoundOld(c, t)'
        BY <1>1 DEF FoundOld, Past, Doing, Works, Deletes, Split
  <2> QED
      BY <2>1, <2>2, <2>3 DEF ConfigInv, FoundInv
<1>4. FileInv'
  <2>1. \A t, n : FilesOf(t, n)' = FilesOf(t, n)
        BY <1>1 DEF FilesOf
  <2>2. \A t, n : StandsSame(t, n, "save")
        BY <1>1 DEF StandsSame, Stands, Past, Doing, Works, Written, Deletes
  <2> QED
      BY <1>1, <2>1, <2>2, FileKept DEF ConfigInv, Split
<1>5. LoadedInv'
      BY <1>1 DEF LoadedInv
<1>6. SecretInv'
      BY <1>1 DEF ConfigInv, SecretInv, SecRowsOf, AllSecrets, InitialRows, Past, Doing, Deletes
<1>7. CertInv'
      BY <1>1 DEF ConfigInv, CertInv, CertServed, SecRowsOf, Past, Doing, Deletes
<1> QED
    BY <1>2, <1>3, <1>4, <1>5, <1>6, <1>7 DEF ConfigInv

\* A reload: what the files hold is loaded; a command that has not written its file yet, or
\* works on a table, keeps its doubts.
LEMMA ConfigReloads ==
  ASSUME ConfigInv, UNCHANGED <<sec, conf, call>>, \A t, n : Split(t, n)' <=> Split(t, n), Reloads
  PROVE  ConfigInv'
<1>1. /\ \A d, t : (Doing(d, t)' <=> Doing(d, t)) /\ (Past(d, t)' <=> Past(d, t))
      /\ \A d, t, n, at : Stands(d, t, n, at)' <=> Stands(d, t, n, at)
      BY DEF Stands, Past, Doing, Works, Deletes
<1>2. ASSUME NEW d, NEW t, Doing(d, t)
      PROVE  /\ \A n \in About(d)' : n \in About(d)
             /\ \A n : Both(t, n) => Both(t, n)'
  <2>1. \A n \in About(d)' : n \in About(d)
    <3>1. sec' = sec /\ call' = call
          OBVIOUS
    <3> QED
        BY <3>1 DEF About, Involved
  <2>2. On(t) # {}
        BY <1>2 DEF Doing, On
  <2> QED
      BY <2>1, <2>2 DEF Reloads, Both
<1>3. OverlapInv'
      BY <1>1, <1>2, OverlapStays DEF ConfigInv
<1>4. FoundInv'
      BY FoundStays, <1>1 DEF ConfigInv, Works, Deletes
<1>5. \A t, n : FilesOf(t, n)' = FilesOf(t, n)
      BY DEF FilesOf
<1>6. FileInv'
      BY <1>1, <1>5, FileKept DEF ConfigInv, StandsSame, Written, Deletes
<1>7. ASSUME NEW t, NEW n, ~Parted(t, n)', NEW d PROVE ~Stands(d, t, n, "file")'
  <2>1. SUFFICES ASSUME Stands(d, t, n, "file") PROVE FALSE
        BY <1>1
  <2>2. Running(d, "file") /\ call[d].m.table = t /\ n \in About(d)
        BY <2>1, WorksIsAbout DEF Stands, Past, Doing, Running
  <2> QED
      BY <2>2, <1>7 DEF Reloads
<1>8. ASSUME NEW n, ~Parted("conns", n)' PROVE TunnelAt(n)'
      BY <1>5, <1>7, <1>8 DEF TunnelAt, Reloads
<1>9. ASSUME NEW n, ~Parted("secrets", n)' PROVE SecretAt(n)'
  <2>1. \A d : ~Stands(d, "secrets", n, "file")'
        BY <1>7, <1>9
  <2>2. \A r \in FilesOf("secrets", n) : Shared(r) \in SecretsOf(n)'
        BY DEF Reloads
  <2> QED
      BY <2>1, <2>2, <1>5 DEF SecretAt
<1>10. LoadedInv'
       BY <1>8, <1>9 DEF LoadedInv
<1>11. SecretInv'
       BY DEF ConfigInv, SecretInv, SecRowsOf, AllSecrets, InitialRows, Past, Doing, Deletes
<1>12. CertInv'
       BY DEF ConfigInv, CertInv, CertServed, SecRowsOf, Past, Doing, Deletes, Reloads
<1> QED
    BY <1>3, <1>4, <1>6, <1>10, <1>11, <1>12 DEF ConfigInv

\* Every step.
LEMMA ConfigKept ==
  ASSUME SecInv, SecActs \/ UNCHANGED secgw
  PROVE  ConfigInv'
<1>0. ConfigInv /\ CallShape /\ DataShape /\ ConfShape /\ CharonShape
      BY DEF SecInv, ShapeInv, DataShape
<1>1. ASSUME call' = call, More, OnlyInfos \/ sec' = sec,
             conf'.conns = conf.conns, conf'.secrets = conf.secrets, conf.certs \subseteq conf'.certs,
             charon'.loaded = charon.loaded, charon'.certs = charon.certs,
             charon'.conns = charon.conns, charon'.secrets = charon.secrets
      PROVE  ConfigInv'
  <2>1. sec'["certs"] = sec["certs"] /\ \A t \in Filed : sec'[t] = sec[t]
        BY <1>1 DEF OnlyInfos, OnlyTable, Filed, SecTables
  <2> QED
      BY <2>1, <1>0, <1>1, ConfigStays
<1>2. ASSUME NEW c, NEW m, Entered(m), secgw_main(c, m)
      PROVE  ConfigInv'
      BY <1>0, <1>2, ConfigStarts
<1>3. ASSUME NEW c, SecStep(c)
      PROVE  ConfigInv'
      BY <1>0, <1>3, ConfigChecks, ConfigLooksUp, ConfigLoads, ConfigUnloads, ConfigFiles, ConfigSaves,
         ConfigIdles DEF SecStep
<1>4. ASSUME NEW c, Replied(c)
      PROVE  ConfigInv'
      BY <1>0, <1>4, ConfigIdles
<1>5. doubt' = doubt => More
      BY DEF More
<1>6. ASSUME NEW f, add_cert_file(f)
      PROVE  ConfigInv'
      BY <1>0, <1>1, <1>5, <1>6, UploadIs
<1>7. CASE CharonDies
      BY <1>0, <1>7, ConfigDies
<1>8. CASE CharonStarts
      BY <1>0, <1>1, <1>5, <1>8, CharonStartsIs DEF StillLoaded, SameTunnels, SameSecrets
<1>9. CASE LoadAll
      BY <1>0, <1>1, <1>5, <1>9, LoadAllIs, ConfigReloads
<1>10. CASE Tunnels
  <2>1. OnlyInfos /\ UNCHANGED <<conf, charon, call>>
        BY <1>0, <1>10, VerifyIs, SaveInfoIs, AlarmIs DEF Tunnels
  <2> QED
      BY <2>1, <1>1 DEF OnlyInfos
<1>11. CASE (\E n \in SecNames, state \in States : parseIkeEvent(n, state)) \/ secgw_timer_callback
            \/ UNCHANGED secgw
       BY <1>1, <1>5, <1>11 DEF parseIkeEvent, secgw_timer_callback, secgw
<1> QED
    BY <1>2, <1>3, <1>4, <1>6, <1>7, <1>8, <1>9, <1>10, <1>11 DEF SecActs

-----------------------------------------------------------------------------
(* The start, and the theorems.                                             *)

\* The tables begin with one row per name, whose file is there and loaded.
LEMMA StartNames ==
  ASSUME SecInit, NEW t \in SecTables \ {"certs"}
  PROVE  /\ \A r, q \in SecRowsOf(t) : r.name = q.name => r = q
         /\ \A i, j \in DOMAIN sec[t] : sec[t][i].name = sec[t][j].name => i = j
<1>1. \A i, j \in DOMAIN sec[t] : sec[t][i].name = sec[t][j].name => i = j
      BY SecAssumption DEF SecInit
<1> QED
    BY <1>1 DEF SecRowsOf

\* Shapes and buffers.
LEMMA StartShape ==
  ASSUME SecInit
  PROVE  ShapeInv /\ BufferInv
<1>1. call = <<>> /\ DOMAIN call = {}
      BY DEF SecInit
<1>2. CallShape
      BY <1>1 DEF CallShape
<1>3. SecShape
  <2>1. ASSUME NEW t \in SecTables PROVE Bounded(DOMAIN sec[t])
    <3>1. PICK k : k = Cardinality(DOMAIN InitialSec[t])
          OBVIOUS
    <3>2. DOMAIN sec[t] = 1 .. k /\ k \in Nat
          BY <3>1, SecAssumption, FS_CardinalityType DEF SecInit
    <3> QED
        BY <3>2 DEF Bounded
  <2> QED
      BY <2>1, SecAssumption DEF SecShape, SecInit
<1>4. ConfShape
  <2>1. PICK a, b, e : /\ a = ByName("conns") /\ b = ByName("secrets")
                       /\ e = {CertFile(r) : r \in SecRowsOf("certs")}
        OBVIOUS
  <2>2. conf = Conf(a, b, e)
        BY <2>1 DEF SecInit, Conf
  <2> QED
      BY <2>2, ConfHas DEF ConfShape
<1>5. CharonShape
  <2>1. PICK yes \in BOOLEAN : yes = TRUE
        OBVIOUS
  <2>2. PICK a, b, e : a = conf.conns /\ b = FiledSecrets /\ e = conf.certs
        OBVIOUS
  <2>3. charon = Charon(yes, yes, a, b, e)
        BY <2>1, <2>2 DEF SecInit, Charon
  <2> QED
      BY <2>3, CharonHas DEF CharonShape
<1>6. BufferInv
  <2>1. DOMAIN lists = SecTables /\ \A t \in SecTables : lists[t] = [total |-> 0, rows |-> <<>>]
        BY DEF SecInit
  <2>2. \A t \in SecTables : ListOf(lists[t])
        BY <2>1 DEF ListOf
  <2> QED
      BY <1>1, <2>1, <2>2 DEF BufferInv
<1> QED
    BY <1>2, <1>3, <1>4, <1>5, <1>6 DEF ShapeInv, DataShape

\* Tunnels.
LEMMA StartTunnels ==
  ASSUME SecInit
  PROVE  TunnelInv
<1>1. ike = None /\ alarms = {}
      BY DEF SecInit
<1>2. DOMAIN told = SecNames
      BY DEF SecInit
<1>3. ASSUME NEW n \in SecNames
      PROVE  /\ told[n] = [known |-> told[n].known, last |-> told[n].last]
             /\ told[n].last \in States \cup {None}
             /\ n \in alarms <=> told[n].known = "down"
             /\ Recorded(n, told[n].last)
  <2>1. PICK last : last = IF InfosOf(n) = {} THEN None ELSE sec.infos[CHOOSE i \in InfosOf(n) : TRUE].state
        OBVIOUS
  <2>2. told[n] = [known |-> None, last |-> last]
        BY <2>1 DEF SecInit
  <2>3. told[n].known = None /\ told[n].last = last /\ None # "down"
        BY <2>2, SecAssumption DEF States
  <2>4. CASE InfosOf(n) = {}
        BY <1>1, <2>1, <2>2, <2>3, <2>4 DEF Recorded
  <2>5. CASE InfosOf(n) # {}
    <3>1. PICK i : i \in InfosOf(n) /\ last = sec.infos[i].state
          BY <2>1, <2>5
    <3>2. i \in DOMAIN sec.infos /\ \A j \in InfosOf(n) : j = i
      <4>1. \A j, k \in DOMAIN sec["infos"] : sec["infos"][j].name = sec["infos"][k].name => j = k
            BY StartNames DEF SecTables
      <4> QED
          BY <3>1, <4>1 DEF InfosOf
    <3>3. last \in States \ {"down"}
      <4>1. sec.infos[i] \in InitialRows("infos")
            BY <3>2 DEF SecInit, InitialRows
      <4> QED
          BY <3>1, <4>1, SecAssumption
    <3>4. last # None
          BY <3>3, SecAssumption
    <3> QED
        BY <1>1, <2>2, <2>3, <3>1, <3>2, <3>3, <3>4 DEF Recorded
  <2> QED
      BY <2>4, <2>5
<1> QED
    BY <1>1, <1>2, <1>3 DEF TunnelInv, Handled

\* Files, strongSwan, secrets and certificates.
LEMMA StartConfig ==
  ASSUME SecInit
  PROVE  ConfigInv
<1>1. \A c, t : ~Doing(c, t) /\ ~Past(c, t)
      BY DEF SecInit, Doing, Past
<1>2. /\ conf.conns = ByName("conns") /\ conf.secrets = ByName("secrets")
      /\ conf.certs = {CertFile(r) : r \in SecRowsOf("certs")}
      /\ charon.conns = conf.conns /\ charon.secrets = FiledSecrets /\ charon.certs = conf.certs
      BY DEF SecInit
<1>3. OverlapInv
      BY <1>1 DEF OverlapInv
<1>4. FoundInv
  <2>1. \A t \in Filed : Unique(t)
        BY StartNames DEF Unique, Filed, SecTables
  <2> QED
      BY <1>1, <2>1 DEF FoundInv, FoundNew, FoundOld
<1>5. ASSUME NEW t \in Filed, NEW n PROVE FilesOf(t, n) = RowsNamed(t, n)
  <2>1. conf[t] = ByName(t)
        BY <1>2 DEF Filed
  <2>2. \A r, q \in SecRowsOf(t) : r.name = q.name => r = q
        BY StartNames DEF Filed, SecTables
  <2>3. DOMAIN ByName(t) = {r.name : r \in SecRowsOf(t)}
        BY DEF ByName
  <2>4. ASSUME NEW r \in SecRowsOf(t), r.name = n PROVE FilesOf(t, n) = {r} /\ RowsNamed(t, n) = {r}
    <3>1. ByName(t)[n] = r
      <4>1. ByName(t)[n] = CHOOSE q \in SecRowsOf(t) : q.name = n
            BY <2>4 DEF ByName
      <4> QED
          BY <4>1, <2>2, <2>4
    <3> QED
        BY <3>1, <2>1, <2>2, <2>3, <2>4 DEF FilesOf, RowsNamed
  <2>5. ASSUME \A r \in SecRowsOf(t) : r.name # n PROVE FilesOf(t, n) = {} /\ RowsNamed(t, n) = {}
        BY <2>1, <2>3, <2>5 DEF FilesOf, RowsNamed
  <2> QED
      BY <2>4, <2>5
<1>6. FileInv
      BY <1>1, <1>5 DEF FileInv, FileAt, Stands
<1>7. \A n : TunnelAt(n)
      BY <1>1, <1>2 DEF TunnelAt, Stands, TunnelsOf, FilesOf
<1>8. ASSUME NEW n PROVE SecretAt(n)
  <2>1. ASSUME NEW r \in FilesOf("secrets", n) PROVE Shared(r) \in SecretsOf(n)
    <3>1. n \in DOMAIN conf.secrets /\ r = conf.secrets[n]
          BY <2>1 DEF FilesOf
    <3>2. PICK k : k = <<"ike", n>>
          OBVIOUS
    <3>3. k[2] = n /\ k \in {<<"ike", x>> : x \in DOMAIN conf.secrets} /\ k \in {"ike", "vici"} \X {n}
          BY <3>1, <3>2
    <3>4. k \in DOMAIN charon.secrets /\ charon.secrets[k] = Shared(r)
          BY <3>1, <3>3, <1>2 DEF FiledSecrets
    <3> QED
        BY <3>3, <3>4 DEF SecretsOf
  <2> QED
      BY <2>1, <1>1 DEF SecretAt, Stands
<1>9. LoadedInv
      BY <1>7, <1>8 DEF LoadedInv
<1>10. SecretInv
  <2>1. \A r \in SecRowsOf("secrets") : r \in AllSecrets
        BY DEF SecInit, SecRowsOf, AllSecrets, InitialRows
  <2>2. \A n \in DOMAIN conf.secrets : \E r \in SecRowsOf("secrets") : r.name = n
        BY <1>2 DEF ByName
  <2> QED
      BY <1>1, <2>1, <2>2 DEF SecretInv
<1>11. CertInv
       BY <1>1, <1>2 DEF CertInv, CertServed
<1> QED
    BY <1>3, <1>4, <1>6, <1>9, <1>10, <1>11 DEF ConfigInv

\* The invariant holds throughout.
THEOREM SecGwInvariant == Spec => []SecInv
<1>1. Init => SecInv
      BY StartShape, StartTunnels, StartConfig DEF Init, SecInv
<1>2. SecInv /\ [Next]_vars => SecInv'
  <2> SUFFICES ASSUME SecInv, [Next]_vars PROVE SecInv'
      OBVIOUS
  <2>1. SecActs \/ UNCHANGED secgw
        BY SecNext
  <2> QED
      BY <2>1, ShapeStays, BufferKept, TunnelKept, ConfigKept DEF SecInv
<1> QED
    BY <1>1, <1>2, PTL DEF Spec

\* A page that one command lists alone tells the rows its own SELECTs found, although all
\* commands of secgw_list_*_api put them through the same buffers.
THEOREM ListsTellOwnRows == Spec => []ListsOwnRows
<1>1. SecInv => ListsOwnRows
  <2> SUFFICES ASSUME SecInv, NEW c \in Callers, c \in DOMAIN call, call[c].at = "fire",
                      call[c].m.op = "query", ~call[c].mixed
               PROVE  call[c].body = call[c].saw
      BY DEF ListsOwnRows, Running
  <2>1. PICK t : t = call[c].m.table
        OBVIOUS
  <2>2. t \in SecTables
        BY <2>1 DEF SecInv, ShapeInv, CallShape, Placed, PlaceOf
  <2>3. Unmixed(call[c], lists[t])
        BY <2>1, <2>2 DEF SecInv, BufferInv, Asks
  <2> QED
      BY <2>3 DEF Unmixed
<1> QED
    BY <1>1, SecGwInvariant, PTL

\* A tunnel's record is that of the last event parseIkeEvent handled, there is none of a
\* tunnel that is down, and secgw_ike_conn_alarm has rung for those whose last event that
\* found them configured took them down.
THEOREM TunnelsAlwaysAsReported == Spec => []TunnelsAsReported
<1>1. SecInv => TunnelsAsReported
  <2> SUFFICES ASSUME SecInv, NEW n \in SecNames, ike # None => ike.name # n
               PROVE  /\ <<"file", "infos", n>> \notin doubt =>
                           IF told[n].last \in {None, "down"} THEN InfosOf(n) = {}
                           ELSE /\ Cardinality(InfosOf(n)) = 1
                                /\ \A i \in InfosOf(n) : sec.infos[i].state = told[n].last
                      /\ n \in alarms <=> told[n].known = "down"
      BY DEF TunnelsAsReported
  <2>1. n \in alarms <=> told[n].known = "down"
        BY DEF SecInv, TunnelInv
  <2>2. ASSUME <<"file", "infos", n>> \notin doubt PROVE Recorded(n, told[n].last)
        BY <2>2 DEF SecInv, TunnelInv, Split, Handled
  <2>3. \A i : Cardinality({i}) = 1
        BY FS_Singleton
  <2> QED
      BY <2>1, <2>2, <2>3 DEF Recorded
<1> QED
    BY <1>1, SecGwInvariant, PTL

\* A tunnel or secret no command is about has in the table, its file and strongSwan one
\* and the same contents or is in none of them, since the last reload, and every
\* certificate of the table is uploaded and loaded, whatever Save, WriteFile or strongSwan
\* refused and whenever it restarted; but for names a failure or an overlap has split.
THEOREM AlwaysServedAsConfigured == Spec => []ServedAsConfigured
<1>1. SecInv => ServedAsConfigured
  <2> SUFFICES ASSUME SecInv PROVE ServedAsConfigured
      OBVIOUS
  <2>1. ASSUME NEW t \in Filed, NEW n, n \notin Busy(t), NEW d, NEW at
        PROVE  ~Stands(d, t, n, at)
    <3>1. SUFFICES ASSUME Stands(d, t, n, at) PROVE FALSE
          OBVIOUS
    <3>2. n \in About(d) /\ d \in On(t)
          BY <3>1, WorksIsAbout DEF Stands, Past, Doing, On
    <3> QED
        BY <3>2, <2>1 DEF Busy
  <2>2. ASSUME NEW t \in Filed, NEW n \in SecNames \ Busy(t), <<"file", t, n>> \notin doubt
        PROVE  FilesOf(t, n) = RowsNamed(t, n)
    <3>1. FileAt(t, n)
          BY <2>2 DEF SecInv, ConfigInv, FileInv, Split
    <3> QED
        BY <3>1, <2>1, <2>2 DEF FileAt
  <2>3. "conns" \in Filed /\ "secrets" \in Filed
        BY DEF Filed
  <2>4. ASSUME NEW n \in SecNames \ Busy("conns"), charon.loaded, <<"charon", "conns", n>> \notin doubt
        PROVE  TunnelsOf(n) = FilesOf("conns", n)
    <3>1. TunnelAt(n)
          BY <2>4 DEF SecInv, ConfigInv, LoadedInv, Parted
    <3> QED
        BY <3>1, <2>1, <2>3, <2>4 DEF TunnelAt
  <2>5. ASSUME NEW n \in SecNames \ Busy("secrets"), charon.loaded, <<"charon", "secrets", n>> \notin doubt
        PROVE  \A r \in FilesOf("secrets", n) : Shared(r) \in SecretsOf(n)
    <3>1. SecretAt(n)
          BY <2>5 DEF SecInv, ConfigInv, LoadedInv, Parted
    <3> QED
        BY <3>1, <2>1, <2>3, <2>5 DEF SecretAt
  <2>6. \A r \in SecRowsOf("certs") : CertServed(r)
        BY DEF SecInv, ConfigInv, CertInv
  <2>7. \A t \in Filed : t = "conns" \/ t = "secrets"
        BY DEF Filed
  <2>8. ASSUME NEW t \in Filed, NEW n \in SecNames \ Busy(t)
        PROVE  /\ <<"file", t, n>> \notin doubt => FilesOf(t, n) = RowsNamed(t, n)
               /\ charon.loaded /\ <<"charon", t, n>> \notin doubt =>
                    IF t = "conns" THEN TunnelsOf(n) = FilesOf(t, n)
                    ELSE \A r \in FilesOf(t, n) : Shared(r) \in SecretsOf(n)
    <3>1. CASE t = "conns"
          BY <3>1, <2>2, <2>4, <2>8
    <3>2. CASE t = "secrets"
          BY <3>2, <2>2, <2>5, <2>8
    <3> QED
        BY <3>1, <3>2, <2>7
  <2> QED
      BY <2>6, <2>8 DEF ServedAsConfigured, FilesOf, RowsNamed, TunnelsOf, SecretsOf, CertServed
<1> QED
    BY <1>1, SecGwInvariant, PTL
=============================================================================
