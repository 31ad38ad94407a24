-------------------------------- MODULE Lines --------------------------------
(***************************************************************************)
(* The requests that build and take down lines.  Threads of the web server *)
(* work on them side by side; a request commits several transactions, and  *)
(* decides by what it read in the earlier ones.                            *)
(***************************************************************************)
EXTENDS Routing

CONSTANTS
    Threads,        \* threads of the web server that serve requests
    Offered,        \* bound: the requests made, by name ...
    MaxRequests,    \* ... how many one after the other ...
    MaxCrossing,    \* ... and how many once two have been under way at once
    AutoIvrAbove,   \* extensions beyond which flows gain a menu; 5 in the code
    Designs(_, _),  \* flows a customer draws for a number, of two keys
    DeskDesigns(_, _)

Requests == {"extension", "number", "delete", "route", "flow", "group", "device", "defaults"}
ASSUME LinesAssumption ==
    /\ Offered \subseteq Requests /\ MaxRequests \in Nat /\ MaxCrossing \in 0..MaxRequests
    /\ AutoIvrAbove \in Nat
    /\ Cardinality(Digits) >= 2 /\ MaxRows >= 4 /\ MaxLines >= 1      \* what there is at first
    /\ \A k, l \in Key : Designs(k, l) \cup DeskDesigns(k, l) \subseteq Seq(Node)

VARIABLES
    jobs,       \* thread -> what is left to do of its request
    asked,      \* requests made
    crossed,    \* history: two requests have been under way at once
    answer      \* what the step just taken answered: [ok, line it provisioned]

vars == <<tables, jobs, asked, crossed, answer>>

Silent  == [ok |-> TRUE, line |-> 0]
Idle    == [op |-> "idle"]
Switches == {[active |-> TRUE, mail |-> TRUE], [active |-> FALSE, mail |-> FALSE]}
Owner   == Accounts \cup {0}

\* A customer with a provisioned number and a second extension on it, and one
\* whose only extension, the member of a group, waits for its first number;
\* the platform has an extension of its own.
Init ==
    LET a     == Min(Accounts)
        b     == Max(Accounts)
        first == [digits |-> Min(Digits), line |-> Min(Numbers)]
        next  == [first EXCEPT !.digits = Max(Digits)]
        bare  == [first EXCEPT !.line = 0]
        desk  == [next EXCEPT !.line = 0]
        Row(k, o) == [digits |-> k.digits, line |-> IF k.line = 0 THEN 0 ELSE 1, owner |-> o,
                      active |-> TRUE, mail |-> FALSE]
    IN  /\ numbers = [n \in {Min(Numbers)} |-> [id |-> 1, owner |-> a, link |-> first, dflt |-> TRUE, active |-> TRUE]]
        /\ exts = <<Row(first, a), Row(next, a), Row(bare, b), Row(desk, 0)>>
        /\ routes = [n \in {Min(Numbers)} |-> [owner |-> a, nodes |-> DefaultNumberRoute(<<first, next>>, <<>>)]]
        /\ flows = {[owner |-> f[1], target |-> f[2], nodes |-> DefaultExtensionRoute(f[2], FALSE)] :
                      f \in {<<a, first>>, <<a, next>>, <<b, bare>>}}
        /\ groups = [o \in Accounts |-> IF o = b THEN <<bare>> ELSE <<>>]
        /\ devices = {}
        /\ defaults = [o \in Accounts |-> [outbound |-> NoKey, fallback |-> NoKey]]
        /\ made = [exts |-> 4, lines |-> 1]
        /\ jobs = [w \in Threads |-> Idle] /\ asked = 0 /\ crossed = FALSE /\ answer = Silent

Ask(w, r)  ==
    /\ r \in Offered /\ jobs[w] = Idle
    /\ crossed' = (crossed \/ \E v \in Threads : jobs[v] # Idle)
    /\ asked < IF crossed' THEN MaxCrossing ELSE MaxRequests
    /\ asked' = asked + 1
    /\ answer' = Silent
Simple(w, r) == Ask(w, r) /\ UNCHANGED jobs
Goes(w, j) == jobs' = [jobs EXCEPT ![w] = j]
Then(w, j) == Goes(w, j) /\ answer' = Silent /\ UNCHANGED <<asked, crossed>>
Provides(w, j, n) == Goes(w, j) /\ answer' = [ok |-> TRUE, line |-> n] /\ UNCHANGED <<asked, crossed>>
Ends(w, ok) == Goes(w, Idle) /\ answer' = [ok |-> ok, line |-> 0] /\ UNCHANGED <<asked, crossed>>

\* The tables' own rules: one row per number and digits, and the platform's
\* extensions without a number have digits of their own.
UniqueRow(i, d, line, o) ==
    \A j \in DOMAIN exts \ {i} :
        exts[j].digits = d /\ exts[j].line = line => line = 0 /\ (o # 0 \/ exts[j].owner # 0)

-----------------------------------------------------------------------------
(* save_extension.                                                         *)

\* The row a request means; 0 for a new one.
Existing(o, d, n, reassign) ==
    LET held == {i \in WithDigits(d, 0) : LineOf(i) = 0 /\ exts[i].owner # o}
    IN  IF n # 0 THEN ResolveExtension(n, d, o)
        ELSE IF WithDigits(d, o) # {} THEN Only(WithDigits(d, o))
        ELSE IF o # 0 /\ reassign /\ held # {} THEN Min(held) ELSE 0
MayName(o, d, n, reassign) ==
    IF n # 0 THEN n \in DOMAIN numbers /\ numbers[n].owner \in {0, o}
    ELSE /\ Cardinality(WithDigits(d, o)) <= 1
         /\ WithDigits(d, o) = {} /\ o # 0 =>
              /\ reassign \/ \A i \in WithDigits(d, 0) : LineOf(i) # 0
              /\ \A i \in Listed(o) : LineOf(i) = 0

WriteJob(o, d, n, reassign, sw, prov) ==
    [op |-> "write extension", o |-> o, d |-> d, n |-> n, re |-> reassign, sw |-> sw,
     id |-> Existing(o, d, n, reassign), line |-> IF n = 0 THEN 0 ELSE numbers[n].id, prov |-> prov]

\* POST /extensions names an existing row by its key; a request that names
\* neither a number nor a row asks for an extension without a number.
SaveExtension(w) ==
    Ask(w, "extension") /\ \E o \in Owner, d \in Digits, n \in Numbers \cup {0}, re \in BOOLEAN, sw \in Switches :
        LET known == ExtensionKeyForDigits(d, o).line
            m     == IF n = 0 THEN known ELSE n
        IN  /\ MayName(o, d, m, re)
            /\ Goes(w, WriteJob(o, d, m, re, sw, FALSE)) /\ UNCHANGED tables

\* POST /numbers/<number>/extensions.
AddExtension(w) ==
    Ask(w, "extension") /\ \E n \in DOMAIN numbers, d \in Digits :
        LET o == numbers[n].owner
        IN  /\ o # 0 /\ d \notin {exts[i].digits : i \in OnNumber(o, n)}
            /\ Goes(w, WriteJob(o, d, n, FALSE, [active |-> TRUE, mail |-> FALSE], FALSE))
            /\ UNCHANGED tables

WriteExtension(w) ==
    LET j       == jobs[w]
        created == j.id \notin DOMAIN exts
        i       == IF created THEN made.exts + 1 ELSE j.id
        owner   == IF j.o # 0 \/ created \/ j.re THEN j.o ELSE exts[i].owner
        allowed == /\ ~created =>
                        /\ exts[i].owner # 0 /\ exts[i].owner # owner => j.re
                        /\ exts[i].line # j.line /\ j.line # 0 =>
                             \A k \in DOMAIN exts : ~(exts[k].digits = j.d /\ exts[k].line = j.line)
                   /\ UniqueRow(i, j.d, j.line, owner)
        row     == [digits |-> j.d, line |-> j.line, owner |-> owner,
                    active |-> j.sw.active, mail |-> j.sw.mail]
    IN  /\ j.op = "write extension"
        /\ IF ~allowed THEN Ends(w, FALSE) /\ UNCHANGED tables
           ELSE /\ i <= MaxRows
                /\ exts' = Put(exts, i, row)
                /\ made' = [made EXCEPT !.exts = IF created THEN i ELSE @]
                /\ Then(w, [op |-> "extension flows", key |-> [digits |-> j.d, line |-> j.n], o |-> owner,
                            joins |-> created /\ owner # 0 /\ row.active, mail |-> row.mail,
                            next |-> CASE j.prov -> "link" [] ~j.prov /\ j.id = 0 /\ owner # 0 -> "menus" [] OTHER -> "end"])
                /\ UNCHANGED <<numbers, routes, flows, groups, devices, defaults>>

\* A new extension gets a flow of its own and joins its number's flow; what
\* another request has made invalid meanwhile is refused.
ExtensionFlows(w) ==
    LET j       == jobs[w]
        edits   == IF j.joins THEN SyncPrimary(routes, j.o, j.key) ELSE <<>>
        gone    == j.joins /\ ~HasFlow(j.o, j.key) /\ j.key \notin KeysOf(j.o)
        refused == gone \/ \E n \in DOMAIN edits : ~MayStoreRoute(j.o, n, edits[n])
    IN  /\ j.op = "extension flows"
        /\ flows'  = IF j.joins /\ ~gone THEN EnsureFlow(flows, j.o, j.key, j.mail) ELSE flows
        /\ routes' = IF refused THEN routes ELSE StoredRoutes(routes, j.o, edits, DOMAIN edits)
        /\ IF refused \/ j.next = "end" THEN Ends(w, ~refused)
           ELSE Then(w, [op |-> j.next, o |-> j.o, n |-> j.key.line, d |-> j.key.digits])
        /\ UNCHANGED <<numbers, exts, groups, devices, defaults, made>>

\* Edits saved one by one, in whatever order the names sort, until the first
\* that is refused.
Prefix(all, refused, S) == IF refused = {} THEN S = all ELSE S \subseteq all \ refused

\* sync_auto_ivr, after an extension was created or a flow was saved.
Menus(w) ==
    LET j       == jobs[w]
        edits   == AutoIvr(routes, j.o, AutoIvrAbove)
        refused == {n \in DOMAIN edits : ~MayStoreRoute(j.o, n, edits[n])}
    IN  /\ j.op = "menus"
        /\ \E S \in SUBSET DOMAIN edits :
             Prefix(DOMAIN edits, refused, S) /\ routes' = StoredRoutes(routes, j.o, edits, S)
        /\ Ends(w, refused = {})
        /\ UNCHANGED <<numbers, exts, flows, groups, devices, defaults, made>>

-----------------------------------------------------------------------------
(* delete_extension.                                                       *)

LinkIs(link, k) == link = k \/ (link # NoKey /\ link.line = 0 /\ link.digits = k.digits)

DeleteExtension(w) ==
    Ask(w, "delete") /\ \E o \in Owner, d \in Digits, n \in Numbers \cup {0} :
        LET k == ResolveRequested([digits |-> d, line |-> n], o)
            i == ExtensionRow(k)
        IN  /\ k # NoKey /\ i # 0
            /\ o = 0 \/ exts[i].owner = o
            /\ \A m \in DOMAIN numbers : ~LinkIs(numbers[m].link, k)
            /\ ~IsCallDefault(k)
            /\ Goes(w, [op |-> "drop extension", id |-> i, key |-> k]) /\ UNCHANGED tables

Forget(k) ==
    /\ groups' = [a \in Accounts |-> Without(groups[a], k)]
    /\ flows'  = {f \in flows : f.target # k}

DropExtension(w) ==
    LET j == jobs[w]
    IN  /\ j.op = "drop extension"
        /\ exts' = Restrict(exts, DOMAIN exts \ {j.id})
        /\ devices' = {IF v.ext = [digits |-> j.key.digits, line |-> 0] THEN [v EXCEPT !.ext = NoKey] ELSE v
                         : v \in devices}
        /\ Forget(j.key)
        /\ Ends(w, TRUE)
        /\ UNCHANGED <<numbers, routes, defaults, made>>

-----------------------------------------------------------------------------
(* save_number.                                                            *)

\* The digits' row on this number, else the one row without a number.
Linked(n, o, d) ==
    LET onLine == ResolveExtension(n, d, o)
    IN  IF onLine # 0 THEN onLine ELSE Only({i \in WithDigits(d, o) : LineOf(i) = 0 /\ exts[i].active
                                                                     /\ (o # 0 \/ exts[i].owner = 0)})
MayLink(n, o, d) ==
    LET i == Linked(n, o, d)
    IN  d # 0 /\ i # 0 =>
          /\ exts[i].active /\ exts[i].owner \in {0, o}
          /\ LineOf(i) = 0 /\ n \in DOMAIN numbers =>
               \A k \in DOMAIN exts : ~(exts[k].digits = d /\ exts[k].line = numbers[n].id)
\* Mutant: the link is stored as digits.
NumberJobDigits(n, o, d, dflt, active, prov) ==
    LET i == Linked(n, o, d)
    IN  [op |-> "write number", n |-> n, o |-> o, d |-> d, dflt |-> dflt, active |-> active, prov |-> prov,
         link |-> [digits |-> d, line |-> 0],
         claim |-> IF d # 0 /\ i # 0 /\ LineOf(i) = 0 THEN i ELSE 0]
NumberJob(n, o, d, dflt, active, prov) ==
    LET i == Linked(n, o, d)
    IN  [op |-> "write number", n |-> n, o |-> o, d |-> d, dflt |-> dflt, active |-> active, prov |-> prov,
         link |-> CASE d = 0 -> NoKey [] d # 0 /\ i # 0 -> KeyOf(i) [] OTHER -> [digits |-> d, line |-> n],
         claim |-> IF d # 0 /\ i # 0 /\ LineOf(i) = 0 THEN i ELSE 0]

\* Bound: a link is asked for with its default flag only.
SaveNumber(w) ==
    Ask(w, "number") /\ \E n \in Numbers, o \in Owner, d \in Digits \cup {0}, dflt \in BOOLEAN, prov \in {"no", "auto"} :
        /\ dflt = (d # 0)
        /\ prov = "auto" => o # 0 /\ d = 0
        /\ MayLink(n, o, d)
        /\ Goes(w, NumberJob(n, o, d, dflt, TRUE, prov)) /\ UNCHANGED tables

WriteNumber(w) ==
    LET j       == jobs[w]
        cleared == [m \in DOMAIN numbers |-> [numbers[m] EXCEPT !.dflt = @ /\ ~(j.dflt /\ numbers[m].link = j.link)]]
        fresh   == j.n \notin DOMAIN numbers
        id      == IF fresh THEN made.lines + 1 ELSE numbers[j.n].id
    IN  /\ j.op = "write number" /\ id <= MaxLines
        /\ numbers' = Put(cleared, j.n, [id |-> id, owner |-> j.o, link |-> j.link, dflt |-> j.dflt,
                                         active |-> j.active])
        /\ made' = [made EXCEPT !.lines = IF fresh THEN id ELSE @]
        /\ Then(w, [op |-> IF j.claim = 0 THEN "adopt" ELSE "claim",
                   n |-> j.n, o |-> j.o, d |-> j.d, claim |-> j.claim, prov |-> j.prov])
        /\ UNCHANGED <<exts, routes, flows, groups, devices, defaults>>

\* References follow extensions to their number, read with the rows that moved:
\* flows of numbers, flows of desks, then groups, each saved by the request
\* that validates it.  The first that is refused ends the rewriting there, in
\* whatever order the names sort.  A desk's flow is stored under the key its
\* target means now; the row that named the digits stays.
Remap(ok) ==
    \E rs \in {routes}, fs \in {flows}, gs \in {groups} :
    LET Route(n) == RemapNodes(rs[n].nodes, rs[n].owner, n)
        Desk(f)  == [owner |-> f.owner, target |-> FlowKey(f.target, f.owner, 0),
                     nodes |-> RemapNodes(f.nodes, f.owner, 0)]
        stale    == {n \in DOMAIN rs : Route(n)' # rs[n].nodes}
        refused  == {n \in stale : ~(n \in ListedNumbers(rs[n].owner) /\ ValidNodes(Route(n), rs[n].owner)')}
        desks    == {f \in fs : Desk(f).nodes' # f.nodes}
        unsaved  == {f \in desks : ~(/\ Desk(f).target \in KeysOf(f.owner)
                                     /\ ValidNodes(Desk(f).nodes, f.owner)
                                     /\ ValidDesk(Desk(f).nodes, Desk(f).target))'}
        Same(f, g) == f.owner = g.owner /\ f.target = g.target
    IN  /\ ok = (refused \cup unsaved = {})
        /\ \E S \in SUBSET stale :
             /\ Prefix(stale, refused, S)
             /\ routes' = [n \in DOMAIN rs |-> IF n \in S THEN [rs[n] EXCEPT !.nodes = Route(n)'] ELSE rs[n]]
        /\ \E F \in SUBSET desks :
             /\ IF refused # {} THEN F = {} ELSE Prefix(desks, unsaved, F)
             /\ flows' = {f \in fs : \A g \in F : ~Same(f, Desk(g)')}
                          \cup {Desk(g)' : g \in {x \in F : \A h \in F \ {x} : ~Same(h, Desk(x)')}}
        /\ groups' = IF ~ok THEN gs
                      ELSE [a \in Accounts |-> [x \in DOMAIN gs[a] |-> Remapped(gs[a][x], a, 0)']]

\* Mutant: an extension that is switched off does not hold its digits.
TakenByActive(d, line) == \E i \in DOMAIN exts : exts[i].digits = d /\ exts[i].line = line /\ exts[i].active
Taken(d, line) == \E i \in DOMAIN exts : exts[i].digits = d /\ exts[i].line = line
\* The row j moves to line, and the references after it.
Move(w, rows, line, next) ==
    LET moved == [i \in DOMAIN exts |-> IF i \in rows THEN [exts[i] EXCEPT !.line = line] ELSE exts[i]]
    IN  /\ exts' = moved
        /\ \E ok \in BOOLEAN : Remap(ok) /\ IF ok THEN next ELSE Ends(w, FALSE)
Here(n) == IF n \in DOMAIN numbers THEN numbers[n].id ELSE 0

\* The row the link names comes to the number.
Claim(w) ==
    LET j    == jobs[w]
        next == Then(w, [j EXCEPT !.op = "adopt"])
    IN  /\ j.op = "claim" /\ UNCHANGED <<numbers, devices, defaults, made>>
        /\ IF j.claim \notin DOMAIN exts \/ Here(j.n) = 0 THEN Ends(w, FALSE) /\ UNCHANGED <<exts, routes, flows, groups>>
           ELSE IF exts[j.claim].line = Here(j.n) THEN next /\ UNCHANGED <<exts, routes, flows, groups>>
           ELSE IF Taken(exts[j.claim].digits, Here(j.n)) THEN Ends(w, FALSE) /\ UNCHANGED <<exts, routes, flows, groups>>
           ELSE Move(w, {j.claim}, Here(j.n), next)

\* The account's first number takes its rows without one, each digits once.
Adopt(w) ==
    LET j     == jobs[w]
        lines == {numbers[m].id : m \in {m \in DOMAIN numbers : numbers[m].owner = j.o}}
        loose == {i \in DOMAIN exts : exts[i].line = 0 /\ exts[i].owner = j.o}
        rows  == IF j.o = 0 \/ lines = {} \/ Here(j.n) # Min(lines) THEN {}
                 ELSE {i \in loose : /\ ~Taken(exts[i].digits, Here(j.n))
                                     /\ \A k \in loose : exts[k].digits = exts[i].digits => k >= i}
        next  == CASE j.prov = "no"   -> Ends(w, TRUE)
                   [] j.prov = "auto" -> Then(w, [op |-> "provision", n |-> j.n, o |-> j.o])
                   [] j.prov = "link" -> Then(w, [op |-> "provision default", n |-> j.n, o |-> j.o, d |-> j.d])
    IN  /\ j.op = "adopt" /\ UNCHANGED <<numbers, devices, defaults, made>>
        /\ IF rows = {} THEN next /\ UNCHANGED <<exts, routes, flows, groups>>
           ELSE Move(w, rows, Here(j.n), next)

\* A customer gives a number up for a day; that day, whatever lists the
\* numbers next retires it.  Asked for and come are one step here.
Discontinue(w) ==
    Simple(w, "number") /\ \E n \in DOMAIN numbers :
        /\ numbers[n].active /\ numbers[n].owner # 0
        /\ numbers' = [numbers EXCEPT ![n].active = FALSE]
        /\ UNCHANGED <<exts, routes, flows, groups, devices, defaults, made>>

-----------------------------------------------------------------------------
(* delete_number takes the number's extensions down one by one.            *)

DeleteNumber(w) ==
    Ask(w, "delete") /\ \E n \in DOMAIN numbers :
        /\ numbers' = Restrict(numbers, DOMAIN numbers \ {n})
        /\ routes'  = Restrict(routes, DOMAIN routes \ {n})
        /\ Goes(w, [op |-> "take down", n |-> n, left |-> OnNumber(0, n),
                    key |-> [i \in OnNumber(0, n) |-> KeyOf(i)]])
        /\ UNCHANGED <<exts, flows, groups, devices, defaults, made>>

\* A row another number's link or a call default still names is left.
TakeDown(w) ==
    LET j == jobs[w]
        i == Min(j.left)
        k == j.key[i]
        linked  == \E m \in DOMAIN numbers : numbers[m].link = k
        dropped == DropFromDefaults(defaults, k)
        bare    == \E a \in Accounts : \E d \in {dropped[a].outbound, dropped[a].fallback} :
                     d = [k EXCEPT !.line = 0] /\ \E x \in WithDigits(k.digits, 0) : exts[x].line = 0
    IN  /\ j.op = "take down" /\ j.left # {}
        /\ Then(w, [j EXCEPT !.left = @ \ {i}])
        /\ IF linked THEN UNCHANGED <<devices, defaults, exts, groups, flows>>
           ELSE /\ devices' = {v \in devices : v.ext # k /\ ~(v.ext = [k EXCEPT !.line = 0] /\ v.number = j.n)}
                /\ defaults' = dropped
                /\ IF bare \/ i \notin DOMAIN exts THEN UNCHANGED <<exts, groups, flows>>
                   ELSE exts' = Restrict(exts, DOMAIN exts \ {i}) /\ Forget(k)
        /\ UNCHANGED <<numbers, routes, made>>

\* Mutant: rows left on the number are not released.
ReleaseNothing(w) ==
    /\ jobs[w].op = "take down" /\ jobs[w].left = {}
    /\ Ends(w, TRUE)
    /\ UNCHANGED tables
Release(w) ==
    /\ jobs[w].op = "take down" /\ jobs[w].left = {}
    /\ exts' = [i \in DOMAIN exts |-> IF LineOf(i) = 0 THEN [exts[i] EXCEPT !.line = 0] ELSE exts[i]]
    /\ Ends(w, TRUE)
    /\ UNCHANGED <<numbers, routes, flows, groups, devices, defaults, made>>

-----------------------------------------------------------------------------
(* provision_number: an extension, its flow, the link, the default caller  *)
(* ID and the number's flow, by the requests above.                        *)

\* The number the calls of k's account present (set_default_outbound_number).
MayPresent(k, n) ==
    LET i == ExtensionRow(k)
    IN  /\ i # 0 /\ n \in DOMAIN numbers
        /\ numbers[n].active /\ numbers[n].owner = exts[i].owner
        /\ LineOf(i) \in {0, n}
Presenting(k, n) ==
    [m \in DOMAIN numbers |->
       [numbers[m] EXCEPT !.dflt = m = n \/ (@ /\ numbers[m].owner # exts[ExtensionRow(k)].owner)]]

Provision(w) ==
    LET j == jobs[w]
    IN  /\ j.op = "provision"
        /\ IF j.n \in ListedNumbers(j.o) /\ numbers[j.n].link = NoKey /\ FreeDigits(j.n) # 0
           THEN Then(w, WriteJob(j.o, FreeDigits(j.n), j.n, FALSE, [active |-> TRUE, mail |-> FALSE], TRUE))
           ELSE Ends(w, FALSE)
        /\ UNCHANGED tables

ProvisionLink(w) ==
    LET j == jobs[w]
    IN  /\ j.op = "link"
        /\ IF MayLink(j.n, j.o, j.d) THEN Then(w, NumberJob(j.n, j.o, j.d, FALSE, TRUE, "link")) ELSE Ends(w, FALSE)
        /\ UNCHANGED tables

\* The account's first number is what its calls present.
ProvisionDefault(w) ==
    LET j    == jobs[w]
        k    == [digits |-> j.d, line |-> j.n]
        next == Then(w, [j EXCEPT !.op = "provision route"])
    IN  /\ j.op = "provision default"
        /\ IF \E m \in ListedNumbers(j.o) : numbers[m].dflt THEN next /\ UNCHANGED numbers
           ELSE IF MayPresent(k, j.n) THEN next /\ numbers' = Presenting(k, j.n)
           ELSE Ends(w, FALSE) /\ UNCHANGED numbers
        /\ UNCHANGED <<exts, routes, flows, groups, devices, defaults, made>>

ProvisionRoute(w) ==
    LET j     == jobs[w]
        ks    == LineDevices(j.o, j.n)
        nodes == DefaultNumberRoute(IF ks = <<>> THEN <<[digits |-> j.d, line |-> j.n]>> ELSE ks, <<>>)
    IN  /\ j.op = "provision route"
        /\ IF MayStoreRoute(j.o, j.n, nodes)
           THEN routes' = StoredRoute(routes, j.o, j.n, nodes) /\ Then(w, [j EXCEPT !.op = "provision desk"])
           ELSE Ends(w, FALSE) /\ UNCHANGED routes
        /\ UNCHANGED <<numbers, exts, flows, groups, devices, defaults, made>>

ProvisionDesk(w) ==
    LET j    == jobs[w]
        k    == [digits |-> j.d, line |-> j.n]
        mail == \E i \in DOMAIN exts : i = ExtensionRow(k) /\ exts[i].mail
    IN  /\ j.op = "provision desk"
        /\ IF HasFlow(j.o, k) \/ k \in KeysOf(j.o)
           THEN flows' = EnsureFlow(flows, j.o, k, mail) /\ Provides(w, [op |-> "menus", o |-> j.o], j.n)
           ELSE Ends(w, FALSE) /\ UNCHANGED flows
        /\ UNCHANGED <<numbers, exts, routes, groups, devices, defaults, made>>

-----------------------------------------------------------------------------
(* Flows, groups, devices and defaults a customer saves.                   *)

SaveCallRoute(w) ==
    Ask(w, "route") /\ \E o \in Accounts, n \in Numbers : \E k, l \in KeysOf(o) : \E drawn \in Designs(k, l) :
        LET nodes == FlowNodes(drawn, o, n)
        IN  /\ MayStoreRoute(o, n, nodes)
            /\ Goes(w, [op |-> "menus", o |-> o])
            /\ routes' = StoredRoute(routes, o, n, nodes)
            /\ UNCHANGED <<numbers, exts, flows, groups, devices, defaults, made>>

SaveRoutingFlow(w) ==
    Ask(w, "flow") /\ \E o \in Accounts : \E k, l \in KeysOf(o) : \E drawn \in DeskDesigns(k, l), chosen \in SUBSET ListedNumbers(o) :
        LET nodes == FlowNodes(drawn, o, 0)
            edits == RingSources(routes, o, k, chosen)
        IN  /\ ValidNodes(nodes, o) /\ ValidDesk(nodes, k)
            /\ \A n \in chosen : numbers[n].active
            /\ \A n \in DOMAIN edits : MayStoreRoute(o, n, edits[n])
            /\ Goes(w, [op |-> "menus", o |-> o])
            /\ flows'  = StoredFlow(flows, o, k, nodes)
            /\ routes' = StoredRoutes(routes, o, edits, DOMAIN edits)
            /\ UNCHANGED <<numbers, exts, groups, devices, defaults, made>>

DeleteRoutingFlow(w) ==
    Simple(w, "flow") /\ \E f \in flows :
        /\ flows' = flows \ {f}
        /\ UNCHANGED <<numbers, exts, routes, groups, devices, defaults, made>>

SaveGroup(w) ==
    Simple(w, "group") /\ \E o \in Accounts : \E ks \in SUBSET KeysOf(o) :
        /\ groups' = [groups EXCEPT ![o] = Sorted(ks)]
        /\ UNCHANGED <<numbers, exts, routes, flows, devices, defaults, made>>

\* A device names an extension of its account, on its own number.
SaveDevice(w) ==
    Simple(w, "device") /\ \E o \in Accounts : \E k \in KeysOf(o) : \E n \in ListedNumbers(o) \cup {0} :
        /\ n = 0 \/ k.line \in {0, n}
        /\ devices' = devices \cup {[owner |-> o, number |-> n, ext |-> k]}
        /\ UNCHANGED <<numbers, exts, routes, flows, groups, defaults, made>>

\* The document of every account is read, and written back in another
\* transaction.
SetDefaults(w) ==
    Ask(w, "defaults") /\ \E o \in Accounts : \E out, fall \in ActiveKeys(o) \cup {NoKey} :
        /\ Goes(w, [op |-> "write defaults", o |-> o, doc |-> [defaults EXCEPT ![o] = [outbound |-> out, fallback |-> fall]]])
        /\ UNCHANGED tables
WriteDefaults(w) ==
    /\ jobs[w].op = "write defaults"
    /\ defaults' = jobs[w].doc
    /\ Ends(w, TRUE)
    /\ UNCHANGED <<numbers, exts, routes, flows, groups, devices, made>>

SetDefaultOutbound(w) ==
    Simple(w, "defaults") /\ \E k \in KeysOf(0), n \in DOMAIN numbers :
        /\ MayPresent(k, n)
        /\ numbers' = Presenting(k, n)
        /\ UNCHANGED <<exts, routes, flows, groups, devices, defaults, made>>

Next ==
    \E w \in Threads :
         \/ SaveExtension(w) \/ AddExtension(w) \/ WriteExtension(w) \/ ExtensionFlows(w) \/ Menus(w)
         \/ DeleteExtension(w) \/ DropExtension(w)
         \/ Discontinue(w) \/ SaveNumber(w) \/ WriteNumber(w) \/ Claim(w) \/ Adopt(w)
         \/ DeleteNumber(w) \/ TakeDown(w) \/ Release(w)
         \/ Provision(w) \/ ProvisionLink(w)
         \/ ProvisionDefault(w) \/ ProvisionRoute(w) \/ ProvisionDesk(w)
         \/ SaveCallRoute(w) \/ SaveRoutingFlow(w) \/ DeleteRoutingFlow(w) \/ SaveGroup(w)
         \/ SaveDevice(w) \/ SetDefaults(w) \/ WriteDefaults(w) \/ SetDefaultOutbound(w)

Spec == Init /\ [][Next]_vars

-----------------------------------------------------------------------------
(* Properties.                                                             *)

Job == {"idle", "write extension", "extension flows", "menus", "drop extension", "write number", "claim", "adopt",
        "take down", "provision", "link", "provision default", "provision route", "provision desk",
        "write defaults"}

\* Digits mean one device on a number, and adoption never relies on the
\* table's own rule to keep it so (_adopt_unassigned_extensions,
\* _assign_extension_to_number).
OneDeviceEach ==
    \A i, j \in DOMAIN exts :
        exts[i].digits = exts[j].digits /\ exts[i].line = exts[j].line /\ exts[i].line # 0 => i = j

\* The tables hold rows of their columns' types and keep their unique index.
TypeOK ==
    /\ OneDeviceEach
    /\ made \in [exts : 0..MaxRows, lines : 0..MaxLines]
    /\ DOMAIN numbers \subseteq Numbers
    /\ numbers \in [DOMAIN numbers ->
         [id : 1..made.lines, owner : Owner, link : Key, dflt : BOOLEAN, active : BOOLEAN]]
    /\ DOMAIN exts \subseteq 1..made.exts
    /\ exts \in [DOMAIN exts ->
         [digits : Digits, line : 0..made.lines, owner : Owner, active : BOOLEAN, mail : BOOLEAN]]
    /\ DOMAIN routes \subseteq Numbers
    /\ routes \in [DOMAIN routes -> [owner : Accounts, nodes : Seq(Node)]]
    /\ \A f \in flows : f \in [owner : Accounts, target : Key, nodes : Seq(Node)]
    /\ groups \in [Accounts -> Seq(Key)]
    /\ devices \subseteq [owner : Accounts, number : Numbers \cup {0}, ext : Key]
    /\ defaults \in [Accounts -> [outbound : Key, fallback : Key]]
    /\ DOMAIN jobs = Threads /\ \A w \in Threads : jobs[w].op \in Job
    /\ asked \in 0..MaxRequests /\ answer.ok \in BOOLEAN /\ crossed \in BOOLEAN

Quiet == \A w \in Threads : jobs[w] = Idle

\* A call to a customer's number rings that customer's extensions and no
\* other's, whatever the flow, the menu and the desks' flows were saved as,
\* and whoever has owned the rows since (inbound_plan).
PlanRingsOwn ==
    \A n \in DOMAIN numbers, open \in BOOLEAN :
        numbers[n].owner # 0 => Rings(InboundPlan(n, open)) \subseteq KeysOf(numbers[n].owner)

\* Between requests no extension is on a number that is gone, so no later
\* number can inherit one (_release_dangling_extensions).
NoDangling ==
    Quiet /\ ~crossed => \A i \in DOMAIN exts : exts[i].line \in {0} \cup {numbers[n].id : n \in DOMAIN numbers}

\* The rows a flow rings.
RowsOf(keys, o) == {i \in Listed(o) : KeyOf(i) \in ToSet(keys)}
Rung(n) == RowsOf(Named(OfType(routes[n].nodes, Ringing)), routes[n].owner)
\* An extension that gets its number keeps its place in the flows and groups
\* that name it: the reference follows it (remap_extension_references).
ReferencesFollow ==
    [][(\E w \in Threads : jobs[w].op \in {"claim", "adopt"} /\ jobs'[w] # jobs[w]) /\ answer'.ok
         => /\ \A n \in DOMAIN routes : n \in DOMAIN routes' => Rung(n) \subseteq Rung(n)'
            /\ \A a \in Accounts : RowsOf(groups[a], a) \subseteq RowsOf(groups[a], a)']_vars

\* Moving extensions to a number rewrites what names them by digits; a desk's
\* flow that names keys stays as its customer saved it.
FlowEditsKept ==
    [][(\E w \in Threads : jobs[w].op \in {"claim", "adopt"} /\ jobs'[w] # jobs[w])
         => \A f \in flows : (\A k \in {f.target} \cup ToSet(Named(f.nodes)) : k.line # 0) => f \in flows']_vars

\* A provisioned number works: its link is an active extension of its owner
\* on that very number, a call to it rings that extension unless a flow saved
\* for its key has switched it off, and the account has a number to call out
\* on (provision_number).
ProvisionWhole ==
    LET n == answer.line
        k == numbers[n].link
        o == numbers[n].owner
    IN  n # 0 /\ ~crossed =>
          /\ k.line = n /\ k \in ActiveKeys(o)
          /\ k \in Rings(InboundPlan(n, TRUE)) \cup Disabled(<<k>>, o)
          /\ \E m \in ListedNumbers(o) : numbers[m].dflt
\* Stronger, and false: the flow of an extension that is gone may outlive it
\* on its key, where the provisioned one finds it (ensure_extension_flow).
ProvisionRings ==
    answer.line # 0 /\ ~crossed => numbers[answer.line].link \in Rings(InboundPlan(answer.line, TRUE))
=============================================================================
