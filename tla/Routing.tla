------------------------------- MODULE Routing -------------------------------
(***************************************************************************)
(* Call flows: what may be stored, and the plan an inbound call is given.  *)
(* A plan is computed from the tables when the call arrives; nothing keeps *)
(* the flows up to date with the extensions they name.                     *)
(***************************************************************************)
EXTENDS LineTables

Ringing == {"ring", "extension"}
Journey == {"ivr", "hours", "voicemail", "forward"}

Step(t, ks)          == [type |-> t, exts |-> ks, on |-> TRUE, rule |-> "none"]
\* What a sequence has at some of its places, in order; what of it is in S,
\* and the sequence without something.
Picked(s, places)    == FlattenSeq([x \in DOMAIN s |-> IF x \in places THEN <<s[x]>> ELSE <<>>])
Among(s, S)          == Picked(s, {x \in DOMAIN s : s[x] \in S})
Without(s, e)        == Picked(s, {x \in DOMAIN s : s[x] # e})
OfType(nodes, types) == Picked(nodes, {x \in DOMAIN nodes : nodes[x].type \in types})
SwitchedOn(nodes)    == Picked(nodes, {x \in DOMAIN nodes : nodes[x].on})
\* Each key once, in order of its first mention.
Unique(keys) == Picked(keys, {x \in DOMAIN keys : \A y \in 1..x - 1 : keys[y] # keys[x]})
Named(nodes) == FlattenSeq([x \in DOMAIN nodes |-> nodes[x].exts])

-----------------------------------------------------------------------------
(* What is stored.                                                         *)

DefaultNumberRoute(keys, mailbox) ==
    (IF keys = <<>> THEN <<>> ELSE <<Step("ring", keys)>>)
        \o (IF mailbox = <<>> THEN <<>> ELSE <<Step("voicemail", mailbox)>>)
DefaultExtensionRoute(k, mail) ==
    <<Step("extension", <<k>>)>> \o (IF mail THEN <<Step("voicemail", <<k>>)>> ELSE <<>>)

\* Digits typed into a flow mean the flow's own line, else the only holder.
FlowKey(k, o, n) ==
    LET onLine == ExtensionKeyFor(n, k.digits, o)
        single == ExtensionKeyForDigits(k.digits, o)
        found  == IF n # 0 THEN onLine ELSE single
    IN  IF k.line # 0 \/ k = NoKey \/ found = NoKey THEN k ELSE found
FlowNodes(nodes, o, n) ==
    [x \in DOMAIN nodes |-> [nodes[x] EXCEPT !.exts = [y \in DOMAIN @ |-> FlowKey(@[y], o, n)]]]

ValidNodes(nodes, o) ==
    \A x \in DOMAIN nodes :
        /\ nodes[x].type \in {"ring", "extension", "voicemail"} =>
             ToSet(nodes[x].exts) \subseteq KeysOf(o)
        /\ nodes[x].type = "ring" /\ nodes[x].on => nodes[x].exts # <<>>
        /\ nodes[x].type = "ivr" => ToSet(nodes[x].exts) \ {NoKey} \subseteq KeysOf(o)

\* A desk's flow rings, takes a message or forwards; with a no-answer rule
\* that desk is rung and exactly the step it calls for is beside it.
ValidDesk(nodes, k) ==
    LET ruled == {x \in DOMAIN nodes : nodes[x].rule # "none"}
        first == Min(ruled)
        rest  == RemoveAt(nodes, first)
    IN  /\ \A x \in DOMAIN nodes : nodes[x].type \in {"extension", "voicemail", "forward"}
        /\ ruled # {} =>
             /\ ruled = {first} /\ nodes[first].type = "extension" /\ nodes[first].exts = <<k>>
             /\ IF nodes[first].rule = "hangup" THEN rest = <<>>
                ELSE Len(rest) = 1 /\ rest[1].type = nodes[first].rule
             /\ nodes[first].rule = "extension" => rest[1].exts # <<k>>
             /\ nodes[first].rule = "voicemail" => rest[1].exts = <<k>> /\ rest[1].on

\* The flows after one is stored for an extension: one row per target.
StoredFlow(fs, o, k, nodes) ==
    {f \in fs : ~(f.owner = o /\ f.target = k)} \cup {[owner |-> o, target |-> k, nodes |-> nodes]}
HasFlow(o, k) == \E f \in flows : f.owner = o /\ f.target = k
EnsureFlow(fs, o, k, mail) ==
    IF HasFlow(o, k) THEN fs ELSE StoredFlow(fs, o, k, DefaultExtensionRoute(k, mail))

\* A number's route belongs to one account for good.
MayStoreRoute(o, n, nodes) ==
    /\ n \in ListedNumbers(o)
    /\ ValidNodes(nodes, o)
    /\ n \in DOMAIN routes => routes[n].owner = o
StoredRoute(rs, o, n, nodes) == Put(rs, n, [owner |-> o, nodes |-> nodes])

\* A number still on the flow the platform wrote rings every device on it.
Generated(nodes, ks) ==
    /\ Len(nodes) \in {1, 2} /\ nodes[1].type = "ring"
    /\ nodes[1].exts # <<>> /\ ToSet(nodes[1].exts) \subseteq ToSet(ks)
    /\ Len(nodes) = 2 => nodes[2].type = "voicemail"
SyncPrimary(rs, o, k) ==
    LET line    == IF k.line # 0 THEN k.line ELSE PrimaryNumber(o)
        ks      == LineDevices(o, line)
        extends == {n \in {line} \cap DOMAIN rs : /\ rs[n].owner = o
                                                  /\ Len(ks) >= 2 /\ Contains(ks, k)
                                                  /\ Generated(rs[n].nodes, ks)}
        mailbox == OfType(rs[line].nodes, {"voicemail"})
    IN  [n \in extends |-> FlowNodes(DefaultNumberRoute(ks, IF mailbox = <<>> THEN <<>> ELSE mailbox[1].exts), o, n)]

\* Past so many active extensions every number's flow gains a menu.
AutoIvr(rs, o, above) ==
    LET many == Cardinality({i \in Listed(o) : exts[i].active}) > above
        bare == {n \in DOMAIN rs : many /\ rs[n].owner = o /\ OfType(rs[n].nodes, {"ivr"}) = <<>>}
    IN  [n \in bare |->
          FlowNodes(OfType(rs[n].nodes, {"hours"}) \o <<Step("ivr", <<NoKey>>)>>
                      \o OfType(rs[n].nodes, Ringing \cup {"voicemail", "forward"}), o, n)]

\* Edits of an account's routes, of which those of S have been stored.
StoredRoutes(rs, o, edits, S) ==
    [n \in DOMAIN rs \cup S |-> IF n \in S THEN [owner |-> o, nodes |-> edits[n]] ELSE rs[n]]

\* Ringing a desk on other numbers edits the ring steps of those numbers.
RingSources(rs, o, k, chosen) ==
    LET mine    == {n \in ListedNumbers(o) : numbers[n].active}
        Old(n)  == IF n \in DOMAIN rs /\ rs[n].owner = o THEN rs[n].nodes
                   ELSE DefaultNumberRoute(IF numbers[n].link = NoKey THEN <<>> ELSE <<numbers[n].link>>, <<>>)
        Rings(x)   == x.type \in Ringing /\ Contains(x.exts, k)
        Spared(x)  == IF ~Rings(x) THEN x
                      ELSE [x EXCEPT !.type = "ring", !.exts = Without(@, k),
                                     !.on = @ /\ Without(x.exts, k) # <<>>]
        End(s)  == LET last == {x \in DOMAIN s : s[x].type \in {"voicemail", "forward"}}
                   IN  IF last = {} THEN Len(s) + 1 ELSE Min(last)
        New(n)  == IF n \notin chosen THEN [x \in DOMAIN Old(n) |-> Spared(Old(n)[x])]
                   ELSE IF \E x \in DOMAIN Old(n) : Rings(Old(n)[x]) /\ Old(n)[x].on THEN Old(n)
                   ELSE InsertAt(Old(n), End(Old(n)), Step("ring", <<k>>))
        changed == {n \in mine : New(n) # Old(n)}
    IN  [n \in changed |-> New(n)]

-----------------------------------------------------------------------------
(* The plan of a call.                                                     *)

VoicemailKey(n, k, o) ==
    LET own == ExtensionKeyFor(n, k.digits, o)
    IN  IF k.line = 0 /\ own # NoKey THEN own ELSE k

\* open: whether the clock is inside the flow's business hours.
PlanNodes(nodes, o, link, n, open) ==
    LET allowed == IF o = 0 THEN {} ELSE ActiveKeys(o)
        live    == SwitchedOn(nodes)
        hours   == {x \in DOMAIN live : live[x].type = "hours"}
        closed  == hours # {} /\ ~open
        awake   == IF closed THEN SubSeq(live, 1, Min(hours)) ELSE live
        rung    == Among(Unique(Named(OfType(awake, Ringing))), allowed)
        boxes   == OfType(live, {"voicemail"})
        mailbox == IF boxes = <<>> THEN NoKey ELSE VoicemailKey(n, boxes[1].exts[1], o)
        forward == OfType(live, {"forward"}) # <<>>
        bare    == rung = <<>> /\ mailbox = NoKey /\ ~forward /\ ~closed
                   /\ OfType(nodes, Ringing) = <<>> /\ link \in allowed
    IN  [kind |-> "ring", dests |-> IF bare THEN <<link>> ELSE rung, mailbox |-> mailbox,
         forward |-> forward, closed |-> closed, menu |-> {}, fallbacks |-> <<>>]

\* A desk's flow: whose row it is depends on the number's owner only.
DeskFlow(k, o) ==
    LET found == {f \in flows : f.target = k /\ (o = 0 \/ f.owner = o)}
    IN  IF found = {} THEN <<>> ELSE (CHOOSE f \in found : TRUE).nodes
OwnSteps(k, o) ==
    LET desk == DeskFlow(k, o)
    IN  Picked(desk, {x \in DOMAIN desk : desk[x].type = "extension" /\ desk[x].exts = <<k>>})

Disabled(keys, o) == {k \in ToSet(keys) : \E x \in ToSet(OwnSteps(k, o)) : ~x.on}
Fallbacks(k, o) ==
    Among(Unique(Named(OfType(DeskFlow(k, o), {"extension"}))), IF o = 0 THEN {} ELSE ActiveKeys(o) \ {k})

DeskVoicemail(n, k, o) ==
    LET key   == IF k.line # 0 \/ n = 0 THEN k ELSE ExtensionKeyFor(n, k.digits, o)
        own   == OwnSteps(key, o)
        ruled == Picked(own, {x \in DOMAIN own : own[x].rule # "none"})
        boxes == SwitchedOn(OfType(DeskFlow(key, o), {"voicemail"}))
        row   == ExtensionRow(key)
    IN  CASE ruled # <<>> /\ ruled[1].rule # "voicemail" -> NoKey
          [] boxes # <<>> -> VoicemailKey(n, boxes[1].exts[1], o)
          [] OTHER -> IF row # 0 /\ exts[row].mail /\ ruled = <<>> THEN key ELSE NoKey

\* The first desk that would ring supplies the ending the flow leaves open.
ApplyDeskHandling(plan, keys, n, o) ==
    LET first  == IF keys = <<>> THEN NoKey ELSE keys[1]
        silent == plan.mailbox = NoKey /\ ~plan.forward
        box    == IF silent /\ first # NoKey THEN DeskVoicemail(n, first, o) ELSE plan.mailbox
    IN  [plan EXCEPT !.dests   = Among(@, ToSet(@) \ Disabled(keys, o)),
                     !.mailbox = box,
                     !.forward = @ \/ (silent /\ box = NoKey /\ OfType(DeskFlow(first, o), {"forward"}) # <<>>),
                     !.fallbacks = Fallbacks(first, o)]

\* The menu offers this number's extensions; its single keys may name others.
IvrPlan(ivr, nodes, o, link, n, open) ==
    LET rest  == Without(nodes, ivr)
        menu  == {KeyOf(i) : i \in {j \in OnNumber(o, n) : exts[j].active}}
        keyed == {k \in ToSet(Tail(ivr.exts)) : k \in ActiveKeys(o)}
        last  == Among(<<ivr.exts[1]>>, ActiveKeys(o))
    IN  [PlanNodes(rest, o, link, n, open) EXCEPT !.kind = "ivr", !.menu = menu \cup keyed, !.fallbacks = last]

InboundPlan(n, open) ==
    LET row    == numbers[n]
        o      == row.owner
        stored == n \in DOMAIN routes /\ o # 0 /\ routes[n].owner = o
        linked == IF row.link = NoKey THEN NoKey ELSE ExtensionKeyFor(n, row.link.digits, o)
        keys   == IF linked = NoKey THEN <<>> ELSE <<linked>>
        own    == routes[n].nodes
        desk   == DeskFlow(row.link, o)
        nodes  == IF OfType(own, Journey) = <<>> /\ OfType(desk, {"ivr", "hours"}) # <<>>
                  THEN OfType(desk, Journey) \o own ELSE own
        menus  == OfType(nodes, {"ivr"})
        plan   == PlanNodes(nodes, o, row.link, n, open)
    IN  CASE ~stored -> ApplyDeskHandling(
                [kind |-> "ring", dests |-> keys, mailbox |-> NoKey, forward |-> FALSE, closed |-> FALSE,
                 menu |-> {}, fallbacks |-> <<>>], keys, n, o)
          [] stored /\ menus # <<>> /\ ~plan.closed -> IvrPlan(menus[1], nodes, o, row.link, n, open)
          [] OTHER -> ApplyDeskHandling(plan, plan.dests, n, o)

\* Every extension a plan may ring.
Rings(plan) == ToSet(plan.dests) \cup plan.menu \cup ToSet(plan.fallbacks)
=============================================================================
