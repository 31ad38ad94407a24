----------------------------- MODULE LineTables -----------------------------
(***************************************************************************)
(* The tables that say who answers what: phone numbers, extensions, call   *)
(* flows, groups, device accounts and call defaults, and the views of them *)
(* every request reads.  An extension is identified by the number it is on *)
(* and its digits; references to it are stored as that pair, its key.      *)
(***************************************************************************)
EXTENDS Integers, FiniteSets, SequencesExt, TLC

CONSTANTS
    Accounts,   \* customers, positive; 0 is the platform, and no owner at all
    Numbers,    \* phone numbers, positive and in dialling order; 0 is none
    Digits,     \* extension digits, positive, from the lowest up; 0 is none
    MaxRows,    \* bound: extensions ever created
    MaxLines    \* bound: phone number rows ever created

ASSUME TablesAssumption ==
    /\ \A S \in {Accounts, Numbers, Digits} : IsFiniteSet(S) /\ S # {} /\ S \subseteq Nat \ {0}
    /\ MaxRows \in Nat /\ MaxLines \in Nat

VARIABLES
    numbers,    \* number -> [id, owner, link, dflt, active]
    exts,       \* extension row id -> [digits, line, owner, active, mail]
    routes,     \* number -> [owner, nodes]: call_routes
    flows,      \* {[owner, target, nodes]}: routing_flows of extensions
    groups,     \* owner -> members of its group
    devices,    \* {[owner, number, ext]}: customer_sip_accounts
    defaults,   \* account -> [outbound, fallback], one JSON document
    made        \* rows inserted so far: [exts, lines]

tables == <<numbers, exts, routes, flows, groups, devices, defaults, made>>

Key   == [digits : Digits \cup {0}, line : Numbers \cup {0}]
NoKey == [digits |-> 0, line |-> 0]

Node == [type : {"ring", "extension", "voicemail", "forward", "hours", "ivr"},
         exts : Seq(Key),     \* what the step names, in order
         on : BOOLEAN,
         rule : {"none", "voicemail", "extension", "forward", "hangup"}]  \* no_answer

SameAccount(a, b) == a = b

\* A table with row x set to r.
Put(table, x, r) == [y \in DOMAIN table \cup {x} |-> IF y = x THEN r ELSE table[y]]

\* A number's inbound link, a flow, a group and a default name a key.
LineOf(i) ==
    IF \A n \in DOMAIN numbers : numbers[n].id # exts[i].line THEN 0
    ELSE CHOOSE n \in DOMAIN numbers : numbers[n].id = exts[i].line
KeyOf(i) == [digits |-> exts[i].digits, line |-> LineOf(i)]

\* list_extensions and list_numbers: no owner lists every row.
Listed(o)        == {i \in DOMAIN exts : o = 0 \/ exts[i].owner = o}
ListedNumbers(o) == {n \in DOMAIN numbers : o = 0 \/ numbers[n].owner = o}
KeysOf(o)        == {KeyOf(i) : i \in Listed(o)}
ActiveKeys(o)    == {KeyOf(i) : i \in {j \in Listed(o) : exts[j].active}}
OnNumber(o, n)   == {i \in Listed(o) : LineOf(i) = n}

\* The one row of a set, 0 for none or several.
Only(S) == IF Cardinality(S) = 1 THEN CHOOSE i \in S : TRUE ELSE 0

\* Mutant: any account's extension answers on the number.
ResolveAnyone(n, d, o) ==
    LET found == {i \in OnNumber(0, n) : exts[i].digits = d}
    IN  IF d = 0 \/ n = 0 \/ found = {} THEN 0 ELSE Min(found)
ResolveExtension(n, d, o) ==
    LET found == {i \in OnNumber(o, n) : exts[i].digits = d}
    IN  IF d = 0 \/ n = 0 \/ found = {} THEN 0 ELSE Min(found)
ExtensionKeyFor(n, d, o) ==
    LET i == ResolveExtension(n, d, o) IN IF i = 0 THEN NoKey ELSE KeyOf(i)
WithDigits(d, o) == {i \in Listed(o) : exts[i].digits = d}
ExtensionKeyForDigits(d, o) ==
    LET i == Only(WithDigits(d, o)) IN IF i = 0 THEN NoKey ELSE KeyOf(i)

\* A key with a number names one row exactly; digits name the row without a
\* number, and failing that the only row that carries them.
ExtensionRow(k) ==
    LET bare == {i \in WithDigits(k.digits, 0) : exts[i].line = 0}
    IN  IF k.line # 0 THEN Only({i \in WithDigits(k.digits, 0) : LineOf(i) = k.line})
        ELSE IF bare # {} THEN Only(bare) ELSE Only(WithDigits(k.digits, 0))

\* A request's extension as a key of this account, NoKey for a refusal.
ResolveRequested(k, o) ==
    LET i    == ExtensionRow(k)
        rows == WithDigits(k.digits, o)
    IN  IF k.line # 0
        THEN IF i # 0 /\ (o = 0 \/ exts[i].owner = o) THEN KeyOf(i) ELSE NoKey
        ELSE IF \E j \in rows : KeyOf(j) = k THEN k
        ELSE ExtensionKeyForDigits(k.digits, o)

\* Keys in the order of their numbers, and on a number of their digits.
Before(k, l) == k.line < l.line \/ (k.line = l.line /\ k.digits < l.digits)
Sorted(S) ==
    [x \in 1..Cardinality(S) |-> CHOOSE k \in S : Cardinality({l \in S : Before(l, k)}) = x - 1]
LineDevices(o, n) == Sorted({KeyOf(i) : i \in {j \in OnNumber(o, n) : exts[j].active}})

\* The flagged number, else the lowest with extensions, else the lowest.
PrimaryNumber(o) ==
    LET live    == {n \in ListedNumbers(o) : numbers[n].active}
        flagged == {n \in live : numbers[n].dflt}
        manned  == {n \in live : \E i \in OnNumber(o, n) : exts[i].active}
    IN  CASE flagged # {} -> Min(flagged)
          [] flagged = {} /\ manned # {} -> Min(manned)
          [] flagged = {} /\ manned = {} -> IF live = {} THEN 0 ELSE Min(live)

FreeDigits(n) ==
    LET taken == {exts[i].digits : i \in OnNumber(0, n)}
    IN  IF Digits \subseteq taken THEN 0 ELSE Min(Digits \ taken)

-----------------------------------------------------------------------------
(* Call defaults.                                                          *)

\* The stored choice while it is active, else the first active extension.
EffectiveDefault(k, o) ==
    LET active == ActiveKeys(o)
        byDigits == ExtensionKeyForDigits(k.digits, o)
    IN  IF k \in active THEN k
        ELSE IF k # NoKey /\ k.line = 0 /\ byDigits \in active THEN byDigits
        ELSE IF active = {} THEN NoKey
        ELSE CHOOSE a \in active : \A b \in active : a = b \/ Before(a, b)

\* Digits hold a default in place only while a row without number has them.
IsCallDefault(k) ==
    \E a \in DOMAIN defaults : \E d \in {defaults[a].outbound, defaults[a].fallback} :
        \/ d # NoKey /\ d = k
        \/ /\ d # NoKey /\ d.line = 0 /\ d.digits = k.digits
           /\ \E i \in WithDigits(k.digits, 0) : exts[i].line = 0

DropFromDefaults(doc, k) ==
    [a \in DOMAIN doc |-> [outbound |-> IF doc[a].outbound = k THEN NoKey ELSE doc[a].outbound,
                           fallback |-> IF doc[a].fallback = k THEN NoKey ELSE doc[a].fallback]]

-----------------------------------------------------------------------------
(* References rewritten to keys when an extension gets its number.         *)

Reference(k, o, n) ==
    LET onLine == ExtensionKeyFor(n, k.digits, o)
    IN  IF k.line # 0 \/ k \in KeysOf(o) THEN IF k \in KeysOf(o) THEN k ELSE NoKey
        ELSE IF n # 0 /\ onLine # NoKey THEN onLine
        ELSE ExtensionKeyForDigits(k.digits, o)
\* Mutant: only the references of a number's flow are rewritten.
RemappedOnNumbers(k, o, n) == IF n = 0 \/ Reference(k, o, n) = NoKey THEN k ELSE Reference(k, o, n)
Remapped(k, o, n) == LET r == Reference(k, o, n) IN IF r = NoKey THEN k ELSE r
RemapNodes(nodes, o, n) ==
    [x \in DOMAIN nodes |->
        [nodes[x] EXCEPT !.exts = [y \in DOMAIN @ |->
            IF nodes[x].type = "ivr" /\ y > 1 THEN @[y] ELSE Remapped(@[y], o, n)]]]
=============================================================================
