------------------------------ MODULE DialPlan ------------------------------
(***************************************************************************)
(* The dial plan written for Asterisk: what rings when a registered phone  *)
(* dials from the context of its number, and what a carrier's call to a    *)
(* number is answered with before the call flow is asked.  It is rendered  *)
(* from the tables; Routing decides the same calls once they are answered. *)
(***************************************************************************)
EXTENDS Routing

\* Active extensions on a number, whoever owns them.
Dialable(n) == {i \in OnNumber(0, n) : exts[i].active}
KeyFor(n, d) ==
    LET found == {i \in Dialable(n) : exts[i].digits = d}
    IN  IF found = {} THEN NoKey ELSE KeyOf(Min(found))

\* A number whose flow was drawn but which has no desk of its own still has
\* to be answered: by the first active extension its flow names, or any.
NumberFlowAnchor(n) ==
    LET o       == numbers[n].owner
        allowed == ActiveKeys(o)
        named   == Among(Named(routes[n].nodes), allowed)
    IN  IF o = 0 \/ n \notin DOMAIN routes \/ allowed = {} \/ routes[n].owner # o THEN NoKey
        ELSE IF named # <<>> THEN named[1]
        ELSE CHOOSE k \in allowed : \A l \in allowed : k = l \/ Before(k, l)

\* Mutant: a number without a desk of its own has no extension.
NumberOwnExtension(n) ==
    LET o        == numbers[n].owner
        fallback == IF o = 0 THEN NoKey ELSE EffectiveDefault(defaults[o].fallback, o)
        tried    == <<KeyFor(n, numbers[n].link.digits), KeyFor(n, fallback.digits)>>
        found    == Without(tried, NoKey)
    IN  IF found = <<>> THEN NoKey ELSE found[1]
\* The number's own link, its customer's fallback, its flow's anchor.
NumberExtension(n) ==
    LET o        == numbers[n].owner
        fallback == IF o = 0 THEN NoKey ELSE EffectiveDefault(defaults[o].fallback, o)
        tried    == <<KeyFor(n, numbers[n].link.digits), KeyFor(n, fallback.digits), NumberFlowAnchor(n)>>
        found    == Without(tried, NoKey)
    IN  IF found = <<>> THEN NoKey ELSE found[1]

Live == {n \in DOMAIN numbers : numbers[n].active}

\* By three digits a phone reaches the extensions of its own line, and by a
\* full number and digits those of any number of its line's customer.
Digits3(n)   == {KeyOf(i) : i \in Dialable(n)}
StarDials(o) == UNION {Digits3(n) : n \in {m \in Live : SameAccount(numbers[m].owner, o)}}

\* A phone without a line dials in the platform's context.
Platform == {KeyOf(i) : i \in {j \in Listed(0) : exts[j].active /\ exts[j].line = 0 /\ exts[j].owner = 0}}
Dials(i) ==
    LET n == LineOf(i)
    IN  CASE n = 0 -> Platform \cup StarDials(0)
          [] n \in Live -> Digits3(n) \cup StarDials(numbers[n].owner)
          [] OTHER -> {}

\* A number the dial plan finds no extension for, whose callers it answers
\* NOT IN SERVICE, has no flow or menu that would ring somebody: a carrier's
\* call that could be served gets past it (number_flow_anchor, inbound_plan).
CarrierServed ==
    \A n \in Live :
        LET o == numbers[n].owner
        IN  o # 0 /\ NumberExtension(n) = NoKey =>
              \A open \in BOOLEAN :
                LET plan == InboundPlan(n, open)
                IN  (ToSet(plan.dests) \cup plan.menu) \cap ActiveKeys(o) = {}

\* A phone dials the extensions of its own customer and the platform's, and
\* no other customer's (local_number_routes).
DesksApart ==
    \A i \in DOMAIN exts : exts[i].active /\ exts[i].owner # 0 =>
        \A k \in Dials(i) : exts[ExtensionRow(k)].owner \in {0, exts[i].owner}
=============================================================================
