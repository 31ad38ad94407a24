------------------------------ MODULE TwoParty ------------------------------
(***************************************************************************)
(* What a call promises to the people on it, without rows, processes or    *)
(* events: a far device rings only while somebody on the near side is on   *)
(* the line, every device rings at most once, and two people are joined    *)
(* only when both have picked up, once.                                    *)
(***************************************************************************)
EXTENDS FiniteSets

CONSTANTS Near, Far

VARIABLES
    line,       \* the state of every device's line
    joined      \* the devices connected with one another

vars == <<line, joined>>

Device == Near \cup Far
On     == {d \in Device : line[d] = "on"}

Init ==
    /\ line \in [Device -> {"quiet", "on"}]
    /\ \A f \in Far : line[f] = "quiet"
    /\ joined = {}

RingNear(n) ==
    /\ line[n] = "quiet"
    /\ line' = [line EXCEPT ![n] = "ringing"]
    /\ UNCHANGED joined

RingFar(S) ==
    /\ \A f \in S : line[f] = "quiet"
    /\ Near \cap On # {}
    /\ line' = [d \in Device |-> IF d \in S THEN "ringing" ELSE line[d]]
    /\ UNCHANGED joined

PickUp(d) ==
    /\ line[d] = "ringing"
    /\ line' = [line EXCEPT ![d] = "on"]
    /\ UNCHANGED joined

\* Some devices stop ringing or are hung up, on either side's account; whoever
\* they leave behind may be parted too.
End(S) ==
    /\ \A d \in S : line[d] \in {"ringing", "on"}
    /\ line' = [d \in Device |-> IF d \in S THEN "done" ELSE line[d]]
    /\ joined' \in SUBSET (joined \ S)

Join(n, f) ==
    /\ {n, f} \subseteq On
    /\ joined = {}
    /\ joined' = {n, f}
    /\ UNCHANGED line

Next ==
    \/ \E n \in Near : RingNear(n)
    \/ \E S \in SUBSET Far : RingFar(S)
    \/ \E d \in Device : PickUp(d)
    \/ \E S \in SUBSET Device : End(S)
    \/ \E n \in Near, f \in Far : Join(n, f)

Spec == Init /\ [][Next]_vars
=============================================================================
