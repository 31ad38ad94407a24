---------------------------- MODULE OutboundCall ----------------------------
(***************************************************************************)
(* A call the panel places: POST /api/calls rings every endpoint of the    *)
(* employee's extension, and the worker dials the far side when one of     *)
(* them is picked up.  The far side is one carrier channel or, for a       *)
(* number of the platform, one channel per endpoint of the line's          *)
(* extension (Far).                                                        *)
(***************************************************************************)
EXTENDS CallControl

CONSTANTS
    FirstEmp,   \* <call>-employee, which the row names from the start
    HeadFar     \* <call>-customer, which the row names before it is dialled

ASSUME HeadsAssumption == FirstEmp \in Emp /\ HeadFar \in Far

\* Nobody rang in: every channel is one the panel originates.
ASSUME NoCallerAssumption == Caller = {}

----------------------------------------------------------------------------
(* start_outbound, in an API thread. *)

\* The row is written before anything rings.
Create ==
    /\ At("starter", "start") /\ ready
    /\ Write([Blank EXCEPT !.status = "initiated", !.emp = FirstEmp])
    /\ Goto("starter", "dialLegs", None, Blank)
    /\ UNCHANGED <<asterisk, index, busy, told, link, bounds, dial>>

\* One originate.  It rings, is refused, or rings although its reply is lost.
DialLeg(l) ==
    /\ At("starter", "dialLegs") /\ l \in todo
    /\ FirstEmp \in todo => l = FirstEmp
    /\ todo' = todo \ {l}
    /\ \/ chan' = [chan EXCEPT ![l] = "ringing"] /\ dialled' = dialled \cup {l} /\ UNCHANGED faults
       \/ UNCHANGED <<chan, dialled, faults>>
       \/ /\ faults < MaxFaults /\ faults' = faults + 1
          /\ chan' = [chan EXCEPT ![l] = "ringing"] /\ UNCHANGED dialled
    /\ UNCHANGED <<row, inbox, mix, open, index, job, busy, told, link, crashes, drops>>

DialledAll == At("starter", "dialLegs") /\ todo = {}

\* Mutant: nothing rings and the row is left as it is.
NoLegsIgnored == DialledAll /\ dialled = {} /\ Finish("starter")
    /\ UNCHANGED <<row, asterisk, index, busy, told, link, bounds, dial>>

ReadNoLegs ==
    /\ DialledAll /\ dialled = {}
    /\ IF row.status \in Terminal THEN Finish("starter")
       ELSE Goto("starter", "failed", None, Blank)
    /\ UNCHANGED <<row, asterisk, index, busy, told, link, bounds, dial>>

RecordLegs ==
    /\ DialledAll /\ dialled # {}
    /\ Write([row EXCEPT !.legs = dialled])
    /\ Goto("starter", "read", None, Blank)
    /\ UNCHANGED <<asterisk, index, busy, told, link, bounds, dial>>

\* The status is read here and "ringing" is written by StoreRinging.
ReadStatus ==
    /\ At("starter", "read")
    /\ IF row.status = "initiated" THEN Goto("starter", "ringing", None, Blank)
       ELSE Finish("starter")
    /\ UNCHANGED <<row, asterisk, index, busy, told, link, bounds, dial>>

Starter == Create \/ (\E l \in Emp : DialLeg(l)) \/ ReadNoLegs \/ RecordLegs \/ ReadStatus

----------------------------------------------------------------------------
(* handle_ari_event: an employee device is picked up. *)

EmployeeUp(c) ==
    /\ Took(c, "up") /\ Found(c) /\ row.status \notin Terminal
    /\ c \in Legs(row) \cup {row.emp}

\* Its other devices stop ringing; the write is StoreEmployee.
EmployeeAnswers(c) ==
    /\ EmployeeUp(c) /\ row.far = None
    /\ HangUp(Legs(row) \ {c}, Rest(c, "up"))
    /\ Goto("worker", "employee", c, Blank)
    /\ UNCHANGED <<row, open, index, busy, told, link, bounds, dial>>

\* The far side is being rung already.
EmployeeAgain(c) ==
    /\ EmployeeUp(c) /\ row.far # None
    /\ inbox' = Rest(c, "up")
    /\ UNCHANGED <<row, chan, mix, open, index, job, busy, told, link, bounds, dial>>

StoreEmployee ==
    /\ At("worker", "employee")
    /\ row' = [row EXCEPT !.status = "employee_answered", !.emp = job["worker"].ch]
    /\ Goto("worker", "dial", None, row')
    /\ UNCHANGED <<asterisk, index, busy, told, link, bounds, dial>>

----------------------------------------------------------------------------
(* _start_customer.  Its guard looks at the row the handler read, not at    *)
(* the row as it is now.                                                   *)

Dialling ==
    /\ At("worker", "dial")
    /\ job["worker"].call.far = None /\ job["worker"].call.status \notin Terminal

\* A number of the platform with no reachable extension.
NotInService ==
    /\ Dialling
    /\ Write([row EXCEPT !.status = "failed", !.ended = TRUE])
    /\ Tell("failed")
    /\ Goto("worker", "refuse", job["worker"].call.emp, Blank)
    /\ UNCHANGED <<asterisk, index, busy, link, bounds, dial>>

RefuseEmployee ==
    /\ At("worker", "refuse")
    /\ HangUp({job["worker"].ch}, inbox)
    /\ Finish("worker")
    /\ UNCHANGED <<row, open, index, busy, told, link, bounds, dial>>

\* Mutant: the far channel is named only once it answers.
FarNotNamed ==
    /\ Dialling
    /\ Write([row EXCEPT !.status = "dialing_customer"])
    /\ Goto("worker", "dialFar", job["worker"].call.emp, Blank)
    /\ UNCHANGED <<asterisk, index, busy, told, link, bounds, dial>>

\* The row names the far channel before it exists.
PrepareFar ==
    /\ Dialling
    /\ Write([row EXCEPT !.far = HeadFar, !.status = "dialing_customer"])
    /\ Goto("worker", "dialFar", job["worker"].call.emp, Blank)
    /\ UNCHANGED <<asterisk, index, busy, told, link, bounds, dial>>

\* Every endpoint of the far side: those that ring, those acknowledged.  A leg
\* is originated on behalf of the employee's channel, which must be alive.
DialFar ==
    /\ At("worker", "dialFar")
    /\ \E rung \in SUBSET Far, acked \in SUBSET Far :
         /\ acked \subseteq rung
         /\ rung # {} => job["worker"].ch \in Live
         /\ IF rung = acked THEN UNCHANGED faults
            ELSE faults < MaxFaults /\ faults' = faults + 1
         /\ chan' = [c \in Chan |-> IF c \in rung THEN "ringing" ELSE chan[c]]
         /\ IF acked # {} THEN Finish("worker")
            ELSE Goto("worker", "farRefused", job["worker"].ch, Blank)
    /\ UNCHANGED <<row, inbox, mix, open, index, busy, told, link, crashes, drops, dial>>

\* Mutant: the employee waits for a far side that was never dialled.
RefusedLeftUp ==
    /\ At("worker", "farRefused")
    /\ Goto("worker", "failed", None, Blank)
    /\ UNCHANGED <<row, asterisk, index, busy, told, link, bounds, dial>>

HangupRefused ==
    /\ At("worker", "farRefused")
    /\ HangUp({job["worker"].ch}, inbox)
    /\ Goto("worker", "failed", None, Blank)
    /\ UNCHANGED <<row, open, index, busy, told, link, bounds, dial>>

StartCustomer ==
    \/ NotInService \/ RefuseEmployee \/ PrepareFar \/ DialFar \/ HangupRefused

----------------------------------------------------------------------------

Init == InitWith("start", [c \in Chan |-> "absent"], Emp)

Worker ==
    \/ \E c \in Chan : EmployeeAnswers(c) \/ EmployeeAgain(c) \/ FarAnswers(c)
    \/ StoreEmployee \/ StartCustomer \/ StoreFar

Ends == \E c \in Chan : UnansweredEnds(c)

Next == Starter \/ Worker \/ Common \/ Ends

Spec == Init /\ [][Next]_vars

\* The threads run; a ring ends in an answer or at its timeout, an event is
\* delivered, and the loop reconnects.  Nobody has to answer or to hang up.
Fairness ==
    /\ WF_vars(Starter)
    /\ WF_vars(Worker)
    /\ WF_vars((Event \/ Bridging \/ Connect \/ Recovery \/ Ends))
    /\ WF_vars((\E p \in Hanger \cup {"worker"} : Finalize(p)))
    /\ WF_vars((\E p \in {"starter", "worker"} : StoreRinging(p) \/ StoreFailed(p)))
    /\ \A c \in Chan : WF_vars((Answer(c) \/ RingOut(c)))

FairSpec == Spec /\ Fairness
----------------------------------------------------------------------------
(* What must not happen. *)

\* The employee's devices and the far side are connected as TwoParty says.
Promise == INSTANCE TwoParty WITH
    Near <- Emp, Far <- Far, line <- [c \in Chan |-> Heard(c)], joined <- mix

PromiseKept == Promise!Spec

\* The far side is dialled only on behalf of an employee who picked up: a
\* channel of the far side exists only after an employee channel was answered.
EmployeeFirst ==
    (\E f \in Far : chan[f] # "absent") => \E e \in Emp : e \in PickedUp

\* "Ring the far side - once -": no far channel is originated a second time,
\* whichever devices answer, whatever crashes and whatever recovery redials.
FarDialedOnce ==
    [][\A f \in Far : chan[f] # "absent" /\ chan'[f] = "ringing" => chan[f] = "ringing"]_vars

\* A call is recorded as answered, and reported as completed, only if both
\* the employee and the far party it names did pick up.
AnsweredByBoth ==
    row.answered \/ "completed" \in told => {row.emp, row.far} \subseteq PickedUp

\* Two people talking are parted by one of them or by a hangup request, never
\* by the bookkeeping of the other devices that rang.
TalkersKept ==
    [][Cardinality(mix) = 2 /\ faults' = faults /\ NoRequest =>
         \/ mix' = mix
         \/ \E c \in mix : PartyHangup(c)
         \/ \E h \in Hanger : HangupRequest(h)]_vars

\* An employee who picked up is soon talking to the far side or is hung up,
\* unless somebody asks meanwhile to end the call.
NoSilence == \A e \in Emp : chan[e] = "up" ~> e \in mix \/ chan[e] # "up" \/ ~NoRequest

\* A call that was placed is answered or ends.
Resolves == row.status # "none" ~> row.answered \/ row.ended

----------------------------------------------------------------------------
(* Why the far side is dialled once and after the employee: the invariant   *)
(* that every step preserves.                                              *)

W == job["worker"]

\* The row names employee channels as employee and far channels as far side.
RowNamesSides ==
    row.emp \in Emp \cup {None} /\ row.legs \subseteq Emp /\ row.far \in Far \cup {None}

\* An answer that is reported, or that the worker acts on, did happen.
AnswersAreReal ==
    /\ \A c \in Chan : "up" \in inbox[c] => c \in PickedUp
    /\ W.at \in {"employee", "dialFar"} => W.ch \in Emp \cap PickedUp
    /\ W.at = "dial" => W.call.emp \in Emp \cap PickedUp
    /\ W.at = "far" => W.ch \in Far \cap PickedUp

\* Until the row names a far channel there is none, and the row the worker
\* decides on has the far side the row has now.
FarNamedFirst ==
    /\ row.far = None \/ W.at = "dialFar" => \A f \in Far : chan[f] = "absent"
    /\ W.at = "dial" => W.call.far = row.far
    /\ W.at = "dialFar" => row.far # None
    /\ job["starter"].at = "start" => row.far = None /\ \A e \in Emp : chan[e] = "absent"

\* An endpoint not dialled yet has no channel.
UndialledSilent == \A l \in todo : chan[l] = "absent"

DialInv == RowNamesSides /\ AnswersAreReal /\ FarNamedFirst /\ UndialledSilent /\ EmployeeFirst

----------------------------------------------------------------------------
(* What the code or its documents say, and the runs refute. *)

\* "Whoever answers first takes the call": with every event handled, an
\* employee device that is up in a call that goes on has a far side.  The
\* devices are indexed by the API process, the events go to the worker.
AnswererTakesCall ==
    Quiet /\ ~row.ended => \A e \in Emp \cap Up : e \in mix \/ Far \cap Live # {}

\* "No resurrection of the call": a terminal status is never overwritten by a
\* live one.
NoResurrection == [][row.status \in Terminal => row'.status \in Terminal]_vars
=============================================================================
