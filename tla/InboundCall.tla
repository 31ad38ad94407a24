---------------------------- MODULE InboundCall ----------------------------
(***************************************************************************)
(* A call that arrives on a number of the platform.  The caller's channel  *)
(* waits in Stasis while the worker rings the desks the number's journey   *)
(* names; when nobody picks up, the journey may ring another desk, hand    *)
(* the caller to voicemail, ring an outside number, or end the call.  The  *)
(* journey is read from the settings each time it is needed, so each step  *)
(* that consults it chooses freely among what it could say.  A journey     *)
(* that starts with a menu is not modelled here.                           *)
(***************************************************************************)
EXTENDS CallControl

CONSTANTS
    FirstDesk,  \* <call>-employee
    Backup      \* employee channels kept for the desk of the second round

Desk == Emp \ Backup

ASSUME DesksAssumption == FirstDesk \in Desk /\ Backup \subseteq Emp

\* A call is one caller's: each channel that arrives has a row of its own.
ASSUME OneCallerAssumption == \E k \in Caller : Caller = {k}

----------------------------------------------------------------------------
(* start_inbound. *)

Arrives(k) == k \in Caller /\ Took(k, "stasis") /\ ~Found(k)

\* The number has no active extension, or one of another organisation.
RefuseCaller(k) ==
    /\ Arrives(k)
    /\ HangUp({k}, Rest(k, "stasis"))
    /\ UNCHANGED <<row, open, index, job, busy, told, link, dial, bounds>>

AdmitCaller(k) ==
    /\ Arrives(k)
    /\ inbox' = Rest(k, "stasis")
    /\ Write([Blank EXCEPT !.status = "ringing", !.emp = FirstDesk, !.far = k])
    /\ todo' = Desk /\ dialled' = {}
    /\ Goto("worker", "dialDesks", None, Blank)
    /\ UNCHANGED <<chan, mix, open, index, busy, told, link, bounds>>

\* One originate on behalf of the caller, in _start_inbound, _ring_fallbacks:
\* refused, or ringing, or ringing with the reply lost.
Originate(l) ==
    /\ l \in todo /\ todo' = todo \ {l}
    /\ FirstDesk \in todo => l = FirstDesk
    /\ \/ /\ row.far \in Live /\ l \notin Live
          /\ chan' = [chan EXCEPT ![l] = "ringing"]
          /\ \/ dialled' = dialled \cup {l} /\ index' = index \cup {l} /\ UNCHANGED faults
             \/ faults < MaxFaults /\ faults' = faults + 1 /\ UNCHANGED <<dialled, index>>
       \/ UNCHANGED <<chan, dialled, index, faults>>
    /\ UNCHANGED <<row, inbox, mix, open, job, busy, told, link, crashes, drops>>

DialDesk(l)   == At("worker", "dialDesks") /\ Originate(l)
DialBackup(l) == At("worker", "dialBackups") /\ Originate(l)

\* The leg the row names first.
First == CHOOSE l \in dialled : FirstDesk \in dialled => l = FirstDesk

StoreDesks ==
    /\ At("worker", "dialDesks") /\ todo = {} /\ dialled # {}
    /\ Write([row EXCEPT !.emp = First, !.legs = dialled])
    /\ Finish("worker")
    /\ UNCHANGED <<asterisk, index, busy, told, link, dial, bounds>>

\* Mutant: the caller goes on waiting for a desk that does not ring.
NoDeskRingsWaits ==
    /\ At("worker", "dialDesks") /\ todo = {} /\ dialled = {}
    /\ Finish("worker")
    /\ UNCHANGED <<row, asterisk, index, busy, told, link, dial, bounds>>

NoDeskRings ==
    /\ At("worker", "dialDesks") /\ todo = {} /\ dialled = {}
    /\ Goto("worker", "noAnswer", None, row)
    /\ UNCHANGED <<row, asterisk, index, busy, told, link, dial, bounds>>

----------------------------------------------------------------------------
(* A device of the call is picked up: a desk, or the forward number. *)

\* Mutant: a device of a finished call is taken for one that answers.
DeskAnswersLate(c) ==
    /\ Took(c, "up") /\ Found(c)
    /\ c \in Legs(row)
    /\ inbox' = Rest(c, "up")
    /\ Goto("worker", "desk", c, Blank)
    /\ UNCHANGED <<row, chan, mix, open, index, busy, told, link, dial, bounds>>

DeskAnswers(c) ==
    /\ Took(c, "up") /\ Found(c) /\ row.status \notin Terminal
    /\ c \in Legs(row)
    /\ inbox' = Rest(c, "up")
    /\ Goto("worker", "desk", c, Blank)
    /\ UNCHANGED <<row, chan, mix, open, index, busy, told, link, dial, bounds>>

\* The row names the device, the others stop ringing, the bridge is built.
StoreDesk ==
    /\ At("worker", "desk")
    /\ Write([row EXCEPT !.status = "employee_answered", !.emp = job["worker"].ch])
    /\ Goto("worker", "cancel", job["worker"].ch, Blank)
    /\ UNCHANGED <<asterisk, index, busy, told, link, dial, bounds>>

\* Mutant: the other devices are left as they are.
CancelNone ==
    /\ At("worker", "cancel")
    /\ Goto("worker", "bridge", None, Blank)
    /\ UNCHANGED <<row, asterisk, index, busy, told, link, dial, bounds>>

CancelDesks ==
    /\ At("worker", "cancel")
    /\ HangUp(Legs(row) \ {job["worker"].ch}, inbox)
    /\ Goto("worker", "bridge", None, Blank)
    /\ UNCHANGED <<row, open, index, busy, told, link, dial, bounds>>

\* A forward number nobody wrote into the row (a fault after it was dialled) is
\* taken for the far side, in the place of the caller.
UnnamedForward == StoreFar \/ \E f \in Far : FarAnswers(f)

----------------------------------------------------------------------------
(* _inbound_no_answer.  It decides on the row its caller read.             *)

\* The last ringing device is gone; when it is the caller who left,
\* UnansweredEnds takes the call down instead.
NobodyAnswers(c) ==
    /\ LastLegGone(c) /\ EmployeeLeg(c)
    /\ inbox' = Rest(c, "destroyed")
    /\ index' = index \ {c}
    /\ Goto("worker", "noAnswer", None, row)
    /\ UNCHANGED <<row, chan, mix, open, busy, told, link, dial, crashes, drops>>

Read == job["worker"].call

EndedMeanwhile ==
    /\ At("worker", "noAnswer") /\ Read.ended
    /\ Finish("worker")
    /\ UNCHANGED <<row, asterisk, index, busy, told, link, dial, bounds>>

NoAnswer      == At("worker", "noAnswer") /\ ~Read.ended
\* Mutant: a desk of the second round chains again.
MayRingBackupAgain == NoAnswer

MayRingBackup == NoAnswer /\ Read.status \notin {"forwarding", "ringing_fallback"}

\* The journey names a second desk ...
RingBackups ==
    /\ MayRingBackup
    /\ todo' = Backup /\ dialled' = {}
    /\ Goto("worker", "dialBackups", None, Read)
    /\ UNCHANGED <<row, asterisk, index, busy, told, link, bounds>>

\* ... whose ringing is switched off, or which no originate reaches: the call
\* goes straight on to what that desk does with an unanswered call.
SkipBackups ==
    /\ \/ MayRingBackup
       \/ At("worker", "dialBackups") /\ todo = {} /\ dialled = {}
    /\ Write([row EXCEPT !.status = "ringing_fallback"])
    /\ Goto("worker", "noAnswer", None, row')
    /\ UNCHANGED <<asterisk, index, busy, told, link, dial, bounds>>

StoreBackups ==
    /\ At("worker", "dialBackups") /\ todo = {} /\ dialled # {}
    /\ index' = index \ Legs(Read)
    /\ Write([row EXCEPT !.status = "ringing_fallback", !.emp = First,
                         !.legs = Read.legs \cup dialled])
    /\ Finish("worker")
    /\ UNCHANGED <<asterisk, busy, told, link, dial, bounds>>

\* Mutant: the caller handed to voicemail still belongs to the call.
ToVoicemailOwned ==
    /\ NoAnswer /\ Read.far \in Up
    /\ chan' = [chan EXCEPT ![Read.far] = "mailbox"]
    /\ Goto("worker", "fin", None, Blank)
    /\ UNCHANGED <<row, inbox, mix, open, index, busy, told, link, dial, bounds>>

\* continue_in_dialplan: the caller's channel leaves Stasis for VoiceMail.
ToVoicemail ==
    /\ NoAnswer /\ Read.far \in Up
    /\ chan' = [chan EXCEPT ![Read.far] = "mailbox"]
    /\ Goto("worker", "fin", Read.far, Blank)
    /\ UNCHANGED <<row, inbox, mix, open, index, busy, told, link, dial, bounds>>

\* The mailbox cannot be reached, the forward cannot be placed, or the journey
\* has neither: the caller is hung up and the call is missed.
Missed ==
    /\ NoAnswer
    /\ HangUp({Read.far}, inbox)
    /\ Goto("worker", "fin", None, Blank)
    /\ UNCHANGED <<row, open, index, busy, told, link, dial, bounds>>

\* _forward_call: an outside number is rung as one more device of the call.
Forward(f) ==
    /\ NoAnswer /\ Read.status # "forwarding"
    /\ f \notin Live /\ Read.far \in Live
    /\ chan' = [chan EXCEPT ![f] = "ringing"]
    /\ index' = index \cup {f}
    /\ Goto("worker", "forwarded", f, Blank)
    /\ UNCHANGED <<row, inbox, mix, open, busy, told, link, dial, bounds>>

StoreForward ==
    /\ At("worker", "forwarded")
    /\ LET f == job["worker"].ch IN
         Write([row EXCEPT !.status = "forwarding", !.emp = f, !.legs = {f}])
    /\ Finish("worker")
    /\ UNCHANGED <<asterisk, index, busy, told, link, dial, bounds>>

----------------------------------------------------------------------------

Init ==
    InitWith("idle", [c \in Chan |-> IF c \in Caller THEN "up" ELSE "absent"], {})

Arrival ==
    \/ \E k \in Caller : RefuseCaller(k) \/ AdmitCaller(k)
    \/ \E l \in Emp : DialDesk(l)
    \/ StoreDesks \/ NoDeskRings

Answering == StoreDesk \/ CancelDesks \/ \E c \in Chan : DeskAnswers(c)

NoAnswering ==
    \/ \E c \in Chan : NobodyAnswers(c)
    \/ EndedMeanwhile \/ RingBackups \/ SkipBackups \/ StoreBackups
    \/ \E l \in Emp : DialBackup(l)
    \/ ToVoicemail \/ Missed \/ StoreForward
    \/ \E f \in Far : Forward(f)

CallerLeaves == \E c \in Chan : CustomerLeg(c) /\ UnansweredEnds(c)

Next == Arrival \/ Answering \/ UnnamedForward \/ NoAnswering \/ CallerLeaves \/ Common

Spec == Init /\ [][Next]_vars

\* As in OutboundCall: threads run and rings end; the caller may wait forever.
Fairness ==
    /\ WF_vars(Arrival) /\ WF_vars(Answering \/ UnnamedForward) /\ WF_vars(NoAnswering)
    /\ WF_vars(Event \/ Bridging \/ Connect \/ Recovery \/ CallerLeaves)
    /\ WF_vars(\E p \in Hanger \cup {"worker"} : Finalize(p))
    /\ \A c \in Emp \cup Far : WF_vars(Answer(c) \/ RingOut(c))

FairSpec == Spec /\ Fairness
----------------------------------------------------------------------------
(* What must not happen. *)

\* The caller and the devices rung for the call are connected as TwoParty
\* says.
Promise == INSTANCE TwoParty WITH
    Near <- Caller, Far <- Emp \cup Far, line <- [c \in Chan |-> Heard(c)], joined <- mix

PromiseKept == Promise!Spec

\* Whoever is in the mixing bridge is who the row names, so that the hangup of
\* what the row names ends the conversation, whoever took the call from whom;
\* while the devices that lost are being hung up, one of them may still be in it.
BridgeNamesTalkers ==
    mix \subseteq {row.emp, row.far} \cup (IF At("worker", "cancel") THEN Legs(row) ELSE {})

\* A caller leaving a message is not cut off by the events of the devices that
\* rang before: only the caller or a hangup request ends the message.
MessageKept ==
    [][\A k \in Caller : chan[k] = "mailbox" /\ NoRequest =>
         \/ chan'[k] = "mailbox"
         \/ PartyHangup(k)
         \/ \E h \in Hanger : HangupRequest(h)]_vars

\* Somebody who rings can still be reached: without a hangup request, a waiting
\* caller is not hung up while a device the worker knows of may still pick up.
CallerKept ==
    [][\A k \in Caller : chan[k] = "up" /\ chan'[k] = "over" /\ k \notin mix /\ NoRequest =>
         \/ PartyHangup(k) \/ \E h \in Hanger : HangupRequest(h)
         \/ index \cap {c \in Emp \cup Far : chan[c] = "ringing"} = {}]_vars

\* A call that ends without a hangup request leaves no channel ringing or
\* connected and no bridge, except a caller in voicemail.
NoOrphans ==
    Quiet /\ row.ended /\ NoRequest => Live \subseteq {k \in Caller : chan[k] = "mailbox"} /\ ~open

\* A caller let in is connected, handed to voicemail or let go.
CallerServed ==
    \A k \in Caller : chan[k] = "up" /\ row.far = k ~> k \in mix \/ chan[k] # "up"

\* A call the worker ended stays ended: nothing the worker does later, after a
\* restart included, gives a finished inbound call a live status again.
NoResurrection == [][row.status \in Terminal => row'.status \in Terminal]_vars

----------------------------------------------------------------------------
(* What the code or its documents say, and the runs refute. *)

\* "Whoever picks up first takes the call; the other devices stop ringing": the
\* one who talks to the caller is not hung up because another device picked up.
FirstTakesCall ==
    [][Cardinality(mix) = 2 =>
         mix \subseteq mix' \/ \E c \in mix : PartyHangup(c)]_vars

\* "All ring legs can disappear before their queued events arrive": the late
\* event of a desk that rang out does not take down the forward number that
\* rings, or talks to the caller, since.
ForwardKept ==
    [][\A f \in Far : f = row.emp /\ chan[f] \in {"ringing", "up"} /\ chan'[f] # chan[f] =>
         \/ Answer(f) \/ RingOut(f) \/ PartyHangup(f)
         \/ \A k \in Caller : chan[k] # "up"]_vars
=============================================================================
