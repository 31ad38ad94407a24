---------------------------- MODULE CallControl ----------------------------
(***************************************************************************)
(* One telephone call as seen by the four kinds of actor that change it:   *)
(*                                                                         *)
(*   - the API thread that places or ends it (gunicorn, services.py);      *)
(*   - the event thread of the ARI worker, a separate process that handles *)
(*     one Asterisk event at a time (ari_worker.py, handle_ari_event);     *)
(*   - Asterisk, which owns the channels and the mixing bridge and emits   *)
(*     events over one websocket;                                          *)
(*   - the people who pick up, let ring and hang up.                       *)
(*                                                                         *)
(* The processes share one database row.  A database statement is atomic;  *)
(* nothing wider is, so a handler that reads the row, talks to Asterisk    *)
(* and then writes the row takes several steps here, and holds what it     *)
(* read in its own `job'.  This module has the state, the steps common to  *)
(* both directions and the environment; OutboundCall and InboundCall add   *)
(* the steps of their direction and the specification.                     *)
(***************************************************************************)
EXTENDS Naturals, FiniteSets

CONSTANTS
    Emp,        \* channels named <call>-employee, <call>-employee-1, ...
    Far,        \* channels named <call>-customer, <call>-customer-1, ...
    Caller,     \* the channel an inbound caller arrived on ({} when outbound)
    Hanger,     \* the API requests to hang the call up
    Host,       \* operating-system processes
    Home,       \* the process each actor runs in
    None,       \* a column that is NULL
    MaxFaults,  \* bound: uncaught exceptions and lost replies
    MaxCrashes, \* bound: crashes of the worker
    MaxDrops    \* bound: losses of the websocket alone

Chan  == Emp \cup Far \cup Caller
Actor == {"starter", "worker"} \cup Hanger

ASSUME ChannelsAssumption ==
    /\ Emp \cap Far = {} /\ Emp \cap Caller = {} /\ Far \cap Caller = {}
    /\ None \notin Chan

\* The hangup requests and the worker never share a process (docker-compose
\* runs them in separate containers).
ASSUME ActorsAssumption ==
    /\ Hanger \cap {"starter", "worker"} = {}
    /\ Home \in [Actor -> Host]
    /\ \A h \in Hanger : Home[h] # Home["worker"]

ASSUME BoundsAssumption == MaxFaults \in Nat /\ MaxCrashes \in Nat /\ MaxDrops \in Nat

VARIABLES
    row,        \* the row of table calls
    chan,       \* Asterisk: the state of every channel of the call
    inbox,      \* Asterisk: the events of every channel not yet handled
    mix,        \* Asterisk: the channels in the call's mixing bridge
    open,       \* Asterisk: the mixing bridge exists
    index,      \* worker: _leg_index, the channels it can resolve from memory
    job,        \* per actor: where it is and the row it read
    busy,       \* per process: _finalizing holds this call
    told,       \* the terminal events queued for the CRM
    conn,       \* the worker's websocket is up
    ready,      \* the API would find a fresh ready file
    todo,       \* dial loop: endpoints not dialled yet
    dialled,    \* dial loop: legs whose originate was acknowledged
    faults, crashes, drops

asterisk == <<chan, inbox, mix, open>>
link     == <<conn, ready>>
dial     == <<todo, dialled>>
bounds   == <<faults, crashes, drops>>
vars     == <<row, asterisk, index, job, busy, told, link, dial, bounds>>

----------------------------------------------------------------------------
(* The row and the jobs. *)

Terminal == {"completed", "failed"}

Status ==
    {"none", "initiated", "ringing", "employee_answered", "dialing_customer",
     "bridged", "answered", "forwarding", "ringing_fallback"} \cup Terminal

Row == [status   : Status,
        answered : BOOLEAN,
        ended    : BOOLEAN,               \* ended_at is set
        emp      : Chan \cup {None},      \* employee_channel_id
        legs     : SUBSET Chan,           \* employee_channel_ids
        far      : Chan \cup {None},      \* customer_channel_id
        bridge   : BOOLEAN]               \* bridge_id is set

\* No such row yet; also what an idle actor holds.
Blank == [status |-> "none", answered |-> FALSE, ended |-> FALSE, emp |-> None,
          legs |-> {}, far |-> None, bridge |-> FALSE]

Idle == [at |-> "idle", ch |-> None, call |-> Blank]

Goto(p, at, c, r) == job' = [job EXCEPT ![p] = [at |-> at, ch |-> c, call |-> r]]
Finish(p)         == job' = [job EXCEPT ![p] = Idle]
At(p, at)         == job[p].at = at

\* CallStore.update: one UPDATE statement.
Write(r) == row' = r

Tell(kind) == told' = told \cup {kind}

----------------------------------------------------------------------------
(* Channels.  A channel is "missed" when it ended unanswered and "over" when  *)
(* it ended after being up; a caller handed to voicemail is in "mailbox".   *)

ChanState == {"absent", "ringing", "up", "missed", "over", "mailbox"}
EventType == {"stasis", "up", "destroyed"}

Live      == {c \in Chan : chan[c] \in {"ringing", "up", "mailbox"}}
Up        == {c \in Chan : chan[c] = "up"}
PickedUp  == {c \in Chan : chan[c] \in {"up", "over"}}

\* _leg_pairs: the rung legs, or the one in employee_channel_id.
Legs(r) == IF r.legs # {} THEN r.legs ELSE {r.emp} \ {None}

\* _customer_leg_ids: live far-side channels other than c.
FarLegs(r, c) == {x \in Live : x # c /\ (x = r.far \/ x \in Far)}

\* Mutant: only the channels the row names are taken down.
OwnedNamed(r, keep) == {r.emp, r.far} \ {None, keep}

\* _hangup_call_channels: what the call still owns.
Owned(r, keep) == (Legs(r) \cup ({r.far} \ {None}) \cup FarLegs(r, keep)) \ {keep}

\* Asterisk takes the channels of S down; box is the inbox without the event
\* being handled.  A channel that is not live answers 404, which
\* AsteriskClient.hangup swallows.
TakeDown(S, box) ==
    /\ chan' = [c \in Chan |-> IF c \notin S \cap Live THEN chan[c]
                               ELSE IF chan[c] = "ringing" THEN "missed" ELSE "over"]
    /\ inbox' = IF conn
                THEN [c \in Chan |-> IF c \in S /\ chan[c] \in {"ringing", "up"}
                                     THEN box[c] \cup {"destroyed"} ELSE box[c]]
                ELSE box

HangUp(S, box) == TakeDown(S, box) /\ mix' = mix \ S

Emit(c, E) == inbox' = IF conn THEN [inbox EXCEPT ![c] = @ \cup E] ELSE inbox

\* _call_for_channel.
Found(c) == row.status # "none" /\ (c \in index \/ c = row.emp \/ c = row.far)

----------------------------------------------------------------------------
(* The people, and the ring timeout given to every originate. *)

Answer(c) ==
    /\ chan[c] = "ringing"
    /\ chan' = [chan EXCEPT ![c] = "up"]
    /\ Emit(c, {"up", "stasis"})
    /\ UNCHANGED <<row, mix, open, index, job, busy, told, link, bounds, dial>>

RingOut(c) ==
    /\ chan[c] = "ringing"
    /\ chan' = [chan EXCEPT ![c] = "missed"]
    /\ Emit(c, {"destroyed"})
    /\ UNCHANGED <<row, mix, open, index, job, busy, told, link, bounds, dial>>

PartyHangup(c) ==
    /\ chan[c] \in {"up", "mailbox"}
    /\ chan' = [chan EXCEPT ![c] = "over"]
    /\ mix' = mix \ {c}
    /\ Emit(c, IF chan[c] = "up" THEN {"destroyed"} ELSE {})
    /\ UNCHANGED <<row, open, index, job, busy, told, link, bounds, dial>>

----------------------------------------------------------------------------
(* The worker takes an event.  Events of one channel arrive in order, the  *)
(* channel's destruction last; channels are not ordered among themselves.  *)

Took(c, e) ==
    /\ At("worker", "idle") /\ conn
    /\ e \in inbox[c]
    /\ e = "destroyed" => inbox[c] = {"destroyed"}

Rest(c, e) == [inbox EXCEPT ![c] = @ \ {e}]

\* A device picked up that is no leg of the call any more: the journey went on
\* to other devices.
LeftBehind(c) == c \in Emp \ (Legs(row) \cup {row.emp}) /\ row.status \notin Terminal

\* No call is found for the channel (an inbound caller is taken by InboundCall),
\* or the call has no use for its answer.
EventIgnored(c, e) ==
    /\ Took(c, e)
    /\ \/ ~Found(c) /\ ~(c \in Caller /\ e = "stasis")
       \/ Found(c) /\ e = "up" /\ LeftBehind(c)
    /\ inbox' = Rest(c, e)
    /\ UNCHANGED <<row, chan, mix, open, index, job, busy, told, link, bounds, dial>>

\* StasisStart of a leg of a call still "initiated"; the write is StoreRinging.
LegStarted(c) ==
    /\ Took(c, "stasis") /\ Found(c)
    /\ inbox' = Rest(c, "stasis")
    /\ IF c \in {row.emp} \cup Legs(row) /\ row.status = "initiated"
       THEN Goto("worker", "ringing", c, Blank)
       ELSE UNCHANGED job
    /\ UNCHANGED <<row, chan, mix, open, index, busy, told, link, bounds, dial>>

StoreRinging(p) ==
    /\ At(p, "ringing")
    /\ Write([row EXCEPT !.status = "ringing"])
    /\ Finish(p)
    /\ UNCHANGED <<asterisk, index, busy, told, link, bounds, dial>>

\* Wherever a handler gives the call up: update(status="failed", ended_at=now).
StoreFailed(p) ==
    /\ At(p, "failed")
    /\ Write([row EXCEPT !.status = "failed", !.ended = TRUE])
    /\ Tell("failed")
    /\ Finish(p)
    /\ UNCHANGED <<asterisk, index, busy, link, bounds, dial>>

\* A device of a finished call picked up.
Straggler(c) ==
    /\ Took(c, "up") /\ Found(c)
    /\ row.status \in Terminal
    /\ HangUp({c}, Rest(c, "up"))
    /\ UNCHANGED <<row, open, index, job, busy, told, link, bounds, dial>>

----------------------------------------------------------------------------
(* A channel of the far side picked up: its other devices stop ringing, and  *)
(* the row names the one that answered.                                    *)

FarAnswers(c) ==
    /\ Took(c, "up") /\ Found(c) /\ row.status \notin Terminal
    /\ c \in Far \ (Legs(row) \cup {row.emp})
    /\ HangUp(FarLegs(row, c), Rest(c, "up"))
    /\ Goto("worker", "far", c, Blank)
    /\ UNCHANGED <<row, open, index, busy, told, link, bounds, dial>>

StoreFar ==
    /\ At("worker", "far")
    /\ Write([row EXCEPT !.far = job["worker"].ch])
    /\ Goto("worker", "bridge", None, Blank)
    /\ UNCHANGED <<asterisk, index, busy, told, link, bounds, dial>>

----------------------------------------------------------------------------
(* _start_bridge, and the answer its callers record after it. *)

\* The row names no two channels, or names a bridge already.
BridgeNotNeeded ==
    /\ At("worker", "bridge")
    /\ row.bridge \/ row.emp = None \/ row.far = None
    /\ Goto("worker", "answer", None, Blank)
    /\ UNCHANGED <<row, asterisk, index, busy, told, link, bounds, dial>>

BridgeNeeded == At("worker", "bridge") /\ ~row.bridge /\ row.emp # None /\ row.far # None

BuildBridge ==
    /\ BridgeNeeded
    /\ {row.emp, row.far} \subseteq Up
    /\ mix' = mix \cup {row.emp, row.far} /\ open' = TRUE
    /\ Goto("worker", "bridged", None, Blank)
    /\ UNCHANGED <<row, chan, inbox, index, busy, told, link, bounds, dial>>

StoreBridge ==
    /\ At("worker", "bridged")
    /\ Write([row EXCEPT !.bridge = TRUE, !.status = "bridged"])
    /\ Goto("worker", "answer", None, Blank)
    /\ UNCHANGED <<asterisk, index, busy, told, link, bounds, dial>>

\* A channel is gone or not up, or (a fault) Asterisk refuses.
BridgeFails ==
    /\ BridgeNeeded
    /\ \/ {row.emp, row.far} \subseteq Up /\ faults < MaxFaults /\ faults' = faults + 1
       \/ ~({row.emp, row.far} \subseteq Up) /\ UNCHANGED faults
    /\ TakeDown(Owned(row, None), inbox) /\ mix' = {} /\ open' = FALSE
    /\ Goto("worker", "bridgeFailed", None, Blank)
    /\ UNCHANGED <<row, index, busy, told, link, crashes, drops, dial>>

StoreBridgeFailed ==
    /\ At("worker", "bridgeFailed")
    /\ Write([row EXCEPT !.status = "failed", !.ended = TRUE, !.bridge = FALSE])
    /\ Tell("failed")
    /\ Goto("worker", "answer", None, Blank)
    /\ UNCHANGED <<asterisk, index, busy, link, bounds, dial>>

ReadAnswer ==
    /\ At("worker", "answer")
    /\ IF row.status # "failed" /\ ~row.answered
       THEN Goto("worker", "answered", None, Blank)
       ELSE Finish("worker")
    /\ UNCHANGED <<row, asterisk, index, busy, told, link, bounds, dial>>

StoreAnswer ==
    /\ At("worker", "answered")
    /\ Write([row EXCEPT !.status = "answered", !.answered = TRUE])
    /\ Finish("worker")
    /\ UNCHANGED <<asterisk, index, busy, told, link, bounds, dial>>

Bridging ==
    \/ BridgeNotNeeded \/ BuildBridge \/ StoreBridge \/ BridgeFails
    \/ StoreBridgeFailed \/ ReadAnswer \/ StoreAnswer

----------------------------------------------------------------------------
(* ChannelDestroyed, the cases common to both directions. *)

EmployeeLeg(c) == c \in Legs(row) \/ c = row.emp
CustomerLeg(c) == ~EmployeeLeg(c) /\ (c = row.far \/ c \in Far)
Unanswered(c)  == ~row.answered /\ (EmployeeLeg(c) \/ CustomerLeg(c))

\* Mutant: the first device to stop ringing ends the call.
NoOthers(c) == {}

\* The other devices of the same side that are still alive.
OthersOf(c) ==
    IF EmployeeLeg(c) THEN (Legs(row) \cap Live) \ {c} ELSE FarLegs(row, c)

\* Mutant: a cancelled device is taken for one of the talkers.
NoLoser(c) == FALSE

\* A device that lost the race to answer.
Loser(c) == row.answered /\ (\/ EmployeeLeg(c) /\ c # row.emp
                             \/ CustomerLeg(c) /\ c # row.far)

\* The call is over already, or c is not what it runs on: only bookkeeping.
LegGone(c) ==
    /\ Took(c, "destroyed") /\ Found(c)
    /\ row.ended \/ Loser(c) \/ (Unanswered(c) /\ OthersOf(c) # {})
    /\ inbox' = Rest(c, "destroyed")
    /\ index' = index \ {c}
    /\ UNCHANGED <<row, chan, mix, open, job, busy, told, link, bounds, dial>>

\* A channel list Asterisk does not return is read as an empty one (a fault).
LastLegGone(c) ==
    /\ Took(c, "destroyed") /\ Found(c)
    /\ ~row.ended /\ Unanswered(c)
    /\ \/ OthersOf(c) = {} /\ UNCHANGED faults
       \/ OthersOf(c) # {} /\ faults < MaxFaults /\ faults' = faults + 1

\* Nobody is left to answer: everything goes down, then _finalize.
UnansweredEnds(c) ==
    /\ LastLegGone(c)
    /\ HangUp(Owned(row, c), Rest(c, "destroyed"))
    /\ index' = index \ (Legs(row) \cup {c})
    /\ Goto("worker", "fin", None, Blank)
    /\ UNCHANGED <<row, open, busy, told, link, crashes, drops, dial>>

\* One of the two people talking hung up: the other one goes down.
TalkerGone(c) ==
    /\ Took(c, "destroyed") /\ Found(c)
    /\ ~row.ended /\ ~Unanswered(c) /\ ~Loser(c)
    /\ HangUp({IF EmployeeLeg(c) THEN row.far ELSE row.emp} \ {None, c}, Rest(c, "destroyed"))
    /\ index' = index \ Legs(row)
    /\ Goto("worker", "fin", None, Blank)
    /\ UNCHANGED <<row, open, busy, told, link, bounds, dial>>

----------------------------------------------------------------------------
(* _finalize by the worker or by a hangup request.  keep is job[p].ch, a     *)
(* channel handed on (to voicemail) rather than hung up.                   *)

FinalizeSkips(p) ==
    /\ At(p, "fin")
    /\ Home[p] \in busy \/ row.status \in {"none", "completed"}
    /\ Finish(p)
    /\ UNCHANGED <<row, asterisk, index, busy, told, link, bounds, dial>>

FinalizeTearsDown(p) ==
    /\ At(p, "fin")
    /\ Home[p] \notin busy /\ row.status \notin {"none", "completed"}
    /\ busy' = busy \cup {Home[p]}
    /\ TakeDown(Owned(row, job[p].ch), inbox)
    /\ IF row.bridge THEN mix' = {} /\ open' = FALSE
       ELSE mix' = mix \ Owned(row, job[p].ch) /\ UNCHANGED open
    /\ Goto(p, "finStore", None, row)
    /\ UNCHANGED <<row, index, told, link, bounds, dial>>

\* Mutants: the outcome is whatever the status was; every call that did not
\* fail is completed.
StatusKept(r)          == r.status
CompletedUnlessFailed(r) == IF r.status = "failed" THEN "failed" ELSE "completed"

Outcome(r) == IF r.status = "failed" \/ ~r.answered THEN "failed" ELSE "completed"

FinalizeStores(p) ==
    /\ At(p, "finStore")
    /\ LET end == Outcome(job[p].call) IN
         /\ Write([row EXCEPT !.status = end, !.ended = TRUE])
         /\ Tell(end)
    /\ busy' = busy \ {Home[p]}
    /\ Finish(p)
    /\ UNCHANGED <<asterisk, index, link, bounds, dial>>

Finalize(p) == FinalizeSkips(p) \/ FinalizeTearsDown(p) \/ FinalizeStores(p)

\* POST /api/calls/<id>/hangup.  Each request acts once.
HangupRequest(h) ==
    /\ At(h, "ask") /\ row.status # "none"
    /\ HangUp((Legs(row) \cup {row.emp, row.far}) \ {None}, inbox)
    /\ Goto(h, "fin", None, Blank)
    /\ UNCHANGED <<row, open, index, busy, told, link, bounds, dial>>

----------------------------------------------------------------------------
(* What goes wrong. *)

\* A database or connection error nobody catches ends the handler where it
\* stands: on_event logs it, a request answers with an error.
Working(p) == job[p].at \notin {"idle", "ask", "start", "boot"}

Aborts(p) ==
    /\ Working(p) /\ faults < MaxFaults
    /\ faults' = faults + 1
    /\ busy' = IF At(p, "finStore") THEN busy \ {Home[p]} ELSE busy
    /\ Finish(p)
    /\ UNCHANGED <<row, asterisk, index, told, link, crashes, drops, dial>>

\* The worker process dies; events not handled yet die with its socket.
Crash ==
    /\ crashes < MaxCrashes /\ crashes' = crashes + 1
    /\ Goto("worker", "boot", None, Blank)
    /\ index' = {} /\ busy' = busy \ {Home["worker"]}
    /\ conn' = FALSE /\ inbox' = [c \in Chan |-> {}]
    /\ UNCHANGED <<row, chan, mix, open, told, ready, faults, drops, dial>>

\* The websocket drops under a worker that keeps running.
Disconnect ==
    /\ conn /\ At("worker", "idle")
    /\ drops < MaxDrops /\ drops' = drops + 1
    /\ conn' = FALSE /\ ready' = FALSE /\ inbox' = [c \in Chan |-> {}]
    /\ UNCHANGED <<row, chan, mix, open, index, job, busy, told, faults, crashes, dial>>

\* A ready file nobody touches goes stale (ARI_READY_STALE_SECONDS).
ReadyExpires ==
    /\ ready /\ ~conn
    /\ ready' = FALSE
    /\ UNCHANGED <<row, asterisk, index, job, busy, told, conn, bounds, dial>>

\* The event loop starts or reconnects; it reads no channel and no row.
Connect ==
    /\ At("worker", "idle") /\ ~conn
    /\ conn' = TRUE /\ ready' = TRUE
    /\ UNCHANGED <<row, asterisk, index, job, busy, told, bounds, dial>>

----------------------------------------------------------------------------
(* recover_incomplete_calls, once at boot, before the event loop starts. *)

Recoverable == row.status \notin Terminal \cup {"none"} /\ ~row.ended

Recovered == IF Recoverable THEN Legs(row) ELSE {}

RecoverNoLiveChannel == Recoverable /\ Live \cap {row.emp, row.far} = {}
\* Mutant: an employee channel is enough, up or not.
RecoverDialsRinging == Recoverable /\ row.emp \in Live /\ row.far = None

RecoverDials         == Recoverable /\ row.emp \in Up /\ row.far = None
RecoverBridges       == Recoverable /\ row.emp \in Live /\ row.far \in Up

\* Anything else goes on as it is, and so does a call whose caller is not "Up":
\* the dial plan hands inbound channels over unanswered.
RecoverLeaves ==
    ~RecoverNoLiveChannel /\ ~RecoverDials /\ (RecoverBridges => row.far \in Caller)

\* Asterisk cannot be asked: recovery gives up and the worker goes on.
RecoverGivesUp ==
    /\ At("worker", "boot") /\ faults < MaxFaults
    /\ faults' = faults + 1
    /\ Finish("worker")
    /\ UNCHANGED <<row, asterisk, index, busy, told, link, crashes, drops, dial>>

Recover ==
    /\ At("worker", "boot")
    /\ index' = Recovered
    /\ \/ RecoverNoLiveChannel /\ Goto("worker", "failed", None, Blank)
       \/ RecoverDials         /\ Goto("worker", "dial", None, row)
       \/ RecoverBridges       /\ Goto("worker", "bridge", None, Blank)
       \/ RecoverLeaves        /\ Finish("worker")
    /\ UNCHANGED <<row, asterisk, busy, told, link, bounds, dial>>

Recovery == RecoverGivesUp \/ Recover

----------------------------------------------------------------------------
(* The initial state and the steps every call shares. *)

\* starter is where the thread that places the call begins ("start" or "idle").
InitWith(starter, channels, endpoints) ==
    /\ row = Blank
    /\ chan = channels
    /\ inbox = [c \in Chan |-> IF channels[c] = "up" THEN {"stasis"} ELSE {}]
    /\ mix = {} /\ open = FALSE
    /\ index = {}
    /\ job = [p \in Actor |-> IF p \in Hanger THEN [Idle EXCEPT !.at = "ask"]
                              ELSE IF p = "starter" THEN [Idle EXCEPT !.at = starter]
                              ELSE Idle]
    /\ busy = {} /\ told = {}
    /\ todo = endpoints /\ dialled = {}
    /\ conn = TRUE /\ ready = TRUE
    /\ faults = 0 /\ crashes = 0 /\ drops = 0

People == \E c \in Chan : Answer(c) \/ RingOut(c) \/ PartyHangup(c)

Event ==
    \E c \in Chan :
      \/ \E e \in EventType : EventIgnored(c, e)
      \/ LegStarted(c) \/ Straggler(c) \/ LegGone(c) \/ TalkerGone(c)

Ending ==
    \/ \E p \in Hanger \cup {"worker"} : Finalize(p)
    \/ \E h \in Hanger : HangupRequest(h)

Trouble == Crash \/ Disconnect \/ ReadyExpires \/ \E p \in Actor : Aborts(p)

Common ==
    \/ People \/ Event \/ Bridging \/ Ending \/ Trouble \/ Connect \/ Recovery
    \/ \E p \in {"starter", "worker"} : StoreRinging(p) \/ StoreFailed(p)

----------------------------------------------------------------------------
(* The state's type, and the moments with nothing left to do. *)

Place ==
    {"idle", "ask", "start", "boot", "fin", "finStore", "failed", "ringing",
     "bridge", "bridged", "bridgeFailed", "answer", "answered", "dialLegs",
     "read", "employee", "dial", "refuse", "dialFar", "farRefused",
     "dialDesks", "desk", "cancel", "far", "noAnswer", "dialBackups", "forwarded"}

Job == [at : Place, ch : Chan \cup {None}, call : Row]

TypeOK ==
    /\ row \in Row
    /\ chan \in [Chan -> ChanState]
    /\ inbox \in [Chan -> SUBSET EventType]
    /\ mix \subseteq Chan /\ open \in BOOLEAN
    /\ index \subseteq Chan
    /\ job \in [Actor -> Job]
    /\ busy \subseteq Host
    /\ told \subseteq Terminal
    /\ conn \in BOOLEAN /\ ready \in BOOLEAN
    /\ todo \subseteq Emp /\ dialled \subseteq Emp
    /\ faults \in 0 .. MaxFaults /\ crashes \in 0 .. MaxCrashes /\ drops \in 0 .. MaxDrops

\* What the people on the call notice of the state of a channel.
Heard(c) ==
    CASE chan[c] = "absent"  -> "quiet"
      [] chan[c] = "ringing" -> "ringing"
      [] chan[c] \in {"up", "mailbox"}   -> "on"
      [] chan[c] \in {"missed", "over"} -> "done"

\* Nobody has asked to hang the call up.
NoRequest == \A h \in Hanger : At(h, "ask")

\* The worker is connected, no actor is in the middle of a handler and no
\* event waits.
Quiet ==
    /\ conn
    /\ \A p \in Actor : job[p].at \in {"idle", "ask", "start"}
    /\ \A c \in Chan : inbox[c] = {}
=============================================================================
