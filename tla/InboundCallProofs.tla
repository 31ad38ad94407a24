------------------------- MODULE InboundCallProofs -------------------------
(***************************************************************************)
(* Proofs about InboundCall, for every set of devices and every bound on   *)
(* crashes and lost sockets.                                               *)
(***************************************************************************)
EXTENDS InboundCall, CallControlProofs

W == job["worker"]

----------------------------------------------------------------------------
(* Types.  The row takes its leg from the worker when a forward is stored,  *)
(* so the types rest on what the worker then holds.                        *)

ForwardNamed == W.at = "forwarded" => W.ch \in Far

\* The leg a row names first is one that was dialled.
LEMMA FirstDialled == dialled # {} => First \in dialled
  <1> SUFFICES ASSUME dialled # {} PROVE First \in dialled
    OBVIOUS
  <1>1. \E l \in dialled : FirstDesk \in dialled => l = FirstDesk
    OBVIOUS
  <1>2. QED
    BY <1>1 DEF First

LEMMA InitTypes == Init => TypeOK
  <1> SUFFICES ASSUME Init PROVE TypeOK
    OBVIOUS
  <1>1. \A at \in {"idle", "ask", "start"} : [Idle EXCEPT !.at = at] \in Job
    BY BlankType DEF Job, Idle, Place
  <1>2. Idle \in Job
    BY BlankType DEF Job, Idle, Place
  <1>3. job \in [Actor -> Job]
    BY <1>1, <1>2 DEF Init, InitWith
  <1>4. inbox \in [Chan -> SUBSET EventType] /\ chan \in [Chan -> ChanState]
    BY DEF Init, InitWith, EventType, ChanState
  <1>5. /\ row \in Row /\ told \subseteq Terminal /\ mix \subseteq Chan /\ index \subseteq Chan
        /\ busy \subseteq Host /\ todo \subseteq Emp /\ dialled \subseteq Emp
        /\ open \in BOOLEAN /\ conn \in BOOLEAN /\ ready \in BOOLEAN
    BY BlankType DEF Init, InitWith
  <1>6. faults \in 0 .. MaxFaults /\ crashes \in 0 .. MaxCrashes /\ drops \in 0 .. MaxDrops
    BY BoundsAssumption DEF Init, InitWith, BoundsAssumption
  <1>7. QED
    BY <1>3, <1>4, <1>5, <1>6 DEF TypeOK

LEMMA OriginateTypes ==
    ASSUME TypeOK, NEW l \in Emp, Originate(l)
    PROVE  TypeOK'
  <1>1. l \in Chan
    BY DEF Chan
  <1>2. chan' \in [Chan -> ChanState] /\ index' \subseteq Chan /\ dialled' \subseteq Emp
    BY <1>1 DEF TypeOK, Originate, ChanState
  <1>3. faults' \in 0 .. MaxFaults /\ todo' \subseteq Emp
    BY BoundsAssumption DEF TypeOK, Originate, BoundsAssumption
  <1>4. QED
    BY <1>2, <1>3 DEF TypeOK, Originate, link

LEMMA ArrivalTypes == TypeOK /\ Arrival => TypeOK'
  <1> SUFFICES ASSUME TypeOK, Arrival PROVE TypeOK'
    OBVIOUS
  <1> USE BlankType, RestType, DesksAssumption DEF DesksAssumption
  <1> "worker" \in Actor /\ Caller \subseteq Chan /\ Emp \subseteq Chan
    BY DEF Actor, Chan
  <1>1. ASSUME NEW k \in Caller, RefuseCaller(k) PROVE TypeOK'
    BY <1>1, HangUpTypes DEF TypeOK, RefuseCaller, link, dial, bounds
  <1>2. ASSUME NEW k \in Caller, AdmitCaller(k) PROVE TypeOK'
    <2>1. row' \in Row
      BY <1>2 DEF AdmitCaller, Write, Blank, Row, Status, Desk
    <2>2. todo' \subseteq Emp /\ dialled' \subseteq Emp /\ inbox' \in [Chan -> SUBSET EventType]
      BY <1>2 DEF AdmitCaller, Desk
    <2>3. job' \in [Actor -> Job]
      BY <1>2, JobTypes DEF AdmitCaller, Place, TypeOK
    <2>4. QED
      BY <1>2, <2>1, <2>2, <2>3 DEF TypeOK, AdmitCaller, link, bounds
  <1>3. ASSUME NEW l \in Emp, DialDesk(l) PROVE TypeOK'
    BY <1>3, OriginateTypes DEF DialDesk
  <1>4. CASE StoreDesks
    <2>1. row' = [row EXCEPT !.emp = First, !.legs = dialled] /\ First \in Chan
      BY <1>4, FirstDialled DEF StoreDesks, Write, TypeOK
    <2>2. row' \in Row
      BY <2>1 DEF TypeOK, Row
    <2>3. QED
      BY <1>4, <2>2, FinishTypes DEF TypeOK, StoreDesks, asterisk, link, dial, bounds
  <1>5. CASE NoDeskRings
    BY <1>5, JobTypes DEF TypeOK, NoDeskRings, Place, asterisk, link, dial, bounds
  <1>6. QED
    BY <1>1, <1>2, <1>3, <1>4, <1>5 DEF Arrival

LEMMA AnsweringTypes == TypeOK /\ Answering => TypeOK'
  <1> SUFFICES ASSUME TypeOK, Answering PROVE TypeOK'
    OBVIOUS
  <1> USE BlankType, RestType
  <1> "worker" \in Actor
    BY DEF Actor
  <1>1. ASSUME NEW c \in Chan, DeskAnswers(c) PROVE TypeOK'
    BY <1>1, JobTypes DEF TypeOK, DeskAnswers, Place, link, dial, bounds
  <1>2. CASE StoreDesk
    <2>1. job["worker"].ch \in Chan \cup {None}
      BY DEF TypeOK, Job
    <2>2. row' \in Row
      BY <1>2, <2>1 DEF StoreDesk, Write, TypeOK, Row, Status
    <2>3. job' \in [Actor -> Job]
      BY <1>2, <2>1, JobTypes DEF StoreDesk, TypeOK, Place
    <2>4. QED
      BY <1>2, <2>2, <2>3 DEF TypeOK, StoreDesk, asterisk, link, dial, bounds
  <1>3. CASE CancelDesks
    BY <1>3, HangUpTypes, JobTypes DEF TypeOK, CancelDesks, Place, link, dial, bounds
  <1>4. QED
    BY <1>1, <1>2, <1>3 DEF Answering

LEMMA UnnamedTypes == TypeOK /\ UnnamedForward => TypeOK'
  <1> SUFFICES ASSUME TypeOK, UnnamedForward PROVE TypeOK'
    OBVIOUS
  <1> USE BlankType, RestType
  <1> "worker" \in Actor /\ Far \subseteq Chan
    BY DEF Actor, Chan
  <1>1. ASSUME NEW f \in Far, FarAnswers(f) PROVE TypeOK'
    BY <1>1, HangUpTypes, JobTypes DEF TypeOK, FarAnswers, Place, link, dial, bounds
  <1>2. CASE StoreFar
    <2>1. job["worker"].ch \in Chan \cup {None}
      BY DEF TypeOK, Job
    <2>2. row' \in Row
      BY <1>2, <2>1 DEF StoreFar, Write, TypeOK, Row
    <2>3. QED
      BY <1>2, <2>2, JobTypes DEF TypeOK, StoreFar, Place, asterisk, link, dial, bounds
  <1>3. QED
    BY <1>1, <1>2 DEF UnnamedForward

LEMMA NoAnsweringTypes == TypeOK /\ ForwardNamed /\ NoAnswering => TypeOK'
  <1> SUFFICES ASSUME TypeOK, ForwardNamed, NoAnswering PROVE TypeOK'
    OBVIOUS
  <1> USE BlankType, RestType, DesksAssumption, BoundsAssumption
      DEF DesksAssumption, BoundsAssumption
  <1> "worker" \in Actor /\ Emp \subseteq Chan /\ Far \subseteq Chan
    BY DEF Actor, Chan
  <1>0. Read \in Row /\ Read.far \in Chan \cup {None} /\ job["worker"].ch \in Chan \cup {None}
    BY DEF TypeOK, Job, Read, Row
  <1>1. ASSUME NEW c \in Chan, NobodyAnswers(c) PROVE TypeOK'
    <2>1. job' \in [Actor -> Job]
      BY <1>1, JobTypes DEF NobodyAnswers, TypeOK, Place
    <2>2. faults' \in 0 .. MaxFaults
      BY <1>1 DEF NobodyAnswers, LastLegGone, TypeOK
    <2>3. QED
      BY <1>1, <2>1, <2>2 DEF TypeOK, NobodyAnswers, link, dial
  <1>2. CASE EndedMeanwhile
    BY <1>2, FinishTypes DEF TypeOK, EndedMeanwhile, asterisk, link, dial, bounds
  <1>3. CASE RingBackups
    <2>1. job' \in [Actor -> Job]
      BY <1>0, <1>3, JobTypes DEF RingBackups, TypeOK, Place
    <2>2. QED
      BY <1>3, <2>1 DEF TypeOK, RingBackups, asterisk, link, bounds
  <1>4. CASE SkipBackups
    <2>1. row' \in Row
      BY <1>4, RowTypes DEF SkipBackups, Write, TypeOK, Status
    <2>2. job' \in [Actor -> Job]
      BY <1>4, <2>1, JobTypes DEF SkipBackups, TypeOK, Place
    <2>3. QED
      BY <1>4, <2>1, <2>2 DEF TypeOK, SkipBackups, asterisk, link, dial, bounds
  <1>5. CASE StoreBackups
    <2>1. First \in Chan /\ Read.legs \cup dialled \subseteq Chan
      BY <1>0, <1>5, FirstDialled DEF StoreBackups, TypeOK, Row
    <2>2. row' \in Row
      BY <1>5, <2>1 DEF StoreBackups, Write, TypeOK, Row, Status
    <2>3. QED
      BY <1>5, <2>2, FinishTypes DEF TypeOK, StoreBackups, asterisk, link, dial, bounds
  <1>6. ASSUME NEW l \in Emp, DialBackup(l) PROVE TypeOK'
    BY <1>6, OriginateTypes DEF DialBackup
  <1>7. CASE ToVoicemail
    <2>1. job' \in [Actor -> Job]
      BY <1>0, <1>7, JobTypes DEF ToVoicemail, TypeOK, Place
    <2>2. QED
      BY <1>7, <2>1 DEF TypeOK, ToVoicemail, ChanState, link, dial, bounds
  <1>8. CASE Missed
    BY <1>8, HangUpTypes, JobTypes DEF TypeOK, Missed, Place, link, dial, bounds
  <1>9. CASE StoreForward
    <2>1. row' \in Row
      <3>1. {job["worker"].ch} \subseteq Chan
        BY <1>9 DEF StoreForward, At, ForwardNamed, W
      <3>2. QED
        BY <1>0, <1>9, <3>1 DEF StoreForward, Write, TypeOK, Row, Status
    <2>2. QED
      BY <1>9, <2>1, FinishTypes DEF TypeOK, StoreForward, asterisk, link, dial, bounds
  <1>10. ASSUME NEW f \in Far, Forward(f) PROVE TypeOK'
    <2>1. job' \in [Actor -> Job]
      BY <1>10, JobTypes DEF Forward, TypeOK, Place
    <2>2. QED
      BY <1>10, <2>1 DEF TypeOK, Forward, ChanState, link, dial, bounds
  <1>11. QED
    BY <1>1, <1>2, <1>3, <1>4, <1>5, <1>6, <1>7, <1>8, <1>9, <1>10 DEF NoAnswering

\* Where the worker is after a step that moves an actor.
LEMMA GotoWorker ==
    ASSUME TypeOK, NEW at, NEW c, NEW r, Goto("worker", at, c, r)
    PROVE  W' = [at |-> at, ch |-> c, call |-> r] /\ \A p \in Actor \ {"worker"} : job'[p] = job[p]
  BY DEF TypeOK, Goto, W, Actor

LEMMA FinishWorker ==
    ASSUME TypeOK, Finish("worker")
    PROVE  W' = Idle /\ W'.at = "idle" /\ \A p \in Actor \ {"worker"} : job'[p] = job[p]
  BY DEF TypeOK, Finish, W, Actor, Idle

LEMMA OtherMoves ==
    ASSUME TypeOK, NEW p \in Actor, p # "worker", NEW at, NEW c, NEW r, Goto(p, at, c, r) \/ Finish(p)
    PROVE  W' = W
  BY DEF TypeOK, Goto, Finish, W, Actor

\* The common steps leave the worker where it is or move it to a common place.
CommonPlaces ==
    {"idle", "boot", "fin", "finStore", "failed", "ringing", "bridge", "bridged",
     "bridgeFailed", "answer", "answered", "dial"}

LEMMA CommonMoves ==
    ASSUME TypeOK, Common \/ \E c \in Chan : UnansweredEnds(c)
    PROVE  W' = W \/ W'.at \in CommonPlaces
  <1> "worker" \in Actor
    BY DEF Actor
  <1>1. CASE People \/ Connect
    BY <1>1 DEF People, Answer, RingOut, PartyHangup, Connect, W
  <1>2. CASE Event \/ \E c \in Chan : UnansweredEnds(c)
    <2>1. PICK c \in Chan : \/ \E e \in EventType : EventIgnored(c, e)
                            \/ LegStarted(c) \/ Straggler(c) \/ LegGone(c) \/ TalkerGone(c)
                            \/ UnansweredEnds(c)
      BY <1>2 DEF Event
    <2>2. CASE (\E e \in EventType : EventIgnored(c, e)) \/ Straggler(c) \/ LegGone(c)
      BY <2>2 DEF EventIgnored, Straggler, LegGone, W
    <2>3. CASE LegStarted(c)
      <3>1. UNCHANGED job \/ Goto("worker", "ringing", c, Blank)
        BY <2>3 DEF LegStarted
      <3>2. CASE UNCHANGED job
        BY <3>2 DEF W
      <3>3. CASE Goto("worker", "ringing", c, Blank)
        BY <3>3, GotoWorker DEF CommonPlaces
      <3>4. QED
        BY <3>1, <3>2, <3>3
    <2>4. CASE TalkerGone(c) \/ UnansweredEnds(c)
      BY <2>4, GotoWorker DEF TalkerGone, UnansweredEnds, CommonPlaces
    <2>5. QED
      BY <2>1, <2>2, <2>3, <2>4
  <1>3. CASE Bridging
    BY <1>3, GotoWorker, FinishWorker
       DEF Bridging, BridgeNotNeeded, BuildBridge, StoreBridge, BridgeFails, StoreBridgeFailed,
           ReadAnswer, StoreAnswer, CommonPlaces
  <1>4. CASE Ending
    <2>1. PICK p \in Hanger \cup {"worker"} : Finalize(p) \/ (p \in Hanger /\ HangupRequest(p))
      BY <1>4 DEF Ending
    <2>2. p \in Actor
      BY DEF Actor
    <2>3. CASE p = "worker"
      BY <2>1, <2>3, GotoWorker, FinishWorker
         DEF Finalize, FinalizeSkips, FinalizeTearsDown, FinalizeStores, HangupRequest, CommonPlaces
    <2>4. CASE p # "worker"
      BY <2>1, <2>2, <2>4, OtherMoves
         DEF Finalize, FinalizeSkips, FinalizeTearsDown, FinalizeStores, HangupRequest
    <2>5. QED
      BY <2>3, <2>4
  <1>5. CASE Trouble
    <2>1. CASE \E p \in Actor : Aborts(p)
      BY <2>1, FinishWorker, OtherMoves DEF Aborts, CommonPlaces
    <2>2. CASE Crash
      BY <2>2, GotoWorker DEF Crash, CommonPlaces
    <2>3. CASE Disconnect \/ ReadyExpires
      BY <2>3 DEF Disconnect, ReadyExpires, W
    <2>4. QED
      BY <1>5, <2>1, <2>2, <2>3 DEF Trouble
  <1>6. CASE Recovery
    BY <1>6, GotoWorker, FinishWorker DEF Recovery, RecoverGivesUp, Recover, CommonPlaces
  <1>7. CASE \E p \in {"starter", "worker"} : StoreRinging(p) \/ StoreFailed(p)
    BY <1>7, FinishWorker, OtherMoves DEF StoreRinging, StoreFailed, CommonPlaces, Actor
  <1>8. QED
    BY <1>1, <1>2, <1>3, <1>4, <1>5, <1>6, <1>7 DEF Common

LEMMA InboundMoves ==
    ASSUME TypeOK, Arrival \/ Answering \/ UnnamedForward \/ NoAnswering
    PROVE  \/ W'.at # "forwarded" \/ W' = W
           \/ W'.ch \in Far
  <1>1. CASE \/ \E k \in Caller : RefuseCaller(k)
             \/ \E l \in Emp : DialDesk(l) \/ DialBackup(l)
    BY <1>1 DEF RefuseCaller, DialDesk, DialBackup, Originate, W
  <1>2. CASE \/ \E k \in Caller : AdmitCaller(k)
             \/ NoDeskRings \/ StoreDesk \/ CancelDesks \/ \E c \in Chan : DeskAnswers(c)
    <2>1. \E at \in Place : \E c, r : at # "forwarded" /\ Goto("worker", at, c, r)
      BY <1>2 DEF AdmitCaller, NoDeskRings, StoreDesk, CancelDesks, DeskAnswers, Place
    <2>2. QED
      BY <2>1, GotoWorker
  <1>3. CASE \/ \E c \in Chan : NobodyAnswers(c)
             \/ RingBackups \/ SkipBackups \/ ToVoicemail \/ Missed
    BY <1>3, GotoWorker DEF NobodyAnswers, RingBackups, SkipBackups, ToVoicemail, Missed
  <1>4. CASE StoreDesks \/ EndedMeanwhile \/ StoreBackups \/ StoreForward
    BY <1>4, FinishWorker DEF StoreDesks, EndedMeanwhile, StoreBackups, StoreForward
  <1>5. CASE \E f \in Far : Forward(f)
    BY <1>5, GotoWorker DEF Forward
  <1>6. CASE UnnamedForward
    BY <1>6, GotoWorker DEF UnnamedForward, StoreFar, FarAnswers
  <1>7. QED
    BY <1>1, <1>2, <1>3, <1>4, <1>5, <1>6 DEF Arrival, Answering, NoAnswering

LEMMA StepTypes == TypeOK /\ ForwardNamed /\ [Next]_vars => TypeOK' /\ ForwardNamed'
  <1> SUFFICES ASSUME TypeOK, ForwardNamed, [Next]_vars PROVE TypeOK' /\ ForwardNamed'
    OBVIOUS
  <1>1. TypeOK'
    BY ArrivalTypes, AnsweringTypes, UnnamedTypes, NoAnsweringTypes, CommonTypes, UnansweredEndsTypes,
       StutterTypes
       DEF Next, CallerLeaves
  <1>2. CASE Common \/ CallerLeaves
    BY <1>1, <1>2, CommonMoves DEF CallerLeaves, ForwardNamed, CommonPlaces
  <1>3. CASE Arrival \/ Answering \/ UnnamedForward \/ NoAnswering
    BY <1>1, <1>3, InboundMoves DEF ForwardNamed
  <1>4. CASE UNCHANGED vars
    BY <1>1, <1>4 DEF vars, ForwardNamed, W
  <1>5. QED
    BY <1>2, <1>3, <1>4 DEF Next

\* Every value the code keeps is of the type its column or field has.
THEOREM TypeCorrect == Spec => []TypeOK
  <1>1. Init => TypeOK /\ ForwardNamed
    BY InitTypes DEF Init, InitWith, Idle, Actor, ForwardNamed, W
  <1>2. QED
    BY <1>1, StepTypes, PTL DEF Spec
----------------------------------------------------------------------------
(* A call the worker ended stays ended, if nobody asks to hang it up: then  *)
(* only the worker writes the row, and it looks before it goes on.         *)

\* Places from which the worker writes a live status, and for which it read
\* one.
GoingOn ==
    {"dialDesks", "desk", "cancel", "far", "noAnswer", "dialBackups", "forwarded", "bridge",
     "bridged", "answered"}

\* The row exists while the worker is on it.
RowExists ==
    /\ W.at \notin {"idle", "boot"} => row.status # "none"
    /\ job["starter"].at = "idle" /\ W.at # "ringing" /\ row.status # "initiated"

\* An ended call says so in both columns, and the worker goes on with no call
\* that ended.
EndsTogether ==
    /\ row.status \in Terminal => row.ended
    /\ W.at \in GoingOn => row.status \notin Terminal
    /\ W.at = "answer" => row.status # "completed"

\* The caller's channel never rings, and its arrival is spent once a row exists.
CallerCame ==
    \A k \in Caller : /\ chan[k] \notin {"absent", "ringing"}
                      /\ row.status # "none" => "stasis" \notin inbox[k]

EndedInv == RowExists /\ EndsTogether

\* A call that ended stays ended, in one step, and only an arrival makes a row.
StaysEnded ==
    /\ row.status \in Terminal => row'.status \in Terminal
    /\ row.status = "none" => row'.status = "none" \/ \E k \in Caller : AdmitCaller(k)

\* A step that leaves the row alone and moves the worker only where the row
\* as it is lets it go.
LEMMA LooksFirst ==
    ASSUME TypeOK, EndedInv, UNCHANGED row, job'["starter"] = job["starter"],
           \/ W' = W
           \/ W'.at \in {"idle", "boot"}
           \/ /\ row.status # "none" /\ W'.at # "ringing"
              /\ W'.at \in GoingOn => row.status \notin Terminal
              /\ W'.at = "answer" => row.status # "completed"
    PROVE  EndedInv' /\ StaysEnded
  <1>1. W' = W => EndedInv'
    BY DEF EndedInv, RowExists, EndsTogether
  <1>2. W' # W => EndedInv'
    BY DEF EndedInv, RowExists, EndsTogether, GoingOn
  <1>3. QED
    BY <1>1, <1>2 DEF StaysEnded, Terminal

\* A step that writes a status into a row that exists.
LEMMA WritesStatus ==
    ASSUME TypeOK, EndedInv, row.status # "none", job'["starter"] = job["starter"],
           row'.status \notin {"none", "initiated"}, W'.at # "ringing",
           \/ row'.status \notin Terminal /\ row.status \notin Terminal
           \/ row'.status \in Terminal /\ row'.ended /\ W'.at \notin GoingOn,
           W'.at = "answer" => row'.status # "completed"
    PROVE  EndedInv' /\ StaysEnded
  BY DEF EndedInv, RowExists, EndsTogether, StaysEnded, GoingOn

LEMMA EnvironmentEnded ==
    ASSUME TypeOK, Hanger = {}, EndedInv,
           \/ People \/ Event \/ (\E c \in Chan : UnansweredEnds(c))
           \/ Trouble \/ Connect \/ Recovery
    PROVE  EndedInv' /\ StaysEnded
  <1> "worker" \in Actor /\ "starter" \in Actor
    BY DEF Actor
  <1>1. UNCHANGED row
    BY DEF People, Answer, RingOut, PartyHangup,
           Event, EventIgnored, LegStarted, Straggler, LegGone, TalkerGone, UnansweredEnds,
           Trouble, Crash, Disconnect, ReadyExpires, Aborts, Connect, Recovery, RecoverGivesUp, Recover
  <1>2. CASE UNCHANGED job
    BY <1>1, <1>2, LooksFirst DEF W
  <1>3. CASE Event \/ \E c \in Chan : UnansweredEnds(c)
    <2>1. PICK c \in Chan : \/ \E e \in EventType : EventIgnored(c, e)
                            \/ LegStarted(c) \/ Straggler(c) \/ LegGone(c) \/ TalkerGone(c)
                            \/ UnansweredEnds(c)
      BY <1>3 DEF Event
    <2>2. CASE TalkerGone(c) \/ UnansweredEnds(c)
      <3>1. Goto("worker", "fin", None, Blank) /\ row.status # "none"
        BY <2>2 DEF TalkerGone, UnansweredEnds, LastLegGone, Found
      <3>2. W'.at = "fin" /\ job'["starter"] = job["starter"]
        BY <3>1, GotoWorker
      <3>3. QED
        BY <1>1, <3>1, <3>2, LooksFirst DEF GoingOn
    <2>3. CASE ~(TalkerGone(c) \/ UnansweredEnds(c))
      <3>1. UNCHANGED job
        BY <2>1, <2>3 DEF EventIgnored, LegStarted, Straggler, LegGone, EndedInv, RowExists
      <3>2. QED
        BY <1>2, <3>1
    <2>4. QED
      BY <2>2, <2>3
  <1>4. CASE Crash
    <2>1. W'.at = "boot" /\ job'["starter"] = job["starter"]
      BY <1>4, GotoWorker DEF Crash
    <2>2. QED
      BY <1>1, <2>1, LooksFirst
  <1>5. CASE \E p \in Actor : Aborts(p)
    <2>1. Aborts("worker")
      BY <1>5 DEF Aborts, Working, Actor, EndedInv, RowExists
    <2>2. W'.at = "idle" /\ job'["starter"] = job["starter"]
      BY <2>1, FinishWorker DEF Aborts
    <2>3. QED
      BY <1>1, <2>2, LooksFirst
  <1>6. CASE RecoverGivesUp
    <2>1. W'.at = "idle" /\ job'["starter"] = job["starter"]
      BY <1>6, FinishWorker DEF RecoverGivesUp
    <2>2. QED
      BY <1>1, <2>1, LooksFirst
  <1>7. CASE Recover
    <2>1. CASE Finish("worker")
      <3>1. W'.at = "idle" /\ job'["starter"] = job["starter"]
        BY <2>1, FinishWorker
      <3>2. QED
        BY <1>1, <3>1, LooksFirst
    <2>2. CASE ~Finish("worker")
      <3>1. row.status \notin Terminal \cup {"none"}
        BY <1>7, <2>2
           DEF Recover, RecoverNoLiveChannel, RecoverDials, RecoverBridges, Recoverable
      <3>2. PICK at \in {"failed", "dial", "bridge"} : \E c, r : Goto("worker", at, c, r)
        BY <1>7, <2>2 DEF Recover
      <3>3. W'.at = at /\ job'["starter"] = job["starter"]
        BY <3>2, GotoWorker
      <3>4. QED
        BY <1>1, <3>1, <3>3, LooksFirst DEF Terminal
    <2>3. QED
      BY <2>1, <2>2
  <1>8. CASE People \/ Connect \/ Disconnect \/ ReadyExpires
    BY <1>2, <1>8 DEF People, Answer, RingOut, PartyHangup, Connect, Disconnect, ReadyExpires
  <1>9. QED
    BY <1>3, <1>4, <1>5, <1>6, <1>7, <1>8 DEF Trouble, Recovery

LEMMA BridgingEnded ==
    ASSUME TypeOK, EndedInv, Bridging
    PROVE  EndedInv' /\ StaysEnded
  <1> "worker" \in Actor /\ "starter" \in Actor
    BY DEF Actor
  <1> row.status # "none" /\ row \in Row
    BY DEF Bridging, BridgeNotNeeded, BridgeNeeded, BuildBridge, StoreBridge, BridgeFails,
           StoreBridgeFailed, ReadAnswer, StoreAnswer, At, W, EndedInv, RowExists, TypeOK
  <1>1. CASE BridgeNotNeeded \/ BuildBridge \/ BridgeFails
    <2>1. UNCHANGED row /\ row.status \notin Terminal
      BY <1>1 DEF BridgeNotNeeded, BridgeNeeded, BuildBridge, BridgeFails, At, W, EndedInv,
                  EndsTogether, GoingOn
    <2>2. PICK at \in {"answer", "bridged", "bridgeFailed"} : Goto("worker", at, None, Blank)
      BY <1>1 DEF BridgeNotNeeded, BuildBridge, BridgeFails
    <2>3. W'.at = at /\ job'["starter"] = job["starter"]
      BY <2>2, GotoWorker
    <2>4. QED
      BY <2>1, <2>3, LooksFirst DEF Terminal
  <1>2. CASE StoreBridge
    <2>1. W'.at = "answer" /\ job'["starter"] = job["starter"]
      BY <1>2, GotoWorker DEF StoreBridge
    <2>2. row'.status = "bridged" /\ row.status \notin Terminal
      BY <1>2 DEF StoreBridge, Write, At, W, Row, EndedInv, EndsTogether, GoingOn
    <2>3. QED
      BY <2>1, <2>2, WritesStatus DEF Terminal
  <1>3. CASE StoreBridgeFailed
    <2>1. W'.at = "answer" /\ job'["starter"] = job["starter"]
      BY <1>3, GotoWorker DEF StoreBridgeFailed
    <2>2. row'.status = "failed" /\ row'.ended
      BY <1>3 DEF StoreBridgeFailed, Write, Row
    <2>3. QED
      BY <2>1, <2>2, WritesStatus DEF Terminal, GoingOn
  <1>4. CASE ReadAnswer
    <2>1. UNCHANGED row /\ row.status # "completed"
      BY <1>4 DEF ReadAnswer, At, W, EndedInv, EndsTogether
    <2>2. CASE Finish("worker")
      <3>1. W'.at = "idle" /\ job'["starter"] = job["starter"]
        BY <2>2, FinishWorker
      <3>2. QED
        BY <2>1, <3>1, LooksFirst
    <2>3. CASE row.status # "failed" /\ Goto("worker", "answered", None, Blank)
      <3>1. W'.at = "answered" /\ job'["starter"] = job["starter"]
        BY <2>3, GotoWorker
      <3>2. QED
        BY <2>1, <2>3, <3>1, LooksFirst DEF Terminal
    <2>4. QED
      BY <1>4, <2>2, <2>3 DEF ReadAnswer
  <1>5. CASE StoreAnswer
    <2>1. W'.at = "idle" /\ job'["starter"] = job["starter"]
      BY <1>5, FinishWorker DEF StoreAnswer
    <2>2. row'.status = "answered" /\ row.status \notin Terminal
      BY <1>5 DEF StoreAnswer, Write, At, W, Row, EndedInv, EndsTogether, GoingOn
    <2>3. QED
      BY <2>1, <2>2, WritesStatus DEF Terminal
  <1>6. QED
    BY <1>1, <1>2, <1>3, <1>4, <1>5 DEF Bridging

LEMMA EndingEnded ==
    ASSUME TypeOK, Hanger = {}, EndedInv,
           \/ Ending \/ \E p \in {"starter", "worker"} : StoreRinging(p) \/ StoreFailed(p)
    PROVE  EndedInv' /\ StaysEnded
  <1> "worker" \in Actor /\ "starter" \in Actor
    BY DEF Actor
  <1> row \in Row
    BY DEF TypeOK
  <1>1. \/ Finalize("worker") \/ StoreFailed("worker")
    BY DEF Ending, StoreRinging, StoreFailed, At, W, EndedInv, RowExists
  <1> row.status # "none"
    BY <1>1 DEF Finalize, FinalizeSkips, FinalizeTearsDown, FinalizeStores, StoreFailed, At, W,
                EndedInv, RowExists
  <1>2. CASE FinalizeSkips("worker")
    <2>1. UNCHANGED row /\ W'.at = "idle" /\ job'["starter"] = job["starter"]
      BY <1>2, FinishWorker DEF FinalizeSkips
    <2>2. QED
      BY <2>1, LooksFirst
  <1>3. CASE FinalizeTearsDown("worker")
    <2>1. UNCHANGED row /\ W'.at = "finStore" /\ job'["starter"] = job["starter"]
      BY <1>3, GotoWorker DEF FinalizeTearsDown
    <2>2. QED
      BY <2>1, LooksFirst DEF GoingOn
  <1>4. CASE FinalizeStores("worker") \/ StoreFailed("worker")
    <2>1. W'.at = "idle" /\ job'["starter"] = job["starter"]
      BY <1>4, FinishWorker DEF FinalizeStores, StoreFailed
    <2>2. row'.status \in Terminal /\ row'.ended
      BY <1>4 DEF FinalizeStores, StoreFailed, Write, Row, Outcome, Terminal
    <2>3. QED
      BY <2>1, <2>2, WritesStatus DEF Terminal, GoingOn
  <1>5. QED
    BY <1>1, <1>2, <1>3, <1>4 DEF Finalize

LEMMA ArrivalEnded ==
    ASSUME TypeOK, EndedInv, CallerCame, Arrival
    PROVE  EndedInv' /\ StaysEnded
  <1> "worker" \in Actor /\ "starter" \in Actor /\ row \in Row
    BY DEF Actor, TypeOK
  <1>1. ASSUME NEW k \in Caller, RefuseCaller(k) PROVE EndedInv' /\ StaysEnded
    BY <1>1, LooksFirst DEF RefuseCaller, W
  <1>2. ASSUME NEW k \in Caller, AdmitCaller(k) PROVE EndedInv' /\ StaysEnded
    <2>1. row.status = "none"
      BY <1>2 DEF AdmitCaller, Arrives, Took, CallerCame
    <2>2. W'.at = "dialDesks" /\ job'["starter"] = job["starter"]
      BY <1>2, GotoWorker DEF AdmitCaller
    <2>3. row'.status = "ringing"
      BY <1>2 DEF AdmitCaller, Write, Blank
    <2>4. QED
      BY <1>2, <2>1, <2>2, <2>3 DEF EndedInv, RowExists, EndsTogether, StaysEnded, Terminal
  <1>3. ASSUME NEW l \in Emp, DialDesk(l) PROVE EndedInv' /\ StaysEnded
    BY <1>3, LooksFirst DEF DialDesk, Originate, W
  <1>4. CASE StoreDesks
    <2>1. W'.at = "idle" /\ job'["starter"] = job["starter"]
      BY <1>4, FinishWorker DEF StoreDesks
    <2>2. row'.status = row.status /\ row.status \notin {"none", "initiated"}
      BY <1>4 DEF StoreDesks, Write, Row, At, W, EndedInv, RowExists
    <2>3. row.status \notin Terminal
      BY <1>4 DEF StoreDesks, At, W, EndedInv, EndsTogether, GoingOn
    <2>4. QED
      BY <2>1, <2>2, <2>3, WritesStatus
  <1>5. CASE NoDeskRings
    <2>1. UNCHANGED row /\ W.at = "dialDesks"
      BY <1>5 DEF NoDeskRings, At, W
    <2>2. W'.at = "noAnswer" /\ job'["starter"] = job["starter"]
      BY <1>5, GotoWorker DEF NoDeskRings
    <2>3. row.status \notin Terminal \cup {"none"}
      BY <2>1 DEF EndedInv, RowExists, EndsTogether, GoingOn
    <2>4. QED
      BY <2>1, <2>2, <2>3, LooksFirst
  <1>6. QED
    BY <1>1, <1>2, <1>3, <1>4, <1>5 DEF Arrival

LEMMA AnsweringEnded ==
    ASSUME TypeOK, EndedInv, Answering
    PROVE  EndedInv' /\ StaysEnded
  <1> "worker" \in Actor /\ "starter" \in Actor /\ row \in Row
    BY DEF Actor, TypeOK
  <1>1. ASSUME NEW c \in Chan, DeskAnswers(c) PROVE EndedInv' /\ StaysEnded
    <2>1. UNCHANGED row /\ row.status \notin Terminal \cup {"none"}
      BY <1>1 DEF DeskAnswers, Found
    <2>2. W'.at = "desk" /\ job'["starter"] = job["starter"]
      BY <1>1, GotoWorker DEF DeskAnswers
    <2>3. QED
      BY <2>1, <2>2, LooksFirst
  <1>2. CASE StoreDesk
    <2>1. W'.at = "cancel" /\ job'["starter"] = job["starter"]
      BY <1>2, GotoWorker DEF StoreDesk
    <2>2. row'.status = "employee_answered"
      BY <1>2 DEF StoreDesk, Write, Row
    <2>3. row.status \notin Terminal \cup {"none"}
      BY <1>2 DEF StoreDesk, At, W, EndedInv, RowExists, EndsTogether, GoingOn
    <2>4. QED
      BY <2>1, <2>2, <2>3, WritesStatus DEF Terminal
  <1>3. CASE CancelDesks
    <2>1. UNCHANGED row /\ row.status \notin Terminal \cup {"none"}
      BY <1>3 DEF CancelDesks, At, W, EndedInv, RowExists, EndsTogether, GoingOn
    <2>2. W'.at = "bridge" /\ job'["starter"] = job["starter"]
      BY <1>3, GotoWorker DEF CancelDesks
    <2>3. QED
      BY <2>1, <2>2, LooksFirst
  <1>4. QED
    BY <1>1, <1>2, <1>3 DEF Answering

LEMMA UnnamedEnded ==
    ASSUME TypeOK, EndedInv, UnnamedForward
    PROVE  EndedInv' /\ StaysEnded
  <1> "worker" \in Actor /\ "starter" \in Actor /\ row \in Row
    BY DEF Actor, TypeOK
  <1>1. ASSUME NEW f \in Far, FarAnswers(f) PROVE EndedInv' /\ StaysEnded
    <2>1. UNCHANGED row /\ row.status \notin Terminal \cup {"none"}
      BY <1>1 DEF FarAnswers, Found
    <2>2. W'.at = "far" /\ job'["starter"] = job["starter"]
      BY <1>1, GotoWorker DEF FarAnswers
    <2>3. QED
      BY <2>1, <2>2, LooksFirst
  <1>2. CASE StoreFar
    <2>1. W'.at = "bridge" /\ job'["starter"] = job["starter"]
      BY <1>2, GotoWorker DEF StoreFar
    <2>2. row'.status = row.status /\ row.status \notin Terminal \cup {"none", "initiated"}
      BY <1>2 DEF StoreFar, Write, Row, At, W, EndedInv, RowExists, EndsTogether, GoingOn
    <2>3. QED
      BY <2>1, <2>2, WritesStatus
  <1>3. QED
    BY <1>1, <1>2 DEF UnnamedForward

LEMMA NoAnsweringEnded ==
    ASSUME TypeOK, EndedInv, NoAnswering
    PROVE  EndedInv' /\ StaysEnded
  <1> "worker" \in Actor /\ "starter" \in Actor /\ row \in Row
    BY DEF Actor, TypeOK
  <1>0. W.at \in GoingOn => row.status \notin Terminal \cup {"none"}
    BY DEF EndedInv, RowExists, EndsTogether, GoingOn
  <1>1. ASSUME NEW c \in Chan, NobodyAnswers(c) PROVE EndedInv' /\ StaysEnded
    <2>1. UNCHANGED row /\ row.status \notin Terminal \cup {"none"}
      BY <1>1 DEF NobodyAnswers, LastLegGone, Found, EndedInv, EndsTogether
    <2>2. W'.at = "noAnswer" /\ job'["starter"] = job["starter"]
      BY <1>1, GotoWorker DEF NobodyAnswers
    <2>3. QED
      BY <2>1, <2>2, LooksFirst
  <1>2. CASE EndedMeanwhile
    <2>1. UNCHANGED row /\ W'.at = "idle" /\ job'["starter"] = job["starter"]
      BY <1>2, FinishWorker DEF EndedMeanwhile
    <2>2. QED
      BY <2>1, LooksFirst
  <1>3. ASSUME NEW l \in Emp, DialBackup(l) PROVE EndedInv' /\ StaysEnded
    BY <1>3, LooksFirst DEF DialBackup, Originate, W
  <1>4. CASE \/ RingBackups \/ ToVoicemail \/ Missed \/ \E f \in Far : Forward(f)
    <2>1. UNCHANGED row /\ W.at = "noAnswer"
      BY <1>4 DEF RingBackups, MayRingBackup, ToVoicemail, Missed, Forward, NoAnswer, At, W
    <2>2. PICK at \in {"dialBackups", "fin", "forwarded"} : \E c, r : Goto("worker", at, c, r)
      BY <1>4 DEF RingBackups, ToVoicemail, Missed, Forward
    <2>3. W'.at = at /\ job'["starter"] = job["starter"]
      BY <2>2, GotoWorker
    <2>4. QED
      BY <1>0, <2>1, <2>3, LooksFirst DEF GoingOn
  <1>5. CASE SkipBackups
    <2>1. W.at \in {"noAnswer", "dialBackups"}
      BY <1>5 DEF SkipBackups, MayRingBackup, NoAnswer, At, W
    <2>2. W'.at = "noAnswer" /\ job'["starter"] = job["starter"]
      BY <1>5, GotoWorker DEF SkipBackups
    <2>3. row'.status = "ringing_fallback"
      BY <1>5 DEF SkipBackups, Write, Row
    <2>4. QED
      BY <1>0, <2>1, <2>2, <2>3, WritesStatus DEF Terminal, GoingOn
  <1>6. CASE StoreBackups \/ StoreForward
    <2>1. W.at \in {"dialBackups", "forwarded"}
      BY <1>6 DEF StoreBackups, StoreForward, At, W
    <2>2. W'.at = "idle" /\ job'["starter"] = job["starter"]
      BY <1>6, FinishWorker DEF StoreBackups, StoreForward
    <2>3. row'.status \in {"ringing_fallback", "forwarding"}
      BY <1>6 DEF StoreBackups, StoreForward, Write, Row
    <2>4. QED
      BY <1>0, <2>1, <2>2, <2>3, WritesStatus DEF Terminal, GoingOn
  <1>7. QED
    BY <1>1, <1>2, <1>3, <1>4, <1>5, <1>6 DEF NoAnswering

LEMMA RestSmaller ==
    ASSUME TypeOK, NEW c \in Chan, NEW e
    PROVE  /\ Rest(c, e) \in [Chan -> SUBSET EventType]
           /\ \A d \in Chan : Rest(c, e)[d] \subseteq inbox[d]
  BY DEF TypeOK, Rest

\* The caller's channel comes from nowhere and arrives once.
CallerStays ==
    \A k \in Caller : /\ chan'[k] \notin {"absent", "ringing"}
                      /\ "stasis" \in inbox'[k] => "stasis" \in inbox[k]

LEMMA TakeDownStays ==
    ASSUME TypeOK, CallerCame, NEW S, NEW box \in [Chan -> SUBSET EventType], TakeDown(S, box),
           \A c \in Chan : box[c] \subseteq inbox[c]
    PROVE  CallerStays
  <1>1. Caller \subseteq Chan
    BY DEF Chan
  <1>2. \A c \in Chan : chan'[c] = chan[c] \/ chan'[c] \in {"missed", "over"}
    BY DEF TakeDown
  <1>3. \A c \in Chan : inbox'[c] \subseteq box[c] \cup {"destroyed"}
    BY DEF TakeDown
  <1>4. QED
    BY <1>1, <1>2, <1>3 DEF CallerCame, CallerStays

LEMMA HangUpStays ==
    ASSUME TypeOK, CallerCame, NEW S, NEW box \in [Chan -> SUBSET EventType], HangUp(S, box),
           \A c \in Chan : box[c] \subseteq inbox[c]
    PROVE  CallerStays
  BY TakeDownStays DEF HangUp

\* A step that leaves the caller's channel alone and reports nothing.
LEMMA SilentStays ==
    ASSUME CallerCame, \A k \in Caller : chan'[k] = chan[k] /\ inbox'[k] \subseteq inbox[k]
    PROVE  CallerStays
  BY DEF CallerCame, CallerStays

LEMMA CommonStays ==
    ASSUME TypeOK, CallerCame, Common \/ CallerLeaves
    PROVE  CallerStays
  <1> inbox \in [Chan -> SUBSET EventType] /\ chan \in [Chan -> ChanState] /\ Caller \subseteq Chan
    BY DEF TypeOK, Chan
  <1>1. CASE People
    <2>1. PICK c \in Chan : Answer(c) \/ RingOut(c) \/ PartyHangup(c)
      BY <1>1 DEF People
    <2>2. CASE Answer(c)
      <3>1. c \notin Caller
        BY <2>2 DEF Answer, CallerCame
      <3>2. QED
        BY <2>2, <3>1, SilentStays DEF Answer, Emit
    <2>3. CASE RingOut(c) \/ PartyHangup(c)
      <3>1. \A d \in Chan : chan'[d] = chan[d] \/ chan'[d] \in {"missed", "over"}
        BY <2>3 DEF RingOut, PartyHangup
      <3>2. \A d \in Chan : inbox'[d] \subseteq inbox[d] \cup {"destroyed"}
        BY <2>3 DEF RingOut, PartyHangup, Emit
      <3>3. QED
        BY <3>1, <3>2 DEF CallerCame, CallerStays
    <2>4. QED
      BY <2>1, <2>2, <2>3
  <1>2. CASE Event \/ CallerLeaves
    <2>1. PICK c \in Chan : \/ \E e \in EventType : EventIgnored(c, e)
                            \/ LegStarted(c) \/ Straggler(c) \/ LegGone(c) \/ TalkerGone(c)
                            \/ UnansweredEnds(c)
      BY <1>2 DEF Event, CallerLeaves
    <2>2. CASE (\E e \in EventType : EventIgnored(c, e)) \/ LegStarted(c) \/ LegGone(c)
      BY <2>2, RestSmaller, SilentStays DEF EventIgnored, LegStarted, LegGone
    <2>3. CASE Straggler(c) \/ TalkerGone(c) \/ UnansweredEnds(c)
      BY <2>3, HangUpStays, RestSmaller DEF Straggler, TalkerGone, UnansweredEnds
    <2>4. QED
      BY <2>1, <2>2, <2>3
  <1>3. CASE Bridging
    <2>1. CASE BridgeFails
      BY <2>1, TakeDownStays DEF BridgeFails
    <2>2. CASE ~BridgeFails
      BY <1>3, <2>2, SilentStays
         DEF Bridging, BridgeNotNeeded, BuildBridge, StoreBridge, StoreBridgeFailed, ReadAnswer,
             StoreAnswer, asterisk
    <2>3. QED
      BY <2>1, <2>2
  <1>4. CASE Ending
    <2>1. PICK p \in Hanger \cup {"worker"} : Finalize(p) \/ (p \in Hanger /\ HangupRequest(p))
      BY <1>4 DEF Ending
    <2>2. CASE FinalizeTearsDown(p)
      BY <2>2, TakeDownStays DEF FinalizeTearsDown
    <2>3. CASE HangupRequest(p)
      BY <2>3, HangUpStays DEF HangupRequest
    <2>4. CASE FinalizeSkips(p) \/ FinalizeStores(p)
      BY <2>4, SilentStays DEF FinalizeSkips, FinalizeStores, asterisk
    <2>5. QED
      BY <2>1, <2>2, <2>3, <2>4 DEF Finalize
  <1>5. CASE \/ Trouble \/ Connect \/ Recovery
             \/ \E p \in {"starter", "worker"} : StoreRinging(p) \/ StoreFailed(p)
    BY <1>5, SilentStays
       DEF Trouble, Crash, Disconnect, ReadyExpires, Aborts, Connect, Recovery, RecoverGivesUp,
           Recover, StoreRinging, StoreFailed, asterisk
  <1>6. QED
    BY <1>1, <1>2, <1>3, <1>4, <1>5 DEF Common

LEMMA InboundStays ==
    ASSUME TypeOK, CallerCame, Arrival \/ Answering \/ UnnamedForward \/ NoAnswering
    PROVE  CallerStays
  <1> /\ inbox \in [Chan -> SUBSET EventType] /\ chan \in [Chan -> ChanState]
      /\ Caller \subseteq Chan /\ Far \subseteq Chan
      /\ Caller \cap Emp = {} /\ Caller \cap Far = {}
    BY ChannelsAssumption DEF TypeOK, Chan, ChannelsAssumption
  <1>1. CASE Arrival
    <2>1. ASSUME NEW k \in Caller, RefuseCaller(k) PROVE CallerStays
      BY <2>1, HangUpStays, RestSmaller DEF RefuseCaller
    <2>2. ASSUME NEW k \in Caller, AdmitCaller(k) PROVE CallerStays
      BY <2>2, RestSmaller, SilentStays DEF AdmitCaller
    <2>3. ASSUME NEW l \in Emp, DialDesk(l) PROVE CallerStays
      BY <2>3, SilentStays DEF DialDesk, Originate
    <2>4. CASE StoreDesks \/ NoDeskRings
      BY <2>4, SilentStays DEF StoreDesks, NoDeskRings, asterisk
    <2>5. QED
      BY <1>1, <2>1, <2>2, <2>3, <2>4 DEF Arrival
  <1>2. CASE Answering \/ UnnamedForward
    <2>1. ASSUME NEW c \in Chan, DeskAnswers(c) PROVE CallerStays
      BY <2>1, RestSmaller, SilentStays DEF DeskAnswers
    <2>2. ASSUME NEW f \in Far, FarAnswers(f) PROVE CallerStays
      BY <2>2, HangUpStays, RestSmaller DEF FarAnswers
    <2>3. CASE CancelDesks
      BY <2>3, HangUpStays DEF CancelDesks
    <2>4. CASE StoreDesk \/ StoreFar
      BY <2>4, SilentStays DEF StoreDesk, StoreFar, asterisk
    <2>5. QED
      BY <1>2, <2>1, <2>2, <2>3, <2>4 DEF Answering, UnnamedForward
  <1>3. CASE NoAnswering
    <2>1. ASSUME NEW c \in Chan, NobodyAnswers(c) PROVE CallerStays
      BY <2>1, RestSmaller, SilentStays DEF NobodyAnswers
    <2>2. ASSUME NEW l \in Emp, DialBackup(l) PROVE CallerStays
      BY <2>2, SilentStays DEF DialBackup, Originate
    <2>3. ASSUME NEW f \in Far, Forward(f) PROVE CallerStays
      BY <2>3, SilentStays DEF Forward
    <2>4. CASE ToVoicemail
      BY <2>4 DEF ToVoicemail, CallerCame, CallerStays
    <2>5. CASE Missed
      BY <2>5, HangUpStays DEF Missed
    <2>6. CASE EndedMeanwhile \/ RingBackups \/ SkipBackups \/ StoreBackups \/ StoreForward
      BY <2>6, SilentStays
         DEF EndedMeanwhile, RingBackups, SkipBackups, StoreBackups, StoreForward, asterisk
    <2>7. QED
      BY <1>3, <2>1, <2>2, <2>3, <2>4, <2>5, <2>6 DEF NoAnswering
  <1>4. QED
    BY <1>1, <1>2, <1>3

LEMMA StepEnded ==
    ASSUME Hanger = {}, TypeOK, EndedInv, CallerCame, [Next]_vars
    PROVE  EndedInv' /\ CallerCame' /\ StaysEnded
  <1>1. EndedInv' /\ StaysEnded
    <2>1. CASE UNCHANGED vars
      BY <2>1, LooksFirst DEF vars, W
    <2>2. CASE Arrival \/ Answering \/ UnnamedForward \/ NoAnswering
      BY <2>2, ArrivalEnded, AnsweringEnded, UnnamedEnded, NoAnsweringEnded
    <2>3. CASE Common \/ CallerLeaves
      BY <2>3, EnvironmentEnded, BridgingEnded, EndingEnded DEF Common, CallerLeaves
    <2>4. QED
      BY <2>1, <2>2, <2>3 DEF Next
  <1>2. CallerStays
    BY CommonStays, InboundStays, SilentStays DEF Next, vars, asterisk
  <1>3. ASSUME NEW k \in Caller, AdmitCaller(k) PROVE \A h \in Caller : "stasis" \notin inbox'[h]
    BY <1>3, OneCallerAssumption DEF OneCallerAssumption, AdmitCaller, Rest, TypeOK, Chan
  <1>4. CallerCame'
    BY <1>1, <1>2, <1>3 DEF CallerCame, CallerStays, StaysEnded
  <1>5. QED
    BY <1>1, <1>4

LEMMA InitJobs ==
    ASSUME Init
    PROVE  job["starter"].at = "idle" /\ W.at = "idle" /\ row = Blank
  <1>1. "starter" \notin Hanger /\ "worker" \notin Hanger
    BY ActorsAssumption DEF ActorsAssumption
  <1>2. job["starter"] = [Idle EXCEPT !.at = "idle"] /\ W = Idle
    BY <1>1 DEF Init, InitWith, Actor, W
  <1>3. QED
    BY <1>2 DEF Init, InitWith, Idle

LEMMA InitEnded == Init => EndedInv /\ CallerCame
  <1>1. Init => EndedInv
    BY InitJobs DEF Blank, EndedInv, RowExists, EndsTogether, GoingOn, Terminal
  <1>2. Init => CallerCame
    BY DEF Init, InitWith, Blank, CallerCame, Chan
  <1>3. QED
    BY <1>1, <1>2

\* A call nobody asks to hang up stays ended once the worker ended it, whatever
\* fails, crashes and restarts in between.
THEOREM EndedForGood == ASSUME Hanger = {} PROVE Spec => NoResurrection
  <1>1. Init => EndedInv /\ CallerCame
    BY InitEnded
  <1>2. TypeOK /\ EndedInv /\ CallerCame /\ [Next]_vars => EndedInv' /\ CallerCame' /\ StaysEnded
    BY StepEnded
  <1>3. TypeOK /\ EndedInv /\ CallerCame /\ [Next]_vars => [row.status \in Terminal => row'.status \in Terminal]_vars
    BY <1>2 DEF StaysEnded
  <1>4. QED
    BY <1>1, <1>2, <1>3, TypeCorrect, PTL DEF Spec, NoResurrection

----------------------------------------------------------------------------
(* Who is in the bridge. *)

\* The row's columns fit each other; the caller is in the row before anybody
\* is in the bridge.
RowFits ==
    /\ row.far \in Caller \cup {None}
    /\ row.status = "none" => row.far = None
    /\ row.status \in Terminal => row.ended
    /\ row.legs # {} => row.emp \in row.legs
    /\ W.at = "desk" => W.ch \in Legs(row)
    /\ W.at = "cancel" => W.ch = row.emp /\ row.emp # None

\* Nobody is in the bridge before the desks rang, and when the worker gives
\* the desks up the one the row names is not.
BridgeIdle ==
    /\ mix # {} => row.far # None
    /\ W.at = "dialDesks" => mix = {}
    /\ W.at \in {"noAnswer", "dialBackups", "forwarded"} => row.emp \notin mix

\* A call recovered while two people talk: the end of a talker is not reported
\* while the talker is in the bridge.
TalkersOn ==
    /\ \A c \in mix : chan[c] \in {"up", "mailbox"}
    /\ ~row.answered /\ ~row.ended /\ W.at \notin {"bridged", "answer", "answered"} =>
         \A c \in mix : "destroyed" \notin inbox[c]

BridgeInv == RowFits /\ BridgeIdle /\ TalkersOn /\ BridgeNamesTalkers

\* Most steps only part people: who stays in the bridge stays on the line, and
\* no end of theirs is reported.
PartsOnly ==
    /\ mix' \subseteq mix
    /\ \A c \in mix' : /\ chan'[c] \in {"up", "mailbox"}
                       /\ "destroyed" \in inbox'[c] => "destroyed" \in inbox[c]

\* They name the same channels, and a row that is open was open before.
RowGoesOn ==
    /\ row'.emp = row.emp /\ row'.far = row.far /\ row'.legs = row.legs
    /\ row'.status = "none" => row.status = "none"
    /\ row'.status \in Terminal => row'.ended
    /\ ~row'.answered /\ ~row'.ended => ~row.answered /\ ~row.ended

BridgedPlaces == {"bridged", "answer", "answered"}
DeskPlaces    == {"desk", "cancel", "dialDesks", "noAnswer", "dialBackups", "forwarded"}

\* The worker leaves the bridge it built with the answer stored, the call ended
\* or, when it crashes, with every event lost.
LeavesAnswered ==
    W.at \in BridgedPlaces /\ W'.at \notin BridgedPlaces =>
      row'.answered \/ row'.ended \/ \A c \in mix' : "destroyed" \notin inbox'[c]

LEMMA PartsKeeps ==
    ASSUME TypeOK, BridgeInv, PartsOnly, RowGoesOn, LeavesAnswered,
           W' = W \/ (W'.at \notin DeskPlaces /\ W.at # "cancel")
    PROVE  BridgeInv'
  <1>1. RowFits'
    BY DEF BridgeInv, RowFits, RowGoesOn, DeskPlaces, Legs
  <1>2. BridgeIdle'
    BY DEF BridgeInv, BridgeIdle, RowGoesOn, PartsOnly, DeskPlaces
  <1>3. TalkersOn'
    BY DEF BridgeInv, TalkersOn, RowGoesOn, PartsOnly, LeavesAnswered, BridgedPlaces
  <1>4. BridgeNamesTalkers'
    BY DEF BridgeInv, BridgeNamesTalkers, RowGoesOn, PartsOnly, Legs, DeskPlaces, At, W
  <1>5. QED
    BY <1>1, <1>2, <1>3, <1>4 DEF BridgeInv

LEMMA TakeDownParts ==
    ASSUME TypeOK, BridgeInv, NEW S, NEW box \in [Chan -> SUBSET EventType], TakeDown(S, box),
           \A c \in Chan : box[c] \subseteq inbox[c], mix' \subseteq mix \ S
    PROVE  PartsOnly
  <1> SUFFICES ASSUME NEW c \in mix'
               PROVE  /\ chan'[c] \in {"up", "mailbox"}
                      /\ "destroyed" \in inbox'[c] => "destroyed" \in inbox[c]
    BY DEF PartsOnly
  <1>1. c \in mix /\ c \in Chan /\ c \notin S
    BY DEF TypeOK
  <1>2. chan'[c] = chan[c] /\ inbox'[c] = box[c]
    BY <1>1 DEF TakeDown
  <1>3. QED
    BY <1>1, <1>2 DEF BridgeInv, TalkersOn

LEMMA HangUpParts ==
    ASSUME TypeOK, BridgeInv, NEW S, NEW box \in [Chan -> SUBSET EventType], HangUp(S, box),
           \A c \in Chan : box[c] \subseteq inbox[c]
    PROVE  PartsOnly
  BY TakeDownParts DEF HangUp

\* Channels and bridge as they are, and no event but those there were.
LEMMA SameParts ==
    ASSUME TypeOK, BridgeInv, UNCHANGED <<chan, mix>>, \A c \in Chan : inbox'[c] \subseteq inbox[c]
    PROVE  PartsOnly
  BY DEF TypeOK, BridgeInv, TalkersOn, PartsOnly

LEMMA CommonRowGoesOn ==
    ASSUME TypeOK, BridgeInv, Common \/ \E c \in Chan : UnansweredEnds(c)
    PROVE  RowGoesOn
  <1> row \in Row /\ (row.status \in Terminal => row.ended)
    BY DEF TypeOK, BridgeInv, RowFits
  <1>1. CASE UNCHANGED row
    BY <1>1 DEF RowGoesOn
  <1>2. CASE StoreBridge \/ StoreBridgeFailed \/ StoreAnswer
    BY <1>2 DEF StoreBridge, StoreBridgeFailed, StoreAnswer, Write, Row, RowGoesOn, Terminal
  <1>3. CASE \E p \in Hanger \cup {"worker"} : FinalizeStores(p)
    BY <1>3 DEF FinalizeStores, Outcome, Write, Row, RowGoesOn, Terminal
  <1>4. CASE \E p \in {"starter", "worker"} : StoreRinging(p) \/ StoreFailed(p)
    BY <1>4 DEF StoreRinging, StoreFailed, Write, Row, RowGoesOn, Terminal
  <1>5. QED
    BY <1>1, <1>2, <1>3, <1>4
       DEF Common, People, Answer, RingOut, PartyHangup,
           Event, EventIgnored, LegStarted, Straggler, LegGone, TalkerGone, UnansweredEnds,
           Bridging, BridgeNotNeeded, BuildBridge, BridgeFails, ReadAnswer,
           Ending, Finalize, FinalizeSkips, FinalizeTearsDown, HangupRequest,
           Trouble, Crash, Disconnect, ReadyExpires, Aborts, Connect, Recovery, RecoverGivesUp, Recover

\* All the common steps but BuildBridge part people at most.
LEMMA CommonParts ==
    ASSUME TypeOK, BridgeInv, ~BuildBridge, Common \/ \E c \in Chan : UnansweredEnds(c)
    PROVE  PartsOnly
  <1> inbox \in [Chan -> SUBSET EventType]
    BY DEF TypeOK
  <1>1. CASE People
    <2>1. PICK c \in Chan : Answer(c) \/ RingOut(c) \/ PartyHangup(c)
      BY <1>1 DEF People
    <2>2. mix \subseteq Chan /\ \A d \in mix : chan[d] \in {"up", "mailbox"}
      BY DEF TypeOK, BridgeInv, TalkersOn
    <2>3. CASE Answer(c)
      BY <2>2, <2>3 DEF Answer, Emit, PartsOnly, TypeOK
    <2>4. CASE RingOut(c)
      BY <2>2, <2>4 DEF RingOut, Emit, PartsOnly, TypeOK
    <2>5. CASE PartyHangup(c)
      BY <2>2, <2>5 DEF PartyHangup, Emit, PartsOnly, TypeOK
    <2>6. QED
      BY <2>1, <2>3, <2>4, <2>5
  <1>2. CASE Event \/ \E c \in Chan : UnansweredEnds(c)
    <2>1. PICK c \in Chan : \/ \E e \in EventType : EventIgnored(c, e)
                            \/ LegStarted(c) \/ Straggler(c) \/ LegGone(c) \/ TalkerGone(c)
                            \/ UnansweredEnds(c)
      BY <1>2 DEF Event
    <2>2. CASE (\E e \in EventType : EventIgnored(c, e)) \/ LegStarted(c) \/ LegGone(c)
      BY <2>2, SameParts, RestSmaller DEF EventIgnored, LegStarted, LegGone
    <2>3. CASE Straggler(c) \/ TalkerGone(c) \/ UnansweredEnds(c)
      BY <2>3, HangUpParts, RestSmaller DEF Straggler, TalkerGone, UnansweredEnds
    <2>4. QED
      BY <2>1, <2>2, <2>3
  <1>3. CASE Bridging
    <2>1. CASE BridgeFails
      BY <2>1, TakeDownParts DEF BridgeFails
    <2>2. CASE ~BridgeFails
      BY <1>3, <2>2, SameParts
         DEF Bridging, BridgeNotNeeded, StoreBridge, StoreBridgeFailed, ReadAnswer, StoreAnswer, asterisk
    <2>3. QED
      BY <2>1, <2>2
  <1>4. CASE Ending
    <2>1. PICK p \in Hanger \cup {"worker"} : Finalize(p) \/ HangupRequest(p)
      BY <1>4 DEF Ending
    <2>2. CASE FinalizeTearsDown(p)
      <3>1. mix' \subseteq mix \ Owned(row, job[p].ch)
        BY <2>2 DEF FinalizeTearsDown
      <3>2. QED
        BY <2>2, <3>1, TakeDownParts DEF FinalizeTearsDown
    <2>3. CASE HangupRequest(p)
      BY <2>3, HangUpParts DEF HangupRequest
    <2>4. CASE FinalizeSkips(p) \/ FinalizeStores(p)
      BY <2>4, SameParts DEF FinalizeSkips, FinalizeStores, asterisk
    <2>5. QED
      BY <2>1, <2>2, <2>3, <2>4 DEF Finalize
  <1>5. CASE Trouble \/ Connect \/ Recovery
    BY <1>5, SameParts
       DEF Trouble, Crash, Disconnect, ReadyExpires, Aborts, Connect, Recovery, RecoverGivesUp,
           Recover, asterisk
  <1>6. CASE \E p \in {"starter", "worker"} : StoreRinging(p) \/ StoreFailed(p)
    BY <1>6, SameParts DEF StoreRinging, StoreFailed, asterisk
  <1>7. QED
    BY <1>1, <1>2, <1>3, <1>4, <1>5, <1>6 DEF Common

\* Without uncaught errors the worker leaves the bridge it built in one of
\* three ways.
LEMMA CommonLeaves ==
    ASSUME TypeOK, MaxFaults = 0, BridgeInv, Common \/ \E c \in Chan : UnansweredEnds(c)
    PROVE  LeavesAnswered
  <1> SUFFICES ASSUME W.at \in BridgedPlaces, W'.at \notin BridgedPlaces
               PROVE  row'.answered \/ row'.ended \/ \A c \in mix' : "destroyed" \notin inbox'[c]
    BY DEF LeavesAnswered
  <1> "worker" \in Actor /\ row \in Row
    BY DEF Actor, TypeOK
  <1>1. CASE Bridging
    <2>1. CASE ReadAnswer
      <3>1. ~Goto("worker", "answered", None, Blank)
        BY GotoWorker DEF BridgedPlaces
      <3>2. row.answered \/ row.status = "failed"
        BY <2>1, <3>1 DEF ReadAnswer
      <3>3. row' = row
        BY <2>1 DEF ReadAnswer
      <3>4. QED
        BY <3>2, <3>3 DEF BridgeInv, RowFits, Terminal
    <2>2. CASE StoreAnswer
      BY <2>2 DEF StoreAnswer, Write, Row
    <2>3. CASE BuildBridge \/ StoreBridge \/ StoreBridgeFailed \/ BridgeNotNeeded
      BY <2>3, GotoWorker
         DEF BuildBridge, StoreBridge, StoreBridgeFailed, BridgeNotNeeded, BridgedPlaces
    <2>4. CASE BridgeFails
      BY <2>4 DEF BridgeFails, BridgeNeeded, At, W, BridgedPlaces
    <2>5. QED
      BY <1>1, <2>1, <2>2, <2>3, <2>4 DEF Bridging
  <1>2. CASE Crash
    BY <1>2 DEF Crash, TypeOK, PartsOnly
  <1>3. CASE \E p \in Actor : Aborts(p)
    BY <1>3 DEF Aborts, TypeOK
  <1>4. CASE Ending
    <2>1. PICK p \in Hanger \cup {"worker"} : Finalize(p) \/ (p \in Hanger /\ HangupRequest(p))
      BY <1>4 DEF Ending
    <2>2. p # "worker"
      BY <2>1, ActorsAssumption
         DEF ActorsAssumption, Finalize, FinalizeSkips, FinalizeTearsDown, FinalizeStores, At, W,
             BridgedPlaces
    <2>3. W' = W
      BY <2>1, <2>2, OtherMoves
         DEF Actor, Finalize, FinalizeSkips, FinalizeTearsDown, FinalizeStores, HangupRequest
    <2>4. QED
      BY <2>3
  <1>5. CASE \E p \in {"starter", "worker"} : StoreRinging(p) \/ StoreFailed(p)
    <2>1. PICK p \in {"starter", "worker"} : StoreRinging(p) \/ StoreFailed(p)
      BY <1>5
    <2>2. p # "worker" /\ p \in Actor
      BY <2>1 DEF StoreRinging, StoreFailed, At, W, BridgedPlaces, Actor
    <2>3. W' = W
      BY <2>1, <2>2, OtherMoves DEF StoreRinging, StoreFailed
    <2>4. QED
      BY <2>3
  <1>6. CASE People \/ Disconnect \/ ReadyExpires \/ Connect
    BY <1>6 DEF People, Answer, RingOut, PartyHangup, Disconnect, ReadyExpires, Connect, W
  <1>7. CASE Event \/ Recovery \/ \E c \in Chan : UnansweredEnds(c)
    BY <1>7 DEF Event, EventIgnored, LegStarted, Straggler, LegGone, TalkerGone, UnansweredEnds,
                LastLegGone, Took, Recovery, RecoverGivesUp, Recover, At, W, BridgedPlaces
  <1>8. QED
    BY <1>1, <1>2, <1>3, <1>4, <1>5, <1>6, <1>7 DEF Common, Trouble

LEMMA BuildBridgeKeeps ==
    ASSUME TypeOK, BridgeInv, BuildBridge
    PROVE  BridgeInv'
  <1>1. /\ UNCHANGED <<row, chan, inbox>> /\ {row.emp, row.far} \subseteq Up
        /\ row.far # None /\ mix' = mix \cup {row.emp, row.far}
    BY DEF BuildBridge, BridgeNeeded
  <1>2. W'.at = "bridged"
    BY GotoWorker DEF BuildBridge
  <1>3. RowFits' /\ BridgeIdle'
    BY <1>1, <1>2 DEF BridgeInv, RowFits, BridgeIdle
  <1>4. TalkersOn'
    BY <1>1, <1>2 DEF BridgeInv, TalkersOn, Up
  <1>5. BridgeNamesTalkers'
    <2>1. W.at = "bridge"
      BY DEF BuildBridge, BridgeNeeded, At, W
    <2>2. QED
      BY <1>1, <2>1 DEF BridgeInv, BridgeNamesTalkers, At, W
  <1>6. QED
    BY <1>3, <1>4, <1>5 DEF BridgeInv

\* Nothing but a crash or an error interrupts the worker between the write and
\* the hangup, or between the originate and the write.
LEMMA NothingInterrupts ==
    ASSUME TypeOK, MaxFaults = 0, MaxCrashes = 0, W.at \in {"cancel", "forwarded"},
           Common \/ \E c \in Chan : UnansweredEnds(c)
    PROVE  W' = W
  <1> "worker" \in Actor
    BY DEF Actor
  <1>1. ~Crash /\ ~(\E p \in Actor : Aborts(p)) /\ ~Recovery /\ ~Bridging
    BY DEF Crash, Aborts, TypeOK, Recovery, RecoverGivesUp, Recover, Bridging, BridgeNotNeeded,
           BridgeNeeded, BuildBridge, StoreBridge, BridgeFails, StoreBridgeFailed, ReadAnswer,
           StoreAnswer, At, W
  <1>2. ~Event /\ ~(\E c \in Chan : UnansweredEnds(c))
    BY DEF Event, EventIgnored, LegStarted, Straggler, LegGone, TalkerGone, UnansweredEnds,
           LastLegGone, Took, At, W
  <1>3. CASE Ending
    <2>1. PICK p \in Hanger \cup {"worker"} : Finalize(p) \/ (p \in Hanger /\ HangupRequest(p))
      BY <1>3 DEF Ending
    <2>2. p # "worker"
      BY <2>1, ActorsAssumption
         DEF ActorsAssumption, Finalize, FinalizeSkips, FinalizeTearsDown, FinalizeStores, At, W
    <2>3. QED
      BY <2>1, <2>2, OtherMoves
         DEF Actor, Finalize, FinalizeSkips, FinalizeTearsDown, FinalizeStores, HangupRequest
  <1>4. CASE \E p \in {"starter", "worker"} : StoreRinging(p) \/ StoreFailed(p)
    <2>1. PICK p \in {"starter", "worker"} : StoreRinging(p) \/ StoreFailed(p)
      BY <1>4
    <2>2. p # "worker" /\ p \in Actor
      BY <2>1 DEF StoreRinging, StoreFailed, At, W, Actor
    <2>3. QED
      BY <2>1, <2>2, OtherMoves DEF StoreRinging, StoreFailed
  <1>5. CASE People \/ Disconnect \/ ReadyExpires \/ Connect
    BY <1>5 DEF People, Answer, RingOut, PartyHangup, Disconnect, ReadyExpires, Connect, W
  <1>6. QED
    BY <1>1, <1>2, <1>3, <1>4, <1>5 DEF Common, Trouble

LEMMA CommonKeeps ==
    ASSUME TypeOK, MaxFaults = 0, MaxCrashes = 0, BridgeInv, Common \/ \E c \in Chan : UnansweredEnds(c)
    PROVE  BridgeInv'
  <1>1. CASE BuildBridge
    BY <1>1, BuildBridgeKeeps
  <1>2. CASE ~BuildBridge
    <2>1. W' = W \/ (W'.at \notin DeskPlaces /\ W.at # "cancel")
      BY CommonMoves, NothingInterrupts DEF CommonPlaces, DeskPlaces
    <2>2. QED
      BY <1>2, <2>1, CommonParts, CommonRowGoesOn, CommonLeaves, PartsKeeps
  <1>3. QED
    BY <1>1, <1>2

\* A leg of the row that is in the bridge is the employee's.
LEMMA EmployeeIsLeg ==
    ASSUME TypeOK, RowFits, row.emp # None
    PROVE  row.emp \in Legs(row)
  BY DEF RowFits, Legs

\* Steps of this direction that leave the row alone.
LEMMA RowSame ==
    ASSUME TypeOK, BridgeInv, UNCHANGED row
    PROVE  RowGoesOn
  BY DEF BridgeInv, RowFits, RowGoesOn

LEMMA StayParts ==
    ASSUME TypeOK, BridgeInv, UNCHANGED <<mix, inbox>>,
           \A c \in Chan : c \in Live => chan'[c] = chan[c] \/ chan'[c] = "mailbox"
    PROVE  PartsOnly
  BY DEF TypeOK, BridgeInv, TalkersOn, PartsOnly, Live

\* Giving the desks up: the worker holds on to a row whose employee is not in
\* the bridge.
LEMMA DeskMoves ==
    ASSUME TypeOK, BridgeInv, PartsOnly, RowGoesOn, row.emp \notin mix,
           W.at \notin BridgedPlaces \cup {"cancel"},
           W'.at \in {"noAnswer", "dialBackups", "forwarded"}
    PROVE  BridgeInv'
  <1>1. RowFits' /\ BridgeIdle'
    BY DEF BridgeInv, RowFits, BridgeIdle, RowGoesOn, PartsOnly
  <1>2. TalkersOn' /\ BridgeNamesTalkers'
    BY DEF BridgeInv, TalkersOn, BridgeNamesTalkers, RowGoesOn, PartsOnly, BridgedPlaces, At, W
  <1>3. QED
    BY <1>1, <1>2 DEF BridgeInv

LEMMA OriginateKeeps ==
    ASSUME TypeOK, BridgeInv, NEW l \in Emp, Originate(l)
    PROVE  BridgeInv'
  <1>1. UNCHANGED <<row, job, mix, inbox>>
    BY DEF Originate
  <1>2. \A c \in Chan : c \in Live => chan'[c] = chan[c]
    BY DEF Originate, TypeOK
  <1>3. W' = W /\ LeavesAnswered
    BY <1>1 DEF W, LeavesAnswered
  <1>4. QED
    BY <1>1, <1>2, <1>3, StayParts, RowSame, PartsKeeps

\* The caller is taken for a new one only while there is no row.
LEMMA ArrivesFirst ==
    ASSUME TypeOK, NEW k \in Caller, Arrives(k), row.far \in Caller \cup {None}
    PROVE  row.status = "none" \/ row.far = None
  BY OneCallerAssumption DEF OneCallerAssumption, Arrives, Found

LEMMA ArrivalKeeps ==
    ASSUME TypeOK, BridgeInv, Arrival
    PROVE  BridgeInv'
  <1> "worker" \in Actor /\ row \in Row /\ Caller \subseteq Chan
    BY DEF Actor, TypeOK, Chan
  <1>1. ASSUME NEW k \in Caller, RefuseCaller(k) PROVE BridgeInv'
    <2>1. PartsOnly /\ RowGoesOn
      BY <1>1, HangUpParts, RestSmaller, RowSame DEF RefuseCaller
    <2>2. W' = W
      BY <1>1 DEF RefuseCaller, W
    <2>3. QED
      BY <2>1, <2>2, PartsKeeps DEF LeavesAnswered
  <1>2. ASSUME NEW k \in Caller, AdmitCaller(k) PROVE BridgeInv'
    <2>1. row.far = None
      BY <1>2, ArrivesFirst DEF AdmitCaller, BridgeInv, RowFits
    <2>2. mix' = {}
      BY <1>2, <2>1 DEF AdmitCaller, BridgeInv, BridgeIdle
    <2>3. W'.at = "dialDesks"
      BY <1>2, GotoWorker DEF AdmitCaller
    <2>4. row'.far = k /\ row'.status = "ringing" /\ row'.legs = {}
      BY <1>2 DEF AdmitCaller, Write, Blank
    <2>5. QED
      BY <2>2, <2>3, <2>4
         DEF BridgeInv, RowFits, BridgeIdle, TalkersOn, BridgeNamesTalkers, Terminal
  <1>3. ASSUME NEW l \in Emp, DialDesk(l) PROVE BridgeInv'
    BY <1>3, OriginateKeeps DEF DialDesk
  <1>4. CASE StoreDesks
    <2>1. mix' = {}
      BY <1>4 DEF StoreDesks, At, W, BridgeInv, BridgeIdle, asterisk
    <2>2. W'.at = "idle"
      BY <1>4, FinishWorker DEF StoreDesks
    <2>3. /\ row'.far = row.far /\ row'.status = row.status /\ row'.ended = row.ended
          /\ row'.emp = First /\ row'.legs = dialled /\ First \in dialled
      BY <1>4, FirstDialled DEF StoreDesks, Write, Row
    <2>4. QED
      BY <2>1, <2>2, <2>3 DEF BridgeInv, RowFits, BridgeIdle, TalkersOn, BridgeNamesTalkers
  <1>5. CASE NoDeskRings
    <2>1. W.at = "dialDesks" /\ UNCHANGED <<row, chan, inbox, mix>>
      BY <1>5 DEF NoDeskRings, At, W, asterisk
    <2>2. row.emp \notin mix
      BY <2>1 DEF BridgeInv, BridgeIdle
    <2>3. W'.at = "noAnswer"
      BY <1>5, GotoWorker DEF NoDeskRings
    <2>4. QED
      BY <2>1, <2>2, <2>3, SameParts, RowSame, DeskMoves DEF BridgedPlaces
  <1>6. QED
    BY <1>1, <1>2, <1>3, <1>4, <1>5 DEF Arrival

LEMMA AnsweringKeeps ==
    ASSUME TypeOK, BridgeInv, Answering
    PROVE  BridgeInv'
  <1> "worker" \in Actor /\ row \in Row
    BY DEF Actor, TypeOK
  <1>1. ASSUME NEW c \in Chan, DeskAnswers(c) PROVE BridgeInv'
    <2>1. PartsOnly /\ RowGoesOn
      BY <1>1, SameParts, RestSmaller, RowSame DEF DeskAnswers
    <2>2. W' = [at |-> "desk", ch |-> c, call |-> Blank]
      BY <1>1, GotoWorker DEF DeskAnswers
    <2>3. c \in Legs(row) /\ UNCHANGED row /\ W.at = "idle"
      BY <1>1 DEF DeskAnswers, Took, At, W
    <2>4. QED
      BY <2>1, <2>2, <2>3
         DEF BridgeInv, RowFits, BridgeIdle, TalkersOn, BridgeNamesTalkers, PartsOnly, RowGoesOn,
             At, W
  <1>2. CASE StoreDesk
    <2>1. W.at = "desk" /\ UNCHANGED <<chan, inbox, mix>>
      BY <1>2 DEF StoreDesk, At, W, asterisk
    <2>2. W' = [at |-> "cancel", ch |-> W.ch, call |-> Blank]
      BY <1>2, GotoWorker DEF StoreDesk, W
    <2>3. row' = [row EXCEPT !.status = "employee_answered", !.emp = W.ch]
      BY <1>2 DEF StoreDesk, Write, W
    <2>4. /\ row'.far = row.far /\ row'.legs = row.legs /\ row'.emp = W.ch
          /\ row'.status = "employee_answered"
          /\ row'.answered = row.answered /\ row'.ended = row.ended
      BY <2>3 DEF Row
    <2>5. W.ch \in Legs(row)
      BY <2>1 DEF BridgeInv, RowFits
    <2>6. RowFits'
      <3>1. W.ch # None
        BY <2>5, ChannelsAssumption DEF ChannelsAssumption, Legs, TypeOK, Row
      <3>2. QED
        BY <2>2, <2>4, <2>5, <3>1 DEF BridgeInv, RowFits, Legs, Terminal
    <2>7. BridgeIdle' /\ TalkersOn'
      BY <2>1, <2>2, <2>4 DEF BridgeInv, BridgeIdle, TalkersOn
    <2>8. mix' \subseteq {row'.far} \cup Legs(row')
      <3>1. mix \subseteq {row.emp, row.far} /\ None \notin mix
        BY <2>1, ChannelsAssumption
           DEF ChannelsAssumption, TypeOK, BridgeInv, BridgeNamesTalkers, At, W
      <3>2. row.emp # None => row.emp \in Legs(row)
        BY EmployeeIsLeg DEF BridgeInv
      <3>3. Legs(row') = Legs(row)
        BY <2>4, <2>5, ChannelsAssumption DEF ChannelsAssumption, Legs, TypeOK, Row
      <3>4. QED
        BY <2>1, <2>4, <3>1, <3>2, <3>3
    <2>9. QED
      BY <2>2, <2>6, <2>7, <2>8 DEF BridgeInv, BridgeNamesTalkers, At, W
  <1>3. CASE CancelDesks
    <2>1. W.at = "cancel" /\ HangUp(Legs(row) \ {W.ch}, inbox) /\ UNCHANGED row
      BY <1>3 DEF CancelDesks, At, W
    <2>2. W'.at = "bridge"
      BY <1>3, GotoWorker DEF CancelDesks
    <2>3. PartsOnly
      BY <2>1, HangUpParts DEF TypeOK
    <2>4. W.ch = row.emp /\ mix \subseteq {row.emp, row.far} \cup Legs(row)
      BY <2>1 DEF BridgeInv, RowFits, BridgeNamesTalkers, At, W
    <2>5. mix' \subseteq {row.emp, row.far}
      BY <2>1, <2>4 DEF HangUp
    <2>6. RowFits' /\ BridgeIdle' /\ TalkersOn'
      BY <2>1, <2>2, <2>3 DEF BridgeInv, RowFits, BridgeIdle, TalkersOn, PartsOnly
    <2>7. QED
      BY <2>1, <2>5, <2>6 DEF BridgeInv, BridgeNamesTalkers
  <1>4. QED
    BY <1>1, <1>2, <1>3 DEF Answering

\* The worker stores the device of another round for a caller alone in the
\* bridge, if anybody is.
LEMMA NextRound ==
    ASSUME TypeOK, BridgeInv, UNCHANGED <<chan, inbox, mix>>, row.emp \notin mix,
           row'.far = row.far, row'.emp \in row'.legs, row'.status \notin Terminal \cup {"none"},
           row'.answered = row.answered, row'.ended = row.ended,
           W.at \notin BridgedPlaces \cup {"cancel"}, W'.at = "idle"
    PROVE  BridgeInv'
  <1>1. RowFits' /\ BridgeIdle' /\ TalkersOn'
    BY DEF BridgeInv, RowFits, BridgeIdle, TalkersOn, BridgedPlaces
  <1>2. BridgeNamesTalkers'
    BY DEF BridgeInv, BridgeNamesTalkers, At, W
  <1>3. QED
    BY <1>1, <1>2 DEF BridgeInv

LEMMA NoAnsweringKeeps ==
    ASSUME TypeOK, MaxFaults = 0, BridgeInv, NoAnswering
    PROVE  BridgeInv'
  <1> "worker" \in Actor /\ row \in Row /\ inbox \in [Chan -> SUBSET EventType]
    BY DEF Actor, TypeOK
  <1>0. W.at \in {"noAnswer", "dialBackups", "forwarded"} => row.emp \notin mix
    BY DEF BridgeInv, BridgeIdle
  <1>1. ASSUME NEW c \in Chan, NobodyAnswers(c) PROVE BridgeInv'
    <2>1. OthersOf(c) = {} /\ EmployeeLeg(c) /\ ~row.answered /\ ~row.ended
      BY <1>1 DEF NobodyAnswers, LastLegGone, Unanswered, TypeOK
    <2>2. W.at = "idle" /\ "destroyed" \in inbox[c]
      BY <1>1 DEF NobodyAnswers, LastLegGone, Took, At, W
    <2>3. c \notin mix
      BY <2>1, <2>2 DEF BridgeInv, TalkersOn
    <2>4. row.emp \notin mix
      <3>1. SUFFICES ASSUME row.emp \in mix PROVE FALSE
        OBVIOUS
      <3>2. row.emp \in Live /\ row.emp # None
        BY <3>1, ChannelsAssumption
           DEF ChannelsAssumption, TypeOK, BridgeInv, TalkersOn, Live
      <3>3. row.emp \in (Legs(row) \cap Live) \ {c}
        BY <2>3, <3>1, <3>2, EmployeeIsLeg DEF BridgeInv
      <3>4. QED
        BY <2>1, <3>3 DEF OthersOf
    <2>5. PartsOnly /\ RowGoesOn
      BY <1>1, SameParts, RestSmaller, RowSame DEF NobodyAnswers
    <2>6. W'.at = "noAnswer"
      BY <1>1, GotoWorker DEF NobodyAnswers
    <2>7. QED
      BY <2>2, <2>4, <2>5, <2>6, DeskMoves DEF BridgedPlaces
  <1>2. CASE EndedMeanwhile
    <2>1. PartsOnly /\ RowGoesOn
      BY <1>2, SameParts, RowSame DEF EndedMeanwhile, asterisk
    <2>2. W'.at = "idle" /\ W.at = "noAnswer"
      BY <1>2, FinishWorker DEF EndedMeanwhile, At, W
    <2>3. QED
      BY <2>1, <2>2, PartsKeeps DEF LeavesAnswered, BridgedPlaces, DeskPlaces
  <1>3. CASE RingBackups
    <2>1. PartsOnly /\ RowGoesOn
      BY <1>3, SameParts, RowSame DEF RingBackups, asterisk
    <2>2. W'.at = "dialBackups" /\ W.at = "noAnswer"
      <3>1. W'.at = "dialBackups"
        BY <1>3, GotoWorker DEF RingBackups
      <3>2. W.at = "noAnswer"
        BY <1>3 DEF RingBackups, MayRingBackup, NoAnswer, At, W
      <3>3. QED
        BY <3>1, <3>2
    <2>3. QED
      BY <1>0, <2>1, <2>2, DeskMoves DEF BridgedPlaces
  <1>4. CASE SkipBackups
    <2>1. W'.at = "noAnswer" /\ W.at \in {"noAnswer", "dialBackups"}
      <3>1. W'.at = "noAnswer"
        BY <1>4, GotoWorker DEF SkipBackups
      <3>2. W.at \in {"noAnswer", "dialBackups"}
        BY <1>4 DEF SkipBackups, MayRingBackup, NoAnswer, At, W
      <3>3. QED
        BY <3>1, <3>2
    <2>2. row' = [row EXCEPT !.status = "ringing_fallback"]
      BY <1>4 DEF SkipBackups, Write
    <2>3. RowGoesOn
      BY <2>2 DEF RowGoesOn, Row, Terminal
    <2>4. PartsOnly
      BY <1>4, SameParts DEF SkipBackups, asterisk
    <2>5. QED
      BY <1>0, <2>1, <2>3, <2>4, DeskMoves DEF BridgedPlaces
  <1>5. CASE StoreBackups
    <2>1. W'.at = "idle" /\ W.at = "dialBackups" /\ UNCHANGED <<chan, inbox, mix>>
      BY <1>5, FinishWorker DEF StoreBackups, At, W, asterisk
    <2>2. /\ row'.far = row.far /\ row'.emp = First /\ row'.legs = Read.legs \cup dialled
          /\ row'.status = "ringing_fallback"
          /\ row'.answered = row.answered /\ row'.ended = row.ended
      BY <1>5 DEF StoreBackups, Write, Row
    <2>3. First \in dialled
      BY <1>5, FirstDialled DEF StoreBackups
    <2>4. QED
      BY <1>0, <2>1, <2>2, <2>3, NextRound DEF BridgedPlaces, Terminal
  <1>6. ASSUME NEW l \in Emp, DialBackup(l) PROVE BridgeInv'
    BY <1>6, OriginateKeeps DEF DialBackup
  <1>7. CASE ToVoicemail
    <2>1. PartsOnly /\ RowGoesOn
      BY <1>7, StayParts, RowSame DEF ToVoicemail, TypeOK
    <2>2. W'.at = "fin" /\ W.at = "noAnswer"
      <3>1. W'.at = "fin"
        BY <1>7, GotoWorker DEF ToVoicemail
      <3>2. W.at = "noAnswer"
        BY <1>7 DEF ToVoicemail, NoAnswer, At, W
      <3>3. QED
        BY <3>1, <3>2
    <2>3. QED
      BY <2>1, <2>2, PartsKeeps DEF LeavesAnswered, BridgedPlaces, DeskPlaces
  <1>8. CASE Missed
    <2>1. PartsOnly /\ RowGoesOn
      BY <1>8, HangUpParts, RowSame DEF Missed
    <2>2. W'.at = "fin" /\ W.at = "noAnswer"
      <3>1. W'.at = "fin"
        BY <1>8, GotoWorker DEF Missed
      <3>2. W.at = "noAnswer"
        BY <1>8 DEF Missed, NoAnswer, At, W
      <3>3. QED
        BY <3>1, <3>2
    <2>3. QED
      BY <2>1, <2>2, PartsKeeps DEF LeavesAnswered, BridgedPlaces, DeskPlaces
  <1>9. ASSUME NEW f \in Far, Forward(f) PROVE BridgeInv'
    <2>1. PartsOnly /\ RowGoesOn
      BY <1>9, StayParts, RowSame DEF Forward, TypeOK
    <2>2. W'.at = "forwarded" /\ W.at = "noAnswer"
      <3>1. W'.at = "forwarded"
        BY <1>9, GotoWorker DEF Forward
      <3>2. W.at = "noAnswer"
        BY <1>9 DEF Forward, NoAnswer, At, W
      <3>3. QED
        BY <3>1, <3>2
    <2>3. QED
      BY <1>0, <2>1, <2>2, DeskMoves DEF BridgedPlaces
  <1>10. CASE StoreForward
    <2>1. W'.at = "idle" /\ W.at = "forwarded" /\ UNCHANGED <<chan, inbox, mix>>
      BY <1>10, FinishWorker DEF StoreForward, At, W, asterisk
    <2>2. row' = [row EXCEPT !.status = "forwarding", !.emp = W.ch, !.legs = {W.ch}]
      BY <1>10 DEF StoreForward, Write, W
    <2>3. /\ row'.far = row.far /\ row'.emp = W.ch /\ row'.legs = {W.ch}
          /\ row'.status = "forwarding"
          /\ row'.answered = row.answered /\ row'.ended = row.ended
      BY <2>2 DEF Row
    <2>4. QED
      BY <1>0, <2>1, <2>3, NextRound DEF BridgedPlaces, Terminal
  <1>11. QED
    BY <1>1, <1>2, <1>3, <1>4, <1>5, <1>6, <1>7, <1>8, <1>9, <1>10 DEF NoAnswering

LEMMA StutterKeeps ==
    ASSUME BridgeInv, UNCHANGED vars
    PROVE  BridgeInv'
  BY DEF vars, asterisk, BridgeInv, RowFits, BridgeIdle, TalkersOn, BridgeNamesTalkers, Legs, At, W

LEMMA InitKeeps == Init => BridgeInv
  <1> SUFFICES ASSUME Init PROVE BridgeInv
    OBVIOUS
  <1>1. W.at = "idle" /\ row = Blank /\ mix = {}
    BY InitJobs DEF Init, InitWith
  <1>2. QED
    BY <1>1 DEF BridgeInv, RowFits, BridgeIdle, TalkersOn, BridgeNamesTalkers, Blank, Terminal

----------------------------------------------------------------------------
(* The call implements TwoParty, while the worker neither crashes nor       *)
(* fails: then no device is rung a second time.  A desk of the second round *)
(* and the forward number have no channel until the journey comes to them,  *)
(* and what the row says of the journey tells how far it came.              *)

Absent(S) == \A c \in S : chan[c] = "absent"

\* Nobody took the call and it goes on.
Waiting(r) == ~r.answered /\ ~r.ended

\* Nothing rings before the caller is admitted; the worker is nowhere but in
\* the handlers of this direction, and holds the guard only while it stores
\* the end of the call.
JourneyPlaces ==
    {"idle", "dialDesks", "noAnswer", "dialBackups", "forwarded", "desk", "cancel", "bridge",
     "bridged", "bridgeFailed", "answer", "answered", "fin", "finStore"}

Undisturbed ==
    /\ W.at \in JourneyPlaces /\ job["starter"].at = "idle" /\ row.status # "initiated"
    /\ Home["worker"] \in busy => W.at = "finStore"
    /\ row.far = None => Absent(Emp \cup Far)

\* How far the journey came, by the row or by what the worker read of it.
CameTo(r) ==
    /\ r.status # "forwarding" => Absent(Far)
    /\ r.status \notin {"forwarding", "ringing_fallback"} => Absent(Backup)

RungInTurn ==
    /\ W.at = "idle" /\ Waiting(row) => CameTo(row)
    /\ W.at = "noAnswer" /\ ~Read.ended => CameTo(Read)
    /\ W.at = "dialDesks" => Absent(todo \cup Far \cup Backup) /\ todo \subseteq Desk
    /\ W.at = "dialBackups" => Absent(todo \cup Far) /\ todo \subseteq Backup

\* What the worker read of the row still holds of it.
ReadHolds ==
    W.at \in {"noAnswer", "dialBackups"} =>
      (Read.ended => row.ended) /\ Read.far = row.far /\ Read.legs \subseteq Emp \cup Far

\* The row names devices as employee and legs; a bridge with people is named
\* or about to be; the caller has arrived.
SidesHold ==
    /\ row.emp \in Emp \cup Far \cup {None} /\ row.legs \subseteq Emp \cup Far
    /\ mix # {} => row.bridge \/ W.at = "bridged"
    /\ W.at = "bridgeFailed" => mix = {}
    /\ \A k \in Caller : chan[k] \in {"up", "mailbox", "over"}

JourneyInv == Undisturbed /\ RungInTurn /\ ReadHolds /\ SidesHold

\* A channel ends, and a caller's leaves no other way.
Settles ==
    \A c \in Chan : \/ chan'[c] = chan[c]
                    \/ chan[c] = "ringing" /\ chan'[c] = "missed"
                    \/ chan[c] \in {"up", "mailbox"} /\ chan'[c] = "over"

\* No device rings that did not, and the caller's channel does not start anew.
NothingRings ==
    /\ \A c \in Chan : chan[c] = "absent" => chan'[c] = "absent"
    /\ \A k \in Caller : chan'[k] \in {"up", "mailbox", "over"}

LEMMA SettlesQuietly ==
    ASSUME JourneyInv, Settles
    PROVE  NothingRings
  BY DEF JourneyInv, SidesHold, Settles, NothingRings, Chan

LEMMA TakeDownSettles ==
    ASSUME TypeOK, NEW S, NEW box, TakeDown(S, box)
    PROVE  Settles
  BY DEF TypeOK, TakeDown, Settles, Live

LEMMA HangUpSettles ==
    ASSUME TypeOK, NEW S, NEW box, HangUp(S, box)
    PROVE  Settles
  BY TakeDownSettles DEF HangUp

LEMMA SameSettles == UNCHANGED chan => Settles
  BY DEF Settles

\* The common steps, without those of a worker that crashed or failed.
UndisturbedStep ==
    \/ People \/ Event \/ (\E c \in Chan : UnansweredEnds(c))
    \/ Bridging \/ Ending \/ Disconnect \/ ReadyExpires \/ Connect

LEMMA CommonUndisturbed ==
    ASSUME TypeOK, MaxFaults = 0, MaxCrashes = 0, JourneyInv,
           Common \/ \E c \in Chan : UnansweredEnds(c)
    PROVE  /\ UndisturbedStep
           /\ Common => \/ People \/ Event \/ Bridging \/ Ending
                        \/ Disconnect \/ ReadyExpires \/ Connect
  <1>1. W.at \notin {"boot", "failed", "ringing"} /\ job["starter"].at = "idle"
    BY DEF JourneyInv, Undisturbed, JourneyPlaces
  <1>2. ~Crash /\ ~(\E p \in Actor : Aborts(p))
    BY DEF Crash, Aborts, TypeOK
  <1>3. ~Recovery
    BY <1>1 DEF Recovery, RecoverGivesUp, Recover, At, W
  <1>4. ~(\E p \in {"starter", "worker"} : StoreRinging(p) \/ StoreFailed(p))
    BY <1>1 DEF StoreRinging, StoreFailed, At, W
  <1>5. QED
    BY <1>2, <1>3, <1>4 DEF Common, Trouble, UndisturbedStep

LEMMA CommonSettles ==
    ASSUME TypeOK, UndisturbedStep, ~(\E c \in Chan : Answer(c))
    PROVE  Settles
  <1>1. CASE People
    <2>1. PICK c \in Chan : RingOut(c) \/ PartyHangup(c)
      BY <1>1 DEF People
    <2>2. QED
      BY <2>1 DEF RingOut, PartyHangup, Settles, TypeOK
  <1>2. CASE Event \/ \E c \in Chan : UnansweredEnds(c)
    BY <1>2, HangUpSettles, SameSettles
       DEF Event, EventIgnored, LegStarted, Straggler, LegGone, TalkerGone, UnansweredEnds
  <1>3. CASE Bridging
    BY <1>3, TakeDownSettles, SameSettles
       DEF Bridging, BridgeNotNeeded, BuildBridge, StoreBridge, BridgeFails, StoreBridgeFailed,
           ReadAnswer, StoreAnswer, asterisk
  <1>4. CASE Ending
    BY <1>4, TakeDownSettles, HangUpSettles, SameSettles
       DEF Ending, Finalize, FinalizeSkips, FinalizeTearsDown, FinalizeStores, HangupRequest, asterisk
  <1>5. CASE Disconnect \/ ReadyExpires \/ Connect
    BY <1>5, SameSettles DEF Disconnect, ReadyExpires, Connect, asterisk
  <1>6. QED
    BY <1>1, <1>2, <1>3, <1>4, <1>5 DEF UndisturbedStep

\* What the common steps do to the rest of what the journey rests on.
GoesOn ==
    /\ row'.emp = row.emp /\ row'.far = row.far /\ row'.legs = row.legs
    /\ row.ended => row'.ended
    /\ row'.status # "initiated"
    /\ W' = W \/ W'.at \in JourneyPlaces \ DeskPlaces
    /\ job'["starter"] = job["starter"]
    /\ W'.at = "idle" /\ Waiting(row') /\ row.far # None => W.at = "idle" /\ row' = row
    /\ Home["worker"] \in busy' => W'.at = "finStore"
    /\ todo' = todo

BridgeStored ==
    /\ mix' # {} => row'.bridge \/ W'.at = "bridged"
    /\ W'.at = "bridgeFailed" => mix' = {}

LEMMA JourneyKept ==
    ASSUME TypeOK, JourneyInv, NothingRings, GoesOn, BridgeStored
    PROVE  JourneyInv'
  <1>1. \A S \in SUBSET Chan : Absent(S) => Absent(S)'
    BY DEF NothingRings, Absent
  <1>2. Far \in SUBSET Chan /\ Backup \in SUBSET Chan /\ Emp \in SUBSET Chan /\ todo \in SUBSET Emp
    BY DesksAssumption DEF DesksAssumption, Chan, TypeOK
  <1>3. Undisturbed'
    BY <1>1, <1>2 DEF JourneyInv, Undisturbed, GoesOn, JourneyPlaces, DeskPlaces
  <1>4. ASSUME Absent(Emp \cup Far) PROVE CameTo(row)'
    <2>1. Absent(Emp \cup Far)'
      BY <1>1, <1>2, <1>4
    <2>2. QED
      BY <2>1, DesksAssumption DEF DesksAssumption, Absent, CameTo
  <1>5. ASSUME row' = row, CameTo(row) PROVE CameTo(row)'
    BY <1>1, <1>2, <1>5 DEF CameTo
  <1>6. RungInTurn'
    <2>1. CASE W'.at = "idle"
      <3>1. SUFFICES ASSUME Waiting(row') PROVE CameTo(row)'
        BY <2>1 DEF RungInTurn
      <3>2. row.far = None \/ (W.at = "idle" /\ row' = row)
        BY <2>1, <3>1 DEF GoesOn
      <3>3. CASE row.far = None
        BY <1>4, <3>3 DEF JourneyInv, Undisturbed
      <3>4. CASE W.at = "idle" /\ row' = row
        <4>1. CameTo(row)
          BY <3>1, <3>4 DEF JourneyInv, RungInTurn, Waiting
        <4>2. QED
          BY <1>5, <3>4, <4>1
      <3>5. QED
        BY <3>2, <3>3, <3>4
    <2>2. CASE W' = W /\ W.at # "idle"
      <3>1. Read' = Read
        BY <2>2 DEF Read, W
      <3>2. W.at = "noAnswer" /\ ~Read.ended => CameTo(Read)'
        BY <1>1, <1>2, <3>1 DEF JourneyInv, RungInTurn, CameTo
      <3>3. W.at = "dialDesks" => Absent(todo \cup Far \cup Backup)'
        BY <1>1, <1>2 DEF JourneyInv, RungInTurn, GoesOn, Absent
      <3>4. W.at = "dialBackups" => Absent(todo \cup Far)'
        BY <1>1, <1>2 DEF JourneyInv, RungInTurn, GoesOn, Absent
      <3>5. QED
        BY <2>2, <3>1, <3>2, <3>3, <3>4 DEF JourneyInv, RungInTurn, GoesOn
    <2>3. CASE W'.at \in JourneyPlaces \ (DeskPlaces \cup {"idle"})
      BY <2>3 DEF RungInTurn, DeskPlaces
    <2>4. QED
      BY <2>1, <2>2, <2>3 DEF GoesOn
  <1>7. ReadHolds'
    <2>1. CASE W' = W
      BY <2>1 DEF JourneyInv, ReadHolds, GoesOn, Read, W
    <2>2. CASE W'.at \in JourneyPlaces \ DeskPlaces
      BY <2>2 DEF ReadHolds, DeskPlaces
    <2>3. QED
      BY <2>1, <2>2 DEF GoesOn
  <1>8. SidesHold'
    BY DEF JourneyInv, SidesHold, GoesOn, NothingRings, BridgeStored
  <1>9. QED
    BY <1>3, <1>6, <1>7, <1>8 DEF JourneyInv

\* Each of the common steps does no more.
LEMMA CommonStores ==
    ASSUME TypeOK, BridgeInv, JourneyInv, UndisturbedStep
    PROVE  BridgeStored
  <1> "worker" \in Actor /\ row \in Row
    BY DEF Actor, TypeOK
  <1>0. ASSUME mix' \subseteq mix, W' = W, row'.bridge = row.bridge PROVE BridgeStored
    BY <1>0 DEF JourneyInv, SidesHold, BridgeStored
  <1>1. ASSUME mix' \subseteq mix, W.at # "bridged", W'.at # "bridgeFailed", row'.bridge = row.bridge
        PROVE  BridgeStored
    BY <1>1 DEF JourneyInv, SidesHold, BridgeStored
  <1>2. CASE People \/ Disconnect \/ ReadyExpires \/ Connect
    <2>1. mix' \subseteq mix /\ UNCHANGED <<row, job>>
      BY <1>2 DEF People, Answer, RingOut, PartyHangup, Disconnect, ReadyExpires, Connect, asterisk
    <2>2. QED
      BY <1>0, <2>1 DEF W
  <1>3. CASE Event \/ \E c \in Chan : UnansweredEnds(c)
    <2>1. W.at = "idle" /\ mix' \subseteq mix /\ UNCHANGED row
      BY <1>3 DEF Event, EventIgnored, LegStarted, Straggler, LegGone, TalkerGone, UnansweredEnds,
                  LastLegGone, Took, At, W, HangUp
    <2>2. UNCHANGED job \/ \E at \in {"ringing", "fin"} : \E c, r : Goto("worker", at, c, r)
      BY <1>3 DEF Event, EventIgnored, LegStarted, Straggler, LegGone, TalkerGone, UnansweredEnds
    <2>3. UNCHANGED job => W' = W
      BY DEF W
    <2>4. W'.at # "bridgeFailed"
      BY <2>1, <2>2, <2>3, GotoWorker
    <2>5. QED
      BY <1>1, <2>1, <2>4
  <1>4. CASE Bridging
    <2>1. CASE BuildBridge
      BY <2>1, GotoWorker DEF BuildBridge, BridgeStored
    <2>2. CASE BridgeFails
      BY <2>2 DEF BridgeFails, BridgeStored
    <2>3. CASE StoreBridge
      BY <2>3, GotoWorker DEF StoreBridge, Write, Row, BridgeStored
    <2>4. CASE StoreBridgeFailed
      <3>1. mix' = {}
        BY <2>4 DEF StoreBridgeFailed, At, W, asterisk, JourneyInv, SidesHold
      <3>2. QED
        BY <3>1 DEF BridgeStored
    <2>5. CASE BridgeNotNeeded \/ ReadAnswer \/ StoreAnswer
      <3>1. W.at # "bridged" /\ mix' \subseteq mix
        BY <2>5 DEF BridgeNotNeeded, ReadAnswer, StoreAnswer, At, W, asterisk
      <3>2. W'.at # "bridgeFailed"
        BY <2>5, GotoWorker, FinishWorker DEF BridgeNotNeeded, ReadAnswer, StoreAnswer
      <3>3. row'.bridge = row.bridge
        BY <2>5 DEF BridgeNotNeeded, ReadAnswer, StoreAnswer, Write, Row
      <3>4. QED
        BY <1>1, <3>1, <3>2, <3>3
    <2>6. QED
      BY <1>4, <2>1, <2>2, <2>3, <2>4, <2>5 DEF Bridging
  <1>5. CASE Ending
    <2>1. PICK p \in Hanger \cup {"worker"} : Finalize(p) \/ (p \in Hanger /\ HangupRequest(p))
      BY <1>5 DEF Ending
    <2>2. p \in Actor
      BY DEF Actor
    <2>3. mix' \subseteq mix
      BY <2>1 DEF Finalize, FinalizeSkips, FinalizeTearsDown, FinalizeStores, HangupRequest, HangUp,
                  asterisk
    <2>4. row'.bridge = row.bridge
      BY <2>1 DEF Finalize, FinalizeSkips, FinalizeTearsDown, FinalizeStores, HangupRequest, Write, Row
    <2>5. CASE p = "worker"
      <3>1. W.at # "bridged"
        BY <2>1, <2>5, ActorsAssumption
           DEF ActorsAssumption, Finalize, FinalizeSkips, FinalizeTearsDown, FinalizeStores, At, W
      <3>2. W'.at # "bridgeFailed"
        BY <2>1, <2>5, GotoWorker, FinishWorker
           DEF Finalize, FinalizeSkips, FinalizeTearsDown, FinalizeStores, HangupRequest
      <3>3. QED
        BY <1>1, <2>3, <2>4, <3>1, <3>2
    <2>6. CASE p # "worker"
      <3>1. W' = W
        BY <2>1, <2>2, <2>6, OtherMoves
           DEF Finalize, FinalizeSkips, FinalizeTearsDown, FinalizeStores, HangupRequest
      <3>2. QED
        BY <1>0, <2>3, <2>4, <3>1
    <2>7. QED
      BY <2>5, <2>6
  <1>6. QED
    BY <1>2, <1>3, <1>4, <1>5 DEF UndisturbedStep

\* A step of the worker from one place of the bridging or the end to another.
LEMMA MovesOn ==
    ASSUME TypeOK, JourneyInv,
           row'.emp = row.emp, row'.far = row.far, row'.legs = row.legs,
           row.ended => row'.ended, row'.status # "initiated",
           \/ W'.at \in {"fin", "finStore", "bridged", "bridgeFailed", "answer", "answered"}
           \/ W'.at = "idle" /\ (~Waiting(row') \/ row.far = None),
           job'["starter"] = job["starter"],
           Home["worker"] \in busy' => W'.at = "finStore",
           todo' = todo
    PROVE  GoesOn
  BY DEF GoesOn, JourneyPlaces, DeskPlaces

LEMMA IdleStays ==
    ASSUME TypeOK, JourneyInv, UNCHANGED <<row, job, busy, todo>>
    PROVE  GoesOn
  BY DEF JourneyInv, Undisturbed, GoesOn, W

LEMMA CommonGoesOn ==
    ASSUME TypeOK, BridgeInv, JourneyInv, UndisturbedStep
    PROVE  GoesOn
  <1> "worker" \in Actor /\ "starter" \in Actor /\ row \in Row
    BY DEF Actor, TypeOK
  <1>0. row.status # "initiated" /\ (Home["worker"] \in busy => W.at = "finStore")
    BY DEF JourneyInv, Undisturbed
  <1>1. CASE People \/ Disconnect \/ ReadyExpires \/ Connect
    BY <1>1, IdleStays
       DEF People, Answer, RingOut, PartyHangup, Disconnect, ReadyExpires, Connect, dial
  <1>2. CASE Event \/ \E c \in Chan : UnansweredEnds(c)
    <2>1. UNCHANGED <<row, busy, todo>> /\ W.at = "idle"
      BY <1>2 DEF Event, EventIgnored, LegStarted, Straggler, LegGone, TalkerGone, UnansweredEnds,
                  LastLegGone, Took, At, W, dial
    <2>2. UNCHANGED job \/ Goto("worker", "fin", None, Blank)
      BY <1>0, <1>2
         DEF Event, EventIgnored, LegStarted, Straggler, LegGone, TalkerGone, UnansweredEnds
    <2>3. CASE UNCHANGED job
      BY <2>1, <2>3, IdleStays
    <2>4. CASE Goto("worker", "fin", None, Blank)
      <3>1. W'.at = "fin" /\ job'["starter"] = job["starter"]
        BY <2>4, GotoWorker
      <3>2. QED
        BY <1>0, <2>1, <3>1, MovesOn
    <2>5. QED
      BY <2>2, <2>3, <2>4
  <1>3. CASE Bridging
    <2>1. UNCHANGED <<busy, todo>> /\ W.at # "finStore"
      BY <1>3 DEF Bridging, BridgeNotNeeded, BridgeNeeded, BuildBridge, StoreBridge, BridgeFails,
                  StoreBridgeFailed, ReadAnswer, StoreAnswer, At, W, dial
    <2>2. /\ row'.emp = row.emp /\ row'.far = row.far /\ row'.legs = row.legs
          /\ row.ended => row'.ended
          /\ row'.status # "initiated"
      BY <1>0, <1>3
         DEF Bridging, BridgeNotNeeded, BuildBridge, StoreBridge, BridgeFails, StoreBridgeFailed,
             ReadAnswer, StoreAnswer, Write, Row
    <2>3. CASE \E at \in {"answer", "bridged", "bridgeFailed", "answered"} :
                 \E c, r : Goto("worker", at, c, r)
      <3>1. W'.at \in {"answer", "bridged", "bridgeFailed", "answered"}
            /\ job'["starter"] = job["starter"]
        BY <2>3, GotoWorker
      <3>2. QED
        BY <1>0, <2>1, <2>2, <3>1, MovesOn
    <2>4. CASE Finish("worker")
      <3>1. W'.at = "idle" /\ job'["starter"] = job["starter"]
        BY <2>4, FinishWorker
      <3>2. ReadAnswer \/ StoreAnswer
        BY <1>3, <3>1, GotoWorker
           DEF Bridging, BridgeNotNeeded, BuildBridge, StoreBridge, BridgeFails, StoreBridgeFailed
      <3>3. CASE ReadAnswer
        <4>1. UNCHANGED row /\ (row.status = "failed" \/ row.answered)
          BY <3>1, <3>3, GotoWorker DEF ReadAnswer
        <4>2. ~Waiting(row')
          BY <4>1 DEF Waiting, BridgeInv, RowFits, Terminal
        <4>3. QED
          BY <1>0, <2>1, <2>2, <3>1, <4>2, MovesOn
      <3>4. CASE StoreAnswer
        <4>1. ~Waiting(row')
          BY <3>4 DEF StoreAnswer, Write, Row, Waiting
        <4>2. QED
          BY <1>0, <2>1, <2>2, <3>1, <4>1, MovesOn
      <3>5. QED
        BY <3>2, <3>3, <3>4
    <2>5. QED
      BY <1>3, <2>3, <2>4
         DEF Bridging, BridgeNotNeeded, BuildBridge, StoreBridge, BridgeFails, StoreBridgeFailed,
             ReadAnswer, StoreAnswer
  <1>4. CASE Ending
    <2>1. PICK p \in Hanger \cup {"worker"} : Finalize(p) \/ (p \in Hanger /\ HangupRequest(p))
      BY <1>4 DEF Ending
    <2>2. p \in Actor /\ todo' = todo /\ p # "starter"
      BY <2>1, ActorsAssumption
         DEF ActorsAssumption, Actor, Finalize, FinalizeSkips, FinalizeTearsDown, FinalizeStores,
             HangupRequest, dial
    <2>3. row' = row \/ row' = [row EXCEPT !.status = "failed", !.ended = TRUE]
                     \/ row' = [row EXCEPT !.status = "completed", !.ended = TRUE]
      BY <2>1 DEF Finalize, FinalizeSkips, FinalizeTearsDown, FinalizeStores, HangupRequest, Write,
                  Outcome
    <2>4. /\ row'.emp = row.emp /\ row'.far = row.far /\ row'.legs = row.legs
          /\ row.ended => row'.ended
          /\ row'.status # "initiated"
          /\ Waiting(row') => row' = row
      BY <1>0, <2>3 DEF Row, Waiting
    <2>5. CASE p = "worker"
      <3>1. CASE FinalizeSkips(p)
        <4>1. W'.at = "idle" /\ job'["starter"] = job["starter"] /\ W.at = "fin"
          BY <2>5, <3>1, FinishWorker DEF FinalizeSkips, At, W
        <4>2. UNCHANGED <<row, busy>> /\ row.status \in {"none", "completed"}
          BY <1>0, <2>5, <3>1, <4>1 DEF FinalizeSkips
        <4>3. ~Waiting(row') \/ row.far = None
          BY <4>2 DEF BridgeInv, RowFits, Terminal, Waiting
        <4>4. Home["worker"] \notin busy'
          BY <1>0, <4>1, <4>2
        <4>5. QED
          BY <2>2, <2>4, <4>1, <4>3, <4>4, MovesOn
      <3>2. CASE FinalizeTearsDown(p)
        <4>1. W'.at = "finStore" /\ job'["starter"] = job["starter"]
          BY <2>5, <3>2, GotoWorker DEF FinalizeTearsDown
        <4>2. QED
          BY <2>2, <2>4, <4>1, MovesOn
      <3>3. CASE FinalizeStores(p)
        <4>1. W'.at = "idle" /\ job'["starter"] = job["starter"]
          BY <2>5, <3>3, FinishWorker DEF FinalizeStores
        <4>2. Home["worker"] \notin busy' /\ row'.ended
          BY <2>5, <3>3 DEF FinalizeStores, Write, Row
        <4>3. ~Waiting(row')
          BY <4>2 DEF Waiting
        <4>4. QED
          BY <2>2, <2>4, <4>1, <4>2, <4>3, MovesOn
      <3>4. QED
        BY <2>1, <2>5, <3>1, <3>2, <3>3, ActorsAssumption DEF ActorsAssumption, Finalize
    <2>6. CASE p # "worker"
      <3>1. W' = W /\ job'["starter"] = job["starter"]
        <4>1. W' = W
          BY <2>1, <2>2, <2>6, OtherMoves
             DEF Finalize, FinalizeSkips, FinalizeTearsDown, FinalizeStores, HangupRequest
        <4>2. job'["starter"] = job["starter"]
          BY <2>1, <2>2
             DEF TypeOK, Goto, Finish, Finalize, FinalizeSkips, FinalizeTearsDown, FinalizeStores,
                 HangupRequest
        <4>3. QED
          BY <4>1, <4>2
      <3>2. Home["worker"] \in busy' => Home["worker"] \in busy
        BY <2>1, <2>6, ActorsAssumption
           DEF ActorsAssumption, Finalize, FinalizeSkips, FinalizeTearsDown, FinalizeStores,
               HangupRequest
      <3>3. QED
        BY <1>0, <2>2, <2>4, <3>1, <3>2 DEF GoesOn
    <2>7. QED
      BY <2>5, <2>6
  <1>5. QED
    BY <1>1, <1>2, <1>3, <1>4 DEF UndisturbedStep

LEMMA CommonJourney ==
    ASSUME TypeOK, MaxFaults = 0, MaxCrashes = 0, BridgeInv, JourneyInv,
           Common \/ \E c \in Chan : UnansweredEnds(c)
    PROVE  JourneyInv'
  <1>1. UndisturbedStep
    BY CommonUndisturbed
  <1>2. ASSUME NEW c \in Chan, Answer(c) PROVE NothingRings
    BY <1>2 DEF Answer, TypeOK, JourneyInv, SidesHold, NothingRings, Chan
  <1>3. NothingRings
    BY <1>1, <1>2, CommonSettles, SettlesQuietly
  <1>4. QED
    BY <1>1, <1>3, CommonGoesOn, CommonStores, JourneyKept

\* A step of the worker to another place of this direction: what it has to see
\* to, and what it owes there.
LEMMA WorkerGoes ==
    ASSUME TypeOK, JourneyInv, NothingRings, mix' \subseteq mix, busy' = busy,
           row'.bridge = row.bridge, row'.far = row.far, row'.status # "initiated",
           row'.emp \in Emp \cup Far \cup {None}, row'.legs \subseteq Emp \cup Far,
           job'["starter"] = job["starter"], W'.at \in JourneyPlaces \ {"bridgeFailed"},
           W.at \notin {"bridged", "finStore"},
           RungInTurn', ReadHolds'
    PROVE  JourneyInv'
  <1>1. Far \subseteq Chan /\ Emp \subseteq Chan
    BY DEF Chan
  <1>2. Undisturbed'
    BY <1>1 DEF JourneyInv, Undisturbed, Absent, NothingRings
  <1>3. SidesHold'
    BY DEF JourneyInv, SidesHold, NothingRings
  <1>4. QED
    BY <1>2, <1>3 DEF JourneyInv

\* The leg of one originate: it had no channel, and rings for a caller who is on
\* the line, or is refused.
LEMMA OriginateRings ==
    ASSUME TypeOK, BridgeInv, JourneyInv, NEW l \in Emp, Originate(l), W.at \in {"dialDesks", "dialBackups"}
    PROVE  \/ UNCHANGED chan
           \/ /\ chan[l] = "absent" /\ chan' = [chan EXCEPT ![l] = "ringing"]
              /\ row.far \in Caller /\ chan[row.far] \in {"up", "mailbox"}
  <1>1. l \in todo /\ chan[l] = "absent"
    BY DEF Originate, JourneyInv, RungInTurn, Absent
  <1>2. CASE row.far \in Live
    <2>1. row.far \in Chan /\ chan[row.far] \in {"ringing", "up", "mailbox"}
      BY <1>2 DEF Live
    <2>2. row.far \in Caller
      BY <2>1, ChannelsAssumption DEF ChannelsAssumption, BridgeInv, RowFits
    <2>3. chan[row.far] \in {"up", "mailbox"}
      BY <2>1, <2>2 DEF JourneyInv, SidesHold
    <2>4. QED
      BY <1>1, <2>2, <2>3 DEF Originate
  <1>3. CASE row.far \notin Live
    BY <1>3 DEF Originate
  <1>4. QED
    BY <1>2, <1>3

LEMMA OriginateJourney ==
    ASSUME TypeOK, BridgeInv, JourneyInv, NEW l \in Emp, DialDesk(l) \/ DialBackup(l)
    PROVE  JourneyInv'
  <1> USE DesksAssumption, ChannelsAssumption DEF DesksAssumption, ChannelsAssumption
  <1>1. Originate(l) /\ W.at \in {"dialDesks", "dialBackups"}
    BY DEF DialDesk, DialBackup, At, W
  <1>2. UNCHANGED <<row, mix, job, busy>> /\ W' = W /\ l \in todo /\ todo' = todo \ {l}
    BY <1>1 DEF Originate, W
  <1>3. l \in Chan /\ \A c \in Chan \ {l} : chan'[c] = chan[c]
    BY <1>1 DEF Originate, TypeOK, Chan
  <1>4. Emp \subseteq Chan /\ Far \subseteq Chan /\ Backup \subseteq Chan /\ todo \subseteq Chan
    BY DEF Chan, TypeOK
  <1>5. RungInTurn'
    <2>1. CASE W.at = "dialDesks"
      <3>1. Absent(todo \cup Far \cup Backup) /\ todo \subseteq Desk
        BY <2>1 DEF JourneyInv, RungInTurn
      <3>2. l \notin Far \cup Backup
        BY <1>2, <3>1 DEF Desk
      <3>3. Absent(todo \cup Far \cup Backup)' /\ todo' \subseteq Desk
        BY <1>2, <1>3, <1>4, <3>1, <3>2 DEF Absent
      <3>4. QED
        BY <1>2, <2>1, <3>3 DEF RungInTurn
    <2>2. CASE W.at = "dialBackups"
      <3>1. Absent(todo \cup Far) /\ todo \subseteq Backup
        BY <2>2 DEF JourneyInv, RungInTurn
      <3>2. l \notin Far
        OBVIOUS
      <3>3. Absent(todo \cup Far)' /\ todo' \subseteq Backup
        BY <1>2, <1>3, <1>4, <3>1, <3>2 DEF Absent
      <3>4. QED
        BY <1>2, <2>2, <3>3 DEF RungInTurn
    <2>3. QED
      BY <1>1, <2>1, <2>2
  <1>6. ReadHolds'
    BY <1>2 DEF JourneyInv, ReadHolds, Read, W
  <1>7. SidesHold'
    <2>1. \A k \in Caller : k # l /\ k \in Chan
      BY DEF Chan
    <2>2. QED
      BY <1>2, <1>3, <2>1 DEF JourneyInv, SidesHold
  <1>8. Undisturbed'
    <2>1. UNCHANGED chan \/ row.far \in Caller
      BY <1>1, OriginateRings
    <2>2. UNCHANGED chan \/ row.far # None
      BY <2>1 DEF Chan
    <2>3. row.far = None => Absent(Emp \cup Far)'
      BY <1>2, <2>2 DEF JourneyInv, Undisturbed, Absent
    <2>4. QED
      BY <1>2, <2>3 DEF JourneyInv, Undisturbed
  <1>9. QED
    BY <1>5, <1>6, <1>7, <1>8 DEF JourneyInv

LEMMA ArrivalJourney ==
    ASSUME TypeOK, BridgeInv, JourneyInv, Arrival
    PROVE  JourneyInv'
  <1> USE DesksAssumption, ChannelsAssumption DEF DesksAssumption, ChannelsAssumption
  <1> "worker" \in Actor /\ "starter" \in Actor /\ row \in Row /\ Caller \subseteq Chan
      /\ Emp \subseteq Chan
    BY DEF Actor, TypeOK, Chan
  <1>1. ASSUME NEW k \in Caller, RefuseCaller(k) PROVE JourneyInv'
    <2>1. NothingRings
      BY <1>1, HangUpSettles, SettlesQuietly DEF RefuseCaller
    <2>2. GoesOn
      BY <1>1, IdleStays DEF RefuseCaller, dial
    <2>3. mix' \subseteq mix /\ UNCHANGED <<row, job>>
      BY <1>1 DEF RefuseCaller, HangUp
    <2>4. BridgeStored
      BY <2>3 DEF JourneyInv, SidesHold, BridgeStored, W
    <2>5. QED
      BY <2>1, <2>2, <2>4, JourneyKept
  <1>2. ASSUME NEW k \in Caller, AdmitCaller(k) PROVE JourneyInv'
    <2>1. row.far = None
      BY <1>2, ArrivesFirst DEF AdmitCaller, BridgeInv, RowFits
    <2>2. mix' = {} /\ UNCHANGED <<chan, busy>> /\ todo' = Desk /\ W.at = "idle"
      BY <1>2, <2>1 DEF AdmitCaller, Arrives, Took, At, W, BridgeInv, BridgeIdle
    <2>3. W'.at = "dialDesks" /\ job'["starter"] = job["starter"]
      BY <1>2, GotoWorker DEF AdmitCaller
    <2>4. row'.far = k /\ row'.status = "ringing" /\ row'.emp = FirstDesk /\ row'.legs = {}
      BY <1>2 DEF AdmitCaller, Write, Blank
    <2>5. Absent(Emp \cup Far)'
      BY <2>1, <2>2 DEF JourneyInv, Undisturbed, Absent
    <2>6. RungInTurn'
      BY <2>2, <2>3, <2>5 DEF RungInTurn, Absent, Desk
    <2>7. ReadHolds'
      BY <2>3 DEF ReadHolds
    <2>8. SidesHold'
      BY <2>2, <2>3, <2>4 DEF JourneyInv, SidesHold, Desk
    <2>9. Undisturbed'
      BY <2>2, <2>3, <2>4 DEF JourneyInv, Undisturbed, JourneyPlaces
    <2>10. QED
      BY <2>6, <2>7, <2>8, <2>9 DEF JourneyInv
  <1>3. ASSUME NEW l \in Emp, DialDesk(l) PROVE JourneyInv'
    BY <1>3, OriginateJourney
  <1>4. CASE StoreDesks
    <2>1. W.at = "dialDesks" /\ UNCHANGED <<chan, mix, busy>>
      BY <1>4 DEF StoreDesks, At, W, asterisk
    <2>2. W'.at = "idle" /\ job'["starter"] = job["starter"]
      BY <1>4, FinishWorker DEF StoreDesks
    <2>3. /\ row'.far = row.far /\ row'.status = row.status /\ row'.bridge = row.bridge
          /\ row'.emp = First /\ row'.legs = dialled /\ First \in Emp /\ dialled \subseteq Emp
      BY <1>4, FirstDialled DEF StoreDesks, Write, Row, TypeOK
    <2>4. Absent(Far \cup Backup)
      BY <2>1 DEF JourneyInv, RungInTurn, Absent
    <2>5. RungInTurn'
      BY <2>1, <2>2, <2>4 DEF RungInTurn, CameTo, Absent
    <2>6. ReadHolds'
      BY <2>2 DEF ReadHolds
    <2>7. NothingRings
      BY <2>1, SameSettles, SettlesQuietly
    <2>8. row'.status # "initiated"
      BY <2>3 DEF JourneyInv, Undisturbed
    <2>9. QED
      BY <2>1, <2>2, <2>3, <2>5, <2>6, <2>7, <2>8, WorkerGoes DEF JourneyPlaces
  <1>5. CASE NoDeskRings
    <2>1. W.at = "dialDesks" /\ UNCHANGED <<row, chan, mix, busy>>
      BY <1>5 DEF NoDeskRings, At, W, asterisk
    <2>2. W' = [at |-> "noAnswer", ch |-> None, call |-> row] /\ job'["starter"] = job["starter"]
      BY <1>5, GotoWorker DEF NoDeskRings
    <2>3. W'.at = "noAnswer" /\ Read' = row
      BY <2>2 DEF Read, W
    <2>4. Absent(Far \cup Backup)
      BY <2>1 DEF JourneyInv, RungInTurn, Absent
    <2>5. RungInTurn'
      BY <2>1, <2>3, <2>4 DEF RungInTurn, CameTo, Absent
    <2>6. ReadHolds'
      BY <2>1, <2>3 DEF JourneyInv, SidesHold, ReadHolds
    <2>7. NothingRings
      BY <2>1, SameSettles, SettlesQuietly
    <2>8. row'.status # "initiated" /\ row'.emp \in Emp \cup Far \cup {None} /\ row'.legs \subseteq Emp \cup Far
      BY <2>1 DEF JourneyInv, Undisturbed, SidesHold
    <2>9. QED
      BY <2>1, <2>2, <2>3, <2>5, <2>6, <2>7, <2>8, WorkerGoes DEF JourneyPlaces
  <1>6. QED
    BY <1>1, <1>2, <1>3, <1>4, <1>5 DEF Arrival

LEMMA AnsweringJourney ==
    ASSUME TypeOK, BridgeInv, JourneyInv, Answering
    PROVE  JourneyInv'
  <1> "worker" \in Actor /\ "starter" \in Actor /\ row \in Row
    BY DEF Actor, TypeOK
  <1>1. ASSUME NEW c \in Chan, DeskAnswers(c) PROVE JourneyInv'
    <2>1. W.at = "idle" /\ UNCHANGED <<row, chan, mix, busy>>
      BY <1>1 DEF DeskAnswers, Took, At, W
    <2>2. W'.at = "desk" /\ job'["starter"] = job["starter"]
      BY <1>1, GotoWorker DEF DeskAnswers
    <2>3. RungInTurn' /\ ReadHolds'
      BY <2>2 DEF RungInTurn, ReadHolds
    <2>4. NothingRings
      BY <2>1, SameSettles, SettlesQuietly
    <2>5. row'.status # "initiated" /\ row'.emp \in Emp \cup Far \cup {None} /\ row'.legs \subseteq Emp \cup Far
      BY <2>1 DEF JourneyInv, Undisturbed, SidesHold
    <2>6. QED
      BY <2>1, <2>2, <2>3, <2>4, <2>5, WorkerGoes DEF JourneyPlaces
  <1>2. CASE StoreDesk
    <2>1. W.at = "desk" /\ UNCHANGED <<chan, mix, busy>>
      BY <1>2 DEF StoreDesk, At, W, asterisk
    <2>2. W'.at = "cancel" /\ job'["starter"] = job["starter"]
      BY <1>2, GotoWorker DEF StoreDesk
    <2>3. row' = [row EXCEPT !.status = "employee_answered", !.emp = W.ch]
      BY <1>2 DEF StoreDesk, Write, W
    <2>4. /\ row'.far = row.far /\ row'.legs = row.legs /\ row'.emp = W.ch
          /\ row'.status = "employee_answered" /\ row'.bridge = row.bridge
      BY <2>3 DEF Row
    <2>5. W.ch \in Emp \cup Far \cup {None} /\ row.legs \subseteq Emp \cup Far
      BY <2>1 DEF BridgeInv, RowFits, JourneyInv, SidesHold, Legs
    <2>6. NothingRings
      BY <2>1, SameSettles, SettlesQuietly
    <2>7. RungInTurn' /\ ReadHolds'
      BY <2>2 DEF RungInTurn, ReadHolds
    <2>8. QED
      BY <2>1, <2>2, <2>4, <2>5, <2>6, <2>7, WorkerGoes DEF JourneyPlaces
  <1>3. CASE CancelDesks
    <2>1. W.at = "cancel" /\ UNCHANGED <<row, busy>> /\ HangUp(Legs(row) \ {W.ch}, inbox)
      BY <1>3 DEF CancelDesks, At, W
    <2>2. W'.at = "bridge" /\ job'["starter"] = job["starter"]
      BY <1>3, GotoWorker DEF CancelDesks
    <2>3. NothingRings /\ mix' \subseteq mix
      BY <2>1, HangUpSettles, SettlesQuietly DEF HangUp
    <2>4. RungInTurn' /\ ReadHolds'
      BY <2>2 DEF RungInTurn, ReadHolds
    <2>5. row'.status # "initiated" /\ row'.emp \in Emp \cup Far \cup {None} /\ row'.legs \subseteq Emp \cup Far
      BY <2>1 DEF JourneyInv, Undisturbed, SidesHold
    <2>6. QED
      BY <2>1, <2>2, <2>3, <2>4, <2>5, WorkerGoes DEF JourneyPlaces
  <1>4. QED
    BY <1>1, <1>2, <1>3 DEF Answering

\* So does the forward number, which rings once, in the last round.
LEMMA ForwardRings ==
    ASSUME TypeOK, BridgeInv, JourneyInv, NEW f \in Far, Forward(f)
    PROVE  /\ chan[f] = "absent" /\ chan' = [chan EXCEPT ![f] = "ringing"]
           /\ row.far \in Caller /\ chan[row.far] \in {"up", "mailbox"}
  <1>1. /\ W.at = "noAnswer" /\ ~Read.ended /\ Read.status # "forwarding" /\ Read.far \in Live
        /\ chan' = [chan EXCEPT ![f] = "ringing"]
    BY DEF Forward, NoAnswer, At, W
  <1>2. chan[f] = "absent"
    BY <1>1 DEF JourneyInv, RungInTurn, CameTo, Absent
  <1>3. row.far \in Chan /\ chan[row.far] \in {"ringing", "up", "mailbox"}
    BY <1>1 DEF JourneyInv, ReadHolds, Live
  <1>4. row.far \in Caller
    BY <1>3, ChannelsAssumption DEF ChannelsAssumption, BridgeInv, RowFits
  <1>5. chan[row.far] \in {"up", "mailbox"}
    BY <1>3, <1>4 DEF JourneyInv, SidesHold
  <1>6. QED
    BY <1>1, <1>2, <1>4, <1>5

LEMMA NoAnsweringJourney ==
    ASSUME TypeOK, ForwardNamed, BridgeInv, JourneyInv, NoAnswering
    PROVE  JourneyInv'
  <1> USE DesksAssumption, ChannelsAssumption DEF DesksAssumption, ChannelsAssumption
  <1> "worker" \in Actor /\ "starter" \in Actor /\ row \in Row
    BY DEF Actor, TypeOK
  <1>0. /\ row.status # "initiated" /\ row.emp \in Emp \cup Far \cup {None}
        /\ row.legs \subseteq Emp \cup Far
    BY DEF JourneyInv, Undisturbed, SidesHold
  <1>a. UNCHANGED chan => NothingRings
    BY SameSettles, SettlesQuietly
  <1>1. ASSUME NEW c \in Chan, NobodyAnswers(c) PROVE JourneyInv'
    <2>1. W.at = "idle" /\ UNCHANGED <<row, chan, mix, busy>> /\ Waiting(row)
      BY <1>1 DEF NobodyAnswers, LastLegGone, Unanswered, Took, At, W, Waiting
    <2>2. W' = [at |-> "noAnswer", ch |-> None, call |-> row] /\ job'["starter"] = job["starter"]
      BY <1>1, GotoWorker DEF NobodyAnswers
    <2>3. W'.at = "noAnswer" /\ Read' = row
      BY <2>2 DEF Read, W
    <2>4. CameTo(row)
      BY <2>1 DEF JourneyInv, RungInTurn
    <2>5. RungInTurn'
      BY <2>1, <2>3, <2>4 DEF RungInTurn, CameTo, Absent
    <2>6. ReadHolds'
      BY <1>0, <2>1, <2>3 DEF ReadHolds
    <2>7. QED
      BY <1>0, <1>a, <2>1, <2>2, <2>3, <2>5, <2>6, WorkerGoes DEF JourneyPlaces
  <1>2. CASE EndedMeanwhile
    <2>1. W.at = "noAnswer" /\ Read.ended /\ UNCHANGED <<row, chan, mix, busy>>
      BY <1>2 DEF EndedMeanwhile, At, W, asterisk
    <2>2. W'.at = "idle" /\ job'["starter"] = job["starter"]
      BY <1>2, FinishWorker DEF EndedMeanwhile
    <2>3. row.ended
      BY <2>1 DEF JourneyInv, ReadHolds
    <2>4. RungInTurn' /\ ReadHolds'
      BY <2>1, <2>2, <2>3 DEF RungInTurn, ReadHolds, Waiting
    <2>5. QED
      BY <1>0, <1>a, <2>1, <2>2, <2>4, WorkerGoes DEF JourneyPlaces
  <1>3. CASE RingBackups
    <2>1. W.at = "noAnswer" /\ ~Read.ended /\ Read.status \notin {"forwarding", "ringing_fallback"}
      BY <1>3 DEF RingBackups, MayRingBackup, NoAnswer, At, W
    <2>2. UNCHANGED <<row, chan, mix, busy>> /\ todo' = Backup
      BY <1>3 DEF RingBackups, asterisk
    <2>3. W' = [at |-> "dialBackups", ch |-> None, call |-> Read] /\ job'["starter"] = job["starter"]
      BY <1>3, GotoWorker DEF RingBackups
    <2>4. W'.at = "dialBackups" /\ Read' = Read
      BY <2>3 DEF Read, W
    <2>5. Absent(Far) /\ Absent(Backup)
      BY <2>1 DEF JourneyInv, RungInTurn, CameTo
    <2>6. RungInTurn'
      BY <2>2, <2>4, <2>5 DEF RungInTurn, Absent
    <2>7. ReadHolds'
      BY <2>1, <2>2, <2>4 DEF JourneyInv, ReadHolds
    <2>8. QED
      BY <1>0, <1>a, <2>1, <2>2, <2>3, <2>4, <2>6, <2>7, WorkerGoes DEF JourneyPlaces
  <1>4. CASE SkipBackups
    <2>1. W.at \in {"noAnswer", "dialBackups"} /\ UNCHANGED <<chan, mix, busy>>
      BY <1>4 DEF SkipBackups, MayRingBackup, NoAnswer, At, W, asterisk
    <2>2. Absent(Far)
      BY <1>4 DEF SkipBackups, MayRingBackup, NoAnswer, At, W, JourneyInv, RungInTurn, CameTo, Absent
    <2>3. W' = [at |-> "noAnswer", ch |-> None, call |-> row'] /\ job'["starter"] = job["starter"]
      BY <1>4, GotoWorker DEF SkipBackups
    <2>4. W'.at = "noAnswer" /\ Read' = row'
      BY <2>3 DEF Read, W
    <2>5. /\ row'.far = row.far /\ row'.emp = row.emp /\ row'.legs = row.legs
          /\ row'.bridge = row.bridge /\ row'.status = "ringing_fallback"
      BY <1>4 DEF SkipBackups, Write, Row
    <2>6. RungInTurn'
      BY <2>1, <2>2, <2>4, <2>5 DEF RungInTurn, CameTo, Absent
    <2>7. ReadHolds'
      BY <1>0, <2>4, <2>5 DEF ReadHolds
    <2>8. QED
      BY <1>0, <1>a, <2>1, <2>3, <2>4, <2>5, <2>6, <2>7, WorkerGoes DEF JourneyPlaces
  <1>5. CASE StoreBackups
    <2>1. W.at = "dialBackups" /\ UNCHANGED <<chan, mix, busy>>
      BY <1>5 DEF StoreBackups, At, W, asterisk
    <2>2. W'.at = "idle" /\ job'["starter"] = job["starter"]
      BY <1>5, FinishWorker DEF StoreBackups
    <2>3. /\ row'.far = row.far /\ row'.emp = First /\ row'.legs = Read.legs \cup dialled
          /\ row'.bridge = row.bridge /\ row'.status = "ringing_fallback"
      BY <1>5 DEF StoreBackups, Write, Row
    <2>4. First \in Emp /\ dialled \subseteq Emp
      BY <1>5, FirstDialled DEF StoreBackups, TypeOK
    <2>5. Read.legs \subseteq Emp \cup Far /\ Absent(Far)
      BY <2>1 DEF JourneyInv, ReadHolds, RungInTurn, Absent
    <2>6. RungInTurn'
      BY <2>1, <2>2, <2>3, <2>5 DEF RungInTurn, CameTo, Absent
    <2>7. ReadHolds'
      BY <2>2 DEF ReadHolds
    <2>8. QED
      BY <1>a, <2>1, <2>2, <2>3, <2>4, <2>5, <2>6, <2>7, WorkerGoes DEF JourneyPlaces
  <1>6. ASSUME NEW l \in Emp, DialBackup(l) PROVE JourneyInv'
    BY <1>6, OriginateJourney
  <1>7. CASE ToVoicemail
    <2>1. W.at = "noAnswer" /\ UNCHANGED <<row, mix, busy>>
      BY <1>7 DEF ToVoicemail, NoAnswer, At, W
    <2>2. W'.at = "fin" /\ job'["starter"] = job["starter"]
      BY <1>7, GotoWorker DEF ToVoicemail
    <2>3. RungInTurn' /\ ReadHolds'
      BY <2>2 DEF RungInTurn, ReadHolds
    <2>4. Read.far \in Up /\ chan' = [chan EXCEPT ![Read.far] = "mailbox"]
      BY <1>7 DEF ToVoicemail
    <2>5. NothingRings
      BY <2>4 DEF Up, TypeOK, JourneyInv, SidesHold, NothingRings, Chan
    <2>6. QED
      BY <1>0, <2>1, <2>2, <2>3, <2>5, WorkerGoes DEF JourneyPlaces
  <1>8. CASE Missed
    <2>1. W.at = "noAnswer" /\ UNCHANGED <<row, busy>> /\ mix' \subseteq mix
      BY <1>8 DEF Missed, NoAnswer, At, W, HangUp
    <2>2. W'.at = "fin" /\ job'["starter"] = job["starter"]
      BY <1>8, GotoWorker DEF Missed
    <2>3. RungInTurn' /\ ReadHolds'
      BY <2>2 DEF RungInTurn, ReadHolds
    <2>4. NothingRings
      BY <1>8, HangUpSettles, SettlesQuietly DEF Missed
    <2>5. QED
      BY <1>0, <2>1, <2>2, <2>3, <2>4, WorkerGoes DEF JourneyPlaces
  <1>9. CASE StoreForward
    <2>1. W.at = "forwarded" /\ UNCHANGED <<chan, mix, busy>>
      BY <1>9 DEF StoreForward, At, W, asterisk
    <2>2. W'.at = "idle" /\ job'["starter"] = job["starter"]
      BY <1>9, FinishWorker DEF StoreForward
    <2>3. row' = [row EXCEPT !.status = "forwarding", !.emp = W.ch, !.legs = {W.ch}]
      BY <1>9 DEF StoreForward, Write, W
    <2>4. /\ row'.far = row.far /\ row'.emp = W.ch /\ row'.legs = {W.ch}
          /\ row'.bridge = row.bridge /\ row'.status = "forwarding"
      BY <2>3 DEF Row
    <2>5. RungInTurn' /\ ReadHolds'
      BY <2>2, <2>4 DEF RungInTurn, CameTo, ReadHolds
    <2>6. W.ch \in Far
      BY <2>1 DEF ForwardNamed
    <2>7. QED
      BY <1>a, <2>1, <2>2, <2>4, <2>5, <2>6, WorkerGoes DEF JourneyPlaces
  <1>10. ASSUME NEW f \in Far, Forward(f) PROVE JourneyInv'
    <2>1. W.at = "noAnswer" /\ UNCHANGED <<row, mix, busy>> /\ chan' = [chan EXCEPT ![f] = "ringing"]
      BY <1>10 DEF Forward, NoAnswer, At, W
    <2>2. W'.at = "forwarded" /\ job'["starter"] = job["starter"]
      BY <1>10, GotoWorker DEF Forward
    <2>3. RungInTurn' /\ ReadHolds'
      BY <2>2 DEF RungInTurn, ReadHolds
    <2>4. row.far \in Caller
      BY <1>10, ForwardRings
    <2>5. Undisturbed'
      BY <2>1, <2>2, <2>4 DEF JourneyInv, Undisturbed, JourneyPlaces, Chan
    <2>6. \A k \in Caller : chan'[k] = chan[k]
      BY <2>1 DEF TypeOK, Chan
    <2>7. SidesHold'
      BY <2>1, <2>2, <2>6 DEF JourneyInv, SidesHold
    <2>8. QED
      BY <2>3, <2>5, <2>7 DEF JourneyInv
  <1>11. QED
    BY <1>1, <1>2, <1>3, <1>4, <1>5, <1>6, <1>7, <1>8, <1>9, <1>10 DEF NoAnswering

LEMMA StutterJourney ==
    ASSUME JourneyInv, UNCHANGED vars
    PROVE  JourneyInv'
  BY DEF vars, asterisk, dial, JourneyInv, Undisturbed, RungInTurn, ReadHolds, SidesHold, CameTo,
         Absent, Waiting, Read, W

LEMMA InitJourney == Init => JourneyInv
  <1> SUFFICES ASSUME Init PROVE JourneyInv
    OBVIOUS
  <1> USE ChannelsAssumption DEF ChannelsAssumption
  <1>1. W.at = "idle" /\ row = Blank /\ mix = {}
    BY InitJobs DEF Init, InitWith
  <1>2. job["starter"].at = "idle" /\ busy = {}
    BY ActorsAssumption DEF ActorsAssumption, Init, InitWith, Idle, Actor
  <1>3. \A c \in Chan : chan[c] = IF c \in Caller THEN "up" ELSE "absent"
    BY DEF Init, InitWith
  <1>4. Absent(Emp \cup Far)
    BY <1>3 DEF Absent, Chan
  <1>5. CameTo(row)
    BY <1>4, DesksAssumption DEF DesksAssumption, CameTo, Absent
  <1>6. QED
    BY <1>1, <1>2, <1>3, <1>4, <1>5
       DEF JourneyInv, Undisturbed, JourneyPlaces, RungInTurn, ReadHolds, SidesHold, Blank, Chan

LEMMA StepJourney ==
    ASSUME MaxFaults = 0, MaxCrashes = 0, TypeOK, ForwardNamed, BridgeInv, JourneyInv, [Next]_vars,
           ~UnnamedForward
    PROVE  JourneyInv'
  BY CommonJourney, ArrivalJourney, AnsweringJourney, NoAnsweringJourney, StutterJourney
     DEF Next, CallerLeaves

----------------------------------------------------------------------------
(* A forward number the worker can find is one the row names, or is about   *)
(* to name: so none is ever taken for the far side.                         *)

StrayInv ==
    /\ \A f \in index \cap Far : chan[f] # "absent"
    /\ W.at = "forwarded" => index \cap Far \subseteq {W.ch}
    /\ W.at # "forwarded" => index \cap Far \subseteq row.legs

LEMMA StrayKept ==
    ASSUME StrayInv, index' \cap Far \subseteq index, row'.legs = row.legs,
           W' = W \/ (W.at # "forwarded" /\ W'.at # "forwarded"),
           \A f \in Far : chan[f] # "absent" => chan'[f] # "absent"
    PROVE  StrayInv'
  BY DEF StrayInv

LEMMA SettlesAppeared ==
    ASSUME Settles
    PROVE  \A f \in Far : chan[f] # "absent" => chan'[f] # "absent"
  BY DEF Settles, Chan

\* No forward number is found while none has a channel.
LEMMA NoneFound ==
    ASSUME StrayInv, Absent(Far)
    PROVE  index \cap Far = {}
  BY DEF StrayInv, Absent

LEMMA CommonStray ==
    ASSUME TypeOK, MaxFaults = 0, MaxCrashes = 0, BridgeInv, JourneyInv, StrayInv,
           Common \/ \E c \in Chan : UnansweredEnds(c)
    PROVE  StrayInv'
  <1>1. UndisturbedStep
    BY CommonUndisturbed
  <1>2. index' \subseteq index
    BY <1>1 DEF UndisturbedStep, People, Answer, RingOut, PartyHangup, Event, EventIgnored, LegStarted,
                Straggler, LegGone, TalkerGone, UnansweredEnds, Bridging, BridgeNotNeeded, BuildBridge,
                StoreBridge, BridgeFails, StoreBridgeFailed, ReadAnswer, StoreAnswer, Ending, Finalize,
                FinalizeSkips, FinalizeTearsDown, FinalizeStores, HangupRequest, Disconnect,
                ReadyExpires, Connect
  <1>3. row'.legs = row.legs
    BY CommonRowGoesOn DEF RowGoesOn
  <1>4. W' = W \/ (W.at # "forwarded" /\ W'.at # "forwarded")
    BY CommonMoves, NothingInterrupts DEF CommonPlaces
  <1>5. ASSUME NEW c \in Chan, Answer(c)
        PROVE  \A f \in Far : chan[f] # "absent" => chan'[f] # "absent"
    BY <1>5 DEF Answer, TypeOK, Chan
  <1>6. \A f \in Far : chan[f] # "absent" => chan'[f] # "absent"
    BY <1>1, <1>5, CommonSettles, SettlesAppeared
  <1>7. QED
    BY <1>2, <1>3, <1>4, <1>6, StrayKept

LEMMA InboundStray ==
    ASSUME TypeOK, BridgeInv, JourneyInv, StrayInv,
           Arrival \/ Answering \/ NoAnswering \/ UNCHANGED vars
    PROVE  StrayInv'
  <1> USE ChannelsAssumption DEF ChannelsAssumption
  <1> "worker" \in Actor /\ row \in Row
    BY DEF Actor, TypeOK
  <1>1. ASSUME NEW k \in Caller, RefuseCaller(k) PROVE StrayInv'
    <2>1. UNCHANGED <<row, job, index>> /\ Settles
      BY <1>1, HangUpSettles DEF RefuseCaller
    <2>2. QED
      BY <2>1, SettlesAppeared, StrayKept DEF W
  <1>2. ASSUME NEW k \in Caller, AdmitCaller(k) PROVE StrayInv'
    <2>1. row.far = None /\ UNCHANGED <<chan, index>>
      BY <1>2, ArrivesFirst DEF AdmitCaller, BridgeInv, RowFits
    <2>2. index \cap Far = {}
      BY <2>1, NoneFound DEF JourneyInv, Undisturbed, Absent
    <2>3. W'.at = "dialDesks"
      BY <1>2, GotoWorker DEF AdmitCaller
    <2>4. QED
      BY <2>1, <2>2, <2>3 DEF StrayInv
  <1>3. ASSUME NEW l \in Emp, DialDesk(l) \/ DialBackup(l) PROVE StrayInv'
    <2>1. Originate(l)
      BY <1>3 DEF DialDesk, DialBackup
    <2>2. UNCHANGED <<row, job>> /\ index' \subseteq index \cup {l} /\ l \notin Far
      BY <2>1 DEF Originate
    <2>3. \A f \in Far : chan'[f] = chan[f]
      BY <2>1, <2>2 DEF Originate, TypeOK, Chan
    <2>4. QED
      BY <2>2, <2>3, StrayKept DEF W
  <1>4. CASE StoreDesks \/ StoreBackups
    <2>1. W.at \in {"dialDesks", "dialBackups"} /\ UNCHANGED chan /\ index' \subseteq index
      BY <1>4 DEF StoreDesks, StoreBackups, At, W, asterisk
    <2>2. index \cap Far = {}
      BY <2>1, NoneFound DEF JourneyInv, RungInTurn, Absent
    <2>3. W'.at = "idle"
      BY <1>4, FinishWorker DEF StoreDesks, StoreBackups
    <2>4. QED
      BY <2>1, <2>2, <2>3 DEF StrayInv
  <1>5. CASE CancelDesks \/ Missed
    <2>1. UNCHANGED <<row, index>> /\ Settles
      BY <1>5, HangUpSettles DEF CancelDesks, Missed
    <2>2. W.at \in {"cancel", "noAnswer"}
      BY <1>5 DEF CancelDesks, Missed, NoAnswer, At, W
    <2>3. W'.at \in {"bridge", "fin"}
      BY <1>5, GotoWorker DEF CancelDesks, Missed
    <2>4. QED
      BY <2>1, <2>2, <2>3, SettlesAppeared, StrayKept
  <1>6. CASE \/ NoDeskRings \/ StoreDesk \/ \E c \in Chan : DeskAnswers(c) \/ NobodyAnswers(c)
             \/ EndedMeanwhile \/ RingBackups \/ SkipBackups
    <2>1. index' \subseteq index /\ UNCHANGED chan
      BY <1>6 DEF NoDeskRings, StoreDesk, DeskAnswers, NobodyAnswers, EndedMeanwhile, RingBackups,
                  SkipBackups, asterisk
    <2>2. row'.legs = row.legs
      BY <1>6 DEF NoDeskRings, StoreDesk, DeskAnswers, NobodyAnswers, EndedMeanwhile, RingBackups,
                  SkipBackups, Write, Row
    <2>3. W.at # "forwarded"
      BY <1>6 DEF NoDeskRings, StoreDesk, DeskAnswers, NobodyAnswers, LastLegGone, EndedMeanwhile,
                  RingBackups, MayRingBackup, NoAnswer, SkipBackups, Took, At, W
    <2>4. W'.at # "forwarded"
      BY <1>6, GotoWorker, FinishWorker
         DEF NoDeskRings, StoreDesk, DeskAnswers, NobodyAnswers, EndedMeanwhile, RingBackups, SkipBackups
    <2>5. QED
      BY <2>1, <2>2, <2>3, <2>4, StrayKept
  <1>7. CASE ToVoicemail
    <2>1. UNCHANGED <<row, index>> /\ W.at = "noAnswer"
      BY <1>7 DEF ToVoicemail, NoAnswer, At, W
    <2>2. W'.at = "fin"
      BY <1>7, GotoWorker DEF ToVoicemail
    <2>3. \A f \in Far : chan[f] # "absent" => chan'[f] # "absent"
      BY <1>7 DEF ToVoicemail, TypeOK, Chan
    <2>4. QED
      BY <2>1, <2>2, <2>3, StrayKept
  <1>8. ASSUME NEW f \in Far, Forward(f) PROVE StrayInv'
    <2>1. /\ W.at = "noAnswer" /\ ~Read.ended /\ Read.status # "forwarding"
          /\ index' = index \cup {f} /\ chan' = [chan EXCEPT ![f] = "ringing"]
      BY <1>8 DEF Forward, NoAnswer, At, W
    <2>2. index \cap Far = {}
      BY <2>1, NoneFound DEF JourneyInv, RungInTurn, CameTo
    <2>3. W' = [at |-> "forwarded", ch |-> f, call |-> Blank]
      BY <1>8, GotoWorker DEF Forward
    <2>4. W'.at = "forwarded" /\ W'.ch = f
      BY <2>3
    <2>5. chan'[f] = "ringing"
      BY <2>1 DEF TypeOK, Chan
    <2>6. index' \cap Far \subseteq {f}
      BY <2>1, <2>2
    <2>7. QED
      BY <2>4, <2>5, <2>6 DEF StrayInv
  <1>9. CASE StoreForward
    <2>1. W.at = "forwarded" /\ UNCHANGED <<chan, index>>
      BY <1>9 DEF StoreForward, At, W, asterisk
    <2>2. row' = [row EXCEPT !.status = "forwarding", !.emp = W.ch, !.legs = {W.ch}]
      BY <1>9 DEF StoreForward, Write, W
    <2>3. row'.legs = {W.ch}
      BY <2>2 DEF Row
    <2>4. W'.at = "idle"
      BY <1>9, FinishWorker DEF StoreForward
    <2>5. QED
      BY <2>1, <2>3, <2>4 DEF StrayInv
  <1>10. CASE UNCHANGED vars
    BY <1>10 DEF vars, asterisk, StrayInv, W
  <1>11. QED
    BY <1>1, <1>2, <1>3, <1>4, <1>5, <1>6, <1>7, <1>8, <1>9, <1>10 DEF Arrival, Answering, NoAnswering

LEMMA NobodyUnnamed ==
    ASSUME TypeOK, BridgeInv, JourneyInv, StrayInv
    PROVE  ~UnnamedForward
  <1> USE ChannelsAssumption DEF ChannelsAssumption
  <1>1. ~StoreFar
    BY DEF StoreFar, At, W, JourneyInv, Undisturbed, JourneyPlaces
  <1>2. ASSUME NEW f \in Far, FarAnswers(f) PROVE FALSE
    <2>1. W.at = "idle" /\ Found(f) /\ f \notin Legs(row) \cup {row.emp}
      BY <1>2 DEF FarAnswers, Took, At, W
    <2>2. row.far \in Caller \cup {None} /\ f \notin Caller \cup {None}
      BY DEF BridgeInv, RowFits, Chan
    <2>3. f \in index
      BY <2>1, <2>2 DEF Found
    <2>4. f \in row.legs
      BY <2>1, <2>3 DEF StrayInv
    <2>5. QED
      BY <2>1, <2>4 DEF Legs
  <1>3. QED
    BY <1>1, <1>2 DEF UnnamedForward

LEMMA InitStray == Init => StrayInv
  BY DEF Init, InitWith, StrayInv

LEMMA StepStray ==
    ASSUME MaxFaults = 0, MaxCrashes = 0, TypeOK, BridgeInv, JourneyInv, StrayInv, [Next]_vars
    PROVE  StrayInv'
  BY CommonStray, InboundStray, NobodyUnnamed DEF Next, CallerLeaves

\* Every other step keeps what the bridge rests on.
LEMMA StepBridge ==
    ASSUME MaxFaults = 0, MaxCrashes = 0, TypeOK, BridgeInv, [Next]_vars, ~UnnamedForward
    PROVE  BridgeInv'
  BY CommonKeeps, ArrivalKeeps, AnsweringKeeps, NoAnsweringKeeps, StutterKeeps DEF Next, CallerLeaves

----------------------------------------------------------------------------
(* Each step is one of TwoParty's, or none of its business.                 *)

\* What is heard of a channel, before a step and after it.
LEMMA Hearing ==
    ASSUME TypeOK, TypeOK', NEW c \in Chan
    PROVE  /\ Heard(c) = "quiet" <=> chan[c] = "absent"
           /\ Heard(c) = "ringing" <=> chan[c] = "ringing"
           /\ Heard(c) = "on" <=> chan[c] \in {"up", "mailbox"}
           /\ Heard(c) = "done" <=> chan[c] \in {"missed", "over"}
           /\ Heard(c)' = "quiet" <=> chan'[c] = "absent"
           /\ Heard(c)' = "ringing" <=> chan'[c] = "ringing"
           /\ Heard(c)' = "on" <=> chan'[c] \in {"up", "mailbox"}
           /\ Heard(c)' = "done" <=> chan'[c] \in {"missed", "over"}
           /\ chan'[c] = chan[c] => Heard(c)' = Heard(c)
  <1>1. chan[c] \in ChanState /\ chan'[c] \in ChanState
    BY DEF TypeOK
  <1>2. QED
    BY <1>1 DEF Heard, ChanState

LEMMA Devices == Promise!Device = Chan
  BY DEF Chan, Promise!Device

\* What TwoParty leaves alone when no channel and no bridge changes.
LEMMA QuietPromised == UNCHANGED <<chan, mix>> => UNCHANGED Promise!vars
  BY DEF Promise!vars, Heard

Promised == [Promise!Next]_(Promise!vars)

\* Where channels only end, somebody's line ended or nothing happened.
LEMMA PartsPromised ==
    ASSUME TypeOK, TypeOK', PartsOnly, Settles
    PROVE  Promised
  <1> DEFINE S == {c \in Chan : chan'[c] # chan[c]}
  <1>1. \A d \in S : Heard(d) \in {"ringing", "on"} /\ Heard(d)' = "done"
    BY Hearing DEF Settles
  <1>2. \A d \in Chan \ S : Heard(d)' = Heard(d)
    BY Hearing
  <1>3. mix' \in SUBSET (mix \ S)
    BY DEF PartsOnly, Settles
  <1>4. S \subseteq Chan
    OBVIOUS
  <1> HIDE DEF S
  <1>5. Promise!End(S)
    BY <1>1, <1>2, <1>3, <1>4, Devices DEF Promise!End
  <1>6. QED
    BY <1>4, <1>5, Devices DEF Promise!Next, Promised

LEMMA PickUpPromised ==
    ASSUME TypeOK, TypeOK', NEW c \in Chan, Answer(c)
    PROVE  Promised
  <1>1. Heard(c) = "ringing" /\ Heard(c)' = "on" /\ mix' = mix
    BY Hearing DEF Answer, TypeOK
  <1>2. \A d \in Chan \ {c} : Heard(d)' = Heard(d)
    BY Hearing DEF Answer, TypeOK
  <1>3. Promise!PickUp(c)
    BY <1>1, <1>2 DEF Promise!PickUp
  <1>4. QED
    BY <1>3, Devices DEF Promise!Next, Promised

\* A device that had no channel rings for the caller on the line.
LEMMA RingPromised ==
    ASSUME TypeOK, TypeOK', NEW l \in Emp \cup Far, chan[l] = "absent",
           chan' = [chan EXCEPT ![l] = "ringing"], UNCHANGED mix,
           row.far \in Caller, chan[row.far] \in {"up", "mailbox"}
    PROVE  Promised
  <1>1. l \in Chan /\ row.far \in Chan
    BY DEF Chan
  <1>2. Heard(l) = "quiet" /\ Heard(l)' = "ringing"
    BY <1>1, Hearing DEF TypeOK
  <1>3. \A d \in Chan \ {l} : Heard(d)' = Heard(d)
    BY Hearing DEF TypeOK
  <1>4. row.far \in Caller \cap Promise!On
    BY <1>1, Hearing, Devices DEF Promise!On
  <1>5. Promise!RingFar({l})
    BY <1>1, <1>2, <1>3, <1>4, Devices DEF Promise!RingFar
  <1>6. {l} \in SUBSET (Emp \cup Far)
    OBVIOUS
  <1>7. QED
    BY <1>5, <1>6 DEF Promise!Next, Promised

LEMMA BuildBridgeJoins ==
    ASSUME TypeOK, TypeOK', BridgeInv, JourneyInv, BuildBridge
    PROVE  Promised
  <1>1. /\ UNCHANGED chan /\ {row.emp, row.far} \subseteq Up
        /\ row.emp # None /\ row.far # None /\ ~row.bridge /\ W.at = "bridge"
        /\ mix' = mix \cup {row.emp, row.far}
    BY DEF BuildBridge, BridgeNeeded, At, W
  <1>2. mix = {}
    BY <1>1 DEF JourneyInv, SidesHold
  <1>3. row.emp \in Emp \cup Far /\ row.far \in Caller
    BY <1>1 DEF JourneyInv, SidesHold, BridgeInv, RowFits
  <1>4. \A c \in Chan : Heard(c)' = Heard(c)
    BY <1>1, Hearing
  <1>5. {row.far, row.emp} \subseteq Promise!On
    BY <1>1, <1>3, Hearing, Devices DEF Promise!On, Up
  <1>6. Promise!Join(row.far, row.emp)
    BY <1>1, <1>2, <1>4, <1>5 DEF Promise!Join
  <1>7. QED
    BY <1>3, <1>6 DEF Promise!Next, Promised

LEMMA StepPromised ==
    ASSUME MaxFaults = 0, MaxCrashes = 0, TypeOK, TypeOK', BridgeInv, JourneyInv, [Next]_vars,
           ~UnnamedForward
    PROVE  Promised
  <1> inbox \in [Chan -> SUBSET EventType]
    BY DEF TypeOK
  <1>0. UNCHANGED <<chan, mix>> => Promised
    BY QuietPromised DEF Promised
  <1>1. CASE Common \/ CallerLeaves
    <2>1. UndisturbedStep /\ (Common \/ \E c \in Chan : UnansweredEnds(c))
      BY <1>1, CommonUndisturbed DEF CallerLeaves
    <2>2. CASE \E c \in Chan : Answer(c)
      BY <2>2, PickUpPromised
    <2>3. CASE BuildBridge
      BY <2>3, BuildBridgeJoins
    <2>4. CASE ~BuildBridge /\ ~(\E c \in Chan : Answer(c))
      BY <2>1, <2>4, CommonParts, CommonSettles, PartsPromised
    <2>5. QED
      BY <2>2, <2>3, <2>4
  <1>2. ASSUME NEW k \in Caller, RefuseCaller(k) PROVE Promised
    <2>1. k \in Chan
      BY DEF Chan
    <2>2. PartsOnly /\ Settles
      BY <1>2, <2>1, HangUpParts, HangUpSettles, RestSmaller DEF RefuseCaller
    <2>3. QED
      BY <2>2, PartsPromised
  <1>3. CASE CancelDesks \/ Missed
    <2>1. PartsOnly /\ Settles
      BY <1>3, HangUpParts, HangUpSettles DEF CancelDesks, Missed
    <2>2. QED
      BY <2>1, PartsPromised
  <1>4. ASSUME NEW l \in Emp, DialDesk(l) \/ DialBackup(l) PROVE Promised
    <2>1. Originate(l) /\ W.at \in {"dialDesks", "dialBackups"}
      BY <1>4 DEF DialDesk, DialBackup, At, W
    <2>2. UNCHANGED mix
      BY <2>1 DEF Originate
    <2>3. QED
      BY <1>0, <2>1, <2>2, OriginateRings, RingPromised
  <1>5. ASSUME NEW f \in Far, Forward(f) PROVE Promised
    <2>1. UNCHANGED mix
      BY <1>5 DEF Forward
    <2>2. QED
      BY <1>5, <2>1, ForwardRings, RingPromised
  <1>6. CASE ToVoicemail
    <2>1. Read.far \in Up /\ chan' = [chan EXCEPT ![Read.far] = "mailbox"] /\ mix' = mix
      BY <1>6 DEF ToVoicemail
    <2>2. \A c \in Chan : Heard(c)' = Heard(c)
      <3>1. TAKE c \in Chan
      <3>2. CASE c = Read.far
        BY <2>1, <3>2, Hearing DEF Up, TypeOK
      <3>3. CASE c # Read.far
        BY <2>1, <3>3, Hearing DEF TypeOK
      <3>4. QED
        BY <3>2, <3>3
    <2>3. QED
      BY <2>1, <2>2 DEF Promised, Promise!vars
  <1>7. CASE \/ \E k \in Caller : AdmitCaller(k)
             \/ StoreDesks \/ NoDeskRings \/ StoreDesk
             \/ \E c \in Chan : DeskAnswers(c) \/ NobodyAnswers(c)
             \/ EndedMeanwhile \/ RingBackups \/ SkipBackups \/ StoreBackups \/ StoreForward
    BY <1>0, <1>7 DEF AdmitCaller, StoreDesks, NoDeskRings, StoreDesk, DeskAnswers, NobodyAnswers,
                      EndedMeanwhile, RingBackups, SkipBackups, StoreBackups, StoreForward, asterisk
  <1>8. CASE UNCHANGED vars
    BY <1>0, <1>8 DEF vars, asterisk
  <1>9. QED
    BY <1>1, <1>2, <1>3, <1>4, <1>5, <1>6, <1>7, <1>8 DEF Next, Arrival, Answering, NoAnswering

LEMMA InitPromised == Init => Promise!Init
  <1> SUFFICES ASSUME Init PROVE Promise!Init
    OBVIOUS
  <1> USE ChannelsAssumption DEF ChannelsAssumption
  <1>1. \A c \in Chan : Heard(c) = IF c \in Caller THEN "on" ELSE "quiet"
    BY DEF Init, InitWith, Heard
  <1>2. mix = {}
    BY DEF Init, InitWith
  <1>3. Emp \cup Far \subseteq Chan /\ \A c \in Emp \cup Far : c \notin Caller
    BY DEF Chan
  <1>4. QED
    BY <1>1, <1>2, <1>3, Devices DEF Promise!Init

\* An inbound call keeps the promise TwoParty makes to the people on it, while
\* the worker neither crashes nor fails: devices ring only for a caller on the
\* line, each of them once, desk after desk and the forward number last, and
\* the caller is joined with one device that was picked up.  Hangup requests and
\* lost websockets do not change that.
THEOREM InboundKeepsPromise == ASSUME MaxFaults = 0, MaxCrashes = 0 PROVE Spec => PromiseKept
  <1> DEFINE Inv == TypeOK /\ ForwardNamed /\ BridgeInv /\ JourneyInv /\ StrayInv
  <1>1. Init => Inv
    BY InitTypes, InitKeeps, InitJourney, InitStray DEF Init, InitWith, Idle, Actor, ForwardNamed, W
  <1>2. Inv /\ [Next]_vars => Inv'
    BY StepTypes, StepBridge, StepJourney, StepStray, NobodyUnnamed
  <1>3. Inv /\ [Next]_vars => [Promise!Next]_(Promise!vars)
    BY StepTypes, StepPromised, NobodyUnnamed DEF Promised
  <1>4. QED
    BY <1>1, <1>2, <1>3, InitPromised, PTL DEF Spec, PromiseKept, Promise!Spec

----------------------------------------------------------------------------
(* What an ended call leaves behind, as long as nobody asks to hang it up:   *)
(* the row's legs are all the devices that ring or talk, so that whoever    *)
(* takes the call down takes everything down.                              *)

\* The call is over and nothing of it is left but a message being recorded.
Cleared == Live \subseteq {k \in Caller : chan[k] = "mailbox"} /\ ~open

\* The rows's columns say together whether the call ended, and the worker goes
\* on with no call that did.
EndsAlike ==
    /\ row.ended <=> row.status \in Terminal
    /\ W.at \in GoingOn \cup {"fin"} => ~row.ended
    /\ W.at = "answer" => row.status # "completed"
    /\ W.at # "idle" \/ row.status # "none" => row.far # None

\* Devices that ring or talk.
Devs == Live \cap (Emp \cup Far)

DevicesKnown ==
    /\ W.at \in {"dialDesks", "dialBackups"} => Devs \subseteq dialled
    /\ W.at = "noAnswer" => Devs = {}
    /\ W.at = "forwarded" => Devs \subseteq {W.ch}
    /\ W.at \notin {"dialDesks", "dialBackups", "noAnswer", "forwarded"} => Devs \subseteq Legs(row)

\* What the events not handled yet tell of their channels still holds.
GoneIsGone ==
    /\ \A c \in Chan : /\ "destroyed" \in inbox[c] => chan[c] \in {"missed", "over"}
                       /\ "up" \in inbox[c] => chan[c] \notin {"absent", "ringing"}
    /\ \A k \in Caller : "up" \notin inbox[k]

\* The caller handed on is on the way to, or in, the mailbox of a call that ends.
HandedOn ==
    /\ W.at = "fin" => W.ch = None \/ (W.ch = row.far /\ chan[W.ch] \in {"mailbox", "over"})
    /\ (\E k \in Caller : chan[k] = "mailbox") =>
         row.ended \/ W.at = "finStore" \/ (W.at = "fin" /\ W.ch # None)

ClearedInTime ==
    /\ open => row.far # None /\ (row.bridge \/ W.at = "bridged")
    /\ row.ended \/ W.at \in {"finStore", "bridgeFailed"} => Cleared

ClearInv == NoRequest => EndsAlike /\ DevicesKnown /\ GoneIsGone /\ HandedOn /\ ClearedInTime

\* Once a device took the call none rings; once the call is given up, none that
\* the worker could resolve.
RingingDevs == {c \in Emp \cup Far : chan[c] = "ringing"}

AnsweringPlaces == {"bridge", "bridged", "bridgeFailed", "answer", "answered"}

NoneRings ==
    /\ W.at \in {"desk", "cancel"} => chan[W.ch] # "ringing"
    /\ W.at \in AnsweringPlaces \/ row.answered => RingingDevs = {}
    /\ W.at = "fin" => index \cap RingingDevs = {}
    /\ W.at \in {"dialDesks", "noAnswer", "dialBackups", "forwarded"} => ~row.answered

RingInv == NoRequest => NoneRings

\* The steps of a call nobody asks to hang up.
UnaskedStep ==
    \/ People \/ Event \/ CallerLeaves \/ Bridging \/ Finalize("worker")
    \/ Disconnect \/ ReadyExpires \/ Connect

OnlyWorker == \A p \in Actor \ {"worker"} : job'[p] = job[p]

LEMMA WorkerAlone ==
    ASSUME TypeOK, NEW at, NEW c, NEW r,
           UNCHANGED job \/ Goto("worker", at, c, r) \/ Finish("worker")
    PROVE  OnlyWorker
  BY GotoWorker, FinishWorker DEF OnlyWorker

LEMMA StepOfOne ==
    ASSUME TypeOK, UndisturbedStep \/ Arrival \/ Answering \/ NoAnswering \/ UNCHANGED vars
    PROVE  OnlyWorker \/ \E h \in Hanger : Finalize(h) \/ HangupRequest(h)
  <1>1. CASE People \/ Disconnect \/ ReadyExpires \/ Connect \/ UNCHANGED vars
    BY <1>1 DEF People, Answer, RingOut, PartyHangup, Disconnect, ReadyExpires, Connect, vars, OnlyWorker
  <1>2. CASE Event \/ \E c \in Chan : UnansweredEnds(c)
    BY <1>2, WorkerAlone
       DEF Event, EventIgnored, LegStarted, Straggler, LegGone, TalkerGone, UnansweredEnds
  <1>3. CASE Bridging
    BY <1>3, WorkerAlone
       DEF Bridging, BridgeNotNeeded, BuildBridge, StoreBridge, BridgeFails, StoreBridgeFailed,
           ReadAnswer, StoreAnswer
  <1>4. CASE Ending
    <2>1. PICK p \in Hanger \cup {"worker"} : Finalize(p) \/ (p \in Hanger /\ HangupRequest(p))
      BY <1>4 DEF Ending
    <2>2. CASE Finalize("worker")
      BY <2>2, WorkerAlone DEF Finalize, FinalizeSkips, FinalizeTearsDown, FinalizeStores
    <2>3. QED
      BY <2>1, <2>2
  <1>5. CASE Arrival
    BY <1>5, WorkerAlone
       DEF Arrival, RefuseCaller, AdmitCaller, DialDesk, Originate, StoreDesks, NoDeskRings
  <1>6. CASE Answering
    BY <1>6, WorkerAlone DEF Answering, DeskAnswers, StoreDesk, CancelDesks
  <1>7. CASE NoAnswering
    BY <1>7, WorkerAlone
       DEF NoAnswering, NobodyAnswers, EndedMeanwhile, RingBackups, SkipBackups, StoreBackups,
           DialBackup, Originate, ToVoicemail, Missed, StoreForward, Forward
  <1>8. QED
    BY <1>1, <1>2, <1>3, <1>4, <1>5, <1>6, <1>7 DEF UndisturbedStep

LEMMA StepUnasked ==
    ASSUME MaxFaults = 0, MaxCrashes = 0, TypeOK, JourneyInv, [Next]_vars, ~UnnamedForward,
           NoRequest'
    PROVE  /\ NoRequest
           /\ UnaskedStep \/ Arrival \/ Answering \/ NoAnswering \/ UNCHANGED vars
  <1> USE ActorsAssumption DEF ActorsAssumption
  <1>1. Hanger \subseteq Actor /\ "worker" \notin Hanger
    BY DEF Actor
  <1>2. UndisturbedStep \/ Arrival \/ Answering \/ NoAnswering \/ UNCHANGED vars
    BY CommonUndisturbed DEF Next, CallerLeaves
  <1>3. ASSUME NEW h \in Hanger, Finalize(h) \/ HangupRequest(h) PROVE FALSE
    <2>1. job'[h].at # "ask"
      BY <1>1, <1>3
         DEF Finalize, FinalizeSkips, FinalizeTearsDown, FinalizeStores, HangupRequest, Goto, Finish,
             Idle, TypeOK
    <2>2. QED
      BY <2>1 DEF NoRequest, At
  <1>4. OnlyWorker
    BY <1>2, <1>3, StepOfOne
  <1>5. NoRequest
    BY <1>1, <1>4 DEF OnlyWorker, NoRequest, At
  <1>6. CASE Common
    <2>1. Ending => Finalize("worker")
      BY <1>3 DEF Ending
    <2>2. \/ People \/ Event \/ Bridging \/ Ending \/ Disconnect \/ ReadyExpires \/ Connect
      BY <1>6, CommonUndisturbed
    <2>3. QED
      BY <1>5, <2>1, <2>2 DEF UnaskedStep
  <1>7. QED
    BY <1>5, <1>6 DEF Next, UnaskedStep

LEMMA UnaskedIsUndisturbed == UnaskedStep => UndisturbedStep
  BY DEF UnaskedStep, UndisturbedStep, Ending, CallerLeaves

\* A step that leaves the row alone.
LEMMA EndsAlikeSame ==
    ASSUME EndsAlike, UNCHANGED row,
           \/ W' = W
           \/ W'.at = "idle"
           \/ /\ row.far # None
              /\ W'.at \in GoingOn \cup {"fin"} => ~row.ended
              /\ W'.at = "answer" => row.status # "completed"
    PROVE  EndsAlike'
  BY DEF EndsAlike, GoingOn

\* A step that writes the row of a call.
LEMMA EndsAlikeWritten ==
    ASSUME EndsAlike, row'.far # None, row'.ended <=> row'.status \in Terminal,
           row'.ended => W'.at \notin GoingOn \cup {"fin"}, W'.at = "answer" => row'.status # "completed"
    PROVE  EndsAlike'
  BY DEF EndsAlike

LEMMA UnaskedEndsAlike ==
    ASSUME TypeOK, EndsAlike, JourneyInv, UnaskedStep
    PROVE  EndsAlike'
  <1> "worker" \in Actor /\ row \in Row
    BY DEF Actor, TypeOK
  <1>1. CASE People \/ Disconnect \/ ReadyExpires \/ Connect
    <2>1. UNCHANGED <<row, job>>
      BY <1>1 DEF People, Answer, RingOut, PartyHangup, Disconnect, ReadyExpires, Connect
    <2>2. QED
      BY <2>1, EndsAlikeSame DEF W
  <1>2. CASE Event \/ CallerLeaves
    <2>1. UNCHANGED row
      BY <1>2 DEF Event, EventIgnored, LegStarted, Straggler, LegGone, TalkerGone, CallerLeaves,
                  UnansweredEnds
    <2>2. UNCHANGED job \/ (Goto("worker", "fin", None, Blank) /\ row.status # "none" /\ ~row.ended)
      BY <1>2 DEF Event, EventIgnored, LegStarted, Straggler, LegGone, TalkerGone, CallerLeaves,
                  UnansweredEnds, LastLegGone, Found, JourneyInv, Undisturbed
    <2>3. CASE UNCHANGED job
      BY <2>1, <2>3, EndsAlikeSame DEF W
    <2>4. CASE Goto("worker", "fin", None, Blank) /\ row.status # "none" /\ ~row.ended
      <3>1. W'.at = "fin"
        BY <2>4, GotoWorker
      <3>2. row.far # None
        BY <2>4 DEF EndsAlike
      <3>3. QED
        BY <2>1, <2>4, <3>1, <3>2, EndsAlikeSame
    <2>5. QED
      BY <2>2, <2>3, <2>4
  <1>3. CASE Bridging
    <2>0. W.at \in AnsweringPlaces /\ row.far # None
      BY <1>3 DEF Bridging, BridgeNotNeeded, BridgeNeeded, BuildBridge, StoreBridge, BridgeFails,
                  StoreBridgeFailed, ReadAnswer, StoreAnswer, At, W, AnsweringPlaces, EndsAlike
    <2>1. CASE BridgeNotNeeded \/ BuildBridge \/ BridgeFails
      <3>1. UNCHANGED row /\ ~row.ended
        BY <2>1 DEF BridgeNotNeeded, BridgeNeeded, BuildBridge, BridgeFails, At, W, EndsAlike, GoingOn
      <3>2. W'.at \in {"answer", "bridged", "bridgeFailed"}
        BY <2>1, GotoWorker DEF BridgeNotNeeded, BuildBridge, BridgeFails
      <3>3. row.status # "completed"
        BY <3>1 DEF EndsAlike, Terminal
      <3>4. QED
        BY <2>0, <3>1, <3>2, <3>3, EndsAlikeSame
    <2>2. CASE StoreBridge
      <3>1. W'.at = "answer"
        BY <2>2, GotoWorker DEF StoreBridge
      <3>2. row'.far = row.far /\ row'.status = "bridged" /\ row'.ended = row.ended /\ ~row.ended
        BY <2>2 DEF StoreBridge, Write, At, W, Row, EndsAlike, GoingOn
      <3>3. QED
        BY <2>0, <3>1, <3>2, EndsAlikeWritten DEF Terminal
    <2>3. CASE StoreBridgeFailed
      <3>1. W'.at = "answer"
        BY <2>3, GotoWorker DEF StoreBridgeFailed
      <3>2. row'.far = row.far /\ row'.status = "failed" /\ row'.ended
        BY <2>3 DEF StoreBridgeFailed, Write, Row
      <3>3. QED
        BY <2>0, <3>1, <3>2, EndsAlikeWritten DEF Terminal, GoingOn
    <2>4. CASE ReadAnswer
      <3>1. UNCHANGED row /\ row.status # "completed"
        BY <2>4 DEF ReadAnswer, At, W, EndsAlike
      <3>2. CASE Finish("worker")
        BY <3>1, <3>2, FinishWorker, EndsAlikeSame
      <3>3. CASE row.status # "failed" /\ Goto("worker", "answered", None, Blank)
        <4>1. W'.at = "answered"
          BY <3>3, GotoWorker
        <4>2. ~row.ended
          BY <3>1, <3>3 DEF EndsAlike, Terminal
        <4>3. QED
          BY <2>0, <3>1, <4>1, <4>2, EndsAlikeSame
      <3>4. QED
        BY <2>4, <3>2, <3>3 DEF ReadAnswer
    <2>5. CASE StoreAnswer
      <3>1. W'.at = "idle"
        BY <2>5, FinishWorker DEF StoreAnswer
      <3>2. row'.far = row.far /\ row'.status = "answered" /\ row'.ended = row.ended /\ ~row.ended
        BY <2>5 DEF StoreAnswer, Write, At, W, Row, EndsAlike, GoingOn
      <3>3. QED
        BY <2>0, <3>1, <3>2, EndsAlikeWritten DEF Terminal
    <2>6. QED
      BY <1>3, <2>1, <2>2, <2>3, <2>4, <2>5 DEF Bridging
  <1>4. CASE Finalize("worker")
    <2>0. W.at \in {"fin", "finStore"} /\ row.far # None
      BY <1>4 DEF Finalize, FinalizeSkips, FinalizeTearsDown, FinalizeStores, At, W, EndsAlike
    <2>1. CASE FinalizeSkips("worker")
      BY <2>1, FinishWorker, EndsAlikeSame DEF FinalizeSkips
    <2>2. CASE FinalizeTearsDown("worker")
      <3>1. UNCHANGED row /\ W'.at = "finStore"
        BY <2>2, GotoWorker DEF FinalizeTearsDown
      <3>2. QED
        BY <2>0, <3>1, EndsAlikeSame DEF GoingOn
    <2>3. CASE FinalizeStores("worker")
      <3>1. W'.at = "idle"
        BY <2>3, FinishWorker DEF FinalizeStores
      <3>2. row'.far = row.far /\ row'.status \in Terminal /\ row'.ended
        BY <2>3 DEF FinalizeStores, Write, Row, Outcome, Terminal
      <3>3. QED
        BY <2>0, <3>1, <3>2, EndsAlikeWritten DEF GoingOn
    <2>4. QED
      BY <1>4, <2>1, <2>2, <2>3 DEF Finalize
  <1>5. QED
    BY <1>1, <1>2, <1>3, <1>4 DEF UnaskedStep

LEMMA ArrivalEndsAlike ==
    ASSUME TypeOK, BridgeInv, EndsAlike, Arrival
    PROVE  EndsAlike'
  <1> "worker" \in Actor /\ row \in Row
    BY DEF Actor, TypeOK
  <1>1. CASE \/ \E k \in Caller : RefuseCaller(k)
             \/ \E l \in Emp : DialDesk(l)
    BY <1>1, EndsAlikeSame DEF RefuseCaller, DialDesk, Originate, W
  <1>2. ASSUME NEW k \in Caller, AdmitCaller(k) PROVE EndsAlike'
    <2>1. row'.far = k /\ row'.status = "ringing" /\ row'.ended = FALSE
      BY <1>2 DEF AdmitCaller, Write, Blank
    <2>2. W'.at = "dialDesks" /\ k # None
      BY <1>2, GotoWorker, ChannelsAssumption DEF AdmitCaller, ChannelsAssumption, Chan
    <2>3. QED
      BY <2>1, <2>2, EndsAlikeWritten DEF Terminal
  <1>3. CASE StoreDesks
    <2>1. W'.at = "idle" /\ W.at = "dialDesks"
      BY <1>3, FinishWorker DEF StoreDesks, At, W
    <2>2. row'.far = row.far /\ row'.status = row.status /\ row'.ended = row.ended
      BY <1>3 DEF StoreDesks, Write, Row
    <2>3. QED
      BY <2>1, <2>2 DEF EndsAlike, GoingOn
  <1>4. CASE NoDeskRings
    <2>1. UNCHANGED row /\ ~row.ended /\ row.far # None
      BY <1>4 DEF NoDeskRings, At, W, EndsAlike, GoingOn
    <2>2. W'.at = "noAnswer"
      BY <1>4, GotoWorker DEF NoDeskRings
    <2>3. QED
      BY <2>1, <2>2, EndsAlikeSame
  <1>5. QED
    BY <1>1, <1>2, <1>3, <1>4 DEF Arrival

LEMMA AnsweringEndsAlike ==
    ASSUME TypeOK, EndsAlike, Answering
    PROVE  EndsAlike'
  <1> "worker" \in Actor /\ row \in Row
    BY DEF Actor, TypeOK
  <1>1. ASSUME NEW c \in Chan, DeskAnswers(c) PROVE EndsAlike'
    <2>1. UNCHANGED row /\ ~row.ended /\ row.far # None
      BY <1>1 DEF DeskAnswers, Found, EndsAlike
    <2>2. W'.at = "desk"
      BY <1>1, GotoWorker DEF DeskAnswers
    <2>3. QED
      BY <2>1, <2>2, EndsAlikeSame
  <1>2. CASE StoreDesk
    <2>1. W'.at = "cancel"
      BY <1>2, GotoWorker DEF StoreDesk
    <2>2. /\ row'.far = row.far /\ row'.status = "employee_answered" /\ row'.ended = row.ended
          /\ ~row.ended /\ row.far # None
      BY <1>2 DEF StoreDesk, Write, Row, At, W, EndsAlike, GoingOn
    <2>3. QED
      BY <2>1, <2>2, EndsAlikeWritten DEF Terminal
  <1>3. CASE CancelDesks
    <2>1. UNCHANGED row /\ ~row.ended /\ row.far # None
      BY <1>3 DEF CancelDesks, At, W, EndsAlike, GoingOn
    <2>2. W'.at = "bridge"
      BY <1>3, GotoWorker DEF CancelDesks
    <2>3. QED
      BY <2>1, <2>2, EndsAlikeSame
  <1>4. QED
    BY <1>1, <1>2, <1>3 DEF Answering

LEMMA NoAnsweringEndsAlike ==
    ASSUME TypeOK, EndsAlike, NoAnswering
    PROVE  EndsAlike'
  <1> "worker" \in Actor /\ row \in Row
    BY DEF Actor, TypeOK
  <1>0. W.at \in {"noAnswer", "dialBackups", "forwarded"} => ~row.ended /\ row.far # None
    BY DEF EndsAlike, GoingOn
  <1>1. ASSUME NEW c \in Chan, NobodyAnswers(c) PROVE EndsAlike'
    <2>1. UNCHANGED row /\ ~row.ended /\ row.far # None
      BY <1>1 DEF NobodyAnswers, LastLegGone, Found, EndsAlike
    <2>2. W'.at = "noAnswer"
      BY <1>1, GotoWorker DEF NobodyAnswers
    <2>3. QED
      BY <2>1, <2>2, EndsAlikeSame
  <1>2. CASE EndedMeanwhile
    BY <1>2, FinishWorker, EndsAlikeSame DEF EndedMeanwhile
  <1>3. ASSUME NEW l \in Emp, DialBackup(l) PROVE EndsAlike'
    BY <1>3, EndsAlikeSame DEF DialBackup, Originate, W
  <1>4. CASE RingBackups \/ ToVoicemail \/ Missed \/ \E f \in Far : Forward(f)
    <2>1. UNCHANGED row /\ W.at = "noAnswer"
      BY <1>4 DEF RingBackups, MayRingBackup, ToVoicemail, Missed, Forward, NoAnswer, At, W
    <2>2. W'.at \in {"dialBackups", "fin", "forwarded"}
      BY <1>4, GotoWorker DEF RingBackups, ToVoicemail, Missed, Forward
    <2>3. QED
      BY <1>0, <2>1, <2>2, EndsAlikeSame
  <1>5. CASE SkipBackups
    <2>1. W.at \in {"noAnswer", "dialBackups"}
      BY <1>5 DEF SkipBackups, MayRingBackup, NoAnswer, At, W
    <2>2. W'.at = "noAnswer"
      BY <1>5, GotoWorker DEF SkipBackups
    <2>3. row'.far = row.far /\ row'.status = "ringing_fallback" /\ row'.ended = row.ended
      BY <1>5 DEF SkipBackups, Write, Row
    <2>4. QED
      BY <1>0, <2>1, <2>2, <2>3, EndsAlikeWritten DEF Terminal
  <1>6. CASE StoreBackups \/ StoreForward
    <2>1. W.at \in {"dialBackups", "forwarded"}
      BY <1>6 DEF StoreBackups, StoreForward, At, W
    <2>2. W'.at = "idle"
      BY <1>6, FinishWorker DEF StoreBackups, StoreForward
    <2>3. /\ row'.far = row.far /\ row'.status \in {"ringing_fallback", "forwarding"}
          /\ row'.ended = row.ended
      BY <1>6 DEF StoreBackups, StoreForward, Write, Row
    <2>4. QED
      BY <1>0, <2>1, <2>2, <2>3, EndsAlikeWritten DEF Terminal
  <1>7. QED
    BY <1>1, <1>2, <1>3, <1>4, <1>5, <1>6 DEF NoAnswering

LEMMA StepEndsAlike ==
    ASSUME TypeOK, BridgeInv, JourneyInv, EndsAlike,
           UnaskedStep \/ Arrival \/ Answering \/ NoAnswering \/ UNCHANGED vars
    PROVE  EndsAlike'
  BY UnaskedEndsAlike, ArrivalEndsAlike, AnsweringEndsAlike, NoAnsweringEndsAlike, EndsAlikeSame
     DEF vars, W

\* Events of an end are of channels that ended; the caller is picked up nowhere.
EventsSettle ==
    \A c \in Chan : /\ "destroyed" \in inbox'[c] => "destroyed" \in inbox[c] \/ chan'[c] \in {"missed", "over"}
                    /\ "up" \in inbox'[c] => "up" \in inbox[c]

LEMMA SettlesGone ==
    ASSUME GoneIsGone, Settles, EventsSettle
    PROVE  GoneIsGone'
  <1>1. \A k \in Caller : k \in Chan
    BY DEF Chan
  <1>2. QED
    BY <1>1 DEF GoneIsGone, Settles, EventsSettle

LEMMA TakeDownEvents ==
    ASSUME TypeOK, NEW S, NEW box \in [Chan -> SUBSET EventType], TakeDown(S, box),
           \A c \in Chan : box[c] \subseteq inbox[c]
    PROVE  EventsSettle
  <1> SUFFICES ASSUME NEW c \in Chan
               PROVE  /\ "destroyed" \in inbox'[c] => "destroyed" \in inbox[c] \/ chan'[c] \in {"missed", "over"}
                      /\ "up" \in inbox'[c] => "up" \in inbox[c]
    BY DEF EventsSettle
  <1>1. chan'[c] = IF c \notin S \cap Live THEN chan[c]
                   ELSE IF chan[c] = "ringing" THEN "missed" ELSE "over"
    BY DEF TakeDown
  <1>2. inbox'[c] = box[c] \/ (c \in S /\ chan[c] \in {"ringing", "up"} /\ inbox'[c] = box[c] \cup {"destroyed"})
    BY DEF TakeDown
  <1>3. QED
    BY <1>1, <1>2 DEF Live

LEMMA HangUpEvents ==
    ASSUME TypeOK, NEW S, NEW box \in [Chan -> SUBSET EventType], HangUp(S, box),
           \A c \in Chan : box[c] \subseteq inbox[c]
    PROVE  EventsSettle
  BY TakeDownEvents DEF HangUp

LEMMA FewerEvents ==
    ASSUME TypeOK, \A c \in Chan : inbox'[c] \subseteq inbox[c]
    PROVE  EventsSettle
  BY DEF EventsSettle

LEMMA UnaskedEvents ==
    ASSUME TypeOK, UnaskedStep, ~(\E c \in Chan : Answer(c))
    PROVE  EventsSettle
  <1> inbox \in [Chan -> SUBSET EventType]
    BY DEF TypeOK
  <1>1. CASE People
    <2>1. PICK c \in Chan : RingOut(c) \/ PartyHangup(c)
      BY <1>1 DEF People
    <2>2. chan'[c] \in {"missed", "over"} /\ (UNCHANGED inbox \/ inbox' = [inbox EXCEPT ![c] = @ \cup {"destroyed"}]
                                                \/ inbox' = [inbox EXCEPT ![c] = @ \cup {}])
      BY <2>1 DEF RingOut, PartyHangup, Emit, TypeOK
    <2>3. QED
      BY <2>2 DEF EventsSettle
  <1>2. CASE Event \/ CallerLeaves
    <2>1. PICK c \in Chan : \/ \E e \in EventType : EventIgnored(c, e)
                            \/ LegStarted(c) \/ Straggler(c) \/ LegGone(c) \/ TalkerGone(c)
                            \/ UnansweredEnds(c)
      BY <1>2 DEF Event, CallerLeaves
    <2>2. CASE (\E e \in EventType : EventIgnored(c, e)) \/ LegStarted(c) \/ LegGone(c)
      BY <2>2, FewerEvents, RestSmaller DEF EventIgnored, LegStarted, LegGone
    <2>3. CASE Straggler(c) \/ TalkerGone(c) \/ UnansweredEnds(c)
      BY <2>3, HangUpEvents, RestSmaller DEF Straggler, TalkerGone, UnansweredEnds
    <2>4. QED
      BY <2>1, <2>2, <2>3
  <1>3. CASE Bridging
    <2>1. CASE BridgeFails
      BY <2>1, TakeDownEvents DEF BridgeFails
    <2>2. CASE ~BridgeFails
      BY <1>3, <2>2, FewerEvents
         DEF Bridging, BridgeNotNeeded, BuildBridge, StoreBridge, StoreBridgeFailed, ReadAnswer,
             StoreAnswer, asterisk
    <2>3. QED
      BY <2>1, <2>2
  <1>4. CASE Finalize("worker")
    <2>1. CASE FinalizeTearsDown("worker")
      BY <2>1, TakeDownEvents DEF FinalizeTearsDown
    <2>2. CASE ~FinalizeTearsDown("worker")
      BY <1>4, <2>2, FewerEvents DEF Finalize, FinalizeSkips, FinalizeStores, asterisk
    <2>3. QED
      BY <2>1, <2>2
  <1>5. CASE Disconnect \/ ReadyExpires \/ Connect
    BY <1>5, FewerEvents DEF Disconnect, ReadyExpires, Connect, asterisk
  <1>6. QED
    BY <1>1, <1>2, <1>3, <1>4, <1>5 DEF UnaskedStep

LEMMA AnswerGone ==
    ASSUME TypeOK, JourneyInv, GoneIsGone, NEW a \in Chan, Answer(a)
    PROVE  GoneIsGone'
  <1>1. a \notin Caller
    BY DEF Answer, JourneyInv, SidesHold
  <1>2. /\ \A c \in Chan : "destroyed" \in inbox'[c] => "destroyed" \in inbox[c]
        /\ \A c \in Chan \ {a} : inbox'[c] = inbox[c] /\ chan'[c] = chan[c]
    BY DEF Answer, Emit, TypeOK
  <1>3. chan[a] = "ringing" /\ chan'[a] = "up"
    BY DEF Answer, TypeOK
  <1>4. \A c \in Chan : /\ "destroyed" \in inbox'[c] => chan'[c] \in {"missed", "over"}
                        /\ "up" \in inbox'[c] => chan'[c] \notin {"absent", "ringing"}
    BY <1>2, <1>3 DEF GoneIsGone
  <1>5. \A k \in Caller : k \in Chan /\ "up" \notin inbox'[k]
    BY <1>1, <1>2 DEF GoneIsGone, Chan
  <1>6. QED
    BY <1>4, <1>5 DEF GoneIsGone

LEMMA RingGone ==
    ASSUME TypeOK, GoneIsGone, NEW l \in Chan, chan[l] = "absent",
           chan' = [chan EXCEPT ![l] = "ringing"], UNCHANGED inbox
    PROVE  GoneIsGone'
  BY DEF TypeOK, GoneIsGone

LEMMA StepGone ==
    ASSUME TypeOK, BridgeInv, JourneyInv, GoneIsGone,
           UnaskedStep \/ Arrival \/ Answering \/ NoAnswering \/ UNCHANGED vars
    PROVE  GoneIsGone'
  <1> inbox \in [Chan -> SUBSET EventType] /\ Emp \subseteq Chan /\ Far \subseteq Chan /\ Caller \subseteq Chan
    BY DEF TypeOK, Chan
  <1>0. UNCHANGED chan /\ (\A c \in Chan : inbox'[c] \subseteq inbox[c]) => GoneIsGone'
    BY SameSettles, FewerEvents, SettlesGone
  <1>1. CASE UnaskedStep
    <2>1. CASE \E c \in Chan : Answer(c)
      BY <2>1, AnswerGone
    <2>2. CASE ~(\E c \in Chan : Answer(c))
      BY <1>1, <2>2, UnaskedIsUndisturbed, CommonSettles, UnaskedEvents, SettlesGone
    <2>3. QED
      BY <2>1, <2>2
  <1>2. ASSUME NEW k \in Caller, RefuseCaller(k) PROVE GoneIsGone'
    BY <1>2, HangUpSettles, HangUpEvents, RestSmaller, SettlesGone DEF RefuseCaller
  <1>3. CASE CancelDesks \/ Missed
    BY <1>3, HangUpSettles, HangUpEvents, SettlesGone DEF CancelDesks, Missed
  <1>4. ASSUME NEW l \in Emp, DialDesk(l) \/ DialBackup(l) PROVE GoneIsGone'
    <2>1. Originate(l) /\ W.at \in {"dialDesks", "dialBackups"}
      BY <1>4 DEF DialDesk, DialBackup, At, W
    <2>2. UNCHANGED inbox
      BY <2>1 DEF Originate
    <2>3. QED
      BY <1>0, <2>1, <2>2, OriginateRings, RingGone
  <1>5. ASSUME NEW f \in Far, Forward(f) PROVE GoneIsGone'
    <2>1. UNCHANGED inbox
      BY <1>5 DEF Forward
    <2>2. QED
      BY <1>5, <2>1, ForwardRings, RingGone
  <1>6. CASE ToVoicemail
    BY <1>6 DEF ToVoicemail, Up, TypeOK, GoneIsGone
  <1>7. CASE \/ \E k \in Caller : AdmitCaller(k)
             \/ StoreDesks \/ NoDeskRings \/ StoreDesk
             \/ \E c \in Chan : DeskAnswers(c) \/ NobodyAnswers(c)
             \/ EndedMeanwhile \/ RingBackups \/ SkipBackups \/ StoreBackups \/ StoreForward
    <2>1. UNCHANGED chan
      BY <1>7 DEF AdmitCaller, StoreDesks, NoDeskRings, StoreDesk, DeskAnswers, NobodyAnswers, EndedMeanwhile,
                  RingBackups, SkipBackups, StoreBackups, StoreForward, asterisk
    <2>2. \A c \in Chan : inbox'[c] \subseteq inbox[c]
      BY <1>7, RestSmaller
         DEF AdmitCaller, StoreDesks, NoDeskRings, StoreDesk, DeskAnswers, NobodyAnswers, EndedMeanwhile,
             RingBackups, SkipBackups, StoreBackups, StoreForward, asterisk
    <2>3. QED
      BY <1>0, <2>1, <2>2
  <1>8. CASE UNCHANGED vars
    BY <1>0, <1>8 DEF vars, asterisk
  <1>9. QED
    BY <1>1, <1>2, <1>3, <1>4, <1>5, <1>6, <1>7, <1>8 DEF Arrival, Answering, NoAnswering

\* The common steps do not move the worker out of a round of ringing.
LEMMA UnaskedStays ==
    ASSUME TypeOK, JourneyInv, UnaskedStep
    PROVE  /\ W' = W \/ W.at \in {"idle", "fin", "finStore"} \cup AnsweringPlaces
           /\ UNCHANGED dialled
  <1>1. CASE People \/ Disconnect \/ ReadyExpires \/ Connect
    BY <1>1 DEF People, Answer, RingOut, PartyHangup, Disconnect, ReadyExpires, Connect, W, dial
  <1>2. CASE Event \/ CallerLeaves
    BY <1>2 DEF Event, EventIgnored, LegStarted, Straggler, LegGone, TalkerGone, CallerLeaves,
                UnansweredEnds, LastLegGone, Took, At, W, dial
  <1>3. CASE Bridging
    BY <1>3 DEF Bridging, BridgeNotNeeded, BridgeNeeded, BuildBridge, StoreBridge, BridgeFails,
                StoreBridgeFailed, ReadAnswer, StoreAnswer, At, W, AnsweringPlaces, dial
  <1>4. CASE Finalize("worker")
    BY <1>4 DEF Finalize, FinalizeSkips, FinalizeTearsDown, FinalizeStores, At, W, dial
  <1>5. QED
    BY <1>1, <1>2, <1>3, <1>4 DEF UnaskedStep

LEMMA SettlesDevices ==
    ASSUME Settles
    PROVE  Live' \subseteq Live /\ Devs' \subseteq Devs
  BY DEF Settles, Live, Devs

LEMMA UnaskedDevices ==
    ASSUME TypeOK, JourneyInv, UnaskedStep
    PROVE  Live' \subseteq Live /\ Devs' \subseteq Devs
  <1>1. ASSUME NEW c \in Chan, Answer(c) PROVE Live' \subseteq Live
    BY <1>1 DEF Answer, TypeOK, Live
  <1>2. QED
    BY <1>1, UnaskedIsUndisturbed, CommonSettles, SettlesDevices DEF Devs

\* Ringing one more device.
LEMMA RingDevices ==
    ASSUME TypeOK, NEW l \in Chan, chan' = [chan EXCEPT ![l] = "ringing"]
    PROVE  Devs' \subseteq Devs \cup {l}
  BY DEF TypeOK, Devs, Live

LEMMA OriginateDevices ==
    ASSUME TypeOK, MaxFaults = 0, NEW l \in Emp, Originate(l), Devs \subseteq dialled
    PROVE  Devs' \subseteq dialled'
  <1>1. l \in Chan
    BY DEF Chan
  <1>2. CASE UNCHANGED <<chan, dialled>>
    BY <1>2 DEF Devs, Live
  <1>3. CASE ~UNCHANGED <<chan, dialled>>
    <2>1. chan' = [chan EXCEPT ![l] = "ringing"] /\ dialled' = dialled \cup {l}
      BY <1>3 DEF Originate, TypeOK
    <2>2. QED
      BY <1>1, <2>1, RingDevices
  <1>4. QED
    BY <1>2, <1>3

LEMMA ArrivalDevices ==
    ASSUME TypeOK, MaxFaults = 0, BridgeInv, JourneyInv, DevicesKnown, Arrival
    PROVE  DevicesKnown'
  <1> "worker" \in Actor /\ row \in Row
    BY DEF Actor, TypeOK
  <1>0. UNCHANGED chan => Devs' = Devs
    BY DEF Devs, Live
  <1>1. ASSUME NEW k \in Caller, RefuseCaller(k) PROVE DevicesKnown'
    <2>1. Devs' \subseteq Devs
      BY <1>1, HangUpSettles, SettlesDevices DEF RefuseCaller
    <2>2. UNCHANGED <<row, job, dialled>>
      BY <1>1 DEF RefuseCaller, dial
    <2>3. QED
      BY <2>1, <2>2 DEF DevicesKnown, Legs, W
  <1>2. ASSUME NEW k \in Caller, AdmitCaller(k) PROVE DevicesKnown'
    <2>1. row.far = None
      BY <1>2, ArrivesFirst DEF AdmitCaller, BridgeInv, RowFits
    <2>2. Devs = {} /\ UNCHANGED chan
      BY <1>2, <2>1 DEF AdmitCaller, JourneyInv, Undisturbed, Absent, Devs, Live
    <2>3. W'.at = "dialDesks"
      BY <1>2, GotoWorker DEF AdmitCaller
    <2>4. QED
      BY <1>0, <2>2, <2>3 DEF DevicesKnown
  <1>3. ASSUME NEW l \in Emp, DialDesk(l) PROVE DevicesKnown'
    <2>1. W.at = "dialDesks" /\ Originate(l) /\ W' = W
      BY <1>3 DEF DialDesk, Originate, At, W
    <2>2. Devs' \subseteq dialled'
      BY <2>1, OriginateDevices DEF DevicesKnown
    <2>3. QED
      BY <2>1, <2>2 DEF DevicesKnown
  <1>4. CASE StoreDesks
    <2>1. W.at = "dialDesks" /\ UNCHANGED chan /\ dialled # {}
      BY <1>4 DEF StoreDesks, At, W, asterisk
    <2>2. W'.at = "idle"
      BY <1>4, FinishWorker DEF StoreDesks
    <2>3. row'.legs = dialled
      BY <1>4 DEF StoreDesks, Write, Row
    <2>4. QED
      BY <1>0, <2>1, <2>2, <2>3 DEF DevicesKnown, Legs
  <1>5. CASE NoDeskRings
    <2>1. W.at = "dialDesks" /\ UNCHANGED chan /\ dialled = {}
      BY <1>5 DEF NoDeskRings, At, W, asterisk
    <2>2. W'.at = "noAnswer"
      BY <1>5, GotoWorker DEF NoDeskRings
    <2>3. QED
      BY <1>0, <2>1, <2>2 DEF DevicesKnown
  <1>6. QED
    BY <1>1, <1>2, <1>3, <1>4, <1>5 DEF Arrival

LEMMA AnsweringDevices ==
    ASSUME TypeOK, BridgeInv, DevicesKnown, Answering
    PROVE  DevicesKnown'
  <1> "worker" \in Actor /\ row \in Row
    BY DEF Actor, TypeOK
  <1>1. ASSUME NEW c \in Chan, DeskAnswers(c) PROVE DevicesKnown'
    <2>1. W.at = "idle" /\ UNCHANGED <<row, chan>>
      BY <1>1 DEF DeskAnswers, Took, At, W
    <2>2. W'.at = "desk"
      BY <1>1, GotoWorker DEF DeskAnswers
    <2>3. QED
      BY <2>1, <2>2 DEF DevicesKnown, Devs, Live, Legs
  <1>2. CASE StoreDesk
    <2>1. W.at = "desk" /\ UNCHANGED chan
      BY <1>2 DEF StoreDesk, At, W, asterisk
    <2>2. W'.at = "cancel"
      BY <1>2, GotoWorker DEF StoreDesk
    <2>3. row' = [row EXCEPT !.status = "employee_answered", !.emp = W.ch]
      BY <1>2 DEF StoreDesk, Write, W
    <2>4. row'.legs = row.legs /\ row'.emp = W.ch
      BY <2>3 DEF Row
    <2>5. W.ch \in Legs(row)
      BY <2>1 DEF BridgeInv, RowFits
    <2>6. Legs(row)' = Legs(row)
      BY <2>4, <2>5 DEF Legs
    <2>7. QED
      BY <2>1, <2>2, <2>6 DEF DevicesKnown, Devs, Live
  <1>3. CASE CancelDesks
    <2>1. W.at = "cancel" /\ UNCHANGED row /\ Devs' \subseteq Devs
      BY <1>3, HangUpSettles, SettlesDevices DEF CancelDesks, At, W
    <2>2. W'.at = "bridge"
      BY <1>3, GotoWorker DEF CancelDesks
    <2>3. QED
      BY <2>1, <2>2 DEF DevicesKnown, Legs
  <1>4. QED
    BY <1>1, <1>2, <1>3 DEF Answering

LEMMA NoAnsweringDevices ==
    ASSUME TypeOK, MaxFaults = 0, BridgeInv, GoneIsGone, DevicesKnown, NoAnswering
    PROVE  DevicesKnown'
  <1> "worker" \in Actor /\ row \in Row
    BY DEF Actor, TypeOK
  <1>0. UNCHANGED chan => Devs' = Devs
    BY DEF Devs, Live
  <1>1. ASSUME NEW c \in Chan, NobodyAnswers(c) PROVE DevicesKnown'
    <2>1. OthersOf(c) = {} /\ EmployeeLeg(c) /\ W.at = "idle" /\ "destroyed" \in inbox[c]
      BY <1>1 DEF NobodyAnswers, LastLegGone, Took, At, W, TypeOK
    <2>2. c \notin Live
      BY <2>1 DEF GoneIsGone, Live
    <2>3. Devs = {}
      BY <2>1, <2>2 DEF DevicesKnown, OthersOf, Devs
    <2>4. UNCHANGED chan
      BY <1>1 DEF NobodyAnswers
    <2>5. W'.at = "noAnswer"
      BY <1>1, GotoWorker DEF NobodyAnswers
    <2>6. QED
      BY <1>0, <2>3, <2>4, <2>5 DEF DevicesKnown
  <1>2. CASE EndedMeanwhile
    <2>1. W.at = "noAnswer" /\ UNCHANGED chan
      BY <1>2 DEF EndedMeanwhile, At, W, asterisk
    <2>2. W'.at = "idle"
      BY <1>2, FinishWorker DEF EndedMeanwhile
    <2>3. QED
      BY <1>0, <2>1, <2>2 DEF DevicesKnown
  <1>3. CASE RingBackups
    <2>1. W.at = "noAnswer" /\ UNCHANGED chan
      BY <1>3 DEF RingBackups, MayRingBackup, NoAnswer, At, W, asterisk
    <2>2. W'.at = "dialBackups"
      BY <1>3, GotoWorker DEF RingBackups
    <2>3. QED
      BY <1>0, <2>1, <2>2 DEF DevicesKnown
  <1>4. CASE SkipBackups
    <2>1. Devs = {}
      BY <1>4 DEF SkipBackups, MayRingBackup, NoAnswer, At, W, DevicesKnown
    <2>2. W'.at = "noAnswer"
      BY <1>4, GotoWorker DEF SkipBackups
    <2>3. UNCHANGED chan
      BY <1>4 DEF SkipBackups, asterisk
    <2>4. QED
      BY <1>0, <2>1, <2>2, <2>3 DEF DevicesKnown
  <1>5. CASE StoreBackups
    <2>1. W.at = "dialBackups" /\ UNCHANGED chan /\ dialled # {}
      BY <1>5 DEF StoreBackups, At, W, asterisk
    <2>2. W'.at = "idle"
      BY <1>5, FinishWorker DEF StoreBackups
    <2>3. row'.legs = Read.legs \cup dialled
      BY <1>5 DEF StoreBackups, Write, Row
    <2>4. QED
      BY <1>0, <2>1, <2>2, <2>3 DEF DevicesKnown, Legs
  <1>6. ASSUME NEW l \in Emp, DialBackup(l) PROVE DevicesKnown'
    <2>1. W.at = "dialBackups" /\ Originate(l) /\ W' = W
      BY <1>6 DEF DialBackup, Originate, At, W
    <2>2. Devs' \subseteq dialled'
      BY <2>1, OriginateDevices DEF DevicesKnown
    <2>3. QED
      BY <2>1, <2>2 DEF DevicesKnown
  <1>7. CASE ToVoicemail \/ Missed
    <2>1. W.at = "noAnswer"
      BY <1>7 DEF ToVoicemail, Missed, NoAnswer, At, W
    <2>2. W'.at = "fin"
      BY <1>7, GotoWorker DEF ToVoicemail, Missed
    <2>3. ToVoicemail => Live' = Live
      BY DEF ToVoicemail, Up, Live, TypeOK
    <2>4. Missed => Devs' \subseteq Devs
      BY HangUpSettles, SettlesDevices DEF Missed
    <2>5. Devs' = {}
      BY <1>7, <2>1, <2>3, <2>4 DEF DevicesKnown, Devs
    <2>6. QED
      BY <2>2, <2>5 DEF DevicesKnown
  <1>8. ASSUME NEW f \in Far, Forward(f) PROVE DevicesKnown'
    <2>1. W.at = "noAnswer" /\ chan' = [chan EXCEPT ![f] = "ringing"] /\ f \in Chan
      BY <1>8 DEF Forward, NoAnswer, At, W, Chan
    <2>2. W' = [at |-> "forwarded", ch |-> f, call |-> Blank]
      BY <1>8, GotoWorker DEF Forward
    <2>3. Devs' \subseteq {f}
      BY <2>1, RingDevices DEF DevicesKnown
    <2>4. QED
      BY <2>2, <2>3 DEF DevicesKnown
  <1>9. CASE StoreForward
    <2>1. W.at = "forwarded" /\ UNCHANGED chan
      BY <1>9 DEF StoreForward, At, W, asterisk
    <2>2. W'.at = "idle"
      BY <1>9, FinishWorker DEF StoreForward
    <2>3. row' = [row EXCEPT !.status = "forwarding", !.emp = W.ch, !.legs = {W.ch}]
      BY <1>9 DEF StoreForward, Write, W
    <2>4. row'.legs = {W.ch}
      BY <2>3 DEF Row
    <2>5. QED
      BY <1>0, <2>1, <2>2, <2>4 DEF DevicesKnown, Legs
  <1>10. QED
    BY <1>1, <1>2, <1>3, <1>4, <1>5, <1>6, <1>7, <1>8, <1>9 DEF NoAnswering

LEMMA StepDevices ==
    ASSUME TypeOK, MaxFaults = 0, BridgeInv, JourneyInv, GoneIsGone, DevicesKnown,
           UnaskedStep \/ Arrival \/ Answering \/ NoAnswering \/ UNCHANGED vars
    PROVE  DevicesKnown'
  <1>1. CASE UnaskedStep
    <2>1. Devs' \subseteq Devs /\ dialled' = dialled
      BY <1>1, UnaskedDevices, UnaskedStays
    <2>2. row'.emp = row.emp /\ row'.legs = row.legs /\ (W' = W \/ W'.at \notin DeskPlaces)
      BY <1>1, UnaskedIsUndisturbed, CommonGoesOn DEF GoesOn
    <2>3. W' = W \/ W.at \notin DeskPlaces
      BY <1>1, UnaskedStays DEF DeskPlaces, AnsweringPlaces
    <2>4. Legs(row)' = Legs(row)
      BY <2>2 DEF Legs
    <2>5. QED
      BY <2>1, <2>2, <2>3, <2>4 DEF DevicesKnown, DeskPlaces
  <1>2. CASE UNCHANGED vars
    BY <1>2 DEF vars, asterisk, dial, DevicesKnown, Devs, Live, Legs, W
  <1>3. QED
    BY <1>1, <1>2, ArrivalDevices, AnsweringDevices, NoAnsweringDevices

\* A step that hands nobody on, and finishes no call.
HandsOnNobody ==
    \A c \in Chan : /\ chan'[c] = "mailbox" => chan[c] = "mailbox"
                    /\ chan[c] \in {"mailbox", "over"} => chan'[c] \in {"mailbox", "over"}

LEMMA SettlesHandsOn == Settles => HandsOnNobody
  BY DEF Settles, HandsOnNobody

LEMMA KeepsHanded ==
    ASSUME TypeOK, HandedOn, HandsOnNobody, row'.far = row.far, row.ended => row'.ended,
           \/ W' = W
           \/ W.at \notin {"fin", "finStore"} /\ (W'.at = "fin" => W'.ch = None)
    PROVE  HandedOn'
  <1>1. \A k \in Caller : k \in Chan
    BY DEF Chan
  <1>2. W.ch \in Chan \cup {None}
    BY DEF TypeOK, Job, W, Actor
  <1>3. CASE W' = W
    BY <1>1, <1>2, <1>3 DEF HandedOn, HandsOnNobody
  <1>4. CASE W' # W
    BY <1>1, <1>4 DEF HandedOn, HandsOnNobody
  <1>5. QED
    BY <1>3, <1>4

LEMMA UnaskedMoves ==
    ASSUME TypeOK, JourneyInv, UnaskedStep, ~Finalize("worker")
    PROVE  \/ W' = W
           \/ W.at \notin {"fin", "finStore"} /\ (W'.at = "fin" => W'.ch = None)
  <1>1. CASE People \/ Disconnect \/ ReadyExpires \/ Connect
    BY <1>1 DEF People, Answer, RingOut, PartyHangup, Disconnect, ReadyExpires, Connect, W
  <1>2. CASE Event \/ CallerLeaves
    <2>1. W.at = "idle"
      BY <1>2 DEF Event, EventIgnored, LegStarted, Straggler, LegGone, TalkerGone, CallerLeaves,
                  UnansweredEnds, LastLegGone, Took, At, W
    <2>2. UNCHANGED job \/ Goto("worker", "fin", None, Blank)
      BY <1>2 DEF Event, EventIgnored, LegStarted, Straggler, LegGone, TalkerGone, CallerLeaves,
                  UnansweredEnds, JourneyInv, Undisturbed
    <2>3. CASE UNCHANGED job
      BY <2>3 DEF W
    <2>4. CASE Goto("worker", "fin", None, Blank)
      BY <2>1, <2>4, GotoWorker
    <2>5. QED
      BY <2>2, <2>3, <2>4
  <1>3. CASE Bridging
    <2>1. W.at \in AnsweringPlaces
      BY <1>3 DEF Bridging, BridgeNotNeeded, BridgeNeeded, BuildBridge, StoreBridge, BridgeFails,
                  StoreBridgeFailed, ReadAnswer, StoreAnswer, At, W, AnsweringPlaces
    <2>2. W'.at # "fin"
      BY <1>3, GotoWorker, FinishWorker
         DEF Bridging, BridgeNotNeeded, BuildBridge, StoreBridge, BridgeFails, StoreBridgeFailed,
             ReadAnswer, StoreAnswer
    <2>3. QED
      BY <2>1, <2>2 DEF AnsweringPlaces
  <1>4. QED
    BY <1>1, <1>2, <1>3 DEF UnaskedStep

\* The worker finishes no call that another actor finishes, or that ended.
LEMMA NeverSkips ==
    ASSUME TypeOK, BridgeInv, JourneyInv, EndsAlike
    PROVE  ~FinalizeSkips("worker")
  <1> SUFFICES ASSUME FinalizeSkips("worker") PROVE FALSE
    OBVIOUS
  <1>1. W.at = "fin"
    BY DEF FinalizeSkips, At, W
  <1>2. Home["worker"] \notin busy
    BY <1>1 DEF JourneyInv, Undisturbed
  <1>3. row.far # None /\ ~row.ended
    BY <1>1 DEF EndsAlike
  <1>4. row.status \notin {"none", "completed"}
    BY <1>3 DEF EndsAlike, BridgeInv, RowFits, Terminal
  <1>5. QED
    BY <1>2, <1>4 DEF FinalizeSkips

LEMMA UnaskedHands ==
    ASSUME TypeOK, BridgeInv, JourneyInv, EndsAlike, HandedOn, UnaskedStep
    PROVE  HandedOn'
  <1> "worker" \in Actor /\ row \in Row
    BY DEF Actor, TypeOK
  <1>1. CASE ~Finalize("worker")
    <2>1. HandsOnNobody
      <3>1. (\E c \in Chan : Answer(c)) => HandsOnNobody
        BY DEF Answer, TypeOK, HandsOnNobody
      <3>2. QED
        BY <3>1, UnaskedIsUndisturbed, CommonSettles, SettlesHandsOn
    <2>2. row'.far = row.far /\ (row.ended => row'.ended)
      BY UnaskedIsUndisturbed, CommonGoesOn DEF GoesOn
    <2>3. QED
      BY <1>1, <2>1, <2>2, UnaskedMoves, KeepsHanded
  <1>2. CASE FinalizeTearsDown("worker")
    <2>1. W'.at = "finStore"
      BY <1>2, GotoWorker DEF FinalizeTearsDown
    <2>2. QED
      BY <2>1 DEF HandedOn
  <1>3. CASE FinalizeStores("worker")
    <2>1. W'.at = "idle"
      BY <1>3, FinishWorker DEF FinalizeStores
    <2>2. row'.ended
      BY <1>3 DEF FinalizeStores, Write, Row
    <2>3. QED
      BY <2>1, <2>2 DEF HandedOn
  <1>4. QED
    BY <1>1, <1>2, <1>3, NeverSkips DEF Finalize

LEMMA StepHandedOn ==
    ASSUME TypeOK, BridgeInv, JourneyInv, EndsAlike, HandedOn,
           UnaskedStep \/ Arrival \/ Answering \/ NoAnswering \/ UNCHANGED vars
    PROVE  HandedOn'
  <1> "worker" \in Actor /\ row \in Row /\ Emp \subseteq Chan /\ Far \subseteq Chan /\ Caller \subseteq Chan
    BY DEF Actor, TypeOK, Chan
  <1>0. /\ UNCHANGED chan => HandsOnNobody
        /\ \A c \in Chan : chan[c] = "absent" /\ chan' = [chan EXCEPT ![c] = "ringing"] => HandsOnNobody
    BY DEF HandsOnNobody, TypeOK
  <1>1. CASE UNCHANGED vars
    BY <1>0, <1>1, KeepsHanded DEF vars, asterisk, W
  <1>2. ASSUME NEW k \in Caller, RefuseCaller(k) PROVE HandedOn'
    <2>1. HandsOnNobody
      BY <1>2, HangUpSettles, SettlesHandsOn DEF RefuseCaller
    <2>2. UNCHANGED <<row, job>>
      BY <1>2 DEF RefuseCaller
    <2>3. QED
      BY <2>1, <2>2, KeepsHanded DEF W
  <1>3. ASSUME NEW k \in Caller, AdmitCaller(k) PROVE HandedOn'
    <2>1. row.far = None /\ W.at = "idle" /\ UNCHANGED chan
      BY <1>3, ArrivesFirst DEF AdmitCaller, BridgeInv, RowFits, Arrives, Took, At, W
    <2>2. ~row.ended
      BY <2>1 DEF EndsAlike, Terminal
    <2>3. ~\E c \in Caller : chan[c] = "mailbox"
      BY <2>1, <2>2 DEF HandedOn
    <2>4. W'.at = "dialDesks"
      BY <1>3, GotoWorker DEF AdmitCaller
    <2>5. QED
      BY <2>1, <2>3, <2>4 DEF HandedOn
  <1>4. ASSUME NEW l \in Emp, DialDesk(l) \/ DialBackup(l) PROVE HandedOn'
    <2>1. Originate(l) /\ W.at \in {"dialDesks", "dialBackups"} /\ UNCHANGED <<row, job>>
      BY <1>4 DEF DialDesk, DialBackup, Originate, At, W
    <2>2. HandsOnNobody
      BY <1>0, <2>1, OriginateRings
    <2>3. QED
      BY <2>1, <2>2, KeepsHanded DEF W
  <1>5. ASSUME NEW f \in Far, Forward(f) PROVE HandedOn'
    <2>1. HandsOnNobody
      BY <1>0, <1>5, ForwardRings
    <2>2. UNCHANGED row /\ W.at = "noAnswer"
      BY <1>5 DEF Forward, NoAnswer, At, W
    <2>3. W'.at = "forwarded"
      BY <1>5, GotoWorker DEF Forward
    <2>4. QED
      BY <2>1, <2>2, <2>3, KeepsHanded
  <1>6. CASE ToVoicemail
    <2>1. W.at = "noAnswer" /\ ~Read.ended /\ Read.far \in Up /\ UNCHANGED row
      BY <1>6 DEF ToVoicemail, NoAnswer, At, W
    <2>2. Read.far = row.far /\ Read.far \in Chan
      BY <2>1 DEF JourneyInv, ReadHolds, Up
    <2>3. W' = [at |-> "fin", ch |-> Read.far, call |-> Blank]
      BY <1>6, GotoWorker DEF ToVoicemail
    <2>4. chan'[Read.far] = "mailbox"
      BY <1>6, <2>2 DEF ToVoicemail, TypeOK
    <2>5. W'.at = "fin" /\ W'.ch = row'.far /\ W'.ch # None /\ chan'[W'.ch] = "mailbox"
      BY <2>1, <2>2, <2>3, <2>4, ChannelsAssumption DEF ChannelsAssumption
    <2>6. QED
      BY <2>5 DEF HandedOn
  <1>7. CASE CancelDesks \/ Missed
    <2>1. HandsOnNobody
      BY <1>7, HangUpSettles, SettlesHandsOn DEF CancelDesks, Missed
    <2>2. UNCHANGED row /\ W.at \in {"cancel", "noAnswer"}
      BY <1>7 DEF CancelDesks, Missed, NoAnswer, At, W
    <2>3. W'.at \in {"bridge", "fin"} /\ W'.ch = None
      BY <1>7, GotoWorker DEF CancelDesks, Missed
    <2>4. QED
      BY <2>1, <2>2, <2>3, KeepsHanded
  <1>8. CASE \/ StoreDesks \/ NoDeskRings \/ StoreDesk
             \/ \E c \in Chan : DeskAnswers(c) \/ NobodyAnswers(c)
             \/ EndedMeanwhile \/ RingBackups \/ SkipBackups \/ StoreBackups \/ StoreForward
    <2>1. UNCHANGED chan
      BY <1>8 DEF StoreDesks, NoDeskRings, StoreDesk, DeskAnswers, NobodyAnswers, EndedMeanwhile,
                  RingBackups, SkipBackups, StoreBackups, StoreForward, asterisk
    <2>2. row'.far = row.far /\ row'.ended = row.ended
      BY <1>8 DEF StoreDesks, NoDeskRings, StoreDesk, DeskAnswers, NobodyAnswers, EndedMeanwhile,
                  RingBackups, SkipBackups, StoreBackups, StoreForward, Write, Row
    <2>3. W.at \notin {"fin", "finStore"}
      BY <1>8 DEF StoreDesks, NoDeskRings, StoreDesk, DeskAnswers, NobodyAnswers, LastLegGone, EndedMeanwhile,
                  RingBackups, MayRingBackup, NoAnswer, SkipBackups, StoreBackups, StoreForward,
                  Took, At, W
    <2>4. W'.at # "fin"
      BY <1>8, GotoWorker, FinishWorker
         DEF StoreDesks, NoDeskRings, StoreDesk, DeskAnswers, NobodyAnswers, EndedMeanwhile, RingBackups,
             SkipBackups, StoreBackups, StoreForward
    <2>5. QED
      BY <1>0, <2>1, <2>2, <2>3, <2>4, KeepsHanded
  <1>9. QED
    BY <1>1, <1>2, <1>3, <1>4, <1>5, <1>6, <1>7, <1>8, UnaskedHands
       DEF Arrival, Answering, NoAnswering

LEMMA StaysCleared ==
    ASSUME TypeOK, Cleared, Settles, ~open'
    PROVE  Cleared'
  <1>1. \A c \in Live' : c \in Live /\ chan[c] = "mailbox" /\ c \in Caller
    BY SettlesDevices DEF Cleared
  <1>2. \A c \in Live' : chan'[c] = "mailbox"
    BY <1>1 DEF Settles, Live
  <1>3. QED
    BY <1>1, <1>2 DEF Cleared

\* A step of a call that goes on, with its bridge as it is.
LEMMA OpenStays ==
    ASSUME ClearedInTime, row'.far = row.far, row'.bridge = row.bridge, UNCHANGED open,
           W.at # "bridged", ~row'.ended, W'.at \notin {"finStore", "bridgeFailed"}
    PROVE  ClearedInTime'
  BY DEF ClearedInTime

\* A step that writes nothing, and clears nothing away that was cleared.
LEMMA ClearStays ==
    ASSUME ClearedInTime, UNCHANGED <<row, open>>, Cleared => Cleared',
           W' = W \/ (W.at # "bridged" /\ W'.at \notin {"finStore", "bridgeFailed"})
    PROVE  ClearedInTime'
  BY DEF ClearedInTime

\* The channels of a call: the devices known, and the caller.
LEMMA WhoeverLives ==
    ASSUME TypeOK, BridgeInv, EndsAlike, DevicesKnown,
           W.at \in {"bridge", "fin"}, NEW c \in Live
    PROVE  c \in Legs(row) \/ (c = row.far /\ c \in Caller)
  <1>1. CASE c \in Emp \cup Far
    BY <1>1 DEF DevicesKnown, Devs
  <1>2. CASE c \in Caller
    <2>1. row.far # None
      BY DEF EndsAlike
    <2>2. row.far \in Caller
      BY <2>1 DEF BridgeInv, RowFits
    <2>3. QED
      BY <1>2, <2>2, OneCallerAssumption DEF OneCallerAssumption
  <1>3. QED
    BY <1>1, <1>2 DEF Live, Chan

LEMMA TakenDown ==
    ASSUME TypeOK, NEW S, NEW box, TakeDown(S, box), NEW c \in Live'
    PROVE  c \in Live /\ c \notin S /\ chan'[c] = chan[c]
  <1>1. c \in Chan /\ chan'[c] \in {"ringing", "up", "mailbox"}
    BY DEF Live
  <1>2. chan'[c] = IF c \notin S \cap Live THEN chan[c]
                   ELSE IF chan[c] = "ringing" THEN "missed" ELSE "over"
    BY <1>1 DEF TakeDown
  <1>3. c \notin S \cap Live /\ chan'[c] = chan[c]
    BY <1>1, <1>2
  <1>4. QED
    BY <1>1, <1>3 DEF Live

LEMMA BridgingClears ==
    ASSUME TypeOK, BridgeInv, EndsAlike, DevicesKnown, ClearedInTime, Bridging
    PROVE  ClearedInTime'
  <1> "worker" \in Actor /\ row \in Row
    BY DEF Actor, TypeOK
  <1>0. UNCHANGED chan => Live' = Live
    BY DEF Live
  <1>1. CASE BridgeNotNeeded
    <2>1. W.at = "bridge" /\ UNCHANGED <<row, open>>
      BY <1>1 DEF BridgeNotNeeded, At, W, asterisk
    <2>2. W'.at = "answer"
      BY <1>1, GotoWorker DEF BridgeNotNeeded
    <2>3. ~row.ended
      BY <2>1 DEF EndsAlike, GoingOn
    <2>4. QED
      BY <2>1, <2>2, <2>3, OpenStays
  <1>2. CASE BuildBridge
    <2>1. W.at = "bridge" /\ UNCHANGED row /\ row.far # None
      BY <1>2 DEF BuildBridge, BridgeNeeded, At, W
    <2>2. W'.at = "bridged"
      BY <1>2, GotoWorker DEF BuildBridge
    <2>3. ~row.ended
      BY <2>1 DEF EndsAlike, GoingOn
    <2>4. QED
      BY <2>1, <2>2, <2>3 DEF ClearedInTime
  <1>3. CASE StoreBridge
    <2>1. W.at = "bridged" /\ UNCHANGED open
      BY <1>3 DEF StoreBridge, At, W, asterisk
    <2>2. W'.at = "answer"
      BY <1>3, GotoWorker DEF StoreBridge
    <2>3. row'.far = row.far /\ row'.ended = row.ended /\ row'.bridge
      BY <1>3 DEF StoreBridge, Write, Row
    <2>4. ~row.ended
      BY <2>1 DEF EndsAlike, GoingOn
    <2>5. QED
      BY <2>1, <2>2, <2>3, <2>4 DEF ClearedInTime
  <1>4. CASE BridgeFails
    <2>1. W.at = "bridge" /\ UNCHANGED row /\ ~open' /\ TakeDown(Owned(row, None), inbox)
      BY <1>4 DEF BridgeFails, BridgeNeeded, At, W
    <2>2. W'.at = "bridgeFailed"
      BY <1>4, GotoWorker DEF BridgeFails
    <2>3. \A c \in Live : c \in Owned(row, None)
      <3>1. \A c \in Live : c # None
        BY ChannelsAssumption DEF ChannelsAssumption, Live
      <3>2. QED
        BY <2>1, <3>1, WhoeverLives DEF Owned
    <2>4. Live' = {}
      BY <2>1, <2>3, TakenDown
    <2>5. QED
      BY <2>1, <2>2, <2>4 DEF ClearedInTime, Cleared
  <1>5. CASE StoreBridgeFailed
    <2>1. W.at = "bridgeFailed" /\ UNCHANGED <<chan, open>>
      BY <1>5 DEF StoreBridgeFailed, At, W, asterisk
    <2>2. Cleared
      BY <2>1 DEF ClearedInTime
    <2>3. Cleared' /\ ~open'
      BY <1>0, <2>1, <2>2 DEF Cleared
    <2>4. QED
      BY <2>3 DEF ClearedInTime
  <1>6. CASE ReadAnswer
    <2>1. W.at = "answer" /\ UNCHANGED <<row, chan, open>>
      BY <1>6 DEF ReadAnswer, At, W, asterisk
    <2>2. W'.at \in {"answered", "idle"}
      BY <1>6, GotoWorker, FinishWorker DEF ReadAnswer
    <2>3. Cleared => Cleared'
      BY <1>0, <2>1 DEF Cleared
    <2>4. QED
      BY <2>1, <2>2, <2>3, ClearStays
  <1>7. CASE StoreAnswer
    <2>1. W.at = "answered" /\ UNCHANGED open
      BY <1>7 DEF StoreAnswer, At, W, asterisk
    <2>2. W'.at = "idle"
      BY <1>7, FinishWorker DEF StoreAnswer
    <2>3. row'.far = row.far /\ row'.ended = row.ended /\ row'.bridge = row.bridge
      BY <1>7 DEF StoreAnswer, Write, Row
    <2>4. ~row.ended
      BY <2>1 DEF EndsAlike, GoingOn
    <2>5. QED
      BY <2>1, <2>2, <2>3, <2>4, OpenStays
  <1>8. QED
    BY <1>1, <1>2, <1>3, <1>4, <1>5, <1>6, <1>7 DEF Bridging

LEMMA FinalizeClears ==
    ASSUME TypeOK, BridgeInv, JourneyInv, EndsAlike, DevicesKnown, HandedOn, ClearedInTime,
           Finalize("worker")
    PROVE  ClearedInTime'
  <1> "worker" \in Actor /\ row \in Row
    BY DEF Actor, TypeOK
  <1>1. CASE FinalizeTearsDown("worker")
    <2>1. /\ W.at = "fin" /\ UNCHANGED row /\ TakeDown(Owned(row, W.ch), inbox)
          /\ row.bridge => ~open'
          /\ ~row.bridge => open' = open
      BY <1>1 DEF FinalizeTearsDown, At, W
    <2>2. W'.at = "finStore"
      BY <1>1, GotoWorker DEF FinalizeTearsDown
    <2>3. ~open'
      BY <2>1 DEF ClearedInTime, TypeOK
    <2>4. ASSUME NEW c \in Live' PROVE c \in Caller /\ chan'[c] = "mailbox"
      <3>1. c \in Live /\ c \notin Owned(row, W.ch) /\ chan'[c] = chan[c]
        BY <2>1, <2>4, TakenDown
      <3>2. c # None
        BY <3>1, ChannelsAssumption DEF ChannelsAssumption, Live
      <3>3. c \in Legs(row) \/ (c = row.far /\ c \in Caller)
        BY <2>1, <3>1, WhoeverLives
      <3>4. c = W.ch
        BY <3>1, <3>2, <3>3 DEF Owned
      <3>5. W.ch = row.far /\ chan[W.ch] \in {"mailbox", "over"}
        BY <2>1, <3>2, <3>4 DEF HandedOn
      <3>6. row.far \in Caller
        BY <3>2, <3>4, <3>5 DEF BridgeInv, RowFits
      <3>7. QED
        BY <3>1, <3>4, <3>5, <3>6 DEF Live
    <2>5. Cleared'
      BY <2>3, <2>4 DEF Cleared
    <2>6. QED
      BY <2>2, <2>3, <2>5 DEF ClearedInTime
  <1>2. CASE FinalizeStores("worker")
    <2>1. W.at = "finStore" /\ UNCHANGED <<chan, open>>
      BY <1>2 DEF FinalizeStores, At, W, asterisk
    <2>2. Cleared' /\ ~open'
      BY <2>1 DEF ClearedInTime, Cleared, Live
    <2>3. QED
      BY <2>2 DEF ClearedInTime
  <1>3. QED
    BY <1>1, <1>2, NeverSkips DEF Finalize

LEMMA UnaskedClears ==
    ASSUME TypeOK, BridgeInv, JourneyInv, EndsAlike, DevicesKnown, HandedOn, ClearedInTime, UnaskedStep
    PROVE  ClearedInTime'
  <1>1. CASE People \/ Disconnect \/ ReadyExpires \/ Connect
    <2>1. UNCHANGED <<row, job, open>>
      BY <1>1 DEF People, Answer, RingOut, PartyHangup, Disconnect, ReadyExpires, Connect, asterisk
    <2>2. Cleared => ~\E c \in Chan : Answer(c)
      BY DEF Cleared, Live, Answer
    <2>3. Cleared => Cleared'
      BY <1>1, <2>1, <2>2, UnaskedIsUndisturbed, CommonSettles, StaysCleared DEF UnaskedStep, Cleared
    <2>4. QED
      BY <2>1, <2>3, ClearStays DEF W
  <1>2. CASE Event \/ CallerLeaves
    <2>1. UNCHANGED <<row, open>> /\ W.at = "idle"
      BY <1>2 DEF Event, EventIgnored, LegStarted, Straggler, LegGone, TalkerGone, CallerLeaves,
                  UnansweredEnds, LastLegGone, Took, At, W
    <2>2. UNCHANGED job \/ Goto("worker", "fin", None, Blank)
      BY <1>2 DEF Event, EventIgnored, LegStarted, Straggler, LegGone, TalkerGone, CallerLeaves,
                  UnansweredEnds, JourneyInv, Undisturbed
    <2>3. W' = W \/ W'.at = "fin"
      <3>1. UNCHANGED job => W' = W
        BY DEF W
      <3>2. Goto("worker", "fin", None, Blank) => W'.at = "fin"
        BY GotoWorker
      <3>3. QED
        BY <2>2, <3>1, <3>2
    <2>4. Settles
      BY <1>2, HangUpSettles, SameSettles
         DEF Event, CallerLeaves, EventIgnored, LegStarted, Straggler, LegGone, TalkerGone, UnansweredEnds
    <2>5. Cleared => Cleared'
      BY <2>1, <2>4, StaysCleared DEF Cleared
    <2>6. QED
      BY <2>1, <2>3, <2>5, ClearStays
  <1>3. QED
    BY <1>1, <1>2, BridgingClears, FinalizeClears DEF UnaskedStep

LEMMA StepCleared ==
    ASSUME TypeOK, BridgeInv, JourneyInv, EndsAlike, DevicesKnown, HandedOn, ClearedInTime,
           UnaskedStep \/ Arrival \/ Answering \/ NoAnswering \/ UNCHANGED vars
    PROVE  ClearedInTime'
  <1> "worker" \in Actor /\ row \in Row
    BY DEF Actor, TypeOK
  <1>1. CASE UNCHANGED vars
    BY <1>1, ClearStays DEF vars, asterisk, W, Cleared, Live
  <1>2. ASSUME NEW k \in Caller, RefuseCaller(k) PROVE ClearedInTime'
    <2>1. UNCHANGED <<row, open, job>> /\ Settles
      BY <1>2, HangUpSettles DEF RefuseCaller
    <2>2. QED
      BY <2>1, StaysCleared, ClearStays DEF Cleared, W
  <1>3. ASSUME NEW k \in Caller, AdmitCaller(k) PROVE ClearedInTime'
    <2>1. row.far = None /\ UNCHANGED open
      BY <1>3, ArrivesFirst DEF AdmitCaller, BridgeInv, RowFits
    <2>2. ~open'
      BY <2>1 DEF ClearedInTime, TypeOK
    <2>3. W'.at = "dialDesks"
      BY <1>3, GotoWorker DEF AdmitCaller
    <2>4. ~row'.ended
      BY <1>3 DEF AdmitCaller, Write, Blank
    <2>5. QED
      BY <2>2, <2>3, <2>4 DEF ClearedInTime
  <1>4. ASSUME NEW l \in Emp, DialDesk(l) \/ DialBackup(l) PROVE ClearedInTime'
    <2>1. W.at \in {"dialDesks", "dialBackups"} /\ UNCHANGED <<row, open, job>>
      BY <1>4 DEF DialDesk, DialBackup, Originate, At, W
    <2>2. ~row.ended
      BY <2>1 DEF EndsAlike, GoingOn
    <2>3. QED
      BY <2>1, <2>2, OpenStays DEF W
  <1>5. ASSUME NEW c \in Chan, DeskAnswers(c) \/ NobodyAnswers(c) PROVE ClearedInTime'
    <2>1. W.at = "idle" /\ ~row.ended /\ UNCHANGED <<row, open>>
      BY <1>5 DEF DeskAnswers, NobodyAnswers, LastLegGone, Took, At, W, EndsAlike
    <2>2. W'.at \in {"desk", "noAnswer"}
      BY <1>5, GotoWorker DEF DeskAnswers, NobodyAnswers
    <2>3. QED
      BY <2>1, <2>2, OpenStays
  <1>6. CASE \/ StoreDesks \/ NoDeskRings \/ StoreDesk \/ CancelDesks
             \/ EndedMeanwhile \/ RingBackups \/ SkipBackups \/ StoreBackups
             \/ ToVoicemail \/ Missed \/ StoreForward \/ \E f \in Far : Forward(f)
    <2>1. W.at \in {"dialDesks", "desk", "cancel", "noAnswer", "dialBackups", "forwarded"} /\ UNCHANGED open
      BY <1>6 DEF StoreDesks, NoDeskRings, StoreDesk, CancelDesks, EndedMeanwhile, RingBackups, MayRingBackup,
                  NoAnswer, SkipBackups, StoreBackups, ToVoicemail, Missed, StoreForward, Forward,
                  At, W, asterisk
    <2>2. ~row.ended
      BY <2>1 DEF EndsAlike, GoingOn
    <2>3. row'.far = row.far /\ row'.bridge = row.bridge /\ row'.ended = row.ended
      BY <1>6 DEF StoreDesks, NoDeskRings, StoreDesk, CancelDesks, EndedMeanwhile, RingBackups, SkipBackups,
                  StoreBackups, ToVoicemail, Missed, StoreForward, Forward, Write, Row
    <2>4. W'.at \in {"idle", "noAnswer", "cancel", "bridge", "dialBackups", "fin", "forwarded"}
      BY <1>6, GotoWorker, FinishWorker
         DEF StoreDesks, NoDeskRings, StoreDesk, CancelDesks, EndedMeanwhile, RingBackups, SkipBackups,
             StoreBackups, ToVoicemail, Missed, StoreForward, Forward
    <2>5. QED
      BY <2>1, <2>2, <2>3, <2>4, OpenStays
  <1>7. QED
    BY <1>1, <1>2, <1>3, <1>4, <1>5, <1>6, UnaskedClears DEF Arrival, Answering, NoAnswering

LEMMA InitClear == Init => ClearInv
  <1> SUFFICES ASSUME Init PROVE ClearInv
    OBVIOUS
  <1>1. W.at = "idle" /\ row = Blank /\ ~open
    BY InitJobs DEF Init, InitWith, Idle, W
  <1>2. \A c \in Chan : chan[c] = IF c \in Caller THEN "up" ELSE "absent"
    BY DEF Init, InitWith
  <1>3. \A c \in Chan : inbox[c] \subseteq {"stasis"}
    BY <1>2 DEF Init, InitWith
  <1>4. Devs = {}
    BY <1>2, ChannelsAssumption DEF ChannelsAssumption, Devs, Live, Chan
  <1>5. EndsAlike
    BY <1>1 DEF EndsAlike, Blank, Terminal, GoingOn
  <1>6. DevicesKnown
    BY <1>1, <1>4 DEF DevicesKnown
  <1>7. GoneIsGone
    BY <1>3 DEF GoneIsGone, Chan
  <1>8. HandedOn
    BY <1>1, <1>2 DEF HandedOn, Chan
  <1>9. ClearedInTime
    BY <1>1 DEF ClearedInTime, Blank
  <1>10. QED
    BY <1>5, <1>6, <1>7, <1>8, <1>9 DEF ClearInv

LEMMA StepClear ==
    ASSUME MaxFaults = 0, MaxCrashes = 0, TypeOK, BridgeInv, JourneyInv, ClearInv, [Next]_vars,
           ~UnnamedForward
    PROVE  ClearInv'
  <1> SUFFICES ASSUME NoRequest'
               PROVE  (EndsAlike /\ DevicesKnown /\ GoneIsGone /\ HandedOn /\ ClearedInTime)'
    BY DEF ClearInv
  <1>1. NoRequest /\ (UnaskedStep \/ Arrival \/ Answering \/ NoAnswering \/ UNCHANGED vars)
    BY StepUnasked
  <1>2. EndsAlike /\ DevicesKnown /\ GoneIsGone /\ HandedOn /\ ClearedInTime
    BY <1>1 DEF ClearInv
  <1>3. EndsAlike'
    BY <1>1, <1>2, StepEndsAlike
  <1>4. DevicesKnown'
    BY <1>1, <1>2, StepDevices
  <1>5. GoneIsGone'
    BY <1>1, <1>2, StepGone
  <1>6. HandedOn'
    BY <1>1, <1>2, StepHandedOn
  <1>7. ClearedInTime'
    BY <1>1, <1>2, StepCleared
  <1>8. QED
    BY <1>3, <1>4, <1>5, <1>6, <1>7

\* All of it at once, as the theorems below need it.
CallInv == TypeOK /\ ForwardNamed /\ BridgeInv /\ JourneyInv /\ StrayInv /\ ClearInv

LEMMA NamedOnly == ASSUME CallInv PROVE ~UnnamedForward
  BY NobodyUnnamed DEF CallInv

LEMMA CallHolds == ASSUME MaxFaults = 0, MaxCrashes = 0 PROVE Spec => []CallInv
  <1>1. Init => CallInv
    BY InitTypes, InitKeeps, InitJourney, InitStray, InitClear
       DEF Init, InitWith, Idle, Actor, ForwardNamed, W, CallInv
  <1>2. CallInv /\ [Next]_vars => CallInv'
    BY NamedOnly, StepTypes, StepBridge, StepJourney, StepStray, StepClear DEF CallInv
  <1>3. QED
    BY <1>1, <1>2, PTL DEF Spec

\* The bridge holds only channels the row names, apart from the losing devices
\* while they are being hung up: for any number of devices, rounds and
\* forwards, lost websockets and hangup requests, while the worker neither
\* crashes nor fails.
THEOREM TalkersAreNamed ==
    ASSUME MaxFaults = 0, MaxCrashes = 0 PROVE Spec => []BridgeNamesTalkers
  <1>1. CallInv => BridgeNamesTalkers
    BY DEF CallInv, BridgeInv
  <1>2. QED
    BY <1>1, CallHolds, PTL

\* A call that ended leaves no channel ringing or connected and no bridge,
\* except a caller who leaves a message.
THEOREM NothingOrphaned == ASSUME MaxFaults = 0, MaxCrashes = 0 PROVE Spec => []NoOrphans
  <1>1. CallInv => NoOrphans
    BY DEF CallInv, ClearInv, NoOrphans, ClearedInTime, Cleared
  <1>2. QED
    BY <1>1, CallHolds, PTL

LEMMA TakenOver ==
    ASSUME TypeOK, NEW S, NEW box, TakeDown(S, box), NEW k \in Chan, k \notin S
    PROVE  chan'[k] = chan[k]
  BY DEF TakeDown

LEMMA StepMessage ==
    ASSUME MaxFaults = 0, MaxCrashes = 0, CallInv, [Next]_vars,
           NEW k \in Caller, chan[k] = "mailbox", NoRequest
    PROVE  \/ chan'[k] = "mailbox" \/ PartyHangup(k)
           \/ \E h \in Hanger : HangupRequest(h)
  <1> SUFFICES ASSUME ~PartyHangup(k), ~\E h \in Hanger : HangupRequest(h)
               PROVE  chan'[k] = "mailbox"
    OBVIOUS
  <1> "worker" \in Actor /\ row \in Row /\ k \in Chan /\ Hanger \subseteq Actor
    BY DEF CallInv, Actor, TypeOK, Chan
  <1> TypeOK /\ BridgeInv /\ JourneyInv /\ EndsAlike /\ DevicesKnown /\ GoneIsGone /\ HandedOn
    BY DEF CallInv, ClearInv
  <1>0. UNCHANGED chan => chan'[k] = "mailbox"
    OBVIOUS
  <1>1. row.ended \/ W.at = "finStore" \/ (W.at = "fin" /\ W.ch # None)
    BY DEF HandedOn
  <1>2. W.at \notin GoingOn
    BY <1>1 DEF EndsAlike, GoingOn
  <1>3. row.status # "none" /\ row.far = k
    <2>1. row.far # None
      BY <1>1 DEF EndsAlike, Terminal
    <2>2. row.status # "none" /\ row.far \in Caller
      BY <2>1 DEF BridgeInv, RowFits
    <2>3. QED
      BY <2>2, OneCallerAssumption DEF OneCallerAssumption
  <1>4. CASE Arrival \/ Answering \/ NoAnswering
    <2>1. W.at = "idle" => row.ended /\ row.status \in Terminal
      BY <1>1 DEF EndsAlike
    <2>2. ~(\E c \in Caller : RefuseCaller(c) \/ AdmitCaller(c))
      <3>1. \A c \in Caller : Found(c)
        BY <1>3, OneCallerAssumption DEF OneCallerAssumption, Found
      <3>2. QED
        BY <3>1 DEF RefuseCaller, AdmitCaller, Arrives
    <2>3. ~(\E c \in Chan : DeskAnswers(c) \/ NobodyAnswers(c))
      BY <2>1 DEF DeskAnswers, NobodyAnswers, LastLegGone, Took, At, W
    <2>4. ~(\E l \in Emp : DialDesk(l) \/ DialBackup(l)) /\ ~StoreDesks /\ ~NoDeskRings /\ ~StoreDesk
          /\ ~CancelDesks
      BY <1>2 DEF DialDesk, DialBackup, StoreDesks, NoDeskRings, StoreDesk, CancelDesks, At, W, GoingOn
    <2>5. /\ ~EndedMeanwhile /\ ~RingBackups /\ ~SkipBackups /\ ~StoreBackups /\ ~ToVoicemail
          /\ ~Missed /\ ~StoreForward /\ ~\E f \in Far : Forward(f)
      BY <1>2 DEF EndedMeanwhile, RingBackups, MayRingBackup, NoAnswer, SkipBackups, StoreBackups,
                  ToVoicemail, Missed, StoreForward, Forward, At, W, GoingOn
    <2>6. QED
      BY <1>4, <2>2, <2>3, <2>4, <2>5 DEF Arrival, Answering, NoAnswering
  <1>5. CASE UNCHANGED vars
    BY <1>0, <1>5 DEF vars, asterisk
  <1>6. CASE People
    <2>1. PICK c \in Chan : Answer(c) \/ RingOut(c) \/ PartyHangup(c)
      BY <1>6 DEF People
    <2>2. c # k /\ chan'[k] = chan[k]
      BY <2>1 DEF Answer, RingOut, PartyHangup, TypeOK
    <2>3. QED
      BY <2>2
  <1>7. CASE Event \/ CallerLeaves
    <2>1. W.at = "idle"
      BY <1>7 DEF Event, EventIgnored, LegStarted, Straggler, LegGone, TalkerGone, CallerLeaves,
                  UnansweredEnds, LastLegGone, Took, At, W
    <2>2. row.ended
      BY <1>1, <2>1
    <2>3. ~CallerLeaves /\ ~(\E c \in Chan : TalkerGone(c))
      BY <2>2 DEF CallerLeaves, UnansweredEnds, LastLegGone, TalkerGone
    <2>4. ASSUME NEW c \in Chan, Straggler(c) PROVE chan'[k] = "mailbox"
      <3>1. "up" \in inbox[c] /\ TakeDown({c}, Rest(c, "up"))
        BY <2>4 DEF Straggler, Took, HangUp
      <3>2. k \notin {c}
        BY <3>1 DEF GoneIsGone
      <3>3. QED
        BY <3>1, <3>2, TakenOver
    <2>5. QED
      BY <1>0, <1>7, <2>3, <2>4 DEF Event, EventIgnored, LegStarted, LegGone
  <1>8. CASE Bridging
    <2>1. ~BridgeFails
      BY <1>2 DEF BridgeFails, BridgeNeeded, At, W, GoingOn
    <2>2. QED
      BY <1>0, <1>8, <2>1
         DEF Bridging, BridgeNotNeeded, BuildBridge, StoreBridge, StoreBridgeFailed, ReadAnswer,
             StoreAnswer, asterisk
  <1>9. CASE Ending
    <2>1. PICK p \in Hanger \cup {"worker"} : Finalize(p)
      BY <1>9 DEF Ending
    <2>2. p = "worker"
      BY <2>1 DEF NoRequest, At, Finalize, FinalizeSkips, FinalizeTearsDown, FinalizeStores
    <2>3. CASE FinalizeTearsDown("worker")
      <3>1. W.at = "fin" /\ TakeDown(Owned(row, W.ch), inbox)
        BY <2>3 DEF FinalizeTearsDown, At, W
      <3>2. ~row.ended
        BY <3>1 DEF EndsAlike
      <3>3. W.ch = k
        BY <1>1, <1>3, <3>1, <3>2 DEF HandedOn
      <3>4. k \notin Owned(row, W.ch)
        BY <3>3 DEF Owned
      <3>5. QED
        BY <3>1, <3>4, TakenOver
    <2>4. CASE FinalizeSkips("worker") \/ FinalizeStores("worker")
      BY <1>0, <2>4 DEF FinalizeSkips, FinalizeStores, asterisk
    <2>5. QED
      BY <2>1, <2>2, <2>3, <2>4 DEF Finalize
  <1>10. CASE Disconnect \/ ReadyExpires \/ Connect
    BY <1>0, <1>10 DEF Disconnect, ReadyExpires, Connect, asterisk
  <1>11. QED
    <2>1. Common \/ CallerLeaves \/ Arrival \/ Answering \/ NoAnswering \/ UNCHANGED vars
      BY NamedOnly DEF Next
    <2>2. Common => People \/ Event \/ Bridging \/ Ending \/ Disconnect \/ ReadyExpires \/ Connect
      BY CommonUndisturbed
    <2>3. QED
      BY <1>4, <1>5, <1>6, <1>7, <1>8, <1>9, <1>10, <2>1, <2>2

\* A caller leaving a message is cut off by nobody but the caller or a request
\* to hang up.
THEOREM MessagesKept == ASSUME MaxFaults = 0, MaxCrashes = 0 PROVE Spec => MessageKept
  <1>1. CallInv /\ [Next]_vars =>
          [\A k \in Caller : chan[k] = "mailbox" /\ NoRequest =>
             \/ chan'[k] = "mailbox"
             \/ PartyHangup(k)
             \/ \E h \in Hanger : HangupRequest(h)]_vars
    BY StepMessage
  <1>2. QED
    BY <1>1, CallHolds, PTL DEF Spec, MessageKept

----------------------------------------------------------------------------
(* A waiting caller is let go only when nobody who rings could still answer. *)

LEMMA QuietStays ==
    ASSUME \A c \in Chan : chan'[c] = "ringing" => chan[c] = "ringing"
    PROVE  RingingDevs' \subseteq RingingDevs
  BY DEF RingingDevs, Chan

LEMMA UnaskedQuiet ==
    ASSUME TypeOK, JourneyInv, UnaskedStep
    PROVE  \A c \in Chan : chan'[c] = "ringing" => chan[c] = "ringing"
  <1>1. (\E c \in Chan : Answer(c)) => \A c \in Chan : chan'[c] = "ringing" => chan[c] = "ringing"
    BY DEF Answer, TypeOK
  <1>2. Settles => \A c \in Chan : chan'[c] = "ringing" => chan[c] = "ringing"
    BY DEF Settles
  <1>3. QED
    BY <1>1, <1>2, UnaskedIsUndisturbed, CommonSettles

\* The common steps only forget channels, and record the answer of a call that
\* was bridged.
LEMMA UnaskedForgets ==
    ASSUME TypeOK, JourneyInv, UnaskedStep
    PROVE  /\ index' \subseteq index
           /\ row'.answered => row.answered \/ W.at = "answered"
           /\ W' = W \/ (W'.at \in AnsweringPlaces => W.at \in AnsweringPlaces)
           /\ W' = W \/ (W'.at = "fin" => index' \cap Legs(row) = {} /\ UNCHANGED row)
  <1> "worker" \in Actor /\ row \in Row
    BY DEF Actor, TypeOK
  <1>1. CASE People \/ Disconnect \/ ReadyExpires \/ Connect
    BY <1>1 DEF People, Answer, RingOut, PartyHangup, Disconnect, ReadyExpires, Connect, W
  <1>2. CASE Event \/ CallerLeaves
    <2>1. UNCHANGED row /\ index' \subseteq index
      BY <1>2 DEF Event, EventIgnored, LegStarted, Straggler, LegGone, TalkerGone, CallerLeaves,
                  UnansweredEnds
    <2>2. UNCHANGED job \/ (Goto("worker", "fin", None, Blank) /\ index' \cap Legs(row) = {})
      BY <1>2 DEF Event, EventIgnored, LegStarted, Straggler, LegGone, TalkerGone, CallerLeaves,
                  UnansweredEnds, JourneyInv, Undisturbed
    <2>3. UNCHANGED job => W' = W
      BY DEF W
    <2>4. Goto("worker", "fin", None, Blank) => W'.at = "fin"
      BY GotoWorker
    <2>5. QED
      BY <2>1, <2>2, <2>3, <2>4 DEF AnsweringPlaces
  <1>3. CASE Bridging
    <2>1. W.at \in AnsweringPlaces /\ UNCHANGED index
      BY <1>3 DEF Bridging, BridgeNotNeeded, BridgeNeeded, BuildBridge, StoreBridge, BridgeFails,
                  StoreBridgeFailed, ReadAnswer, StoreAnswer, At, W, AnsweringPlaces
    <2>2. W'.at # "fin"
      BY <1>3, GotoWorker, FinishWorker
         DEF Bridging, BridgeNotNeeded, BuildBridge, StoreBridge, BridgeFails, StoreBridgeFailed,
             ReadAnswer, StoreAnswer
    <2>3. row'.answered => row.answered \/ W.at = "answered"
      BY <1>3 DEF Bridging, BridgeNotNeeded, BuildBridge, StoreBridge, BridgeFails, StoreBridgeFailed,
                  ReadAnswer, StoreAnswer, Write, Row, At, W
    <2>4. QED
      BY <2>1, <2>2, <2>3
  <1>4. CASE Finalize("worker")
    <2>1. UNCHANGED index /\ row'.answered = row.answered
      BY <1>4 DEF Finalize, FinalizeSkips, FinalizeTearsDown, FinalizeStores, Write, Row
    <2>2. W'.at \in {"idle", "finStore"}
      BY <1>4, GotoWorker, FinishWorker
         DEF Finalize, FinalizeSkips, FinalizeTearsDown, FinalizeStores
    <2>3. QED
      BY <2>1, <2>2 DEF AnsweringPlaces
  <1>5. QED
    BY <1>1, <1>2, <1>3, <1>4 DEF UnaskedStep

\* The device that answers is a channel.
LEMMA DeskIsDevice ==
    ASSUME TypeOK, BridgeInv, JourneyInv, W.at \in {"desk", "cancel"}
    PROVE  W.ch \in Chan
  BY DEF TypeOK, BridgeInv, RowFits, JourneyInv, SidesHold, Legs, Chan

LEMMA UnaskedRings ==
    ASSUME TypeOK, BridgeInv, JourneyInv, DevicesKnown, NoneRings, UnaskedStep
    PROVE  NoneRings'
  <1>1. \A c \in Chan : chan'[c] = "ringing" => chan[c] = "ringing"
    BY UnaskedQuiet
  <1>2. RingingDevs' \subseteq RingingDevs
    BY <1>1, QuietStays
  <1>3. /\ index' \subseteq index
        /\ row'.answered => row.answered \/ W.at = "answered"
        /\ W' = W \/ (W'.at \in AnsweringPlaces => W.at \in AnsweringPlaces)
        /\ W' = W \/ (W'.at = "fin" => index' \cap Legs(row) = {} /\ UNCHANGED row)
    BY UnaskedForgets
  <1>4. W' = W \/ W'.at \notin DeskPlaces
    BY UnaskedIsUndisturbed, CommonGoesOn DEF GoesOn
  <1>5. (W.at \in {"desk", "cancel"} => chan[W.ch] # "ringing")'
    BY <1>1, <1>4, DeskIsDevice DEF NoneRings, DeskPlaces
  <1>6. (W.at \in AnsweringPlaces \/ row.answered => RingingDevs = {})'
    BY <1>2, <1>3 DEF NoneRings, AnsweringPlaces
  <1>7. (W.at = "fin" => index \cap RingingDevs = {})'
    <2>1. CASE W' = W
      BY <1>2, <1>3, <2>1 DEF NoneRings
    <2>2. CASE W' # W /\ W'.at = "fin"
      <3>1. W.at \notin {"dialDesks", "dialBackups", "noAnswer", "forwarded"}
        BY <2>2, UnaskedStays DEF AnsweringPlaces
      <3>2. RingingDevs \subseteq Legs(row)
        BY <3>1 DEF DevicesKnown, RingingDevs, Devs, Live, Chan
      <3>3. QED
        BY <1>2, <1>3, <2>2, <3>2
    <2>3. QED
      BY <2>1, <2>2
  <1>8. (W.at \in {"dialDesks", "noAnswer", "dialBackups", "forwarded"} => ~row.answered)'
    BY <1>3, <1>4 DEF NoneRings, DeskPlaces
  <1>9. QED
    BY <1>5, <1>6, <1>7, <1>8 DEF NoneRings

LEMMA StepRings ==
    ASSUME TypeOK, BridgeInv, JourneyInv, DevicesKnown, GoneIsGone, NoneRings,
           UnaskedStep \/ Arrival \/ Answering \/ NoAnswering \/ UNCHANGED vars
    PROVE  NoneRings'
  <1> "worker" \in Actor /\ row \in Row
    BY DEF Actor, TypeOK
  <1>0. UNCHANGED chan => RingingDevs' = RingingDevs
    BY DEF RingingDevs
  <1>1. CASE UNCHANGED vars
    BY <1>0, <1>1 DEF vars, asterisk, W, NoneRings
  <1>2. ASSUME NEW k \in Caller, RefuseCaller(k) PROVE NoneRings'
    <2>1. UNCHANGED <<row, job, index>> /\ W.at = "idle" /\ Settles
      BY <1>2, HangUpSettles DEF RefuseCaller, Arrives, Took, At, W
    <2>2. RingingDevs' \subseteq RingingDevs
      BY <2>1, QuietStays DEF Settles
    <2>3. QED
      BY <2>1, <2>2 DEF NoneRings, W
  <1>3. ASSUME NEW k \in Caller, AdmitCaller(k) PROVE NoneRings'
    <2>1. W'.at = "dialDesks"
      BY <1>3, GotoWorker DEF AdmitCaller
    <2>2. ~row'.answered
      BY <1>3 DEF AdmitCaller, Write, Blank
    <2>3. QED
      BY <2>1, <2>2 DEF NoneRings, AnsweringPlaces
  <1>4. ASSUME NEW l \in Emp, DialDesk(l) \/ DialBackup(l) PROVE NoneRings'
    <2>1. W.at \in {"dialDesks", "dialBackups"} /\ UNCHANGED <<row, job>>
      BY <1>4 DEF DialDesk, DialBackup, Originate, At, W
    <2>2. QED
      BY <2>1 DEF NoneRings, AnsweringPlaces, W
  <1>5. ASSUME NEW c \in Chan, DeskAnswers(c) PROVE NoneRings'
    <2>1. UNCHANGED <<row, chan>> /\ "up" \in inbox[c]
      BY <1>5 DEF DeskAnswers, Took
    <2>2. W' = [at |-> "desk", ch |-> c, call |-> Blank]
      BY <1>5, GotoWorker DEF DeskAnswers
    <2>3. chan[c] # "ringing"
      BY <2>1 DEF GoneIsGone
    <2>4. QED
      BY <1>0, <2>1, <2>2, <2>3 DEF NoneRings, AnsweringPlaces
  <1>6. CASE CancelDesks
    <2>1. W.at = "cancel" /\ TakeDown(Legs(row) \ {W.ch}, inbox)
      BY <1>6 DEF CancelDesks, HangUp, At, W
    <2>2. W'.at = "bridge"
      BY <1>6, GotoWorker DEF CancelDesks
    <2>3. ASSUME NEW c \in RingingDevs' PROVE FALSE
      <3>1. c \in Live' /\ c \in Emp \cup Far /\ chan'[c] = "ringing"
        BY <2>3 DEF RingingDevs, Live, Chan
      <3>2. c \in Live /\ c \notin Legs(row) \ {W.ch} /\ chan[c] = "ringing"
        BY <2>1, <3>1, TakenDown
      <3>3. c \in Legs(row)
        BY <2>1, <3>1, <3>2 DEF DevicesKnown, Devs
      <3>4. QED
        BY <2>1, <3>2, <3>3 DEF NoneRings
    <2>4. QED
      BY <2>2, <2>3 DEF NoneRings, AnsweringPlaces
  <1>7. ASSUME NEW c \in Chan, NobodyAnswers(c) PROVE NoneRings'
    <2>1. UNCHANGED row /\ ~row.answered
      BY <1>7 DEF NobodyAnswers, LastLegGone, Unanswered
    <2>2. W'.at = "noAnswer"
      BY <1>7, GotoWorker DEF NobodyAnswers
    <2>3. QED
      BY <2>1, <2>2 DEF NoneRings, AnsweringPlaces
  <1>8. CASE ToVoicemail \/ Missed
    <2>1. W.at = "noAnswer" /\ UNCHANGED row
      BY <1>8 DEF ToVoicemail, Missed, NoAnswer, At, W
    <2>2. W'.at = "fin"
      BY <1>8, GotoWorker DEF ToVoicemail, Missed
    <2>3. RingingDevs = {} /\ ~row.answered
      BY <2>1 DEF DevicesKnown, RingingDevs, Devs, Live, Chan, NoneRings
    <2>4. \A c \in Chan : chan'[c] = "ringing" => chan[c] = "ringing"
      <3>1. ToVoicemail => \A c \in Chan : chan'[c] = "ringing" => chan[c] = "ringing"
        BY DEF ToVoicemail, TypeOK
      <3>2. Missed => Settles
        BY HangUpSettles DEF Missed
      <3>3. QED
        BY <1>8, <3>1, <3>2 DEF Settles
    <2>5. RingingDevs' = {}
      BY <2>3, <2>4, QuietStays
    <2>6. QED
      BY <2>1, <2>2, <2>3, <2>5 DEF NoneRings, AnsweringPlaces
  <1>9. CASE \/ StoreDesks \/ NoDeskRings \/ EndedMeanwhile \/ RingBackups \/ SkipBackups
             \/ StoreBackups \/ StoreForward \/ \E f \in Far : Forward(f)
    <2>1. W.at \in {"dialDesks", "noAnswer", "dialBackups", "forwarded"}
      BY <1>9 DEF StoreDesks, NoDeskRings, EndedMeanwhile, RingBackups, MayRingBackup, NoAnswer,
                  SkipBackups, StoreBackups, StoreForward, Forward, At, W
    <2>2. row'.answered = row.answered /\ ~row.answered
      <3>1. row'.answered = row.answered
        BY <1>9 DEF StoreDesks, NoDeskRings, EndedMeanwhile, RingBackups, SkipBackups, StoreBackups,
                    StoreForward, Forward, Write, Row
      <3>2. QED
        BY <2>1, <3>1 DEF NoneRings
    <2>3. W'.at \in {"idle", "noAnswer", "dialBackups", "forwarded"}
      BY <1>9, GotoWorker, FinishWorker
         DEF StoreDesks, NoDeskRings, EndedMeanwhile, RingBackups, SkipBackups, StoreBackups,
             StoreForward, Forward
    <2>4. QED
      BY <2>2, <2>3 DEF NoneRings, AnsweringPlaces
  <1>10. CASE StoreDesk
    <2>1. W.at = "desk" /\ UNCHANGED chan
      BY <1>10 DEF StoreDesk, At, W, asterisk
    <2>2. W' = [at |-> "cancel", ch |-> W.ch, call |-> Blank]
      BY <1>10, GotoWorker DEF StoreDesk, W
    <2>3. W'.at = "cancel" /\ W'.ch = W.ch
      BY <2>2
    <2>4. row'.answered = row.answered
      BY <1>10 DEF StoreDesk, Write, Row
    <2>5. QED
      BY <1>0, <2>1, <2>3, <2>4 DEF NoneRings, AnsweringPlaces
  <1>11. QED
    BY <1>1, <1>2, <1>3, <1>4, <1>5, <1>6, <1>7, <1>8, <1>9, <1>10, UnaskedRings
       DEF Arrival, Answering, NoAnswering

LEMMA InitRing == Init => RingInv
  <1> SUFFICES ASSUME Init PROVE NoneRings
    BY DEF RingInv
  <1>1. W.at = "idle" /\ row = Blank
    BY InitJobs DEF Init, InitWith, Idle, W
  <1>2. QED
    BY <1>1 DEF NoneRings, Blank, AnsweringPlaces

LEMMA RingHolds == ASSUME MaxFaults = 0, MaxCrashes = 0 PROVE Spec => [](CallInv /\ RingInv)
  <1>1. CallInv /\ RingInv /\ [Next]_vars => RingInv'
    <2> SUFFICES ASSUME CallInv, RingInv, [Next]_vars, NoRequest' PROVE NoneRings'
      BY DEF RingInv
    <2>1. NoRequest /\ (UnaskedStep \/ Arrival \/ Answering \/ NoAnswering \/ UNCHANGED vars)
      BY StepUnasked, NamedOnly DEF CallInv
    <2>2. NoneRings /\ DevicesKnown /\ GoneIsGone
      BY <2>1 DEF RingInv, CallInv, ClearInv
    <2>3. QED
      BY <2>1, <2>2, StepRings DEF CallInv
  <1>2. QED
    BY <1>1, InitRing, CallHolds, PTL DEF Spec

\* Who takes the caller of a call down, and what still rings then.
LEMMA UnaskedKeepsCaller ==
    ASSUME MaxFaults = 0, CallInv, NoneRings, EndsAlike, DevicesKnown, GoneIsGone, HandedOn,
           NEW k \in Caller, chan[k] = "up", chan'[k] = "over", UnaskedStep
    PROVE  PartyHangup(k) \/ index \cap RingingDevs = {}
  <1> SUFFICES ASSUME index \cap RingingDevs # {} PROVE PartyHangup(k)
    OBVIOUS
  <1> "worker" \in Actor /\ row \in Row /\ k \in Chan /\ TypeOK /\ BridgeInv /\ JourneyInv
    BY DEF CallInv, Actor, TypeOK, Chan
  <1>0. ~UNCHANGED chan
    OBVIOUS
  <1>1. CASE People
    <2>1. PICK c \in Chan : Answer(c) \/ RingOut(c) \/ PartyHangup(c)
      BY <1>1 DEF People
    <2>2. c = k
      BY <2>1 DEF Answer, RingOut, PartyHangup, TypeOK
    <2>3. QED
      BY <2>1, <2>2 DEF Answer, RingOut
  <1>2. CASE Event
    <2>1. PICK c \in Chan : Straggler(c) \/ TalkerGone(c)
      BY <1>0, <1>2 DEF Event, EventIgnored, LegStarted, LegGone
    <2>2. CASE Straggler(c)
      <3>1. "up" \in inbox[c] /\ TakeDown({c}, Rest(c, "up"))
        BY <2>2 DEF Straggler, Took, HangUp
      <3>2. k \notin {c}
        BY <3>1 DEF GoneIsGone
      <3>3. QED
        BY <3>1, <3>2, TakenOver
    <2>3. CASE TalkerGone(c)
      <3>1. /\ TakeDown({IF EmployeeLeg(c) THEN row.far ELSE row.emp} \ {None, c}, Rest(c, "destroyed"))
            /\ ~Unanswered(c)
        BY <2>3 DEF TalkerGone, HangUp
      <3>2. k \in {IF EmployeeLeg(c) THEN row.far ELSE row.emp} \ {None, c}
        BY <3>1, TakenOver
      <3>3. k # row.emp
        BY ChannelsAssumption DEF ChannelsAssumption, JourneyInv, SidesHold, Chan
      <3>4. row.answered
        BY <3>1, <3>2, <3>3 DEF Unanswered
      <3>5. QED
        BY <3>4 DEF NoneRings
    <2>4. QED
      BY <2>1, <2>2, <2>3
  <1>3. CASE CallerLeaves
    <2>1. PICK c \in Chan : CustomerLeg(c) /\ UnansweredEnds(c)
      BY <1>3 DEF CallerLeaves
    <2>2. TakeDown(Owned(row, c), Rest(c, "destroyed")) /\ OthersOf(c) = {} /\ Found(c)
      BY <2>1 DEF UnansweredEnds, LastLegGone, HangUp, TypeOK
    <2>3. k \in Owned(row, c)
      BY <2>2, TakenOver
    <2>4. k # c
      BY <2>3 DEF Owned
    <2>5. row.far = k
      <3>1. row.far # None
        BY <2>2 DEF Found, EndsAlike
      <3>2. QED
        BY <3>1, OneCallerAssumption DEF OneCallerAssumption, BridgeInv, RowFits
    <2>6. k \in FarLegs(row, c)
      BY <2>4, <2>5 DEF FarLegs, Live
    <2>7. QED
      BY <2>1, <2>2, <2>6 DEF OthersOf, CustomerLeg
  <1>4. CASE Bridging
    <2>1. W.at \in AnsweringPlaces
      BY <1>4 DEF Bridging, BridgeNotNeeded, BridgeNeeded, BuildBridge, StoreBridge, BridgeFails,
                  StoreBridgeFailed, ReadAnswer, StoreAnswer, At, W, AnsweringPlaces
    <2>2. QED
      BY <2>1 DEF NoneRings
  <1>5. CASE Finalize("worker")
    <2>1. W.at = "fin"
      BY <1>0, <1>5, NeverSkips DEF Finalize, FinalizeTearsDown, FinalizeStores, At, W, asterisk
    <2>2. QED
      BY <2>1 DEF NoneRings
  <1>6. CASE Disconnect \/ ReadyExpires \/ Connect
    BY <1>0, <1>6 DEF Disconnect, ReadyExpires, Connect, asterisk
  <1>7. QED
    BY <1>1, <1>2, <1>3, <1>4, <1>5, <1>6 DEF UnaskedStep

LEMMA RestKeepsCaller ==
    ASSUME CallInv, NoneRings, EndsAlike, DevicesKnown,
           NEW k \in Caller, chan[k] = "up", chan'[k] = "over",
           Arrival \/ Answering \/ NoAnswering \/ UNCHANGED vars
    PROVE  index \cap RingingDevs = {}
  <1> SUFFICES ASSUME index \cap RingingDevs # {} PROVE FALSE
    OBVIOUS
  <1> "worker" \in Actor /\ row \in Row /\ k \in Chan /\ TypeOK /\ BridgeInv /\ JourneyInv
    BY DEF CallInv, Actor, TypeOK, Chan
  <1> Emp \subseteq Chan /\ Far \subseteq Chan /\ k \notin Emp \cup Far
    BY ChannelsAssumption DEF ChannelsAssumption, Chan
  <1>0. ~UNCHANGED chan /\ \A c \in Chan : chan' # [chan EXCEPT ![c] = "ringing"]
    BY DEF TypeOK
  <1>1. CASE UNCHANGED vars
    BY <1>0, <1>1 DEF vars, asterisk
  <1>2. ASSUME NEW c \in Caller, RefuseCaller(c) PROVE FALSE
    <2>1. row.far = None
      BY <1>2, OneCallerAssumption
         DEF OneCallerAssumption, RefuseCaller, Arrives, Found, BridgeInv, RowFits, EndsAlike
    <2>2. RingingDevs = {}
      BY <2>1 DEF JourneyInv, Undisturbed, Absent, RingingDevs
    <2>3. QED
      BY <2>2
  <1>3. ASSUME NEW l \in Emp, DialDesk(l) \/ DialBackup(l) PROVE FALSE
    <2>1. Originate(l) /\ W.at \in {"dialDesks", "dialBackups"}
      BY <1>3 DEF DialDesk, DialBackup, At, W
    <2>2. QED
      BY <1>0, <2>1, OriginateRings
  <1>4. CASE CancelDesks
    <2>1. TakeDown(Legs(row) \ {W.ch}, inbox)
      BY <1>4 DEF CancelDesks, HangUp, W
    <2>2. k \notin Legs(row)
      BY ChannelsAssumption DEF ChannelsAssumption, JourneyInv, SidesHold, Legs, Chan
    <2>3. QED
      BY <2>1, <2>2, TakenOver
  <1>5. CASE Missed
    <2>1. W.at = "noAnswer"
      BY <1>5 DEF Missed, NoAnswer, At, W
    <2>2. RingingDevs = {}
      BY <2>1 DEF DevicesKnown, Devs, Live, RingingDevs
    <2>3. QED
      BY <2>2
  <1>6. CASE ToVoicemail
    <2>1. chan'[k] # "over"
      BY <1>6 DEF ToVoicemail, TypeOK
    <2>2. QED
      BY <2>1
  <1>7. CASE \E f \in Far : Forward(f)
    BY <1>0, <1>7 DEF Forward
  <1>8. CASE \/ \E c \in Caller : AdmitCaller(c)
             \/ StoreDesks \/ NoDeskRings \/ StoreDesk
             \/ \E c \in Chan : DeskAnswers(c) \/ NobodyAnswers(c)
             \/ EndedMeanwhile \/ RingBackups \/ SkipBackups \/ StoreBackups \/ StoreForward
    BY <1>0, <1>8
       DEF AdmitCaller, StoreDesks, NoDeskRings, StoreDesk, DeskAnswers, NobodyAnswers, EndedMeanwhile,
           RingBackups, SkipBackups, StoreBackups, StoreForward, asterisk
  <1>9. QED
    BY <1>1, <1>2, <1>3, <1>4, <1>5, <1>6, <1>7, <1>8 DEF Arrival, Answering, NoAnswering

LEMMA StepKeepsCaller ==
    ASSUME MaxFaults = 0, MaxCrashes = 0, CallInv, RingInv, [Next]_vars,
           NEW k \in Caller, chan[k] = "up", chan'[k] = "over", NoRequest
    PROVE  \/ PartyHangup(k) \/ \E h \in Hanger : HangupRequest(h)
           \/ index \cap RingingDevs = {}
  <1>1. NoneRings /\ EndsAlike /\ DevicesKnown /\ GoneIsGone /\ HandedOn
    BY DEF RingInv, CallInv, ClearInv
  <1>2. \/ People \/ Event \/ CallerLeaves \/ Bridging \/ Ending \/ Disconnect \/ ReadyExpires \/ Connect
        \/ Arrival \/ Answering \/ NoAnswering \/ UNCHANGED vars
    BY CommonUndisturbed, NamedOnly DEF Next, CallInv
  <1>3. CASE Arrival \/ Answering \/ NoAnswering \/ UNCHANGED vars
    BY <1>1, <1>3, RestKeepsCaller
  <1>4. CASE Ending /\ ~\E h \in Hanger : HangupRequest(h)
    <2>1. PICK p \in Hanger \cup {"worker"} : Finalize(p)
      BY <1>4 DEF Ending
    <2>2. p = "worker"
      BY <2>1 DEF NoRequest, At, Finalize, FinalizeSkips, FinalizeTearsDown, FinalizeStores
    <2>3. UnaskedStep
      BY <2>1, <2>2 DEF UnaskedStep
    <2>4. QED
      BY <1>1, <2>3, UnaskedKeepsCaller
  <1>5. CASE People \/ Event \/ CallerLeaves \/ Bridging \/ Disconnect \/ ReadyExpires \/ Connect
    BY <1>1, <1>5, UnaskedKeepsCaller DEF UnaskedStep
  <1>6. QED
    BY <1>2, <1>3, <1>4, <1>5

\* A waiting caller is let go by themselves, by a request to hang up, or when
\* no device rings that the worker could still hear answer.
THEOREM WaitingCallerKept == ASSUME MaxFaults = 0, MaxCrashes = 0 PROVE Spec => CallerKept
  <1>1. CallInv /\ RingInv /\ [Next]_vars =>
          [\A k \in Caller : chan[k] = "up" /\ chan'[k] = "over" /\ k \notin mix /\ NoRequest =>
             \/ PartyHangup(k) \/ \E h \in Hanger : HangupRequest(h)
             \/ index \cap {c \in Emp \cup Far : chan[c] = "ringing"} = {}]_vars
    BY StepKeepsCaller DEF RingingDevs
  <1>2. QED
    BY <1>1, RingHolds, PTL DEF Spec, CallerKept
=============================================================================
