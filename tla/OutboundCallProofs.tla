------------------------- MODULE OutboundCallProofs -------------------------
(***************************************************************************)
(* Proofs about OutboundCall, for every set of endpoints, every number of  *)
(* hangup requests and every bound on faults, crashes and lost sockets;    *)
(* the last theorem, TalkersGoOn, allows one fault, and says why not two.  *)
(***************************************************************************)
EXTENDS OutboundCall, CallControlProofs, FiniteSetTheorems

----------------------------------------------------------------------------
(* Types. *)

LEMMA StarterTypes == TypeOK /\ Starter => TypeOK'
  <1> SUFFICES ASSUME TypeOK, Starter PROVE TypeOK'
    OBVIOUS
  <1> USE ChannelsAssumption, HeadsAssumption, BoundsAssumption, BlankType
  <1> "starter" \in Actor
    BY DEF Actor
  <1> Emp \subseteq Chan
    BY DEF Chan
  <1>1. CASE Create
    BY <1>1, JobTypes DEF TypeOK, Create, Write, Row, Blank, Status, Place, asterisk, link, bounds, dial
  <1>2. CASE \E l \in Emp : DialLeg(l)
    BY <1>2 DEF TypeOK, DialLeg, link, ChanState
  <1>3. CASE ReadNoLegs
    BY <1>3, JobTypes, FinishTypes DEF TypeOK, ReadNoLegs, asterisk, link, bounds, dial, Place
  <1>4. CASE RecordLegs
    BY <1>4, JobTypes, RowTypes DEF TypeOK, RecordLegs, Write, asterisk, link, bounds, dial, Place
  <1>5. CASE ReadStatus
    BY <1>5, JobTypes, FinishTypes DEF TypeOK, ReadStatus, asterisk, link, bounds, dial, Place
  <1>6. QED
    BY <1>1, <1>2, <1>3, <1>4, <1>5 DEF Starter
LEMMA WorkerTypes == TypeOK /\ Worker => TypeOK'
  <1> SUFFICES ASSUME TypeOK, Worker PROVE TypeOK'
    OBVIOUS
  <1> USE BlankType, RestType, ChannelsAssumption, HeadsAssumption, BoundsAssumption
  <1> "worker" \in Actor
    BY DEF Actor
  <1> HeadFar \in Chan
    BY DEF Chan
  <1> job["worker"].ch \in Chan \cup {None} /\ job["worker"].call \in Row
    BY DEF TypeOK, Job
  <1> job["worker"].call.emp \in Chan \cup {None}
    BY DEF Row
  <1>1. ASSUME NEW c \in Chan, EmployeeAnswers(c) PROVE TypeOK'
    BY <1>1, JobTypes, HangUpTypes DEF TypeOK, EmployeeAnswers, Place, link, bounds, dial
  <1>2. ASSUME NEW c \in Chan, EmployeeAgain(c) PROVE TypeOK'
    BY <1>2 DEF TypeOK, EmployeeAgain, link, bounds, dial
  <1>3. ASSUME NEW c \in Chan, FarAnswers(c) PROVE TypeOK'
    BY <1>3, JobTypes, HangUpTypes DEF TypeOK, FarAnswers, Place, link, bounds, dial
  <1>4. CASE StoreEmployee
    BY <1>4, JobTypes, RowTypes DEF TypeOK, StoreEmployee, Status, Place, asterisk, link, bounds, dial
  <1>5. CASE NotInService
    BY <1>5, JobTypes, RowTypes
       DEF TypeOK, NotInService, Write, Tell, Status, Terminal, Place, asterisk, link, bounds, dial
  <1>6. CASE RefuseEmployee
    BY <1>6, FinishTypes, HangUpTypes DEF TypeOK, RefuseEmployee, link, bounds, dial
  <1>7. CASE PrepareFar
    BY <1>7, JobTypes, RowTypes DEF TypeOK, PrepareFar, Write, Status, Place, asterisk, link, bounds, dial
  <1>8. CASE DialFar
    BY <1>8, JobTypes, FinishTypes DEF TypeOK, DialFar, ChanState, Place, link, dial
  <1>9. CASE HangupRefused
    BY <1>9, JobTypes, HangUpTypes DEF TypeOK, HangupRefused, Place, link, bounds, dial
  <1>10. CASE StoreFar
    BY <1>10, JobTypes, RowTypes DEF TypeOK, StoreFar, Write, Place, asterisk, link, bounds, dial
  <1>11. QED
    BY <1>1, <1>2, <1>3, <1>4, <1>5, <1>6, <1>7, <1>8, <1>9, <1>10 DEF Worker, StartCustomer

LEMMA InitTypes == Init => TypeOK
  <1> SUFFICES ASSUME Init PROVE TypeOK
    OBVIOUS
  <1>1. \A at \in {"idle", "ask", "start"} : [Idle EXCEPT !.at = at] \in Job
    BY BlankType DEF Job, Idle, Place
  <1>2. Idle \in Job
    BY BlankType DEF Job, Idle, Place
  <1>3. job \in [Actor -> Job]
    BY <1>1, <1>2 DEF Init, InitWith
  <1>4. inbox \in [Chan -> SUBSET EventType] /\ chan \in [Chan -> ChanState]
    BY DEF Init, InitWith, EventType, ChanState
  <1>5. /\ row \in Row /\ told \subseteq Terminal /\ mix \subseteq Chan /\ index \subseteq Chan
        /\ busy \subseteq Host /\ todo \subseteq Emp /\ dialled \subseteq Emp
        /\ open \in BOOLEAN /\ conn \in BOOLEAN /\ ready \in BOOLEAN
    BY BlankType DEF Init, InitWith
  <1>6. /\ faults \in 0 .. MaxFaults /\ crashes \in 0 .. MaxCrashes /\ drops \in 0 .. MaxDrops
    BY BoundsAssumption DEF Init, InitWith, BoundsAssumption
  <1>7. QED
    BY <1>3, <1>4, <1>5, <1>6 DEF TypeOK

LEMMA StepTypes == TypeOK /\ [Next]_vars => TypeOK'
  BY StarterTypes, WorkerTypes, CommonTypes, UnansweredEndsTypes, StutterTypes DEF Next, Ends

\* Every value the code keeps is of the type its column or field has.
THEOREM TypeCorrect == Spec => []TypeOK
  BY InitTypes, StepTypes, PTL DEF Spec
----------------------------------------------------------------------------
(* The far side is dialled once, and only after an employee picked up.     *)
(*                                                                         *)
(* Most steps are calm: they create no channel, report no answer that did  *)
(* not happen, leave the columns that name channels alone and do not move  *)
(* the worker into one of the places where it dials.  Calm steps preserve  *)
(* DialInv together; the others are taken one by one.                      *)

DialPlaces == {"employee", "dial", "dialFar", "far"}

ChanCalm ==
    \A c \in Chan :
       /\ chan'[c] = "absent" <=> chan[c] = "absent"
       /\ chan'[c] = "ringing" => chan[c] = "ringing"
       /\ c \in PickedUp => c \in PickedUp'
       /\ "up" \in inbox'[c] => "up" \in inbox[c] \/ c \in PickedUp'

JobCalm ==
    /\ W' = W \/ W'.at \notin DialPlaces
    /\ job'["starter"].at = "start" => job["starter"].at = "start"

RowCalm == row'.emp = row.emp /\ row'.legs = row.legs /\ row'.far = row.far

Calm == ChanCalm /\ JobCalm /\ RowCalm /\ todo' = todo

\* A calm step preserves the invariant.
LEMMA CalmKeeps == TypeOK /\ DialInv /\ Calm => DialInv'
  <1> SUFFICES ASSUME TypeOK, DialInv, Calm PROVE DialInv'
    OBVIOUS
  <1> Emp \subseteq Chan /\ Far \subseteq Chan
    BY DEF Chan
  <1>1. RowNamesSides'
    BY DEF DialInv, RowNamesSides, Calm, RowCalm
  <1>2. AnswersAreReal'
    BY DEF DialInv, AnswersAreReal, Calm, ChanCalm, JobCalm, DialPlaces
  <1>3. FarNamedFirst'
    BY DEF DialInv, FarNamedFirst, Calm, ChanCalm, JobCalm, RowCalm, DialPlaces
  <1>4. UndialledSilent'
    BY DEF DialInv, UndialledSilent, Calm, ChanCalm, TypeOK
  <1>5. EmployeeFirst'
    BY DEF DialInv, EmployeeFirst, Calm, ChanCalm
  <1>6. QED
    BY <1>1, <1>2, <1>3, <1>4, <1>5 DEF DialInv

LEMMA GotoCalm ==
    ASSUME TypeOK, NEW p \in Actor, NEW at \in Place \ (DialPlaces \cup {"start"}),
           NEW c, NEW r, Goto(p, at, c, r)
    PROVE  JobCalm
  BY DEF TypeOK, Goto, JobCalm, W, Actor

LEMMA FinishCalm ==
    ASSUME TypeOK, NEW p \in Actor, Finish(p)
    PROVE  JobCalm
  BY DEF TypeOK, Finish, Idle, JobCalm, W, Actor, DialPlaces

LEMMA JobSame == UNCHANGED job => JobCalm
  BY DEF JobCalm, W

\* Hanging channels up creates none and reports no answer.
LEMMA TakeDownCalm ==
    ASSUME TypeOK, NEW S, NEW box \in [Chan -> SUBSET EventType], TakeDown(S, box),
           \A c \in Chan : box[c] \subseteq inbox[c]
    PROVE  ChanCalm
  <1> SUFFICES ASSUME NEW c \in Chan
               PROVE  /\ chan'[c] = "absent" <=> chan[c] = "absent"
                      /\ chan'[c] = "ringing" => chan[c] = "ringing"
                      /\ c \in PickedUp => c \in PickedUp'
                      /\ "up" \in inbox'[c] => "up" \in inbox[c] \/ c \in PickedUp'
    BY DEF ChanCalm
  <1>1. chan'[c] = IF c \notin S \cap Live THEN chan[c]
                   ELSE IF chan[c] = "ringing" THEN "missed" ELSE "over"
    BY DEF TakeDown
  <1>2. c \in Live => chan[c] \in {"ringing", "up", "mailbox"}
    BY DEF Live
  <1>3. inbox'[c] \subseteq box[c] \cup {"destroyed"}
    BY DEF TakeDown
  <1>4. QED
    BY <1>1, <1>2, <1>3 DEF PickedUp

LEMMA HangUpCalm ==
    ASSUME TypeOK, NEW S, NEW box \in [Chan -> SUBSET EventType], HangUp(S, box),
           \A c \in Chan : box[c] \subseteq inbox[c]
    PROVE  ChanCalm
  BY TakeDownCalm DEF HangUp

LEMMA RestCalm ==
    ASSUME TypeOK, NEW c \in Chan, NEW e
    PROVE  \A d \in Chan : Rest(c, e)[d] \subseteq inbox[d]
  BY DEF TypeOK, Rest

LEMMA ChanSame == UNCHANGED <<chan, inbox>> => ChanCalm
  BY DEF ChanCalm, PickedUp

LEMMA ChanRest ==
    ASSUME TypeOK, NEW c \in Chan, NEW e, UNCHANGED chan, inbox' = Rest(c, e)
    PROVE  ChanCalm
  BY RestCalm DEF ChanCalm, PickedUp

LEMMA PeopleCalm == TypeOK /\ People => Calm
  <1> SUFFICES ASSUME TypeOK, NEW c \in Chan, Answer(c) \/ RingOut(c) \/ PartyHangup(c)
               PROVE  Calm
    BY DEF People
  <1>1. UNCHANGED <<row, job, todo>>
    BY DEF Answer, RingOut, PartyHangup, dial
  <1>2. ChanCalm
    <2>1. CASE Answer(c)
      BY <2>1 DEF TypeOK, Answer, Emit, ChanCalm, PickedUp
    <2>2. CASE RingOut(c)
      BY <2>2 DEF TypeOK, RingOut, Emit, ChanCalm, PickedUp
    <2>3. CASE PartyHangup(c)
      BY <2>3 DEF TypeOK, PartyHangup, Emit, ChanCalm, PickedUp
    <2>4. QED
      BY <2>1, <2>2, <2>3
  <1>3. QED
    BY <1>1, <1>2, JobSame DEF Calm, RowCalm

LEMMA EventCalm == TypeOK /\ (Event \/ Ends) => Calm
  <1> SUFFICES ASSUME TypeOK, NEW c \in Chan,
                      \/ \E e \in EventType : EventIgnored(c, e)
                      \/ LegStarted(c) \/ Straggler(c) \/ LegGone(c) \/ TalkerGone(c)
                      \/ UnansweredEnds(c)
               PROVE  Calm
    BY DEF Event, Ends
  <1> USE RestType, RestCalm
  <1> "worker" \in Actor
    BY DEF Actor
  <1>1. UNCHANGED <<row, todo>>
    BY DEF EventIgnored, LegStarted, Straggler, LegGone, TalkerGone, UnansweredEnds, dial
  <1>2. JobCalm
    BY GotoCalm, JobSame
       DEF EventIgnored, LegStarted, Straggler, LegGone, TalkerGone, UnansweredEnds, Place, DialPlaces
  <1>3. ChanCalm
    <2>1. CASE \E e \in EventType : EventIgnored(c, e)
      BY <2>1, ChanRest DEF EventIgnored
    <2>2. CASE LegStarted(c)
      BY <2>2, ChanRest DEF LegStarted
    <2>3. CASE Straggler(c)
      BY <2>3, HangUpCalm DEF Straggler
    <2>4. CASE LegGone(c)
      BY <2>4, ChanRest DEF LegGone
    <2>5. CASE TalkerGone(c)
      BY <2>5, HangUpCalm DEF TalkerGone
    <2>6. CASE UnansweredEnds(c)
      BY <2>6, HangUpCalm DEF UnansweredEnds
    <2>7. QED
      BY <2>1, <2>2, <2>3, <2>4, <2>5, <2>6
  <1>4. QED
    BY <1>1, <1>2, <1>3 DEF Calm, RowCalm

LEMMA BridgingCalm == TypeOK /\ Bridging => Calm
  <1> SUFFICES ASSUME TypeOK, Bridging PROVE Calm
    OBVIOUS
  <1> "worker" \in Actor
    BY DEF Actor
  <1>1. todo' = todo
    BY DEF Bridging, BridgeNotNeeded, BuildBridge, StoreBridge, BridgeFails, StoreBridgeFailed,
           ReadAnswer, StoreAnswer, dial
  <1>2. JobCalm
    BY GotoCalm, FinishCalm
       DEF Bridging, BridgeNotNeeded, BuildBridge, StoreBridge, BridgeFails, StoreBridgeFailed,
           ReadAnswer, StoreAnswer, Place, DialPlaces
  <1>3. RowCalm
    BY DEF Bridging, BridgeNotNeeded, BuildBridge, StoreBridge, BridgeFails, StoreBridgeFailed,
           ReadAnswer, StoreAnswer, Write, RowCalm, TypeOK, Row
  <1>4. ChanCalm
    <2>1. CASE BridgeFails
      BY <2>1, TakeDownCalm DEF BridgeFails, TypeOK
    <2>2. CASE ~BridgeFails
      BY <2>2, ChanSame
         DEF Bridging, BridgeNotNeeded, BuildBridge, StoreBridge, StoreBridgeFailed,
             ReadAnswer, StoreAnswer, asterisk
    <2>3. QED
      BY <2>1, <2>2
  <1>5. QED
    BY <1>1, <1>2, <1>3, <1>4 DEF Calm

LEMMA EndingCalm == TypeOK /\ Ending => Calm
  <1> SUFFICES ASSUME TypeOK, NEW p \in Hanger \cup {"worker"},
                      Finalize(p) \/ (p \in Hanger /\ HangupRequest(p))
               PROVE  Calm
    BY DEF Ending
  <1> p \in Actor
    BY DEF Actor
  <1>1. todo' = todo
    BY DEF Finalize, FinalizeSkips, FinalizeTearsDown, FinalizeStores, HangupRequest, dial
  <1>2. JobCalm
    BY GotoCalm, FinishCalm
       DEF Finalize, FinalizeSkips, FinalizeTearsDown, FinalizeStores, HangupRequest, Place, DialPlaces
  <1>3. RowCalm
    BY DEF Finalize, FinalizeSkips, FinalizeTearsDown, FinalizeStores, HangupRequest, Write,
           RowCalm, TypeOK, Row
  <1>4. ChanCalm
    <2>1. CASE FinalizeTearsDown(p)
      BY <2>1, TakeDownCalm DEF FinalizeTearsDown, TypeOK
    <2>2. CASE HangupRequest(p)
      BY <2>2, HangUpCalm DEF HangupRequest, TypeOK
    <2>3. CASE FinalizeSkips(p) \/ FinalizeStores(p)
      BY <2>3, ChanSame DEF FinalizeSkips, FinalizeStores, asterisk
    <2>4. QED
      BY <2>1, <2>2, <2>3 DEF Finalize
  <1>5. QED
    BY <1>1, <1>2, <1>3, <1>4 DEF Calm

LEMMA TroubleCalm == TypeOK /\ (Trouble \/ Connect \/ RecoverGivesUp) => Calm
  <1> SUFFICES ASSUME TypeOK, Trouble \/ Connect \/ RecoverGivesUp PROVE Calm
    OBVIOUS
  <1> "worker" \in Actor
    BY DEF Actor
  <1>1. UNCHANGED <<row, todo>>
    BY DEF Trouble, Crash, Disconnect, ReadyExpires, Aborts, Connect, RecoverGivesUp, dial
  <1>2. JobCalm
    BY GotoCalm, FinishCalm, JobSame
       DEF Trouble, Crash, Disconnect, ReadyExpires, Aborts, Connect, RecoverGivesUp, Place, DialPlaces
  <1>3. ChanCalm
    <2>1. UNCHANGED chan /\ \A c \in Chan : inbox'[c] \subseteq inbox[c]
      BY DEF Trouble, Crash, Disconnect, ReadyExpires, Aborts, Connect, RecoverGivesUp, asterisk
    <2>2. QED
      BY <2>1 DEF ChanCalm, PickedUp
  <1>4. QED
    BY <1>1, <1>2, <1>3 DEF Calm, RowCalm

LEMMA StoreCalm ==
    ASSUME TypeOK, NEW p \in {"starter", "worker"}, StoreRinging(p) \/ StoreFailed(p)
    PROVE  Calm
  <1>1. JobCalm
    BY FinishCalm DEF StoreRinging, StoreFailed, Actor
  <1>2. RowCalm
    BY DEF StoreRinging, StoreFailed, Write, RowCalm, TypeOK, Row
  <1>3. ChanCalm /\ todo' = todo
    BY ChanSame DEF StoreRinging, StoreFailed, asterisk, dial
  <1>4. QED
    BY <1>1, <1>2, <1>3 DEF Calm

\* Every step the two directions share is calm, but for recovery at boot.
LEMMA CommonCalm == TypeOK /\ Common => Calm \/ Recover
  BY PeopleCalm, EventCalm, BridgingCalm, EndingCalm, TroubleCalm, StoreCalm DEF Common, Recovery

FarOnce == \A f \in Far : chan[f] # "absent" /\ chan'[f] = "ringing" => chan[f] = "ringing"

LEMMA CalmFarOnce == Calm => FarOnce
  BY DEF Calm, ChanCalm, FarOnce, Chan

\* Recovery dials for an employee channel it saw up, on the row it just read.
LEMMA RecoverKeeps == TypeOK /\ DialInv /\ Recover => DialInv' /\ FarOnce
  <1> SUFFICES ASSUME TypeOK, DialInv, Recover PROVE DialInv' /\ FarOnce
    OBVIOUS
  <1> USE ChannelsAssumption DEF ChannelsAssumption
  <1>1. UNCHANGED <<row, chan, inbox, todo>> /\ job'["starter"] = job["starter"]
    BY DEF Recover, asterisk, dial, Goto, Finish, TypeOK, Actor
  <1>2. \/ W'.at \notin DialPlaces
        \/ W' = [at |-> "dial", ch |-> None, call |-> row] /\ row.emp \in Up
    BY DEF Recover, Goto, Finish, Idle, TypeOK, Actor, W, DialPlaces, RecoverDials
  <1>3. row.emp \in Up => row.emp \in Emp \cap PickedUp
    BY DEF DialInv, RowNamesSides, Up, PickedUp
  <1>4. RowNamesSides' /\ UndialledSilent' /\ EmployeeFirst'
    BY <1>1 DEF DialInv, RowNamesSides, UndialledSilent, EmployeeFirst, PickedUp
  <1>5. AnswersAreReal'
    BY <1>1, <1>2, <1>3 DEF DialInv, AnswersAreReal, PickedUp, DialPlaces
  <1>6. FarNamedFirst'
    BY <1>1, <1>2 DEF DialInv, FarNamedFirst, DialPlaces
  <1>7. QED
    BY <1>1, <1>4, <1>5, <1>6 DEF DialInv, FarOnce

LEMMA StarterKeeps == TypeOK /\ DialInv /\ Starter => DialInv' /\ FarOnce
  <1> SUFFICES ASSUME TypeOK, DialInv, Starter PROVE DialInv' /\ FarOnce
    OBVIOUS
  <1> USE ChannelsAssumption, HeadsAssumption DEF ChannelsAssumption, HeadsAssumption
  <1> "starter" \in Actor /\ "worker" \in Actor
    BY DEF Actor
  <1> Emp \subseteq Chan /\ Far \subseteq Chan
    BY DEF Chan
  <1>1. CASE Create
    <2>1. /\ UNCHANGED <<chan, inbox, todo>> /\ W' = W
          /\ row'.emp = FirstEmp /\ row'.legs = {} /\ row'.far = None
          /\ job["starter"].at = "start" /\ job'["starter"].at = "dialLegs"
      BY <1>1 DEF Create, Write, Blank, Goto, At, asterisk, dial, TypeOK, W
    <2>2. W.at \notin DialPlaces
      <3>1. \A c \in Emp \cup Far : c \notin PickedUp
        BY <2>1 DEF DialInv, FarNamedFirst, PickedUp
      <3>2. QED
        BY <3>1 DEF DialInv, AnswersAreReal, DialPlaces
    <2>3. DialInv'
      BY <2>1, <2>2
         DEF DialInv, RowNamesSides, AnswersAreReal, FarNamedFirst, UndialledSilent, EmployeeFirst,
             PickedUp, DialPlaces
    <2>4. QED
      BY <2>1, <2>3 DEF FarOnce
  <1>2. ASSUME NEW l \in Emp, DialLeg(l) PROVE DialInv' /\ FarOnce
    <2>1. /\ chan' = chan \/ chan' = [chan EXCEPT ![l] = "ringing"]
          /\ UNCHANGED <<row, inbox, job>> /\ todo' = todo \ {l} /\ chan[l] = "absent"
          /\ job["starter"].at # "start"
      BY <1>2 DEF DialLeg, At, DialInv, UndialledSilent
    <2>2. (\A f \in Far : chan'[f] = chan[f]) /\ PickedUp' = PickedUp
      BY <2>1 DEF PickedUp, TypeOK
    <2>3. RowNamesSides' /\ AnswersAreReal'
      BY <2>1, <2>2 DEF DialInv, RowNamesSides, AnswersAreReal, W
    <2>4. FarNamedFirst' /\ EmployeeFirst'
      BY <2>1, <2>2 DEF DialInv, FarNamedFirst, EmployeeFirst, W
    <2>5. UndialledSilent'
      BY <2>1 DEF DialInv, UndialledSilent, TypeOK
    <2>6. QED
      BY <2>2, <2>3, <2>4, <2>5 DEF DialInv, FarOnce
  <1>3. CASE ReadNoLegs \/ ReadStatus
    <2>1. JobCalm
      BY <1>3, GotoCalm, FinishCalm DEF ReadNoLegs, ReadStatus, Place, DialPlaces
    <2>2. Calm
      BY <1>3, <2>1, ChanSame DEF ReadNoLegs, ReadStatus, Calm, RowCalm, asterisk, dial
    <2>3. QED
      BY <2>2, CalmKeeps, CalmFarOnce
  <1>4. CASE RecordLegs
    <2>1. /\ UNCHANGED <<chan, inbox, todo>> /\ W' = W
          /\ row'.emp = row.emp /\ row'.legs = dialled /\ row'.far = row.far
          /\ job'["starter"].at = "read"
      BY <1>4 DEF RecordLegs, Write, Goto, asterisk, dial, TypeOK, Row, W
    <2>2. DialInv'
      BY <2>1 DEF TypeOK, DialInv, RowNamesSides, AnswersAreReal, FarNamedFirst, UndialledSilent,
                  EmployeeFirst, PickedUp
    <2>3. QED
      BY <2>1, <2>2 DEF FarOnce
  <1>5. QED
    BY <1>1, <1>2, <1>3, <1>4 DEF Starter

LEMMA WorkerKeeps == TypeOK /\ DialInv /\ Worker => DialInv' /\ FarOnce
  <1> SUFFICES ASSUME TypeOK, DialInv, Worker PROVE DialInv' /\ FarOnce
    OBVIOUS
  <1> USE ChannelsAssumption, HeadsAssumption DEF ChannelsAssumption, HeadsAssumption
  <1> "starter" \in Actor /\ "worker" \in Actor
    BY DEF Actor
  <1> Emp \subseteq Chan /\ Far \subseteq Chan
    BY DEF Chan
  <1>1. ASSUME NEW c \in Chan, EmployeeAnswers(c) PROVE DialInv' /\ FarOnce
    <2>1. c \in Emp \cap PickedUp
      BY <1>1 DEF EmployeeAnswers, EmployeeUp, Took, Legs, DialInv, RowNamesSides, AnswersAreReal
    <2>2. ChanCalm
      BY <1>1, HangUpCalm, RestType, RestCalm DEF EmployeeAnswers
    <2>3. /\ W' = [at |-> "employee", ch |-> c, call |-> Blank] /\ job'["starter"] = job["starter"]
          /\ UNCHANGED <<row, todo>>
      BY <1>1 DEF EmployeeAnswers, Goto, TypeOK, W, dial
    <2>4. RowNamesSides' /\ UndialledSilent' /\ EmployeeFirst'
      BY <2>2, <2>3 DEF DialInv, RowNamesSides, UndialledSilent, EmployeeFirst, ChanCalm, TypeOK
    <2>5. AnswersAreReal' /\ FarNamedFirst'
      BY <2>1, <2>2, <2>3 DEF DialInv, AnswersAreReal, FarNamedFirst, ChanCalm
    <2>6. QED
      BY <2>2, <2>4, <2>5 DEF DialInv, FarOnce, ChanCalm
  <1>2. ASSUME NEW c \in Chan, EmployeeAgain(c) PROVE DialInv' /\ FarOnce
    <2>1. Calm
      BY <1>2, ChanRest, JobSame DEF EmployeeAgain, Calm, RowCalm, dial
    <2>2. QED
      BY <2>1, CalmKeeps, CalmFarOnce
  <1>3. ASSUME NEW c \in Chan, FarAnswers(c) PROVE DialInv' /\ FarOnce
    <2>1. c \in Far /\ c \in PickedUp
      BY <1>3 DEF FarAnswers, Took, DialInv, RowNamesSides, AnswersAreReal
    <2>2. ChanCalm
      BY <1>3, HangUpCalm, RestType, RestCalm DEF FarAnswers
    <2>3. /\ W' = [at |-> "far", ch |-> c, call |-> Blank] /\ job'["starter"] = job["starter"]
          /\ UNCHANGED <<row, todo>>
      BY <1>3 DEF FarAnswers, Goto, TypeOK, W, dial
    <2>4. RowNamesSides' /\ UndialledSilent' /\ EmployeeFirst'
      BY <2>2, <2>3 DEF DialInv, RowNamesSides, UndialledSilent, EmployeeFirst, ChanCalm, TypeOK
    <2>5. AnswersAreReal' /\ FarNamedFirst'
      BY <2>1, <2>2, <2>3 DEF DialInv, AnswersAreReal, FarNamedFirst, ChanCalm
    <2>6. QED
      BY <2>2, <2>4, <2>5 DEF DialInv, FarOnce, ChanCalm
  <1>4. CASE StoreEmployee
    <2>1. /\ UNCHANGED <<chan, inbox, todo>> /\ job'["starter"] = job["starter"]
          /\ W'.at = "dial" /\ W'.call = row' /\ W.at = "employee"
          /\ row'.emp = W.ch /\ row'.legs = row.legs /\ row'.far = row.far
      BY <1>4 DEF StoreEmployee, Goto, At, asterisk, dial, TypeOK, Row, W
    <2>2. DialInv'
      BY <2>1 DEF DialInv, RowNamesSides, AnswersAreReal, FarNamedFirst, UndialledSilent,
                  EmployeeFirst, PickedUp
    <2>3. QED
      BY <2>1, <2>2 DEF FarOnce
  <1>5. CASE NotInService \/ RefuseEmployee \/ HangupRefused
    <2>1. JobCalm /\ todo' = todo
      BY <1>5, GotoCalm, FinishCalm
         DEF NotInService, RefuseEmployee, HangupRefused, Place, DialPlaces, dial
    <2>2. RowCalm
      BY <1>5 DEF NotInService, RefuseEmployee, HangupRefused, Write, RowCalm, TypeOK, Row
    <2>3. ChanCalm
      BY <1>5, HangUpCalm, ChanSame DEF NotInService, RefuseEmployee, HangupRefused, asterisk, TypeOK
    <2>4. QED
      BY <2>1, <2>2, <2>3, CalmKeeps, CalmFarOnce DEF Calm
  <1>6. CASE PrepareFar
    <2>1. /\ UNCHANGED <<chan, inbox, todo>> /\ job'["starter"] = job["starter"]
          /\ W.at = "dial" /\ W.call.far = None
          /\ W'.at = "dialFar" /\ W'.ch = W.call.emp
          /\ row'.emp = row.emp /\ row'.legs = row.legs /\ row'.far = HeadFar
      BY <1>6 DEF PrepareFar, Dialling, Goto, Write, At, asterisk, dial, TypeOK, Row, W
    <2>2. \E e \in Emp : chan[e] # "absent"
      BY <2>1 DEF DialInv, AnswersAreReal, PickedUp
    <2>3. RowNamesSides' /\ UndialledSilent' /\ EmployeeFirst'
      BY <2>1 DEF DialInv, RowNamesSides, UndialledSilent, EmployeeFirst, PickedUp
    <2>4. AnswersAreReal' /\ FarNamedFirst'
      BY <2>1, <2>2 DEF DialInv, AnswersAreReal, FarNamedFirst, PickedUp
    <2>5. QED
      BY <2>1, <2>3, <2>4 DEF DialInv, FarOnce
  <1>7. CASE DialFar
    <2>1. /\ W.at = "dialFar" /\ W'.at \notin DialPlaces
          /\ UNCHANGED <<row, inbox, todo>> /\ job'["starter"] = job["starter"]
          /\ \A c \in Chan : chan'[c] # chan[c] => c \in Far
      BY <1>7 DEF DialFar, Goto, Finish, Idle, At, TypeOK, W, DialPlaces, dial
    <2>2. \A f \in Far : chan[f] = "absent"
      BY <2>1 DEF DialInv, FarNamedFirst
    <2>3. PickedUp \subseteq PickedUp'
      BY <2>1, <2>2 DEF PickedUp
    <2>4. RowNamesSides' /\ AnswersAreReal' /\ FarNamedFirst'
      BY <2>1, <2>3 DEF DialInv, RowNamesSides, AnswersAreReal, FarNamedFirst, DialPlaces
    <2>5. UndialledSilent' /\ EmployeeFirst'
      BY <2>1, <2>3 DEF DialInv, UndialledSilent, EmployeeFirst, AnswersAreReal, TypeOK
    <2>6. QED
      BY <2>2, <2>4, <2>5 DEF DialInv, FarOnce
  <1>8. CASE StoreFar
    <2>1. /\ UNCHANGED <<chan, inbox, todo>> /\ job'["starter"] = job["starter"]
          /\ W.at = "far" /\ W'.at = "bridge"
          /\ row'.emp = row.emp /\ row'.legs = row.legs /\ row'.far = W.ch
      BY <1>8 DEF StoreFar, Goto, Write, At, asterisk, dial, TypeOK, Row, W
    <2>2. W.ch \in Far \cap PickedUp /\ row.far # None
      BY <2>1 DEF DialInv, AnswersAreReal, FarNamedFirst, PickedUp
    <2>3. DialInv'
      BY <2>1, <2>2 DEF DialInv, RowNamesSides, AnswersAreReal, FarNamedFirst, UndialledSilent,
                        EmployeeFirst, PickedUp
    <2>4. QED
      BY <2>1, <2>3 DEF FarOnce
  <1>9. QED
    BY <1>1, <1>2, <1>3, <1>4, <1>5, <1>6, <1>7, <1>8 DEF Worker, StartCustomer

LEMMA StutterCalm == UNCHANGED vars => Calm
  BY ChanSame, JobSame DEF vars, asterisk, dial, Calm, RowCalm

LEMMA StepKeeps == TypeOK /\ DialInv /\ [Next]_vars => DialInv' /\ FarOnce
  BY StarterKeeps, WorkerKeeps, RecoverKeeps, CommonCalm, EventCalm, StutterCalm, CalmKeeps, CalmFarOnce
     DEF Next

LEMMA InitKeeps == Init => DialInv
  BY ChannelsAssumption, HeadsAssumption
     DEF ChannelsAssumption, HeadsAssumption, Init, InitWith, Blank, Idle, Actor, Chan, DialInv, W,
         RowNamesSides, AnswersAreReal, FarNamedFirst, UndialledSilent, EmployeeFirst

\* The invariant behind dialling holds in every state.
THEOREM DialInvariant == Spec => []DialInv
  BY TypeCorrect, InitKeeps, StepKeeps, PTL DEF Spec

\* A far channel exists only after an employee picked up, whatever the number
\* of devices, hangup requests, faults, crashes and recoveries.
THEOREM EmployeeComesFirst == Spec => []EmployeeFirst
  <1>1. DialInv => EmployeeFirst
    BY DEF DialInv
  <1>2. QED
    BY <1>1, DialInvariant, PTL

\* No far channel is originated a second time.
THEOREM FarIsDialedOnce == Spec => FarDialedOnce
  <1>1. TypeOK /\ DialInv /\ [Next]_vars =>
          [\A f \in Far : chan[f] # "absent" /\ chan'[f] = "ringing" => chan[f] = "ringing"]_vars
    BY StepKeeps DEF FarOnce
  <1>2. QED
    BY <1>1, TypeCorrect, DialInvariant, PTL DEF Spec, FarDialedOnce

----------------------------------------------------------------------------
(* Answered by both.  The row says "answered" only after the worker went    *)
(* through the places where it bridges, and "completed" only after a        *)
(* finalizer read a row that says "answered".  All of them are claims that  *)
(* the two parties the row names picked up.                                *)

BridgePlaces == {"bridge", "bridged", "bridgeFailed", "answer", "answered"}

RowClaims == row.answered \/ "completed" \in told

JobClaims ==
    \/ W.at \in BridgePlaces
    \/ \E p \in Actor : job[p].at = "finStore" /\ job[p].call.answered

BothPickedUp == {row.emp, row.far} \subseteq PickedUp

ClaimsAreTrue == RowClaims \/ JobClaims => BothPickedUp

\* The far side is named for an employee who picked up, and the worker dials
\* for the employee the row names.
FarNamedForAnswerer ==
    /\ row.far # None => row.emp \in PickedUp
    /\ W.at = "dial" => W.call.emp = row.emp

AnswerInv == ClaimsAreTrue /\ FarNamedForAnswerer

\* A calm step that makes no claim of its own.
Modest == Calm /\ (RowClaims' \/ JobClaims' => RowClaims \/ JobClaims)

LEMMA ModestKeeps == TypeOK /\ AnswerInv /\ Modest => AnswerInv'
  <1> SUFFICES ASSUME TypeOK, AnswerInv, Modest PROVE AnswerInv'
    OBVIOUS
  <1>1. PickedUp \subseteq PickedUp'
    BY DEF Modest, Calm, ChanCalm, PickedUp
  <1>2. row'.emp = row.emp /\ row'.far = row.far
    BY DEF Modest, Calm, RowCalm
  <1>3. ClaimsAreTrue'
    BY <1>1, <1>2 DEF AnswerInv, ClaimsAreTrue, BothPickedUp, Modest
  <1>4. W' = W \/ W'.at # "dial"
    BY DEF Modest, Calm, JobCalm, DialPlaces
  <1>5. FarNamedForAnswerer'
    BY <1>1, <1>2, <1>4 DEF AnswerInv, FarNamedForAnswerer
  <1>6. QED
    BY <1>3, <1>5 DEF AnswerInv

\* An actor that goes anywhere else, or finishes, claims nothing.
LEMMA GotoModest ==
    ASSUME TypeOK, NEW p \in Actor, NEW at \in Place \ (BridgePlaces \cup {"finStore"}),
           NEW c, NEW r, Goto(p, at, c, r)
    PROVE  JobClaims' => JobClaims
  <1>1. \A q \in Actor : job'[q] = job[q] \/ job'[q].at = at
    BY DEF TypeOK, Goto
  <1>2. "worker" \in Actor
    BY DEF Actor
  <1>3. QED
    BY <1>1, <1>2 DEF JobClaims, W

LEMMA FinishModest ==
    ASSUME TypeOK, NEW p \in Actor, Finish(p)
    PROVE  JobClaims' => JobClaims
  <1>1. \A q \in Actor : job'[q] = job[q] \/ job'[q].at = "idle"
    BY DEF TypeOK, Finish, Idle
  <1>2. "worker" \in Actor
    BY DEF Actor
  <1>3. QED
    BY <1>1, <1>2 DEF JobClaims, W, BridgePlaces

\* The worker already in a bridging place claims the answer, wherever it goes.
LEMMA BridgingClaims ==
    W.at \in BridgePlaces => JobClaims
  BY DEF JobClaims

LEMMA JobRowSame ==
    /\ UNCHANGED job => (JobClaims' => JobClaims)
    /\ UNCHANGED <<row, told>> => (RowClaims' => RowClaims)
  BY DEF JobClaims, RowClaims, W

LEMMA EnvironmentModest ==
    TypeOK /\ (People \/ Event \/ Ends \/ Trouble \/ Connect \/ RecoverGivesUp) => Modest
  <1> SUFFICES ASSUME TypeOK, People \/ Event \/ Ends \/ Trouble \/ Connect \/ RecoverGivesUp
               PROVE  Modest
    OBVIOUS
  <1> "worker" \in Actor
    BY DEF Actor
  <1>1. Calm
    BY PeopleCalm, EventCalm, TroubleCalm
  <1>2. UNCHANGED <<row, told>>
    BY DEF People, Answer, RingOut, PartyHangup,
           Event, Ends, EventIgnored, LegStarted, Straggler, LegGone, TalkerGone, UnansweredEnds,
           Trouble, Crash, Disconnect, ReadyExpires, Aborts, Connect, RecoverGivesUp
  <1>3. JobClaims' => JobClaims
    <2>1. CASE People
      BY <2>1, JobRowSame DEF People, Answer, RingOut, PartyHangup
    <2>2. CASE Event \/ Ends
      BY <2>2, JobRowSame, GotoModest
         DEF Event, Ends, EventIgnored, LegStarted, Straggler, LegGone, TalkerGone, UnansweredEnds,
             BridgePlaces, Place
    <2>3. CASE Trouble \/ Connect \/ RecoverGivesUp
      BY <2>3, JobRowSame, GotoModest, FinishModest
         DEF Trouble, Crash, Disconnect, ReadyExpires, Aborts, Connect, RecoverGivesUp,
             BridgePlaces, Place
    <2>4. QED
      BY <2>1, <2>2, <2>3
  <1>4. QED
    BY <1>1, <1>2, <1>3, JobRowSame DEF Modest

LEMMA BridgingModest == TypeOK /\ Bridging => Modest
  <1> SUFFICES ASSUME TypeOK, Bridging PROVE Modest
    OBVIOUS
  <1>1. W.at \in BridgePlaces
    BY DEF Bridging, BridgeNotNeeded, BridgeNeeded, BuildBridge, StoreBridge, BridgeFails,
           StoreBridgeFailed, ReadAnswer, StoreAnswer, At, W, BridgePlaces
  <1>2. QED
    BY <1>1, BridgingClaims, BridgingCalm DEF Modest

\* A finalizer takes the claim over from the row, and hands it back.
LEMMA EndingModest == TypeOK /\ Ending => Modest
  <1> SUFFICES ASSUME TypeOK, NEW p \in Hanger \cup {"worker"},
                      Finalize(p) \/ (p \in Hanger /\ HangupRequest(p))
               PROVE  Modest
    BY DEF Ending
  <1> p \in Actor /\ "worker" \in Actor
    BY DEF Actor
  <1>1. Calm
    BY EndingCalm DEF Ending
  <1>2. CASE FinalizeSkips(p)
    BY <1>1, <1>2, FinishModest, JobRowSame DEF FinalizeSkips, Modest
  <1>3. CASE FinalizeTearsDown(p)
    <2>1. /\ UNCHANGED <<row, told>>
          /\ job'[p].at = "finStore" /\ job'[p].call = row
          /\ \A q \in Actor : q # p => job'[q] = job[q]
      BY <1>3 DEF FinalizeTearsDown, Goto, TypeOK
    <2>2. JobClaims' => JobClaims \/ row.answered
      BY <2>1 DEF JobClaims, W, BridgePlaces
    <2>3. QED
      BY <1>1, <2>1, <2>2 DEF Modest, RowClaims
  <1>4. CASE FinalizeStores(p)
    <2>1. /\ job[p].at = "finStore"
          /\ row'.answered = row.answered
          /\ "completed" \in told' => "completed" \in told \/ job[p].call.answered
      BY <1>4 DEF FinalizeStores, At, Write, Tell, Outcome, TypeOK, Row
    <2>2. JobClaims' => JobClaims
      BY <1>4, FinishModest DEF FinalizeStores
    <2>3. QED
      BY <1>1, <2>1, <2>2 DEF Modest, RowClaims, JobClaims
  <1>5. CASE HangupRequest(p)
    BY <1>1, <1>5, GotoModest, JobRowSame DEF HangupRequest, Modest, BridgePlaces, Place
  <1>6. QED
    BY <1>2, <1>3, <1>4, <1>5 DEF Finalize

LEMMA StoreModest ==
    ASSUME TypeOK, NEW p \in {"starter", "worker"}, StoreRinging(p) \/ StoreFailed(p)
    PROVE  Modest
  <1>1. JobClaims' => JobClaims
    BY FinishModest DEF StoreRinging, StoreFailed, Actor
  <1>2. row'.answered = row.answered
    BY DEF StoreRinging, StoreFailed, Write, TypeOK, Row
  <1>3. "completed" \in told' => "completed" \in told
    BY DEF StoreRinging, StoreFailed, Tell
  <1>4. QED
    BY <1>1, <1>2, <1>3, StoreCalm DEF Modest, RowClaims

LEMMA CommonModest == TypeOK /\ Common => Modest \/ Recover
  BY EnvironmentModest, BridgingModest, EndingModest, StoreModest DEF Common, Recovery

\* Recovery bridges for the employee of a far side that is up.
LEMMA RecoverAnswers == TypeOK /\ DialInv /\ AnswerInv /\ Recover => AnswerInv'
  <1> SUFFICES ASSUME TypeOK, DialInv, AnswerInv, Recover PROVE AnswerInv'
    OBVIOUS
  <1> "worker" \in Actor
    BY DEF Actor
  <1>1. UNCHANGED <<row, chan, told>> /\ PickedUp' = PickedUp
    BY DEF Recover, asterisk, PickedUp
  <1>2. JobClaims' => JobClaims \/ (RecoverBridges /\ W'.at = "bridge")
    <2>1. CASE RecoverBridges /\ Goto("worker", "bridge", None, Blank)
      BY <2>1 DEF Goto, TypeOK, W
    <2>2. CASE \/ Goto("worker", "failed", None, Blank)
               \/ Goto("worker", "dial", None, row)
               \/ Finish("worker")
      BY <2>2, GotoModest, FinishModest DEF Place, BridgePlaces
    <2>3. QED
      BY <2>1, <2>2 DEF Recover
  <1>3. RecoverBridges => BothPickedUp
    BY ChannelsAssumption
       DEF ChannelsAssumption, RecoverBridges, Up, PickedUp, BothPickedUp, AnswerInv, FarNamedForAnswerer
  <1>4. ClaimsAreTrue'
    BY <1>1, <1>2, <1>3 DEF AnswerInv, ClaimsAreTrue, RowClaims, BothPickedUp
  <1>5. W'.at = "dial" => W'.call = row
    BY DEF Recover, Goto, Finish, Idle, TypeOK, W
  <1>6. FarNamedForAnswerer'
    BY <1>1, <1>5 DEF AnswerInv, FarNamedForAnswerer
  <1>7. QED
    BY <1>4, <1>6 DEF AnswerInv

\* Before a far side is named nobody claims an answer.
LEMMA NoFarNoClaim ==
    ASSUME TypeOK, AnswerInv, row.far = None
    PROVE  ~RowClaims /\ ~JobClaims
  BY ChannelsAssumption
     DEF ChannelsAssumption, AnswerInv, ClaimsAreTrue, BothPickedUp, PickedUp

LEMMA StarterAnswers == TypeOK /\ DialInv /\ AnswerInv /\ Starter => AnswerInv'
  <1> SUFFICES ASSUME TypeOK, DialInv, AnswerInv, Starter PROVE AnswerInv'
    OBVIOUS
  <1> "starter" \in Actor /\ "worker" \in Actor
    BY DEF Actor
  <1>1. CASE Create
    <2>1. row.far = None /\ \A e \in Emp : e \notin PickedUp
      BY <1>1 DEF Create, At, DialInv, FarNamedFirst, PickedUp
    <2>2. ~RowClaims /\ ~JobClaims
      BY <2>1, NoFarNoClaim
    <2>3. JobClaims' => JobClaims
      BY <1>1, GotoModest DEF Create, Place, BridgePlaces
    <2>4. told' = told /\ row'.answered = FALSE /\ row'.far = None /\ W' = W
      BY <1>1 DEF Create, Write, Blank, Goto, TypeOK, W
    <2>5. W.at # "dial"
      BY <2>1 DEF DialInv, AnswersAreReal
    <2>6. QED
      BY <2>2, <2>3, <2>4, <2>5 DEF AnswerInv, ClaimsAreTrue, FarNamedForAnswerer, RowClaims
  <1>2. ASSUME NEW l \in Emp, DialLeg(l) PROVE AnswerInv'
    <2>1. UNCHANGED <<row, job, told>>
      BY <1>2 DEF DialLeg
    <2>2. PickedUp' = PickedUp
      BY <1>2 DEF DialLeg, PickedUp, TypeOK, DialInv, UndialledSilent
    <2>3. QED
      BY <2>1, <2>2 DEF AnswerInv, ClaimsAreTrue, FarNamedForAnswerer, RowClaims, JobClaims,
                        BothPickedUp, W
  <1>3. CASE ReadNoLegs \/ RecordLegs \/ ReadStatus
    <2>1. JobClaims' => JobClaims
      BY <1>3, GotoModest, FinishModest DEF ReadNoLegs, RecordLegs, ReadStatus, Place, BridgePlaces
    <2>2. /\ row'.emp = row.emp /\ row'.far = row.far /\ row'.answered = row.answered
          /\ UNCHANGED <<told, chan>> /\ W' = W
      BY <1>3 DEF ReadNoLegs, RecordLegs, ReadStatus, Write, Goto, Finish, asterisk, TypeOK, Row, W
    <2>3. PickedUp' = PickedUp
      BY <2>2 DEF PickedUp
    <2>4. QED
      BY <2>1, <2>2, <2>3
         DEF AnswerInv, ClaimsAreTrue, FarNamedForAnswerer, RowClaims, BothPickedUp
  <1>4. QED
    BY <1>1, <1>2, <1>3 DEF Starter

LEMMA WorkerAnswers == TypeOK /\ DialInv /\ AnswerInv /\ Worker => AnswerInv'
  <1> SUFFICES ASSUME TypeOK, DialInv, AnswerInv, Worker PROVE AnswerInv'
    OBVIOUS
  <1> USE ChannelsAssumption, HeadsAssumption DEF ChannelsAssumption, HeadsAssumption
  <1> "starter" \in Actor /\ "worker" \in Actor
    BY DEF Actor
  <1> Emp \subseteq Chan /\ Far \subseteq Chan
    BY DEF Chan
  <1>1. ASSUME NEW c \in Chan, EmployeeAnswers(c) PROVE AnswerInv'
    <2>1. ChanCalm
      BY <1>1, HangUpCalm, RestType, RestCalm DEF EmployeeAnswers
    <2>2. UNCHANGED <<row, told>> /\ W'.at = "employee"
      BY <1>1 DEF EmployeeAnswers, Goto, TypeOK, W
    <2>3. JobClaims' => JobClaims
      BY <1>1, GotoModest DEF EmployeeAnswers, Place, BridgePlaces
    <2>4. PickedUp \subseteq PickedUp'
      BY <2>1 DEF ChanCalm, PickedUp
    <2>5. QED
      BY <2>2, <2>3, <2>4
         DEF AnswerInv, ClaimsAreTrue, FarNamedForAnswerer, RowClaims, BothPickedUp
  <1>2. ASSUME NEW c \in Chan, EmployeeAgain(c) PROVE AnswerInv'
    <2>1. Modest
      BY <1>2, ChanRest, JobSame, JobRowSame DEF EmployeeAgain, Modest, Calm, RowCalm, dial
    <2>2. QED
      BY <2>1, ModestKeeps
  <1>3. ASSUME NEW c \in Chan, FarAnswers(c) PROVE AnswerInv'
    <2>1. ChanCalm
      BY <1>3, HangUpCalm, RestType, RestCalm DEF FarAnswers
    <2>2. UNCHANGED <<row, told>> /\ W'.at = "far"
      BY <1>3 DEF FarAnswers, Goto, TypeOK, W
    <2>3. JobClaims' => JobClaims
      BY <1>3, GotoModest DEF FarAnswers, Place, BridgePlaces
    <2>4. PickedUp \subseteq PickedUp'
      BY <2>1 DEF ChanCalm, PickedUp
    <2>5. QED
      BY <2>2, <2>3, <2>4
         DEF AnswerInv, ClaimsAreTrue, FarNamedForAnswerer, RowClaims, BothPickedUp
  <1>4. CASE StoreEmployee
    <2>1. /\ UNCHANGED <<chan, told>> /\ W'.at = "dial" /\ W'.call = row' /\ W.at = "employee"
          /\ row'.emp = W.ch /\ row'.far = row.far /\ row'.answered = row.answered
      BY <1>4 DEF StoreEmployee, Goto, At, asterisk, TypeOK, Row, W
    <2>2. W.ch \in PickedUp /\ PickedUp' = PickedUp
      BY <2>1 DEF DialInv, AnswersAreReal, PickedUp
    <2>3. JobClaims' => JobClaims
      BY <1>4, GotoModest DEF StoreEmployee, Place, BridgePlaces
    <2>4. QED
      BY <2>1, <2>2, <2>3
         DEF AnswerInv, ClaimsAreTrue, FarNamedForAnswerer, RowClaims, BothPickedUp
  <1>5. CASE NotInService \/ RefuseEmployee \/ HangupRefused
    <2>1. JobCalm /\ todo' = todo
      BY <1>5, GotoCalm, FinishCalm
         DEF NotInService, RefuseEmployee, HangupRefused, Place, DialPlaces, dial
    <2>2. RowCalm /\ (RowClaims' => RowClaims)
      BY <1>5 DEF NotInService, RefuseEmployee, HangupRefused, Write, Tell, RowCalm, RowClaims, TypeOK, Row
    <2>3. ChanCalm
      BY <1>5, HangUpCalm, ChanSame DEF NotInService, RefuseEmployee, HangupRefused, asterisk, TypeOK
    <2>4. JobClaims' => JobClaims
      BY <1>5, GotoModest, FinishModest DEF NotInService, RefuseEmployee, HangupRefused, Place, BridgePlaces
    <2>5. QED
      BY <2>1, <2>2, <2>3, <2>4, ModestKeeps DEF Modest, Calm
  <1>6. CASE PrepareFar
    <2>1. /\ UNCHANGED <<chan, told>> /\ W.at = "dial" /\ W.call.far = None /\ W'.at = "dialFar"
          /\ row'.emp = row.emp /\ row'.answered = row.answered
      BY <1>6 DEF PrepareFar, Dialling, Goto, Write, At, asterisk, TypeOK, Row, W
    <2>2. row.far = None /\ row.emp \in PickedUp /\ PickedUp' = PickedUp
      BY <2>1 DEF DialInv, FarNamedFirst, AnswersAreReal, AnswerInv, FarNamedForAnswerer, PickedUp
    <2>3. JobClaims' => JobClaims
      BY <1>6, GotoModest DEF PrepareFar, Place, BridgePlaces
    <2>4. ~RowClaims /\ ~JobClaims
      BY <2>2, NoFarNoClaim
    <2>5. QED
      BY <2>1, <2>2, <2>3, <2>4 DEF AnswerInv, ClaimsAreTrue, FarNamedForAnswerer, RowClaims
  <1>7. CASE DialFar
    <2>1. /\ W.at = "dialFar" /\ W'.at # "dial" /\ UNCHANGED <<row, told>>
          /\ \A c \in Chan : chan'[c] # chan[c] => c \in Far
      BY <1>7 DEF DialFar, Goto, Finish, Idle, At, TypeOK, W
    <2>2. \A f \in Far : chan[f] = "absent"
      BY <2>1 DEF DialInv, FarNamedFirst
    <2>3. PickedUp \subseteq PickedUp'
      BY <2>1, <2>2 DEF PickedUp
    <2>4. JobClaims' => JobClaims
      BY <1>7, GotoModest, FinishModest DEF DialFar, Place, BridgePlaces
    <2>5. QED
      BY <2>1, <2>3, <2>4 DEF AnswerInv, ClaimsAreTrue, FarNamedForAnswerer, RowClaims, BothPickedUp
  <1>8. CASE StoreFar
    <2>1. /\ UNCHANGED <<chan, told>> /\ W.at = "far" /\ W'.at = "bridge"
          /\ row'.emp = row.emp /\ row'.far = W.ch
      BY <1>8 DEF StoreFar, Goto, Write, At, asterisk, TypeOK, Row, W
    <2>2. W.ch \in Far \cap PickedUp /\ row.emp \in PickedUp /\ PickedUp' = PickedUp
      BY <2>1 DEF DialInv, AnswersAreReal, FarNamedFirst, PickedUp, AnswerInv, FarNamedForAnswerer
    <2>3. QED
      BY <2>1, <2>2 DEF AnswerInv, ClaimsAreTrue, FarNamedForAnswerer, BothPickedUp
  <1>9. QED
    BY <1>1, <1>2, <1>3, <1>4, <1>5, <1>6, <1>7, <1>8 DEF Worker, StartCustomer

LEMMA StutterModest == UNCHANGED vars => Modest
  BY StutterCalm, JobRowSame DEF vars, Modest

LEMMA StepAnswers == TypeOK /\ DialInv /\ AnswerInv /\ [Next]_vars => AnswerInv'
  BY StarterAnswers, WorkerAnswers, RecoverAnswers, CommonModest, EnvironmentModest, StutterModest,
     ModestKeeps
     DEF Next

LEMMA InitAnswers == Init => AnswerInv
  <1> SUFFICES ASSUME Init PROVE AnswerInv
    OBVIOUS
  <1>1. ~RowClaims /\ row.far = None
    BY DEF Init, InitWith, Blank, RowClaims
  <1>2. \A p \in Actor : job[p].at \in {"ask", "start", "idle"}
    BY DEF Init, InitWith, Idle
  <1>3. "worker" \in Actor
    BY DEF Actor
  <1>4. QED
    BY <1>1, <1>2, <1>3 DEF AnswerInv, ClaimsAreTrue, JobClaims, FarNamedForAnswerer, W, BridgePlaces

\* A call is recorded as answered, and reported as completed, only if the
\* employee and the far party it names both picked up; neither crashes nor
\* second devices nor hangup requests change that.
THEOREM BothAnswered == Spec => []AnsweredByBoth
  <1>1. AnswerInv => AnsweredByBoth
    BY DEF AnswerInv, ClaimsAreTrue, RowClaims, BothPickedUp, AnsweredByBoth
  <1>2. QED
    BY <1>1, TypeCorrect, DialInvariant, InitAnswers, StepAnswers, PTL DEF Spec

----------------------------------------------------------------------------
(* The call implements TwoParty.  The invariant: the bridge joins nobody    *)
(* but the two parties the row names, both once picked up, and as long as   *)
(* both are on the line it joins both.  Only the head of the far side is    *)
(* ever found, so the row never names another.                             *)

JoinInv ==
    /\ mix \subseteq Up \cap {row.emp, row.far}
    /\ mix # {} => BothPickedUp
    /\ mix # {} /\ {row.emp, row.far} \subseteq Up => mix = {row.emp, row.far}
    /\ index \subseteq Emp /\ row.far \in {None, HeadFar}
    /\ W.at = "employee" => row.far = None
    /\ W.at = "far" => W.ch = row.far

\* Most steps part people at most: some channels go down, and the bridge
\* loses exactly those or is destroyed.
PartsOnly ==
    /\ \A c \in Chan : chan'[c] # chan[c] => c \in Live /\ chan'[c] \in {"missed", "over"}
    /\ mix' \subseteq mix
    /\ mix' = {} \/ \A c \in mix : chan'[c] = "up" <=> c \in mix'

LEMMA TakeDownParts ==
    ASSUME TypeOK, JoinInv, NEW S, NEW box, TakeDown(S, box), mix' = {} \/ mix' = mix \ S
    PROVE  PartsOnly
  <1>1. \A c \in Chan : chan'[c] = IF c \notin S \cap Live THEN chan[c]
                                   ELSE IF chan[c] = "ringing" THEN "missed" ELSE "over"
    BY DEF TakeDown
  <1>2. \A c \in mix : c \in Chan /\ c \in Live /\ chan[c] = "up"
    BY DEF JoinInv, Up, Live
  <1>3. QED
    BY <1>1, <1>2 DEF PartsOnly

LEMMA HangUpParts ==
    ASSUME TypeOK, JoinInv, NEW S, NEW box, HangUp(S, box)
    PROVE  PartsOnly
  BY TakeDownParts DEF HangUp

LEMMA SameParts ==
    ASSUME JoinInv, UNCHANGED <<chan, mix>>
    PROVE  PartsOnly
  BY DEF JoinInv, Up, PartsOnly

LEMMA PartsLeave ==
    ASSUME TypeOK, JoinInv, PartsOnly, ChanCalm, index' \subseteq Emp,
           row'.emp = row.emp, row'.far = row.far,
           W'.at = "employee" => row.far = None, W'.at = "far" => W'.ch = row.far
    PROVE  JoinInv'
  <1>1. row'.emp = row.emp /\ row'.far = row.far
    OBVIOUS
  <1>2. mix' \subseteq mix /\ \A c \in mix' : chan'[c] = "up"
    BY DEF PartsOnly
  <1>3. mix' \subseteq Up' \cap {row'.emp, row'.far}
    BY <1>1, <1>2 DEF JoinInv, Up
  <1>4. mix' # {} => BothPickedUp'
    BY <1>1, <1>2 DEF JoinInv, BothPickedUp, ChanCalm, PickedUp
  <1>5. ASSUME mix' # {}, {row'.emp, row'.far} \subseteq Up' PROVE mix' = {row'.emp, row'.far}
    <2>1. Up' \subseteq Up
      BY DEF PartsOnly, Up
    <2>2. mix = {row.emp, row.far}
      BY <1>1, <1>2, <1>5, <2>1 DEF JoinInv
    <2>3. QED
      BY <1>1, <1>2, <1>5, <2>2 DEF PartsOnly, Up
  <1>6. QED
    BY <1>1, <1>3, <1>4, <1>5 DEF JoinInv

LEMMA PartsKeeps == TypeOK /\ JoinInv /\ PartsOnly /\ Calm /\ index' \subseteq Emp => JoinInv'
  BY PartsLeave DEF JoinInv, Calm, JobCalm, RowCalm, DialPlaces

----------------------------------------------------------------------------
(* Each step is one of TwoParty's, or none of its business.                 *)

\* What is heard of a channel, before a step and after it.
LEMMA Hearing ==
    ASSUME TypeOK, TypeOK', NEW c \in Chan
    PROVE  /\ Heard(c) = "quiet" <=> chan[c] = "absent"
           /\ Heard(c) = "ringing" <=> chan[c] = "ringing"
           /\ Heard(c) = "on" <=> chan[c] \in {"up", "mailbox"}
           /\ Heard(c) = "done" <=> chan[c] \in {"missed", "over"}
           /\ Heard(c)' = "quiet" <=> chan'[c] = "absent"
           /\ Heard(c)' = "ringing" <=> chan'[c] = "ringing"
           /\ Heard(c)' = "on" <=> chan'[c] \in {"up", "mailbox"}
           /\ Heard(c)' = "done" <=> chan'[c] \in {"missed", "over"}
           /\ chan'[c] = chan[c] => Heard(c)' = Heard(c)
  <1>1. chan[c] \in ChanState /\ chan'[c] \in ChanState
    BY DEF TypeOK
  <1>2. QED
    BY <1>1 DEF Heard, ChanState

\* Where nothing is absent or joined anew, somebody's line ended or nothing happened.
LEMMA PartsPromised ==
    ASSUME TypeOK, TypeOK', JoinInv, PartsOnly
    PROVE  Promise!Next
  <1> DEFINE S == {c \in Chan : chan'[c] # chan[c]}
  <1>1. S \in SUBSET Promise!Device
    BY NoCallerAssumption DEF NoCallerAssumption, Chan, Promise!Device
  <1>2. \A d \in S : Heard(d) \in {"ringing", "on"} /\ Heard(d)' = "done"
    BY Hearing DEF PartsOnly, Live
  <1>3. \A d \in Chan \ S : Heard(d)' = Heard(d)
    BY Hearing
  <1>4. mix' \in SUBSET (mix \ S)
    BY DEF PartsOnly, JoinInv, Up
  <1>5. Promise!Device = Chan
    BY NoCallerAssumption DEF NoCallerAssumption, Chan, Promise!Device
  <1> HIDE DEF S
  <1>6. S \subseteq Chan
    BY <1>1, <1>5
  <1>7. Promise!End(S)
    BY <1>2, <1>3, <1>4, <1>5, <1>6 DEF Promise!End
  <1>8. QED
    BY <1>1, <1>7 DEF Promise!Next

LEMMA PickUpPromised ==
    ASSUME TypeOK, TypeOK', NEW c \in Chan, chan[c] = "ringing", UNCHANGED mix,
           chan' = [chan EXCEPT ![c] = "up"]
    PROVE  Promise!Next
  <1>1. Promise!Device = Chan
    BY NoCallerAssumption DEF NoCallerAssumption, Chan, Promise!Device
  <1>2. Heard(c) = "ringing" /\ Heard(c)' = "on"
    BY Hearing DEF TypeOK
  <1>3. \A d \in Chan \ {c} : Heard(d)' = Heard(d)
    BY Hearing DEF TypeOK
  <1>4. Promise!PickUp(c)
    BY <1>2, <1>3 DEF Promise!PickUp
  <1>5. QED
    BY <1>1, <1>4 DEF Promise!Next

LEMMA RingPromised ==
    ASSUME TypeOK, TypeOK', JoinInv, DialInv, NEW l \in Emp, DialLeg(l)
    PROVE  Promise!Next \/ UNCHANGED <<chan, mix>>
  <1>1. CASE chan' = [chan EXCEPT ![l] = "ringing"]
    <2>1. l \in Chan /\ chan[l] = "absent" /\ mix' = mix
      BY <1>1 DEF DialLeg, DialInv, UndialledSilent, Chan
    <2>2. Heard(l) = "quiet" /\ Heard(l)' = "ringing"
      BY <1>1, <2>1, Hearing DEF TypeOK
    <2>3. \A d \in Chan \ {l} : Heard(d)' = Heard(d)
      BY <1>1, Hearing DEF TypeOK
    <2>4. Promise!RingNear(l)
      BY <2>1, <2>2, <2>3 DEF Promise!RingNear
    <2>5. QED
      BY <2>4 DEF Promise!Next
  <1>2. QED
    BY <1>1 DEF DialLeg

\* The far side is rung for an employee who is on the line.
LEMMA RingFarPromised ==
    ASSUME TypeOK, TypeOK', DialInv, DialFar
    PROVE  Promise!Next \/ UNCHANGED <<chan, mix>>
  <1> Promise!Device = Chan /\ Emp \subseteq Chan /\ Far \subseteq Chan
    BY NoCallerAssumption DEF NoCallerAssumption, Chan, Promise!Device
  <1>1. PICK rung \in SUBSET Far :
          /\ rung # {} => job["worker"].ch \in Live
          /\ chan' = [c \in Chan |-> IF c \in rung THEN "ringing" ELSE chan[c]]
    BY DEF DialFar
  <1>2. W.at = "dialFar" /\ mix' = mix
    BY DEF DialFar, At, W
  <1>3. \A f \in rung : chan[f] = "absent"
    BY <1>2 DEF DialInv, FarNamedFirst
  <1>4. CASE rung = {}
    BY <1>1, <1>2, <1>4 DEF TypeOK
  <1>5. CASE rung # {}
    <2>1. W.ch \in Emp /\ chan[W.ch] \in {"up", "mailbox"}
      BY <1>1, <1>2, <1>5 DEF DialInv, AnswersAreReal, PickedUp, Live, W
    <2>2. W.ch \in Emp \cap Promise!On
      BY <2>1, Hearing DEF Promise!On
    <2>3. \A f \in rung : Heard(f) = "quiet" /\ Heard(f)' = "ringing"
      BY <1>1, <1>3, Hearing
    <2>4. \A d \in Chan \ rung : Heard(d)' = Heard(d)
      BY <1>1, Hearing
    <2>5. Promise!RingFar(rung)
      BY <1>2, <2>2, <2>3, <2>4 DEF Promise!RingFar
    <2>6. QED
      BY <2>5 DEF Promise!Next
  <1>6. QED
    BY <1>4, <1>5

LEMMA BuildBridgeJoins ==
    ASSUME TypeOK, TypeOK', DialInv, JoinInv, BuildBridge
    PROVE  JoinInv' /\ (Promise!Next \/ UNCHANGED <<chan, mix>>)
  <1> Promise!Device = Chan /\ Emp \subseteq Chan /\ Far \subseteq Chan
    BY NoCallerAssumption DEF NoCallerAssumption, Chan, Promise!Device
  <1>1. /\ UNCHANGED <<row, chan, index>> /\ {row.emp, row.far} \subseteq Up
        /\ row.emp # None /\ row.far # None
    BY DEF BuildBridge, BridgeNeeded
  <1>2. mix' = {row.emp, row.far} /\ (mix = {} \/ mix' = mix)
    BY <1>1 DEF BuildBridge, JoinInv
  <1>3. W'.at = "bridged"
    BY DEF BuildBridge, Goto, TypeOK, W, Actor
  <1>4. JoinInv'
    BY <1>1, <1>2, <1>3 DEF JoinInv, Up, PickedUp, BothPickedUp
  <1>5. CASE mix = {}
    <2>1. row.emp \in Emp /\ row.far \in Far
      BY <1>1 DEF DialInv, RowNamesSides
    <2>2. \A c \in Chan : Heard(c)' = Heard(c)
      BY <1>1, Hearing
    <2>3. {row.emp, row.far} \subseteq Promise!On
      BY <1>1, <2>1, Hearing DEF Promise!On, Up
    <2>4. Promise!Join(row.emp, row.far)
      BY <1>2, <1>5, <2>2, <2>3 DEF Promise!Join
    <2>5. QED
      BY <1>4, <2>1, <2>4 DEF Promise!Next
  <1>6. QED
    BY <1>1, <1>2, <1>4, <1>5

LEMMA AnswerJoins ==
    ASSUME TypeOK, TypeOK', JoinInv, NEW c \in Chan, Answer(c)
    PROVE  JoinInv' /\ Promise!Next
  <1>1. /\ chan[c] = "ringing" /\ chan' = [chan EXCEPT ![c] = "up"]
        /\ UNCHANGED <<row, mix, index, job>>
    BY DEF Answer
  <1>2. Promise!Next
    BY <1>1, PickUpPromised
  <1>3. Up' = Up \cup {c} /\ PickedUp \subseteq PickedUp' /\ c \notin PickedUp
    BY <1>1 DEF Up, PickedUp, TypeOK
  <1>4. mix # {} /\ {row.emp, row.far} \subseteq Up' => mix = {row.emp, row.far}
    BY <1>3 DEF JoinInv, BothPickedUp
  <1>5. QED
    BY <1>1, <1>2, <1>3, <1>4 DEF JoinInv, BothPickedUp, W

\* All the other steps part people at most.
LEMMA CommonParts ==
    ASSUME TypeOK, JoinInv, Common \/ Ends, ~BuildBridge, ~(\E c \in Chan : Answer(c))
    PROVE  PartsOnly
  <1> USE RestType
  <1>1. CASE People
    <2>1. PICK c \in Chan : RingOut(c) \/ PartyHangup(c)
      BY <1>1 DEF People
    <2>2. CASE RingOut(c)
      BY <2>2 DEF RingOut, PartsOnly, JoinInv, Up, Live, TypeOK
    <2>3. CASE PartyHangup(c)
      BY <2>3 DEF PartyHangup, PartsOnly, JoinInv, Up, Live, TypeOK
    <2>4. QED
      BY <2>1, <2>2, <2>3
  <1>2. CASE Event \/ Ends
    BY <1>2, HangUpParts, SameParts
       DEF Event, Ends, EventIgnored, LegStarted, Straggler, LegGone, TalkerGone, UnansweredEnds
  <1>3. CASE Bridging
    BY <1>3, TakeDownParts, SameParts
       DEF Bridging, BridgeNotNeeded, StoreBridge, BridgeFails, StoreBridgeFailed, ReadAnswer,
           StoreAnswer, asterisk
  <1>4. CASE Ending
    BY <1>4, TakeDownParts, HangUpParts, SameParts
       DEF Ending, Finalize, FinalizeSkips, FinalizeTearsDown, FinalizeStores, HangupRequest, asterisk
  <1>5. CASE Trouble \/ Connect \/ Recovery
    BY <1>5, SameParts
       DEF Trouble, Crash, Disconnect, ReadyExpires, Aborts, Connect, Recovery, RecoverGivesUp,
           Recover, asterisk
  <1>6. CASE \E p \in {"starter", "worker"} : StoreRinging(p) \/ StoreFailed(p)
    BY <1>6, SameParts DEF StoreRinging, StoreFailed, asterisk
  <1>7. QED
    BY <1>1, <1>2, <1>3, <1>4, <1>5, <1>6 DEF Common

\* The worker's memory only ever loses channels, or at boot is set to the legs
\* of the row.
LEMMA IndexKept ==
    ASSUME TypeOK, DialInv, JoinInv, Next \/ UNCHANGED vars
    PROVE  index' \subseteq Emp
  <1>1. CASE Common \/ Ends
    <2>1. CASE Recover
      BY <2>1 DEF Recover, Recovered, Legs, DialInv, RowNamesSides
    <2>2. CASE ~Recover
      BY <1>1, <2>2
         DEF JoinInv, Common, People, Answer, RingOut, PartyHangup,
             Event, Ends, EventIgnored, LegStarted, Straggler, LegGone, TalkerGone, UnansweredEnds,
             Bridging, BridgeNotNeeded, BuildBridge, StoreBridge, BridgeFails, StoreBridgeFailed,
             ReadAnswer, StoreAnswer,
             Ending, Finalize, FinalizeSkips, FinalizeTearsDown, FinalizeStores, HangupRequest,
             Trouble, Crash, Disconnect, ReadyExpires, Aborts, Connect, Recovery, RecoverGivesUp,
             StoreRinging, StoreFailed
    <2>3. QED
      BY <2>1, <2>2
  <1>2. CASE Starter \/ Worker
    BY <1>2 DEF JoinInv, Starter, Create, DialLeg, ReadNoLegs, RecordLegs, ReadStatus,
                Worker, StartCustomer, EmployeeAnswers, EmployeeAgain, FarAnswers, StoreFar, StoreEmployee,
                NotInService, RefuseEmployee, PrepareFar, DialFar, HangupRefused
  <1>3. CASE UNCHANGED vars
    BY <1>3 DEF JoinInv, vars
  <1>4. QED
    BY <1>1, <1>2, <1>3 DEF Next

Promised == Promise!Next \/ UNCHANGED <<chan, mix>>

LEMMA NobodyJoined ==
    ASSUME TypeOK, JoinInv, row.far = None
    PROVE  mix = {}
  BY ChannelsAssumption DEF ChannelsAssumption, JoinInv, BothPickedUp, PickedUp

LEMMA CommonJoins ==
    ASSUME TypeOK, TypeOK', DialInv, JoinInv, Common \/ Ends
    PROVE  JoinInv' /\ Promised
  <1>1. index' \subseteq Emp
    BY IndexKept DEF Next
  <1>2. CASE BuildBridge \/ \E c \in Chan : Answer(c)
    BY <1>2, BuildBridgeJoins, AnswerJoins DEF Promised
  <1>3. CASE ~BuildBridge /\ ~(\E c \in Chan : Answer(c))
    <2>1. PartsOnly
      BY <1>3, CommonParts
    <2>2. Promised
      BY <2>1, PartsPromised DEF Promised
    <2>3. CASE Calm
      BY <1>1, <2>1, <2>2, <2>3, PartsKeeps
    <2>4. CASE Recover
      <3>1. UNCHANGED <<row, chan, mix>> /\ W'.at \notin {"employee", "far"}
        BY <2>4 DEF Recover, asterisk, Goto, Finish, Idle, TypeOK, W, Actor
      <3>2. QED
        BY <1>1, <2>2, <3>1 DEF JoinInv, Up, PickedUp, BothPickedUp
    <2>5. QED
      BY <2>3, <2>4, CommonCalm, EventCalm
  <1>4. QED
    BY <1>2, <1>3

LEMMA StarterJoins ==
    ASSUME TypeOK, TypeOK', DialInv, JoinInv, Starter
    PROVE  JoinInv' /\ Promised
  <1> "starter" \in Actor /\ "worker" \in Actor
    BY DEF Actor
  <1>1. index' \subseteq Emp
    BY IndexKept DEF Next
  <1>2. CASE Create
    <2>1. mix = {}
      BY <1>2, NobodyJoined DEF Create, At, DialInv, FarNamedFirst
    <2>2. UNCHANGED <<chan, mix>> /\ row'.far = None /\ W' = W
      BY <1>2 DEF Create, Write, Blank, Goto, asterisk, TypeOK, W
    <2>3. W.at # "far"
      BY <1>2 DEF Create, At, DialInv, FarNamedFirst, AnswersAreReal, PickedUp
    <2>4. QED
      BY <1>1, <2>1, <2>2, <2>3 DEF JoinInv, Promised
  <1>3. ASSUME NEW l \in Emp, DialLeg(l) PROVE JoinInv' /\ Promised
    <2>1. UNCHANGED <<row, mix, job>>
      BY <1>3 DEF DialLeg
    <2>2. Up' = Up /\ PickedUp' = PickedUp
      BY <1>3 DEF DialLeg, Up, PickedUp, TypeOK, DialInv, UndialledSilent
    <2>3. QED
      BY <1>1, <1>3, <2>1, <2>2, RingPromised DEF JoinInv, BothPickedUp, W, Promised
  <1>4. CASE ReadNoLegs \/ RecordLegs \/ ReadStatus
    <2>1. UNCHANGED <<chan, mix>> /\ W' = W /\ row'.emp = row.emp /\ row'.far = row.far
      BY <1>4 DEF ReadNoLegs, RecordLegs, ReadStatus, Write, Goto, Finish, asterisk, TypeOK, Row, W
    <2>2. QED
      BY <1>1, <2>1 DEF JoinInv, Up, PickedUp, BothPickedUp, Promised
  <1>5. QED
    BY <1>2, <1>3, <1>4 DEF Starter

LEMMA WorkerJoins ==
    ASSUME TypeOK, TypeOK', DialInv, JoinInv, Worker
    PROVE  JoinInv' /\ Promised
  <1> USE ChannelsAssumption, HeadsAssumption DEF ChannelsAssumption, HeadsAssumption
  <1> "worker" \in Actor
    BY DEF Actor
  <1> Emp \subseteq Chan /\ Far \subseteq Chan
    BY DEF Chan
  <1>1. index' \subseteq Emp
    BY IndexKept DEF Next
  <1>2. ASSUME NEW c \in Chan, EmployeeAnswers(c) PROVE JoinInv' /\ Promised
    <2>1. PartsOnly
      BY <1>2, HangUpParts DEF EmployeeAnswers
    <2>2. UNCHANGED row /\ row.far = None /\ W'.at = "employee"
      BY <1>2 DEF EmployeeAnswers, Goto, TypeOK, W
    <2>3. mix' = {}
      BY <2>1, <2>2, NobodyJoined DEF PartsOnly
    <2>4. JoinInv'
      BY <1>1, <2>2, <2>3 DEF JoinInv
    <2>5. QED
      BY <2>1, <2>4, PartsPromised DEF Promised
  <1>3. ASSUME NEW c \in Chan, EmployeeAgain(c) PROVE JoinInv' /\ Promised
    <2>1. Calm
      BY <1>3, ChanRest, JobSame DEF EmployeeAgain, Calm, RowCalm, dial
    <2>2. PartsOnly
      BY <1>3, SameParts DEF EmployeeAgain
    <2>3. QED
      BY <1>1, <2>1, <2>2, PartsKeeps, PartsPromised DEF Promised
  <1>4. ASSUME NEW c \in Chan, FarAnswers(c) PROVE JoinInv' /\ Promised
    <2>1. c \in Far
      BY <1>4 DEF FarAnswers, DialInv, RowNamesSides
    <2>2. c = row.far
      BY <1>4, <2>1 DEF FarAnswers, Found, JoinInv, DialInv, RowNamesSides
    <2>3. PartsOnly
      BY <1>4, HangUpParts DEF FarAnswers
    <2>4. ChanCalm
      BY <1>4, HangUpCalm, RestType, RestCalm DEF FarAnswers
    <2>5. W'.at = "far" /\ W'.ch = c /\ row' = row
      BY <1>4 DEF FarAnswers, Goto, TypeOK, W
    <2>6. JoinInv'
      BY <1>1, <2>2, <2>3, <2>4, <2>5, PartsLeave
    <2>7. QED
      BY <2>3, <2>6, PartsPromised DEF Promised
  <1>5. CASE StoreEmployee
    <2>1. /\ UNCHANGED <<chan, mix>> /\ W.at = "employee" /\ W'.at = "dial"
          /\ row'.far = row.far
      BY <1>5 DEF StoreEmployee, Goto, At, asterisk, TypeOK, Row, W
    <2>2. row.far = None /\ mix = {}
      BY <2>1, NobodyJoined DEF JoinInv
    <2>3. QED
      BY <1>1, <2>1, <2>2 DEF JoinInv, Promised
  <1>6. CASE NotInService \/ RefuseEmployee \/ HangupRefused
    <2>1. JobCalm /\ todo' = todo
      BY <1>6, GotoCalm, FinishCalm
         DEF NotInService, RefuseEmployee, HangupRefused, Place, DialPlaces, dial
    <2>2. RowCalm
      BY <1>6 DEF NotInService, RefuseEmployee, HangupRefused, Write, RowCalm, TypeOK, Row
    <2>3. ChanCalm
      BY <1>6, HangUpCalm, ChanSame DEF NotInService, RefuseEmployee, HangupRefused, asterisk, TypeOK
    <2>4. PartsOnly
      BY <1>6, HangUpParts, SameParts DEF NotInService, RefuseEmployee, HangupRefused, asterisk
    <2>5. QED
      BY <1>1, <2>1, <2>2, <2>3, <2>4, PartsKeeps, PartsPromised DEF Calm, Promised
  <1>7. CASE PrepareFar
    <2>1. /\ UNCHANGED <<chan, mix>> /\ W.at = "dial" /\ W.call.far = None /\ W'.at = "dialFar"
          /\ row'.far = HeadFar
      BY <1>7 DEF PrepareFar, Dialling, Goto, Write, At, asterisk, TypeOK, Row, W
    <2>2. mix = {}
      BY <2>1, NobodyJoined DEF DialInv, FarNamedFirst
    <2>3. QED
      BY <1>1, <2>1, <2>2 DEF JoinInv, Promised
  <1>8. CASE DialFar
    <2>1. UNCHANGED <<row, mix>> /\ W.at = "dialFar" /\ W'.at \notin {"employee", "far"}
      BY <1>8 DEF DialFar, Goto, Finish, Idle, At, TypeOK, W
    <2>2. \A f \in Far : chan[f] = "absent"
      BY <2>1 DEF DialInv, FarNamedFirst
    <2>3. Up' = Up /\ PickedUp' = PickedUp
      BY <1>8, <2>2 DEF DialFar, Up, PickedUp
    <2>4. QED
      BY <1>1, <1>8, <2>1, <2>3, RingFarPromised DEF JoinInv, BothPickedUp, Promised
  <1>9. CASE StoreFar
    <2>1. /\ UNCHANGED <<chan, mix>> /\ W.at = "far" /\ W'.at = "bridge"
          /\ row'.emp = row.emp /\ row'.far = W.ch
      BY <1>9 DEF StoreFar, Goto, Write, At, asterisk, TypeOK, Row, W
    <2>2. W.ch = row.far
      BY <2>1 DEF JoinInv
    <2>3. QED
      BY <1>1, <2>1, <2>2 DEF JoinInv, Up, PickedUp, BothPickedUp, Promised
  <1>10. QED
    BY <1>2, <1>3, <1>4, <1>5, <1>6, <1>7, <1>8, <1>9 DEF Worker, StartCustomer

LEMMA StepJoins == TypeOK /\ DialInv /\ JoinInv /\ [Next]_vars => JoinInv' /\ Promised
  <1> SUFFICES ASSUME TypeOK, DialInv, JoinInv, [Next]_vars PROVE JoinInv' /\ Promised
    OBVIOUS
  <1>1. TypeOK'
    BY StepTypes
  <1>2. CASE Next
    BY <1>1, <1>2, CommonJoins, StarterJoins, WorkerJoins DEF Next
  <1>3. CASE UNCHANGED vars
    BY <1>3 DEF vars, asterisk, JoinInv, Up, PickedUp, BothPickedUp, W, Promised
  <1>4. QED
    BY <1>2, <1>3

LEMMA InitJoins == Init => JoinInv
  BY HeadsAssumption
     DEF HeadsAssumption, Init, InitWith, Blank, Idle, Actor, JoinInv, W

LEMMA InitPromised == Init => Promise!Init
  <1> SUFFICES ASSUME Init PROVE Promise!Init
    OBVIOUS
  <1>1. Promise!Device = Chan /\ Far \subseteq Chan
    BY NoCallerAssumption DEF NoCallerAssumption, Chan, Promise!Device
  <1>2. \A c \in Chan : Heard(c) = "quiet"
    BY DEF Init, InitWith, Heard
  <1>3. mix = {}
    BY DEF Init, InitWith
  <1>4. QED
    BY <1>1, <1>2, <1>3 DEF Promise!Init

\* What TwoParty leaves alone when no channel and no bridge changes.
LEMMA QuietPromised == UNCHANGED <<chan, mix>> => UNCHANGED Promise!vars
  BY DEF Promise!vars, Heard

\* The bridge joins only parties who picked up, whichever way the call goes.
THEOREM JoinInvariant == Spec => []JoinInv
  BY TypeCorrect, DialInvariant, InitJoins, StepJoins, PTL DEF Spec

\* A call keeps the promise TwoParty makes to the people on it: the far side
\* rings only for an employee on the line, every device rings once, and two
\* parties are joined once and only when both picked up.
THEOREM CallKeepsPromise == Spec => PromiseKept
  <1>1. TypeOK /\ DialInv /\ JoinInv /\ [Next]_vars => [Promise!Next]_(Promise!vars)
    BY StepJoins, QuietPromised DEF Promised
  <1>2. QED
    BY <1>1, InitPromised, TypeCorrect, DialInvariant, JoinInvariant, PTL
       DEF Spec, PromiseKept, Promise!Spec

----------------------------------------------------------------------------
(* Talkers are kept.  Whatever hangs a channel up or destroys the bridge     *)
(* while two people talk is looked at in turn; the invariant says why none  *)
(* of it touches the two.  One fault is allowed: with a second one an       *)
(* employee device whose originate lost its reply talks in a call that does *)
(* not count as answered, and any other device's end takes it down.         *)

\* A channel whose destruction is reported is gone.
GoneIsGone == \A c \in Chan : "destroyed" \in inbox[c] => chan[c] \in {"missed", "over"}

\* A worker that starts has no event to handle.
BootIsDeaf ==
    /\ W.at = "boot" => ~conn
    /\ ~conn => \A c \in Chan : inbox[c] = {}

\* Nobody's pick-up is handled a second time once the call goes on with it.
AnsweredOnce ==
    /\ W.at = "employee" => "up" \notin inbox[W.ch]
    /\ W.at = "dial" \/ row.far # None => "up" \notin inbox[row.emp]
    /\ W.at = "bridge" \/ mix # {} => "up" \notin inbox[row.far]
    /\ W.at = "far" => "up" \notin inbox[W.ch]

\* The legs are stored once, and name what was acknowledged.
LegsStored ==
    /\ row.legs \in {{}, dialled}
    /\ job["starter"].at \in {"start", "dialLegs"} => row.legs = {}

\* What the worker resolves from memory are legs of the row, or the device the
\* row has named from the start.
IndexKnown ==
    /\ row.legs = {} => row.emp \in {None, FirstEmp}
    /\ \/ index \subseteq row.legs
       \/ index \subseteq {FirstEmp} /\ row.emp \in {None, FirstEmp}
    /\ W.at = "employee" => W.ch = FirstEmp \/ (row.legs # {} /\ index \subseteq row.legs)

\* A device rings without having been acknowledged only by the fault.
UnheardIsFault ==
    (\E e \in Emp : chan[e] # "absent" /\ e \notin dialled) => faults = MaxFaults

\* The end and the status are written together.
EndsTogether ==
    /\ row.status \in Terminal => row.ended
    /\ row.status = "none" => row.far = None

Joined == mix # {} /\ {row.emp, row.far} \subseteq Up

\* Two who talk, one of them on an unacknowledged device, have been recorded
\* as answered, or the worker is about to.
AnswerUnderWay ==
    Joined /\ row.emp \notin dialled =>
        row.answered \/ row.ended \/ W.at \in {"bridge", "bridged", "answer", "answered", "boot"}

\* The worker finalizes, or gives the employee up, when nobody talks or ever will.
Parted == row.far = None \/ chan[row.emp] # "up" \/ chan[row.far] \notin {"ringing", "up"}

NobodyTalks ==
    /\ W.at = "refuse" => row.far = None
    /\ W.at = "farRefused" => mix = {}
    /\ W.at \in {"fin", "finStore"} => Parted

TalkInv ==
    /\ GoneIsGone /\ BootIsDeaf /\ AnsweredOnce /\ LegsStored /\ IndexKnown
    /\ UnheardIsFault /\ EndsTogether /\ AnswerUnderWay /\ NobodyTalks

----------------------------------------------------------------------------
(* What every step does to the events.                                     *)

Reported ==
    /\ \A c \in Chan :
         /\ chan[c] \in {"missed", "over"} => chan'[c] = chan[c]
         /\ chan'[c] = "up" => chan[c] \in {"ringing", "up"}
         /\ "destroyed" \in inbox'[c] => "destroyed" \in inbox[c] \/ chan'[c] \in {"missed", "over"}
         /\ "up" \in inbox'[c] => "up" \in inbox[c] \/ chan[c] = "ringing"
    /\ ~conn' => \/ \A c \in Chan : inbox'[c] = {}
                 \/ ~conn /\ \A c \in Chan : inbox'[c] \subseteq inbox[c]

LEMMA TakeDownReports ==
    ASSUME TypeOK, NEW S, NEW box \in [Chan -> SUBSET EventType], TakeDown(S, box),
           \A c \in Chan : box[c] \subseteq inbox[c], conn' = conn
    PROVE  Reported
  <1>1. \A c \in Chan : chan'[c] = IF c \notin S \cap Live THEN chan[c]
                                   ELSE IF chan[c] = "ringing" THEN "missed" ELSE "over"
    BY DEF TakeDown
  <1>2. \A c \in Chan : c \in Live <=> chan[c] \in {"ringing", "up", "mailbox"}
    BY DEF Live
  <1>3. \A c \in Chan : inbox'[c] \subseteq box[c] \cup {"destroyed"}
    BY DEF TakeDown
  <1>4. \A c \in Chan : "destroyed" \in inbox'[c] =>
                          "destroyed" \in box[c] \/ (c \in S /\ chan[c] \in {"ringing", "up"})
    BY DEF TakeDown
  <1>5. ~conn => inbox' = box
    BY DEF TakeDown
  <1>6. \A c \in Chan :
          /\ chan[c] \in {"missed", "over"} => chan'[c] = chan[c]
          /\ chan'[c] = "up" => chan[c] \in {"ringing", "up"}
    BY <1>1, <1>2
  <1>7. \A c \in Chan :
          "destroyed" \in inbox'[c] => "destroyed" \in inbox[c] \/ chan'[c] \in {"missed", "over"}
    BY <1>1, <1>2, <1>4
  <1>8. \A c \in Chan : "up" \in inbox'[c] => "up" \in inbox[c] \/ chan[c] = "ringing"
    BY <1>3
  <1>9. QED
    BY <1>5, <1>6, <1>7, <1>8 DEF Reported

LEMMA HangUpReports ==
    ASSUME TypeOK, NEW S, NEW box \in [Chan -> SUBSET EventType], HangUp(S, box),
           \A c \in Chan : box[c] \subseteq inbox[c], conn' = conn
    PROVE  Reported
  BY TakeDownReports DEF HangUp

LEMMA FewerReports ==
    ASSUME UNCHANGED <<chan, conn>>, \A c \in Chan : inbox'[c] \subseteq inbox[c]
    PROVE  Reported
  BY DEF Reported

LEMMA PeopleReport == TypeOK /\ People => Reported
  <1> SUFFICES ASSUME TypeOK, NEW c \in Chan, Answer(c) \/ RingOut(c) \/ PartyHangup(c)
               PROVE  Reported
    BY DEF People
  <1>1. conn' = conn
    BY DEF Answer, RingOut, PartyHangup, link
  <1>2. ~conn => inbox' = inbox
    BY DEF Answer, RingOut, PartyHangup, Emit
  <1>3. CASE Answer(c)
    BY <1>1, <1>2, <1>3 DEF TypeOK, Answer, Emit, Reported
  <1>4. CASE RingOut(c)
    BY <1>1, <1>2, <1>4 DEF TypeOK, RingOut, Emit, Reported
  <1>5. CASE PartyHangup(c)
    <2>1. \A d \in Chan : chan'[d] = IF d = c THEN "over" ELSE chan[d]
      BY <1>5 DEF TypeOK, PartyHangup
    <2>2. \A d \in Chan : inbox'[d] = inbox[d] \/ (d = c /\ inbox'[d] \subseteq inbox[d] \cup {"destroyed"})
      BY <1>5 DEF TypeOK, PartyHangup, Emit
    <2>3. chan[c] \in {"up", "mailbox"}
      BY <1>5 DEF PartyHangup
    <2>4. QED
      BY <1>1, <1>2, <2>1, <2>2, <2>3 DEF Reported
  <1>6. QED
    BY <1>3, <1>4, <1>5

LEMMA EventReports == TypeOK /\ (Event \/ Ends) => Reported
  <1> SUFFICES ASSUME TypeOK, NEW c \in Chan,
                      \/ \E e \in EventType : EventIgnored(c, e)
                      \/ LegStarted(c) \/ Straggler(c) \/ LegGone(c) \/ TalkerGone(c)
                      \/ UnansweredEnds(c)
               PROVE  Reported
    BY DEF Event, Ends
  <1> USE RestType, RestCalm
  <1>1. conn' = conn
    BY DEF EventIgnored, LegStarted, Straggler, LegGone, TalkerGone, UnansweredEnds, link
  <1>2. CASE \E e \in EventType : EventIgnored(c, e)
    BY <1>1, <1>2, FewerReports DEF EventIgnored
  <1>3. CASE LegStarted(c)
    BY <1>1, <1>3, FewerReports DEF LegStarted
  <1>4. CASE Straggler(c)
    BY <1>1, <1>4, HangUpReports DEF Straggler
  <1>5. CASE LegGone(c)
    BY <1>1, <1>5, FewerReports DEF LegGone
  <1>6. CASE TalkerGone(c)
    BY <1>1, <1>6, HangUpReports DEF TalkerGone
  <1>7. CASE UnansweredEnds(c)
    BY <1>1, <1>7, HangUpReports DEF UnansweredEnds
  <1>8. QED
    BY <1>2, <1>3, <1>4, <1>5, <1>6, <1>7

LEMMA OtherCommonReports ==
    ASSUME TypeOK, Common, ~People, ~Event
    PROVE  Reported
  <1>1. CASE Bridging
    <2>1. conn' = conn
      BY <1>1 DEF Bridging, BridgeNotNeeded, BuildBridge, StoreBridge, BridgeFails, StoreBridgeFailed,
                  ReadAnswer, StoreAnswer, link
    <2>2. CASE BridgeFails
      BY <2>1, <2>2, TakeDownReports DEF BridgeFails, TypeOK
    <2>3. CASE ~BridgeFails
      BY <1>1, <2>1, <2>3, FewerReports
         DEF Bridging, BridgeNotNeeded, BuildBridge, StoreBridge, StoreBridgeFailed, ReadAnswer,
             StoreAnswer, asterisk
    <2>4. QED
      BY <2>2, <2>3
  <1>2. CASE Ending
    <2>1. PICK p \in Hanger \cup {"worker"} : Finalize(p) \/ (p \in Hanger /\ HangupRequest(p))
      BY <1>2 DEF Ending
    <2>2. conn' = conn
      BY <2>1 DEF Finalize, FinalizeSkips, FinalizeTearsDown, FinalizeStores, HangupRequest, link
    <2>3. CASE FinalizeTearsDown(p)
      BY <2>2, <2>3, TakeDownReports DEF FinalizeTearsDown, TypeOK
    <2>4. CASE HangupRequest(p)
      BY <2>2, <2>4, HangUpReports DEF HangupRequest, TypeOK
    <2>5. CASE FinalizeSkips(p) \/ FinalizeStores(p)
      BY <2>2, <2>5, FewerReports DEF FinalizeSkips, FinalizeStores, asterisk
    <2>6. QED
      BY <2>1, <2>3, <2>4, <2>5 DEF Finalize
  <1>3. CASE Crash \/ Disconnect
    BY <1>3 DEF Crash, Disconnect, Reported
  <1>4. CASE ReadyExpires \/ Connect \/ (\E p \in Actor : Aborts(p)) \/ Recovery
    <2>1. UNCHANGED <<chan, inbox>> /\ (conn' = conn \/ conn')
      BY <1>4 DEF ReadyExpires, Connect, Aborts, Recovery, RecoverGivesUp, Recover, asterisk, link
    <2>2. QED
      BY <2>1 DEF Reported
  <1>5. CASE \E p \in {"starter", "worker"} : StoreRinging(p) \/ StoreFailed(p)
    BY <1>5, FewerReports DEF StoreRinging, StoreFailed, asterisk, link
  <1>6. QED
    BY <1>1, <1>2, <1>3, <1>4, <1>5 DEF Common, Trouble

LEMMA OwnReports == TypeOK /\ DialInv /\ (Starter \/ Worker) => Reported
  <1> SUFFICES ASSUME TypeOK, DialInv, Starter \/ Worker PROVE Reported
    OBVIOUS
  <1> USE RestType, RestCalm
  <1>1. conn' = conn
    BY DEF Starter, Create, DialLeg, ReadNoLegs, RecordLegs, ReadStatus,
           Worker, StartCustomer, EmployeeAnswers, EmployeeAgain, FarAnswers, StoreFar, StoreEmployee,
           NotInService, RefuseEmployee, PrepareFar, DialFar, HangupRefused, link
  <1>2. ASSUME NEW l \in Emp, DialLeg(l) PROVE Reported
    <2>1. l \in Chan /\ chan[l] = "absent" /\ inbox' = inbox
      BY <1>2 DEF DialLeg, DialInv, UndialledSilent, Chan
    <2>2. \A c \in Chan : chan'[c] = chan[c] \/ (c = l /\ chan'[c] = "ringing")
      BY <1>2 DEF DialLeg, TypeOK
    <2>3. QED
      BY <1>1, <2>1, <2>2 DEF Reported
  <1>3. CASE DialFar
    <2>1. inbox' = inbox /\ \A f \in Far : chan[f] = "absent"
      BY <1>3 DEF DialFar, At, W, DialInv, FarNamedFirst
    <2>2. \A c \in Chan : chan'[c] = chan[c] \/ (c \in Far /\ chan'[c] = "ringing")
      BY <1>3 DEF DialFar
    <2>3. QED
      BY <1>1, <2>1, <2>2 DEF Reported
  <1>4. ASSUME NEW c \in Chan, EmployeeAnswers(c) \/ EmployeeAgain(c) \/ FarAnswers(c)
        PROVE  Reported
    BY <1>1, <1>4, HangUpReports, FewerReports DEF EmployeeAnswers, EmployeeAgain, FarAnswers
  <1>5. CASE RefuseEmployee \/ HangupRefused
    BY <1>1, <1>5, HangUpReports DEF RefuseEmployee, HangupRefused, TypeOK
  <1>6. CASE \/ Create \/ ReadNoLegs \/ RecordLegs \/ ReadStatus
             \/ StoreEmployee \/ NotInService \/ PrepareFar \/ StoreFar
    BY <1>1, <1>6, FewerReports
       DEF Create, ReadNoLegs, RecordLegs, ReadStatus, StoreEmployee, NotInService, PrepareFar,
           StoreFar, asterisk
  <1>7. QED
    BY <1>2, <1>3, <1>4, <1>5, <1>6 DEF Starter, Worker, StartCustomer

LEMMA StepReports == TypeOK /\ DialInv /\ [Next]_vars => Reported
  <1>1. UNCHANGED vars => Reported
    BY FewerReports DEF vars, asterisk, link
  <1>2. QED
    BY <1>1, PeopleReport, EventReports, OtherCommonReports, OwnReports DEF Next

----------------------------------------------------------------------------
(* What every step does to the other columns, one at a time.                *)

LEMMA DialledGrows ==
    ASSUME Next \/ UNCHANGED vars
    PROVE  dialled \subseteq dialled'
  <1>1. CASE People \/ Event \/ Ends
    BY <1>1
       DEF People, Answer, RingOut, PartyHangup,
             Event, Ends, EventIgnored, LegStarted, Straggler, LegGone, TalkerGone, UnansweredEnds,
             dial
  <1>2. CASE Bridging \/ Ending
    BY <1>2
       DEF Bridging, BridgeNotNeeded, BuildBridge, StoreBridge, BridgeFails,
             StoreBridgeFailed, ReadAnswer, StoreAnswer,
             Ending, Finalize, FinalizeSkips, FinalizeTearsDown, FinalizeStores,
             HangupRequest,
             dial
  <1>3. CASE \/ Trouble \/ Connect \/ Recovery
             \/ \E p \in {"starter", "worker"} : StoreRinging(p) \/ StoreFailed(p)
    BY <1>3
       DEF Trouble, Crash, Disconnect, ReadyExpires, Aborts, Connect, Recovery,
             RecoverGivesUp, Recover, StoreRinging, StoreFailed,
             dial
  <1>4. CASE Starter
    BY <1>4
       DEF Starter, Create, DialLeg, ReadNoLegs, RecordLegs, ReadStatus,
             dial
  <1>5. CASE Worker
    BY <1>5
       DEF Worker, StartCustomer, EmployeeAnswers, EmployeeAgain, FarAnswers, StoreFar,
             StoreEmployee, NotInService, RefuseEmployee, PrepareFar, DialFar, HangupRefused,
             dial
  <1>6. CASE UNCHANGED vars
    BY <1>6
       DEF vars,
             dial
  <1>7. QED
    BY <1>1, <1>2, <1>3, <1>4, <1>5, <1>6 DEF Next, Common

LEMMA IndexShrinks ==
    ASSUME Next \/ UNCHANGED vars
    PROVE  index' \subseteq index \/ Recover
  <1>1. CASE People \/ Event \/ Ends
    BY <1>1
       DEF People, Answer, RingOut, PartyHangup,
             Event, Ends, EventIgnored, LegStarted, Straggler, LegGone, TalkerGone, UnansweredEnds
  <1>2. CASE Bridging \/ Ending
    BY <1>2
       DEF Bridging, BridgeNotNeeded, BuildBridge, StoreBridge, BridgeFails,
             StoreBridgeFailed, ReadAnswer, StoreAnswer,
             Ending, Finalize, FinalizeSkips, FinalizeTearsDown, FinalizeStores,
             HangupRequest
  <1>3. CASE \/ Trouble \/ Connect \/ Recovery
             \/ \E p \in {"starter", "worker"} : StoreRinging(p) \/ StoreFailed(p)
    BY <1>3
       DEF Trouble, Crash, Disconnect, ReadyExpires, Aborts, Connect, Recovery,
             RecoverGivesUp, Recover, StoreRinging, StoreFailed
  <1>4. CASE Starter
    BY <1>4
       DEF Starter, Create, DialLeg, ReadNoLegs, RecordLegs, ReadStatus
  <1>5. CASE Worker
    BY <1>5
       DEF Worker, StartCustomer, EmployeeAnswers, EmployeeAgain, FarAnswers, StoreFar,
             StoreEmployee, NotInService, RefuseEmployee, PrepareFar, DialFar, HangupRefused
  <1>6. CASE UNCHANGED vars
    BY <1>6
       DEF vars
  <1>7. QED
    BY <1>1, <1>2, <1>3, <1>4, <1>5, <1>6 DEF Next, Common

LEMMA FaultsCount ==
    ASSUME Next \/ UNCHANGED vars
    PROVE  faults' = faults \/ faults < MaxFaults
  <1>1. CASE People \/ Event \/ Ends
    BY <1>1
       DEF People, Answer, RingOut, PartyHangup,
             Event, Ends, EventIgnored, LegStarted, Straggler, LegGone, TalkerGone, UnansweredEnds,
             LastLegGone, bounds
  <1>2. CASE Bridging \/ Ending
    BY <1>2
       DEF Bridging, BridgeNotNeeded, BuildBridge, StoreBridge, BridgeFails,
             StoreBridgeFailed, ReadAnswer, StoreAnswer,
             Ending, Finalize, FinalizeSkips, FinalizeTearsDown, FinalizeStores,
             HangupRequest,
             LastLegGone, bounds
  <1>3. CASE \/ Trouble \/ Connect \/ Recovery
             \/ \E p \in {"starter", "worker"} : StoreRinging(p) \/ StoreFailed(p)
    BY <1>3
       DEF Trouble, Crash, Disconnect, ReadyExpires, Aborts, Connect, Recovery,
             RecoverGivesUp, Recover, StoreRinging, StoreFailed,
             LastLegGone, bounds
  <1>4. CASE Starter
    BY <1>4
       DEF Starter, Create, DialLeg, ReadNoLegs, RecordLegs, ReadStatus,
             LastLegGone, bounds
  <1>5. CASE Worker
    BY <1>5
       DEF Worker, StartCustomer, EmployeeAnswers, EmployeeAgain, FarAnswers, StoreFar,
             StoreEmployee, NotInService, RefuseEmployee, PrepareFar, DialFar, HangupRefused,
             LastLegGone, bounds
  <1>6. CASE UNCHANGED vars
    BY <1>6
       DEF vars,
             LastLegGone, bounds
  <1>7. QED
    BY <1>1, <1>2, <1>3, <1>4, <1>5, <1>6 DEF Next, Common

LEMMA BridgeShrinks ==
    ASSUME Next \/ UNCHANGED vars
    PROVE  mix' \subseteq mix \/ BuildBridge
  <1>1. CASE People \/ Event \/ Ends
    BY <1>1
       DEF People, Answer, RingOut, PartyHangup,
             Event, Ends, EventIgnored, LegStarted, Straggler, LegGone, TalkerGone, UnansweredEnds,
             HangUp, asterisk
  <1>2. CASE Bridging \/ Ending
    BY <1>2
       DEF Bridging, BridgeNotNeeded, BuildBridge, StoreBridge, BridgeFails,
             StoreBridgeFailed, ReadAnswer, StoreAnswer,
             Ending, Finalize, FinalizeSkips, FinalizeTearsDown, FinalizeStores,
             HangupRequest,
             HangUp, asterisk
  <1>3. CASE \/ Trouble \/ Connect \/ Recovery
             \/ \E p \in {"starter", "worker"} : StoreRinging(p) \/ StoreFailed(p)
    BY <1>3
       DEF Trouble, Crash, Disconnect, ReadyExpires, Aborts, Connect, Recovery,
             RecoverGivesUp, Recover, StoreRinging, StoreFailed,
             HangUp, asterisk
  <1>4. CASE Starter
    BY <1>4
       DEF Starter, Create, DialLeg, ReadNoLegs, RecordLegs, ReadStatus,
             HangUp, asterisk
  <1>5. CASE Worker
    BY <1>5
       DEF Worker, StartCustomer, EmployeeAnswers, EmployeeAgain, FarAnswers, StoreFar,
             StoreEmployee, NotInService, RefuseEmployee, PrepareFar, DialFar, HangupRefused,
             HangUp, asterisk
  <1>6. CASE UNCHANGED vars
    BY <1>6
       DEF vars,
             HangUp, asterisk
  <1>7. QED
    BY <1>1, <1>2, <1>3, <1>4, <1>5, <1>6 DEF Next, Common

LEMMA ConnReturns ==
    ASSUME Next \/ UNCHANGED vars, conn'
    PROVE  conn \/ (W.at = "idle" /\ W' = W)
  <1>1. CASE People \/ Event \/ Ends
    BY <1>1
       DEF People, Answer, RingOut, PartyHangup,
             Event, Ends, EventIgnored, LegStarted, Straggler, LegGone, TalkerGone, UnansweredEnds,
             At, W, link
  <1>2. CASE Bridging \/ Ending
    BY <1>2
       DEF Bridging, BridgeNotNeeded, BuildBridge, StoreBridge, BridgeFails,
             StoreBridgeFailed, ReadAnswer, StoreAnswer,
             Ending, Finalize, FinalizeSkips, FinalizeTearsDown, FinalizeStores,
             HangupRequest,
             At, W, link
  <1>3. CASE \/ Trouble \/ Connect \/ Recovery
             \/ \E p \in {"starter", "worker"} : StoreRinging(p) \/ StoreFailed(p)
    BY <1>3
       DEF Trouble, Crash, Disconnect, ReadyExpires, Aborts, Connect, Recovery,
             RecoverGivesUp, Recover, StoreRinging, StoreFailed,
             At, W, link
  <1>4. CASE Starter
    BY <1>4
       DEF Starter, Create, DialLeg, ReadNoLegs, RecordLegs, ReadStatus,
             At, W, link
  <1>5. CASE Worker
    BY <1>5
       DEF Worker, StartCustomer, EmployeeAnswers, EmployeeAgain, FarAnswers, StoreFar,
             StoreEmployee, NotInService, RefuseEmployee, PrepareFar, DialFar, HangupRefused,
             At, W, link
  <1>6. CASE UNCHANGED vars
    BY <1>6
       DEF vars,
             At, W, link
  <1>7. QED
    BY <1>1, <1>2, <1>3, <1>4, <1>5, <1>6 DEF Next, Common

----------------------------------------------------------------------------
(* Who sends the worker where, and who writes the row's channels.           *)

WatchedPlaces ==
    {"employee", "dial", "far", "bridge", "refuse", "farRefused", "fin", "finStore", "boot"}

Elsewhere == W' = W \/ W'.at \notin WatchedPlaces

LEMMA GotoElsewhere ==
    ASSUME TypeOK, NEW p \in Actor, NEW at, NEW c, NEW r, Goto(p, at, c, r),
           p # "worker" \/ at \notin WatchedPlaces
    PROVE  Elsewhere
  BY DEF TypeOK, Goto, Elsewhere, W, Actor

LEMMA FinishElsewhere ==
    ASSUME TypeOK, NEW p \in Actor, Finish(p)
    PROVE  Elsewhere
  BY DEF TypeOK, Finish, Idle, Elsewhere, W, Actor, WatchedPlaces

LEMMA JobElsewhere == UNCHANGED job => Elsewhere
  BY DEF Elsewhere, W

Watched ==
    \/ \E c \in Chan : EmployeeAnswers(c) \/ FarAnswers(c) \/ TalkerGone(c) \/ UnansweredEnds(c)
    \/ StoreEmployee \/ StoreFar \/ NotInService \/ DialFar
    \/ Recover \/ Crash \/ FinalizeTearsDown("worker")

LEMMA WorkerMoves ==
    ASSUME TypeOK, Next \/ UNCHANGED vars
    PROVE  Elsewhere \/ Watched
  <1> "worker" \in Actor /\ "starter" \in Actor /\ Hanger \subseteq Actor /\ "worker" \notin Hanger
    BY ActorsAssumption DEF Actor, ActorsAssumption
  <1> USE GotoElsewhere, FinishElsewhere, JobElsewhere
  <1>1. CASE People \/ Event \/ Ends
    BY <1>1
       DEF People, Answer, RingOut, PartyHangup,
           Event, Ends, EventIgnored, LegStarted, Straggler, LegGone, WatchedPlaces, Watched
  <1>2. CASE Bridging
    BY <1>2
       DEF Bridging, BridgeNotNeeded, BuildBridge, StoreBridge, BridgeFails, StoreBridgeFailed,
           ReadAnswer, StoreAnswer, WatchedPlaces
  <1>3. CASE Ending
    <2>1. PICK p \in Hanger \cup {"worker"} : Finalize(p) \/ (p \in Hanger /\ HangupRequest(p))
      BY <1>3 DEF Ending
    <2>2. CASE FinalizeTearsDown(p)
      BY <2>1, <2>2 DEF FinalizeTearsDown, Watched
    <2>3. CASE FinalizeSkips(p) \/ FinalizeStores(p) \/ (p \in Hanger /\ HangupRequest(p))
      BY <2>1, <2>3 DEF FinalizeSkips, FinalizeStores, HangupRequest
    <2>4. QED
      BY <2>1, <2>2, <2>3 DEF Finalize
  <1>4. CASE \/ Trouble \/ Connect \/ Recovery
             \/ \E p \in {"starter", "worker"} : StoreRinging(p) \/ StoreFailed(p)
    BY <1>4
       DEF Trouble, Disconnect, ReadyExpires, Aborts, Connect, Recovery, RecoverGivesUp,
           StoreRinging, StoreFailed, Watched
  <1>5. CASE Starter
    BY <1>5 DEF Starter, Create, DialLeg, ReadNoLegs, RecordLegs, ReadStatus
  <1>6. CASE Worker
    <2>1. CASE RefuseEmployee \/ PrepareFar \/ HangupRefused
      BY <2>1 DEF RefuseEmployee, PrepareFar, HangupRefused, WatchedPlaces
    <2>2. ASSUME NEW c \in Chan, EmployeeAgain(c) PROVE Elsewhere
      BY <2>2 DEF EmployeeAgain
    <2>3. QED
      BY <1>6, <2>1, <2>2 DEF Worker, StartCustomer, Watched
  <1>7. CASE UNCHANGED vars
    BY <1>7 DEF vars
  <1>8. QED
    BY <1>1, <1>2, <1>3, <1>4, <1>5, <1>6, <1>7 DEF Next, Common

\* Where the worker is once it was sent.
LEMMA SentTo ==
    ASSUME TypeOK
    PROVE  /\ \A c \in Chan : EmployeeAnswers(c) => W'.at = "employee" /\ W'.ch = c
           /\ \A c \in Chan : FarAnswers(c) => W'.at = "far" /\ W'.ch = c
           /\ StoreFar => W'.at = "bridge"
           /\ \A c \in Chan : TalkerGone(c) \/ UnansweredEnds(c) => W'.at = "fin"
           /\ StoreEmployee => W'.at = "dial"
           /\ NotInService => W'.at = "refuse"
           /\ DialFar => W'.at \in {"idle", "farRefused"}
           /\ Recover => W'.at \in {"failed", "dial", "bridge", "idle"}
           /\ Crash => W'.at = "boot"
           /\ FinalizeTearsDown("worker") => W'.at = "finStore"
  <1> "worker" \in Actor
    BY DEF Actor
  <1>1. ASSUME NEW at, NEW c, NEW r, Goto("worker", at, c, r) PROVE W'.at = at /\ W'.ch = c
    BY <1>1 DEF TypeOK, Goto, W
  <1>2. Finish("worker") => W'.at = "idle"
    BY DEF TypeOK, Finish, Idle, W
  <1>3. \A c \in Chan : EmployeeAnswers(c) => W'.at = "employee" /\ W'.ch = c
    BY <1>1 DEF EmployeeAnswers
  <1>4. \A c \in Chan : FarAnswers(c) => W'.at = "far" /\ W'.ch = c
    BY <1>1 DEF FarAnswers
  <1>5. \A c \in Chan : TalkerGone(c) \/ UnansweredEnds(c) => W'.at = "fin"
    BY <1>1 DEF TalkerGone, UnansweredEnds
  <1>6. /\ StoreEmployee => W'.at = "dial"
        /\ StoreFar => W'.at = "bridge"
        /\ NotInService => W'.at = "refuse"
        /\ Crash => W'.at = "boot"
        /\ FinalizeTearsDown("worker") => W'.at = "finStore"
    BY <1>1 DEF StoreEmployee, StoreFar, NotInService, Crash, FinalizeTearsDown
  <1>7. DialFar => W'.at \in {"idle", "farRefused"}
    BY <1>1, <1>2 DEF DialFar
  <1>8. Recover => W'.at \in {"failed", "dial", "bridge", "idle"}
    BY <1>1, <1>2 DEF Recover
  <1>9. QED
    BY <1>3, <1>4, <1>5, <1>6, <1>7, <1>8

SidesSame == row'.emp = row.emp /\ row'.far = row.far

SidesChange == Create \/ StoreEmployee \/ PrepareFar

LEMMA SidesStay ==
    ASSUME TypeOK, DialInv, JoinInv, Next \/ UNCHANGED vars
    PROVE  SidesSame \/ SidesChange
  <1>1. CASE Common \/ Ends \/ UNCHANGED vars
    BY <1>1, CommonCalm, EventCalm, StutterCalm DEF Calm, RowCalm, SidesSame, Recover
  <1>2. CASE Starter
    BY <1>2 DEF Starter, DialLeg, ReadNoLegs, RecordLegs, ReadStatus, Write, TypeOK, Row, SidesSame, SidesChange
  <1>3. CASE StoreFar
    <2>1. job["worker"].ch = row.far
      BY <1>3 DEF StoreFar, At, W, JoinInv
    <2>2. QED
      BY <1>3, <2>1 DEF StoreFar, Write, TypeOK, Row, SidesSame
  <1>4. ASSUME NEW c \in Chan, EmployeeAnswers(c) \/ EmployeeAgain(c) \/ FarAnswers(c)
        PROVE  SidesSame
    BY <1>4 DEF EmployeeAnswers, EmployeeAgain, FarAnswers, SidesSame
  <1>5. CASE NotInService \/ RefuseEmployee \/ DialFar \/ HangupRefused
    BY <1>5 DEF NotInService, RefuseEmployee, DialFar, HangupRefused, Write, TypeOK, Row, SidesSame
  <1>6. QED
    BY <1>1, <1>2, <1>3, <1>4, <1>5 DEF Next, Worker, StartCustomer, SidesChange

\* An answered or ended row stays so; only the row that is created is neither.
LEMMA OutcomeStays ==
    ASSUME TypeOK, DialInv, Next \/ UNCHANGED vars
    PROVE  Create \/ (/\ row.ended => row'.ended
                      /\ row.answered => row'.answered)
  <1>1. CASE People \/ Event \/ Ends \/ Trouble \/ Connect \/ Recovery
    BY <1>1
       DEF People, Answer, RingOut, PartyHangup,
           Event, Ends, EventIgnored, LegStarted, Straggler, LegGone, TalkerGone, UnansweredEnds,
           Trouble, Crash, Disconnect, ReadyExpires, Aborts, Connect, Recovery, RecoverGivesUp, Recover
  <1>2. CASE Bridging \/ Ending \/ \E p \in {"starter", "worker"} : StoreRinging(p) \/ StoreFailed(p)
    BY <1>2
       DEF Bridging, BridgeNotNeeded, BuildBridge, StoreBridge, BridgeFails, StoreBridgeFailed,
           ReadAnswer, StoreAnswer, Ending, Finalize, FinalizeSkips, FinalizeTearsDown,
           FinalizeStores, HangupRequest, StoreRinging, StoreFailed, Write, TypeOK, Row
  <1>3. CASE Starter
    BY <1>3 DEF Starter, DialLeg, ReadNoLegs, RecordLegs, ReadStatus, Write, TypeOK, Row
  <1>4. CASE Worker
    BY <1>4
       DEF Worker, StartCustomer, EmployeeAnswers, EmployeeAgain, FarAnswers, StoreFar, StoreEmployee,
           NotInService, RefuseEmployee, PrepareFar, DialFar, HangupRefused, Write, TypeOK, Row
  <1>5. CASE UNCHANGED vars
    BY <1>5 DEF vars
  <1>6. QED
    BY <1>1, <1>2, <1>3, <1>4, <1>5 DEF Next, Common

----------------------------------------------------------------------------
(* Each part of the invariant.                                             *)

TalkBase == TypeOK /\ DialInv /\ AnswerInv /\ JoinInv

TalkStep == [Next]_vars

\* Who the worker is about to act for has been picked up.
LEMMA SidesPickedUp ==
    ASSUME TalkBase
    PROVE  /\ W.at = "employee" => W.ch \in Emp /\ W.ch \in PickedUp
           /\ W.at = "dial" \/ row.far # None => row.emp \in Emp /\ row.emp \in PickedUp
           /\ W.at = "bridge" \/ mix # {} => row.far \in Far /\ row.far \in PickedUp
           /\ W.at = "employee" => row.far = None
  <1> USE ChannelsAssumption DEF ChannelsAssumption
  <1>1. W.at = "employee" => W.ch \in Emp /\ W.ch \in PickedUp /\ row.far = None
    BY DEF TalkBase, DialInv, AnswersAreReal, JoinInv
  <1>2. W.at = "dial" \/ row.far # None => row.emp \in PickedUp
    BY DEF TalkBase, AnswerInv, FarNamedForAnswerer, DialInv, AnswersAreReal
  <1>3. W.at = "bridge" \/ mix # {} => row.far \in PickedUp
    BY DEF TalkBase, AnswerInv, ClaimsAreTrue, JobClaims, BridgePlaces, BothPickedUp, JoinInv
  <1>4. \A c \in PickedUp : c \in Chan
    BY DEF PickedUp
  <1>5. row.emp \in Emp \cup {None} /\ row.far \in Far \cup {None}
    BY DEF TalkBase, DialInv, RowNamesSides
  <1>6. QED
    BY <1>1, <1>2, <1>3, <1>4, <1>5

LEMMA GoneKeeps ==
    ASSUME TalkBase, TalkInv, TalkStep
    PROVE  GoneIsGone'
  BY StepReports DEF TalkBase, TalkInv, TalkStep, GoneIsGone, Reported

LEMMA BootKeeps ==
    ASSUME TalkBase, TalkInv, TalkStep
    PROVE  BootIsDeaf'
  <1>1. Reported
    BY StepReports DEF TalkBase, TalkStep
  <1>2. W'.at = "boot" => W.at = "boot" \/ Crash
    BY WorkerMoves, SentTo DEF TalkBase, TalkStep, Elsewhere, Watched, WatchedPlaces
  <1>3. Crash => ~conn'
    BY DEF Crash
  <1>4. conn' => conn \/ (W.at = "idle" /\ W' = W)
    BY ConnReturns DEF TalkStep
  <1>5. QED
    BY <1>1, <1>2, <1>3, <1>4 DEF TalkInv, BootIsDeaf, Reported

\* An answer taken is not reported again.
LEMMA TakenStays ==
    ASSUME Reported, NEW c \in PickedUp, "up" \notin inbox[c]
    PROVE  "up" \notin inbox'[c]
  BY DEF Reported, PickedUp

LEMMA OnceKeeps ==
    ASSUME TalkBase, TalkInv, TalkStep
    PROVE  AnsweredOnce'
  <1> USE DEF TalkBase
  <1> TypeOK /\ DialInv /\ AnswerInv /\ JoinInv /\ AnsweredOnce /\ BootIsDeaf
    BY DEF TalkInv
  <1> "worker" \in Actor
    BY DEF Actor
  <1>1. Reported
    BY StepReports DEF TalkStep
  <1>2. W'.at = "employee" => "up" \notin inbox'[W'.ch]
    <2>1. CASE W' = W
      BY <1>1, <2>1, SidesPickedUp, TakenStays DEF AnsweredOnce
    <2>2. ASSUME NEW c \in Chan, EmployeeAnswers(c) PROVE "up" \notin inbox'[W'.ch]
      <3>1. W'.ch = c
        BY <2>2, SentTo
      <3>2. inbox'[c] \subseteq Rest(c, "up")[c] \cup {"destroyed"}
        BY <2>2 DEF EmployeeAnswers, HangUp, TakeDown
      <3>3. QED
        BY <3>1, <3>2 DEF Rest, TypeOK
    <2>3. QED
      BY <2>1, <2>2, WorkerMoves, SentTo DEF TalkStep, Elsewhere, Watched, WatchedPlaces
  <1>3. Recover => UNCHANGED <<row, mix>> /\ \A c \in Chan : inbox'[c] = {}
    BY DEF Recover, At, BootIsDeaf, asterisk, W
  <1>4. W'.at = "dial" \/ row'.far # None => "up" \notin inbox'[row'.emp]
    <2>1. CASE SidesSame /\ (W'.at = "dial" => W' = W)
      BY <1>1, <2>1, SidesPickedUp, TakenStays DEF AnsweredOnce, SidesSame
    <2>2. CASE StoreEmployee
      <3>1. UNCHANGED inbox /\ row'.emp = W.ch /\ W.at = "employee"
        BY <2>2 DEF StoreEmployee, At, asterisk, Row, W
      <3>2. QED
        BY <3>1 DEF AnsweredOnce
    <2>3. CASE PrepareFar
      <3>1. UNCHANGED inbox /\ row'.emp = row.emp /\ W.at = "dial"
        BY <2>3 DEF PrepareFar, Dialling, Write, At, asterisk, TypeOK, Row, W
      <3>2. QED
        BY <3>1 DEF AnsweredOnce
    <2>4. CASE Create
      <3>1. row'.far = None /\ W' = W /\ job["starter"].at = "start"
        BY <2>4 DEF Create, Write, Blank, Goto, At, TypeOK, W
      <3>2. \A e \in Emp : chan[e] = "absent"
        BY <3>1 DEF DialInv, FarNamedFirst
      <3>3. W.at # "dial"
        BY <3>2, SidesPickedUp DEF PickedUp
      <3>4. QED
        BY <3>1, <3>3
    <2>5. CASE Recover
      <3>1. RecoverDials \/ row.far # None \/ W'.at # "dial"
        BY <2>5 DEF Recover, Goto, Finish, Idle, TypeOK, W
      <3>2. RecoverDials \/ row.far # None => row.emp \in Chan
        BY SidesPickedUp DEF RecoverDials, Up, PickedUp
      <3>3. QED
        BY <1>3, <2>5, <3>1, <3>2
    <2>6. QED
      BY <2>1, <2>2, <2>3, <2>4, <2>5, SidesStay, WorkerMoves, SentTo
         DEF TalkStep, SidesChange, Elsewhere, Watched, WatchedPlaces
  <1>5. W'.at = "bridge" \/ mix' # {} => "up" \notin inbox'[row'.far]
    <2>1. CASE SidesSame /\ (W'.at = "bridge" => W' = W) /\ mix' \subseteq mix
      BY <1>1, <2>1, SidesPickedUp, TakenStays DEF AnsweredOnce, SidesSame
    <2>2. CASE BuildBridge
      <3>1. UNCHANGED <<row, inbox>> /\ W.at = "bridge"
        BY <2>2 DEF BuildBridge, BridgeNeeded, At, W
      <3>2. QED
        BY <3>1 DEF AnsweredOnce
    <2>3. CASE StoreFar
      <3>1. W.at = "far" /\ row.far = W.ch /\ UNCHANGED inbox
        BY <2>3 DEF StoreFar, At, asterisk, W, JoinInv
      <3>2. row'.far = W.ch
        BY <2>3 DEF StoreFar, Write, TypeOK, Row, W
      <3>3. QED
        BY <3>1, <3>2 DEF AnsweredOnce
    <2>4. CASE Recover
      <3>1. RecoverBridges \/ W'.at # "bridge"
        BY <2>4 DEF Recover, Goto, Finish, Idle, TypeOK, W
      <3>2. RecoverBridges \/ mix # {} => row.far \in Chan
        BY SidesPickedUp DEF RecoverBridges, Up, PickedUp
      <3>3. QED
        BY <1>3, <2>4, <3>1, <3>2
    <2>5. CASE SidesChange
      <3>1. row.far = None
        <4>1. CASE Create
          BY <4>1 DEF Create, At, DialInv, FarNamedFirst
        <4>2. CASE StoreEmployee
          BY <4>2, SidesPickedUp DEF StoreEmployee, At, W
        <4>3. CASE PrepareFar
          BY <4>3 DEF PrepareFar, Dialling, At, W, DialInv, FarNamedFirst
        <4>4. QED
          BY <2>5, <4>1, <4>2, <4>3 DEF SidesChange
      <3>2. mix' = {}
        BY <2>5, <3>1, NobodyJoined DEF SidesChange, Create, StoreEmployee, PrepareFar, asterisk
      <3>3. W' = W \/ W'.at # "bridge"
        BY <2>5, SentTo DEF SidesChange, Create, PrepareFar, Goto, TypeOK, W
      <3>4. W.at # "bridge"
        BY <3>1, SidesPickedUp, ChannelsAssumption DEF ChannelsAssumption, Chan
      <3>5. QED
        BY <3>2, <3>3, <3>4
    <2>6. QED
      BY <2>1, <2>2, <2>3, <2>4, <2>5, SidesStay, BridgeShrinks, WorkerMoves, SentTo
         DEF TalkStep, Elsewhere, Watched, WatchedPlaces
  <1>6. W'.at = "far" => "up" \notin inbox'[W'.ch]
    <2>1. CASE W' = W
      BY <1>1, <2>1, TakenStays DEF AnsweredOnce, DialInv, AnswersAreReal
    <2>2. ASSUME NEW c \in Chan, FarAnswers(c) PROVE "up" \notin inbox'[W'.ch]
      <3>1. W'.ch = c
        BY <2>2, SentTo
      <3>2. inbox'[c] \subseteq Rest(c, "up")[c] \cup {"destroyed"}
        BY <2>2 DEF FarAnswers, HangUp, TakeDown
      <3>3. QED
        BY <3>1, <3>2 DEF Rest, TypeOK
    <2>3. QED
      BY <2>1, <2>2, WorkerMoves, SentTo DEF TalkStep, Elsewhere, Watched, WatchedPlaces
  <1>7. QED
    BY <1>2, <1>4, <1>5, <1>6 DEF AnsweredOnce

LEMMA LegsStay ==
    ASSUME TypeOK, Next \/ UNCHANGED vars
    PROVE  row'.legs = row.legs \/ Create \/ RecordLegs
  <1>1. CASE Common \/ Ends \/ UNCHANGED vars
    BY <1>1, CommonCalm, EventCalm, StutterCalm DEF Calm, RowCalm, Recover
  <1>2. CASE Starter
    BY <1>2 DEF Starter, DialLeg, ReadNoLegs, ReadStatus
  <1>3. CASE Worker
    BY <1>3
       DEF Worker, StartCustomer, EmployeeAnswers, EmployeeAgain, FarAnswers, StoreFar, StoreEmployee,
           NotInService, RefuseEmployee, PrepareFar, DialFar, HangupRefused, Write, TypeOK, Row
  <1>4. QED
    BY <1>1, <1>2, <1>3 DEF Next

LEMMA DialledStays ==
    ASSUME Next \/ UNCHANGED vars
    PROVE  dialled' = dialled \/ \E l \in Emp : DialLeg(l)
  <1>1. CASE Starter
    BY <1>1 DEF Starter, Create, ReadNoLegs, RecordLegs, ReadStatus, dial
  <1>2. CASE People \/ Event \/ Ends \/ Bridging \/ Ending
    BY <1>2
       DEF People, Answer, RingOut, PartyHangup,
           Event, Ends, EventIgnored, LegStarted, Straggler, LegGone, TalkerGone, UnansweredEnds,
           Bridging, BridgeNotNeeded, BuildBridge, StoreBridge, BridgeFails, StoreBridgeFailed,
           ReadAnswer, StoreAnswer, Ending, Finalize, FinalizeSkips, FinalizeTearsDown,
           FinalizeStores, HangupRequest, dial
  <1>3. CASE \/ Trouble \/ Connect \/ Recovery
             \/ \E p \in {"starter", "worker"} : StoreRinging(p) \/ StoreFailed(p)
    BY <1>3
       DEF Trouble, Crash, Disconnect, ReadyExpires, Aborts, Connect, Recovery, RecoverGivesUp,
           Recover, StoreRinging, StoreFailed, dial
  <1>4. CASE Worker
    BY <1>4
       DEF Worker, StartCustomer, EmployeeAnswers, EmployeeAgain, FarAnswers, StoreFar, StoreEmployee,
           NotInService, RefuseEmployee, PrepareFar, DialFar, HangupRefused, dial
  <1>5. QED
    BY <1>1, <1>2, <1>3, <1>4 DEF Next, Common, vars, dial

Placing == {"start", "dialLegs"}

\* The thread that places the call enters its dial loop once.
StarterStays == job'["starter"] = job["starter"] \/ job'["starter"].at \notin Placing

LEMMA GotoStays ==
    ASSUME TypeOK, NEW p \in Actor, NEW at, NEW c, NEW r, Goto(p, at, c, r),
           p # "starter" \/ at \notin Placing
    PROVE  StarterStays
  BY DEF TypeOK, Goto, StarterStays, Actor

LEMMA FinishStays ==
    ASSUME TypeOK, NEW p \in Actor, Finish(p)
    PROVE  StarterStays
  BY DEF TypeOK, Finish, Idle, StarterStays, Actor, Placing

LEMMA JobStays == UNCHANGED job => StarterStays
  BY DEF StarterStays

LEMMA StarterMoves ==
    ASSUME TypeOK, Next \/ UNCHANGED vars
    PROVE  StarterStays \/ Create
  <1> "worker" \in Actor /\ "starter" \in Actor /\ Hanger \subseteq Actor /\ "starter" \notin Hanger
    BY ActorsAssumption DEF Actor, ActorsAssumption
  <1> USE GotoStays, FinishStays, JobStays
  <1>1. CASE People \/ Event \/ Ends \/ Bridging
    BY <1>1
       DEF People, Answer, RingOut, PartyHangup,
           Event, Ends, EventIgnored, LegStarted, Straggler, LegGone, TalkerGone, UnansweredEnds,
           Bridging, BridgeNotNeeded, BuildBridge, StoreBridge, BridgeFails, StoreBridgeFailed,
           ReadAnswer, StoreAnswer
  <1>2. CASE Ending
    <2>1. PICK p \in Hanger \cup {"worker"} : Finalize(p) \/ (p \in Hanger /\ HangupRequest(p))
      BY <1>2 DEF Ending
    <2>2. QED
      BY <2>1 DEF Finalize, FinalizeSkips, FinalizeTearsDown, FinalizeStores, HangupRequest
  <1>3. CASE \/ Trouble \/ Connect \/ Recovery
             \/ \E p \in {"starter", "worker"} : StoreRinging(p) \/ StoreFailed(p)
    BY <1>3
       DEF Trouble, Crash, Disconnect, ReadyExpires, Aborts, Connect, Recovery, RecoverGivesUp,
           Recover, StoreRinging, StoreFailed
  <1>4. CASE Starter
    BY <1>4 DEF Starter, DialLeg, ReadNoLegs, RecordLegs, ReadStatus, Placing
  <1>5. CASE Worker
    BY <1>5
       DEF Worker, StartCustomer, EmployeeAnswers, EmployeeAgain, FarAnswers, StoreFar, StoreEmployee,
           NotInService, RefuseEmployee, PrepareFar, DialFar, HangupRefused
  <1>6. CASE UNCHANGED vars
    BY <1>6 DEF vars
  <1>7. QED
    BY <1>1, <1>2, <1>3, <1>4, <1>5, <1>6 DEF Next, Common

LEMMA LegsKeep ==
    ASSUME TalkBase, TalkInv, TalkStep
    PROVE  LegsStored'
  <1> TypeOK /\ LegsStored
    BY DEF TalkBase, TalkInv
  <1>1. CASE Create
    <2>1. row'.legs = {} /\ dialled' = dialled
      BY <1>1 DEF Create, Write, Blank, dial
    <2>2. QED
      BY <2>1 DEF LegsStored
  <1>2. CASE RecordLegs
    <2>1. row'.legs = dialled /\ dialled' = dialled
      BY <1>2 DEF RecordLegs, Write, TypeOK, Row, dial
    <2>2. job'["starter"].at = "read"
      BY <1>2 DEF RecordLegs, Goto, TypeOK, Actor
    <2>3. QED
      BY <2>1, <2>2 DEF LegsStored
  <1>3. CASE ~Create /\ ~RecordLegs
    <2>1. row'.legs = row.legs /\ StarterStays
      BY <1>3, LegsStay, StarterMoves DEF TalkStep
    <2>2. (\E l \in Emp : DialLeg(l)) => row.legs = {}
      BY DEF DialLeg, At, LegsStored
    <2>3. row'.legs \in {{}, dialled'}
      BY <2>1, <2>2, DialledStays DEF TalkStep, LegsStored
    <2>4. QED
      BY <2>1, <2>3 DEF LegsStored, StarterStays, Placing
  <1>4. QED
    BY <1>1, <1>2, <1>3

LEMMA IndexKeeps ==
    ASSUME TalkBase, TalkInv, TalkStep
    PROVE  IndexKnown'
  <1> USE DEF TalkBase
  <1> TypeOK /\ DialInv /\ JoinInv /\ IndexKnown /\ LegsStored
    BY DEF TalkInv
  <1> "worker" \in Actor /\ "starter" \in Actor
    BY DEF Actor
  <1>1. CASE Create
    <2>1. /\ row'.legs = {} /\ row'.emp = FirstEmp /\ index' = index /\ W' = W
          /\ job["starter"].at = "start"
      BY <1>1 DEF Create, Write, Blank, Goto, At, TypeOK, W
    <2>2. row.legs = {} /\ W.at # "employee"
      BY <2>1, SidesPickedUp DEF LegsStored, DialInv, FarNamedFirst, PickedUp
    <2>3. QED
      BY <2>1, <2>2 DEF IndexKnown
  <1>2. CASE RecordLegs
    <2>1. /\ row'.legs = dialled /\ dialled # {} /\ row'.emp = row.emp /\ index' = index /\ W' = W
          /\ job["starter"].at = "dialLegs"
      BY <1>2 DEF RecordLegs, DialledAll, Write, Goto, At, TypeOK, Row, W
    <2>2. row.legs = {}
      BY <2>1 DEF LegsStored
    <2>3. QED
      BY <2>1, <2>2 DEF IndexKnown
  <1>3. CASE StoreEmployee
    <2>1. /\ row'.legs = row.legs /\ row'.emp = W.ch /\ index' = index /\ W.at = "employee"
      BY <1>3 DEF StoreEmployee, At, TypeOK, Row, W
    <2>2. W'.at = "dial"
      BY <1>3, SentTo
    <2>3. QED
      BY <2>1, <2>2 DEF IndexKnown
  <1>4. ASSUME NEW c \in Chan, EmployeeAnswers(c) PROVE IndexKnown'
    <2>1. UNCHANGED <<row, index>> /\ W'.ch = c /\ c \in Legs(row) \cup {row.emp}
      BY <1>4, SentTo DEF EmployeeAnswers, EmployeeUp
    <2>2. c \in index \/ c = row.emp \/ c = row.far
      BY <1>4 DEF EmployeeAnswers, EmployeeUp, Took, Found
    <2>3. c # None /\ row.far = None
      BY <1>4, ChannelsAssumption DEF ChannelsAssumption, EmployeeAnswers
    <2>4. c = FirstEmp \/ (row.legs # {} /\ index \subseteq row.legs)
      BY <2>1, <2>2, <2>3 DEF IndexKnown, Legs
    <2>5. QED
      BY <2>1, <2>4 DEF IndexKnown
  <1>5. CASE Recover
    <2>1. UNCHANGED row /\ index' \subseteq Legs(row) /\ W'.at # "employee"
      BY <1>5, SentTo DEF Recover, Recovered
    <2>2. QED
      BY <2>1 DEF IndexKnown, Legs
  <1>6. CASE /\ ~Create /\ ~RecordLegs /\ ~StoreEmployee /\ ~Recover
             /\ ~(\E c \in Chan : EmployeeAnswers(c))
    <2>1. row'.legs = row.legs /\ index' \subseteq index
      BY <1>6, LegsStay, IndexShrinks DEF TalkStep
    <2>2. row'.emp = row.emp
      BY <1>6, SidesStay DEF TalkStep, SidesSame, SidesChange, PrepareFar, Write, TypeOK, Row
    <2>3. W' = W \/ W'.at # "employee"
      BY <1>6, WorkerMoves, SentTo DEF TalkStep, Elsewhere, Watched, WatchedPlaces
    <2>4. QED
      BY <2>1, <2>2, <2>3 DEF IndexKnown
  <1>7. QED
    BY <1>1, <1>2, <1>3, <1>4, <1>5, <1>6

LEMMA AbsentStays ==
    ASSUME TypeOK, Next \/ UNCHANGED vars
    PROVE  /\ \A e \in Emp : chan[e] = "absent" => chan'[e] = "absent" \/ DialLeg(e)
           /\ \A f \in Far : chan[f] = "absent" => chan'[f] = "absent" \/ DialFar
  <1> USE RestType, RestCalm, ChannelsAssumption DEF ChannelsAssumption
  <1> Emp \subseteq Chan /\ Far \subseteq Chan
    BY DEF Chan
  <1>1. CASE Common \/ Ends \/ UNCHANGED vars
    BY <1>1, CommonCalm, EventCalm, StutterCalm DEF Calm, ChanCalm, Recover, asterisk
  <1>2. CASE Starter
    BY <1>2 DEF Starter, Create, DialLeg, ReadNoLegs, RecordLegs, ReadStatus, asterisk, TypeOK
  <1>3. ASSUME NEW c \in Chan, EmployeeAnswers(c) \/ FarAnswers(c) PROVE ChanCalm
    BY <1>3, HangUpCalm DEF EmployeeAnswers, FarAnswers
  <1>4. CASE RefuseEmployee \/ HangupRefused
    <2>1. ChanCalm
      BY <1>4, HangUpCalm DEF RefuseEmployee, HangupRefused, TypeOK
    <2>2. QED
      BY <2>1 DEF ChanCalm
  <1>5. CASE DialFar
    BY <1>5 DEF DialFar
  <1>6. CASE \/ \E c \in Chan : EmployeeAgain(c)
             \/ StoreEmployee \/ NotInService \/ PrepareFar \/ StoreFar
    BY <1>6 DEF EmployeeAgain, StoreEmployee, NotInService, PrepareFar, StoreFar, asterisk
  <1>7. QED
    BY <1>1, <1>2, <1>3, <1>4, <1>5, <1>6 DEF Next, Worker, StartCustomer, ChanCalm

LEMMA UnheardKeeps ==
    ASSUME MaxFaults <= 1, TalkBase, TalkInv, TalkStep
    PROVE  UnheardIsFault'
  <1> TypeOK /\ UnheardIsFault /\ MaxFaults \in Nat
    BY BoundsAssumption DEF TalkBase, TalkInv, BoundsAssumption
  <1> SUFFICES ASSUME NEW e \in Emp, chan'[e] # "absent", e \notin dialled'
               PROVE  faults' = MaxFaults
    BY DEF UnheardIsFault
  <1>1. e \notin dialled
    BY DialledGrows DEF TalkStep
  <1>2. CASE chan[e] # "absent"
    <2>1. faults = MaxFaults
      BY <1>1, <1>2 DEF UnheardIsFault
    <2>2. QED
      BY <2>1, FaultsCount DEF TalkStep
  <1>3. CASE chan[e] = "absent"
    <2>1. DialLeg(e)
      BY <1>3, AbsentStays DEF TalkStep
    <2>2. faults < MaxFaults /\ faults' = faults + 1
      BY <1>3, <2>1 DEF DialLeg
    <2>3. QED
      BY <2>2 DEF TypeOK
  <1>4. QED
    BY <1>2, <1>3

LEMMA EndsKeep ==
    ASSUME TalkBase, TalkInv, TalkStep
    PROVE  EndsTogether'
  <1> TypeOK /\ DialInv /\ JoinInv /\ EndsTogether
    BY DEF TalkBase, TalkInv
  <1> DEFINE GoesOn == row'.status \notin Terminal \cup {"none"}
             IsOver == row'.status \in Terminal /\ row'.ended
  <1>1. CASE People \/ Event \/ Ends \/ Trouble \/ Connect \/ Recovery \/ UNCHANGED vars
    <2>1. row' = row
      BY <1>1
         DEF People, Answer, RingOut, PartyHangup,
             Event, Ends, EventIgnored, LegStarted, Straggler, LegGone, TalkerGone, UnansweredEnds,
             Trouble, Crash, Disconnect, ReadyExpires, Aborts, Connect, Recovery, RecoverGivesUp,
             Recover, vars
    <2>2. QED
      BY <2>1 DEF EndsTogether
  <1>2. CASE Bridging \/ \E p \in {"starter", "worker"} : StoreRinging(p) \/ StoreFailed(p)
    <2>1. row' = row \/ GoesOn \/ IsOver
      BY <1>2
         DEF Bridging, BridgeNotNeeded, BuildBridge, StoreBridge, BridgeFails, StoreBridgeFailed,
             ReadAnswer, StoreAnswer, StoreRinging, StoreFailed, Write, TypeOK, Row, Terminal
    <2>2. QED
      BY <2>1 DEF EndsTogether, Terminal
  <1>3. CASE Ending
    <2>1. row' = row \/ IsOver
      BY <1>3
         DEF Ending, Finalize, FinalizeSkips, FinalizeTearsDown, FinalizeStores, HangupRequest,
             Outcome, Write, TypeOK, Row, Terminal
    <2>2. QED
      BY <2>1 DEF EndsTogether, Terminal
  <1>4. CASE Starter
    <2>1. CASE RecordLegs
      BY <2>1 DEF RecordLegs, Write, TypeOK, Row, EndsTogether
    <2>2. CASE ~RecordLegs
      <3>1. row' = row \/ GoesOn
        BY <1>4, <2>2 DEF Starter, Create, DialLeg, ReadNoLegs, ReadStatus, Write, Blank, Terminal
      <3>2. QED
        BY <3>1 DEF EndsTogether
    <2>3. QED
      BY <2>1, <2>2
  <1>5. CASE Worker
    <2>1. CASE StoreFar
      <3>1. job["worker"].ch = row.far
        BY <2>1 DEF StoreFar, At, W, JoinInv
      <3>2. row'.status = row.status /\ row'.ended = row.ended /\ row'.far = row.far
        BY <2>1, <3>1 DEF StoreFar, Write, TypeOK, Row
      <3>3. QED
        BY <3>2 DEF EndsTogether
    <2>2. CASE ~StoreFar
      <3>1. row' = row \/ GoesOn \/ IsOver
        BY <1>5, <2>2
           DEF Worker, StartCustomer, EmployeeAnswers, EmployeeAgain, FarAnswers, StoreEmployee,
               NotInService, RefuseEmployee, PrepareFar, DialFar, HangupRefused, Write, TypeOK, Row,
               Terminal
      <3>2. QED
        BY <3>1 DEF EndsTogether, Terminal
    <2>3. QED
      BY <2>1, <2>2
  <1>6. QED
    BY <1>1, <1>2, <1>3, <1>4, <1>5 DEF TalkStep, Next, Common

\* The row's channels change while nobody talks.
LEMMA SidesChangeAlone ==
    ASSUME TalkBase, SidesChange
    PROVE  row.far = None /\ mix = {} /\ mix' = {}
  <1> USE DEF TalkBase
  <1>1. row.far = None
    <2>1. CASE Create
      BY <2>1 DEF Create, At, DialInv, FarNamedFirst
    <2>2. CASE StoreEmployee
      BY <2>2, SidesPickedUp DEF StoreEmployee, At, W
    <2>3. CASE PrepareFar
      BY <2>3 DEF PrepareFar, Dialling, At, W, DialInv, FarNamedFirst
    <2>4. QED
      BY <2>1, <2>2, <2>3 DEF SidesChange
  <1>2. mix = {}
    BY <1>1, NobodyJoined
  <1>3. QED
    BY <1>1, <1>2 DEF SidesChange, Create, StoreEmployee, PrepareFar, asterisk

\* Two who talk after a step talked before it, or have just been bridged.
LEMMA JoinedBefore ==
    ASSUME TalkBase, TalkStep, Joined'
    PROVE  BuildBridge \/ (Joined /\ SidesSame)
  <1> TypeOK /\ DialInv /\ JoinInv
    BY DEF TalkBase
  <1> SUFFICES ASSUME ~BuildBridge PROVE Joined /\ SidesSame
    OBVIOUS
  <1>1. mix' # {} /\ {row'.emp, row'.far} \subseteq Chan
        /\ chan'[row'.emp] = "up" /\ chan'[row'.far] = "up"
    BY DEF Joined, Up
  <1>2. SidesSame
    BY <1>1, SidesStay, SidesChangeAlone DEF TalkStep
  <1>3. mix # {}
    BY <1>1, BridgeShrinks DEF TalkStep
  <1>4. {row.emp, row.far} \subseteq PickedUp
    BY <1>3 DEF JoinInv, BothPickedUp
  <1>5. chan[row.emp] = "up" /\ chan[row.far] = "up"
    BY <1>1, <1>2, <1>4, StepReports DEF TalkStep, SidesSame, Reported, PickedUp
  <1>6. QED
    BY <1>1, <1>2, <1>3, <1>5 DEF Joined, Up, SidesSame

UnderWay == {"bridge", "bridged", "answer", "answered", "boot"}

\* Who moves a worker that is bridging, or starting.
LEMMA UnderWayMoves ==
    ASSUME TypeOK, Next \/ UNCHANGED vars, W.at \in UnderWay
    PROVE  W' = W \/ Bridging \/ Aborts("worker") \/ Crash \/ Recovery
  <1> "worker" \in Actor /\ "starter" \in Actor /\ Hanger \subseteq Actor /\ "worker" \notin Hanger
    BY ActorsAssumption DEF Actor, ActorsAssumption
  <1>1. ASSUME NEW p \in Actor \ {"worker"}, NEW at, NEW c, NEW r, Goto(p, at, c, r)
        PROVE  W' = W
    BY <1>1 DEF TypeOK, Goto, W
  <1>2. ASSUME NEW p \in Actor \ {"worker"}, Finish(p) PROVE W' = W
    BY <1>2 DEF TypeOK, Finish, W
  <1>3. CASE People \/ Event \/ Ends
    BY <1>3
       DEF People, Answer, RingOut, PartyHangup,
           Event, Ends, EventIgnored, LegStarted, Straggler, LegGone, TalkerGone, UnansweredEnds,
           LastLegGone, Took, At, W, UnderWay
  <1>4. CASE Ending
    <2>1. PICK p \in Hanger \cup {"worker"} : Finalize(p) \/ (p \in Hanger /\ HangupRequest(p))
      BY <1>4 DEF Ending
    <2>2. p # "worker"
      BY <2>1 DEF Finalize, FinalizeSkips, FinalizeTearsDown, FinalizeStores, At, W, UnderWay
    <2>3. QED
      BY <2>1, <2>2, <1>1, <1>2
         DEF Finalize, FinalizeSkips, FinalizeTearsDown, FinalizeStores, HangupRequest
  <1>5. ASSUME NEW p \in Actor, Aborts(p) PROVE W' = W \/ Aborts("worker")
    BY <1>2, <1>5 DEF Aborts
  <1>6. CASE Disconnect \/ ReadyExpires \/ Connect
    BY <1>6 DEF Disconnect, ReadyExpires, Connect, W
  <1>7. ASSUME NEW p \in {"starter", "worker"}, StoreRinging(p) \/ StoreFailed(p) PROVE W' = W
    <2>1. p # "worker"
      BY <1>7 DEF StoreRinging, StoreFailed, At, W, UnderWay
    <2>2. QED
      BY <1>2, <1>7, <2>1 DEF StoreRinging, StoreFailed
  <1>8. CASE Starter
    BY <1>1, <1>2, <1>8 DEF Starter, Create, DialLeg, ReadNoLegs, RecordLegs, ReadStatus, W
  <1>9. CASE Worker
    BY <1>9
       DEF Worker, StartCustomer, EmployeeAnswers, EmployeeUp, EmployeeAgain, FarAnswers, StoreFar, StoreEmployee,
           NotInService, RefuseEmployee, PrepareFar, Dialling, DialFar, HangupRefused,
           Took, At, W, UnderWay
  <1>10. CASE UNCHANGED vars
    BY <1>10 DEF vars, W
  <1>11. QED
    BY <1>3, <1>4, <1>5, <1>6, <1>7, <1>8, <1>9, <1>10 DEF Next, Common, Trouble

LEMMA AnswerKeeps ==
    ASSUME TalkBase, TalkInv, TalkStep
    PROVE  AnswerUnderWay'
  <1> USE DEF TalkBase
  <1> TypeOK /\ DialInv /\ JoinInv /\ AnswerUnderWay /\ UnheardIsFault /\ EndsTogether
    BY DEF TalkInv
  <1> "worker" \in Actor
    BY DEF Actor
  <1> SUFFICES ASSUME Joined', row'.emp \notin dialled'
               PROVE  row'.answered \/ row'.ended \/ W'.at \in UnderWay
    BY DEF AnswerUnderWay, UnderWay
  <1>0. ASSUME NEW at, NEW c, NEW r, Goto("worker", at, c, r) PROVE W'.at = at
    BY <1>0 DEF TypeOK, Goto, W
  <1>1. CASE BuildBridge
    BY <1>0, <1>1 DEF BuildBridge, UnderWay
  <1>2. CASE ~BuildBridge
    <2>1. Joined /\ SidesSame
      BY <1>2, JoinedBefore
    <2>2. row.emp \notin dialled
      BY <2>1, DialledGrows DEF TalkStep, SidesSame
    <2>3. row.emp \in Emp /\ row.far \in Far /\ chan[row.emp] = "up" /\ chan[row.far] = "up"
      BY <2>1, SidesPickedUp, ChannelsAssumption DEF ChannelsAssumption, Joined, Up, Chan
    <2>4. ~(faults < MaxFaults)
      BY <2>2, <2>3, BoundsAssumption DEF UnheardIsFault, BoundsAssumption
    <2>5. CASE row.answered \/ row.ended
      <3>1. ~Create
        BY <2>3, SidesChangeAlone, ChannelsAssumption DEF SidesChange, ChannelsAssumption, Chan
      <3>2. QED
        BY <2>5, <3>1, OutcomeStays DEF TalkStep
    <2>6. CASE ~row.answered /\ ~row.ended
      <3>1. W.at \in UnderWay
        BY <2>1, <2>2, <2>6 DEF AnswerUnderWay, UnderWay
      <3>2. CASE W' = W
        BY <3>1, <3>2
      <3>3. CASE Bridging
        <4>1. BridgeNotNeeded => W'.at = "answer"
          BY <1>0 DEF BridgeNotNeeded
        <4>2. StoreBridge => W'.at = "answer"
          BY <1>0 DEF StoreBridge
        <4>3. ~BridgeFails
          BY <2>1, <2>4 DEF BridgeFails, Joined
        <4>4. ~StoreBridgeFailed
          BY <3>1 DEF StoreBridgeFailed, At, W, UnderWay
        <4>5. row.status # "failed"
          BY <2>6 DEF EndsTogether, Terminal
        <4>6. ReadAnswer => W'.at = "answered"
          BY <1>0, <2>6, <4>5 DEF ReadAnswer
        <4>7. StoreAnswer => row'.answered
          BY DEF StoreAnswer, Write, TypeOK, Row
        <4>8. QED
          BY <1>2, <3>3, <4>1, <4>2, <4>3, <4>4, <4>6, <4>7 DEF Bridging, UnderWay
      <3>4. CASE Aborts("worker") \/ RecoverGivesUp
        BY <2>4, <3>4 DEF Aborts, RecoverGivesUp
      <3>5. CASE Crash
        BY <3>5, SentTo DEF UnderWay
      <3>6. CASE Recover
        <4>1. row.far # None /\ row.far \notin Caller
          BY <2>3, ChannelsAssumption DEF ChannelsAssumption, Chan
        <4>2. Recoverable
          BY <2>6, <4>1 DEF Recoverable, EndsTogether
        <4>3. row.emp \in Live /\ row.far \in Up
          BY <2>3 DEF Live, Up, Chan
        <4>4. ~RecoverNoLiveChannel /\ ~RecoverDials /\ ~RecoverLeaves
          BY <4>1, <4>2, <4>3 DEF RecoverNoLiveChannel, RecoverDials, RecoverLeaves, RecoverBridges
        <4>5. Goto("worker", "bridge", None, Blank)
          BY <3>6, <4>4 DEF Recover
        <4>6. QED
          BY <1>0, <4>5 DEF UnderWay
      <3>7. QED
        BY <3>1, <3>2, <3>3, <3>4, <3>5, <3>6, UnderWayMoves DEF TalkStep, Recovery
    <2>7. QED
      BY <2>5, <2>6 DEF TypeOK, Row
  <1>3. QED
    BY <1>1, <1>2

\* Who cannot be talking any more never will be, as long as the worker is not
\* dialling.
LEMMA PartedStays ==
    ASSUME TalkBase, TalkStep, W.at \in {"fin", "finStore"}, Parted
    PROVE  Parted'
  <1> USE DEF TalkBase
  <1> SUFFICES ASSUME row'.far # None, SidesSame PROVE Parted'
    <2>1. ~StoreEmployee /\ ~PrepareFar
      BY DEF StoreEmployee, PrepareFar, Dialling, At, W
    <2>2. Create => row'.far = None
      BY DEF Create, Write, Blank
    <2>3. QED
      BY <2>1, <2>2, SidesStay DEF TalkStep, SidesChange, Parted
  <1>1. row.emp \in Emp /\ row.emp \in PickedUp /\ row.far \in Far
    BY SidesPickedUp DEF SidesSame, DialInv, RowNamesSides
  <1>2. Reported /\ FarOnce /\ ~DialFar
    BY StepReports, StepKeeps DEF TalkStep, DialFar, At, W
  <1>3. chan[row.emp] # "up" => chan'[row.emp] # "up"
    BY <1>1, <1>2 DEF Reported, PickedUp
  <1>4. ASSUME chan[row.far] \notin {"ringing", "up"} PROVE chan'[row.far] \notin {"ringing", "up"}
    <2>1. row.far \in Chan
      BY <1>1 DEF Chan
    <2>2. chan[row.far] = "absent" => chan'[row.far] = "absent"
      BY <1>1, <1>2, AbsentStays DEF TalkStep
    <2>3. QED
      BY <1>1, <1>2, <1>4, <2>1, <2>2 DEF Reported, FarOnce
  <1>5. QED
    BY <1>1, <1>3, <1>4 DEF Parted, SidesSame

\* The end of a call in which somebody is left rings for nobody.
LEMMA EndsParted ==
    ASSUME TalkBase, TalkInv, NEW c \in Chan, UnansweredEnds(c)
    PROVE  Parted'
  <1> USE DEF TalkBase
  <1> SUFFICES ASSUME row.far # None PROVE Parted'
    BY DEF UnansweredEnds, Parted
  <1>1. row' = row /\ row.far \in Chan
    BY SidesPickedUp DEF UnansweredEnds, DialInv, RowNamesSides, Chan
  <1>2. chan[c] \in {"missed", "over"}
    BY DEF UnansweredEnds, LastLegGone, Took, TalkInv, GoneIsGone
  <1>3. \A d \in Chan : chan'[d] = IF d \notin Owned(row, c) \cap Live THEN chan[d]
                                   ELSE IF chan[d] = "ringing" THEN "missed" ELSE "over"
    BY DEF UnansweredEnds, HangUp, TakeDown
  <1>4. row.far = c \/ row.far \in Owned(row, c)
    BY DEF Owned
  <1>5. \A d \in Chan : chan[d] \in {"ringing", "up"} => d \in Live
    BY DEF Live
  <1>6. chan'[row.far] \notin {"ringing", "up"}
    BY <1>1, <1>2, <1>3, <1>4, <1>5
  <1>7. QED
    BY <1>1, <1>6 DEF Parted

\* A leg the worker finds is one of the two who talk, or is taken for a leg.
LEMMA TalkerFound ==
    ASSUME TalkBase, TalkInv, NEW c \in Chan, TalkerGone(c), row.far # None
    PROVE  c = row.emp \/ c = row.far
  <1> USE ChannelsAssumption DEF TalkBase, ChannelsAssumption
  <1>1. row.emp \in Emp
    BY SidesPickedUp
  <1>2. ~Unanswered(c) /\ ~Loser(c) /\ (c \in index \/ c = row.emp \/ c = row.far)
    BY DEF TalkerGone, Found
  <1>3. ASSUME c \notin {row.emp, row.far} PROVE EmployeeLeg(c)
    <2>1. c \in index
      BY <1>2, <1>3
    <2>2. row.emp # None
      BY <1>1 DEF Chan
    <2>3. index \subseteq row.legs \/ (row.emp = FirstEmp /\ index \subseteq {FirstEmp})
      BY <2>2 DEF TalkInv, IndexKnown
    <2>4. c \in row.legs
      BY <1>3, <2>1, <2>3
    <2>5. QED
      BY <2>4 DEF EmployeeLeg, Legs
  <1>4. QED
    BY <1>2, <1>3 DEF Unanswered, Loser, CustomerLeg

LEMMA TalkerParted ==
    ASSUME TalkBase, TalkInv, NEW c \in Chan, TalkerGone(c), Reported
    PROVE  Parted'
  <1> SUFFICES ASSUME row.far # None PROVE Parted'
    BY DEF TalkerGone, Parted
  <1>1. row' = row /\ (c = row.emp \/ c = row.far)
    BY TalkerFound DEF TalkerGone
  <1>2. chan[c] \in {"missed", "over"}
    BY DEF TalkerGone, Took, TalkInv, GoneIsGone
  <1>3. chan'[c] \in {"missed", "over"}
    BY <1>2 DEF Reported
  <1>4. QED
    BY <1>1, <1>3 DEF Parted

LEMMA NobodyKeeps ==
    ASSUME TalkBase, TalkInv, TalkStep
    PROVE  NobodyTalks'
  <1> USE DEF TalkBase
  <1> TypeOK /\ DialInv /\ JoinInv /\ NobodyTalks
    BY DEF TalkInv
  <1>1. W'.at = "refuse" => row'.far = None
    <2>1. CASE W' = W
      <3>1. W.at = "refuse" => ~StoreEmployee /\ ~PrepareFar
        BY DEF StoreEmployee, PrepareFar, Dialling, At, W
      <3>2. Create => row'.far = None
        BY DEF Create, Write, Blank
      <3>3. QED
        BY <2>1, <3>1, <3>2, SidesStay DEF TalkStep, SidesSame, SidesChange, NobodyTalks
    <2>2. CASE NotInService
      BY <2>2 DEF NotInService, Dialling, At, W, DialInv, FarNamedFirst, Write, TypeOK, Row
    <2>3. QED
      BY <2>1, <2>2, WorkerMoves, SentTo DEF TalkStep, Elsewhere, Watched, WatchedPlaces
  <1>2. W'.at = "farRefused" => mix' = {}
    <2>1. CASE W' = W
      <3>1. W.at = "farRefused" => ~BuildBridge
        BY DEF BuildBridge, BridgeNeeded, At, W
      <3>2. QED
        BY <2>1, <3>1, BridgeShrinks DEF TalkStep, NobodyTalks
    <2>2. CASE DialFar
      <3>1. mix' = mix /\ \A f \in Far : chan[f] = "absent"
        BY <2>2 DEF DialFar, At, W, DialInv, FarNamedFirst
      <3>2. QED
        BY <3>1, SidesPickedUp DEF PickedUp
    <2>3. QED
      BY <2>1, <2>2, WorkerMoves, SentTo DEF TalkStep, Elsewhere, Watched, WatchedPlaces
  <1>3. W'.at \in {"fin", "finStore"} => Parted'
    <2>1. CASE W' = W \/ FinalizeTearsDown("worker")
      <3>1. FinalizeTearsDown("worker") => W.at = "fin"
        BY DEF FinalizeTearsDown, At, W
      <3>2. QED
        BY <2>1, <3>1, PartedStays DEF NobodyTalks
    <2>2. ASSUME NEW c \in Chan, TalkerGone(c) \/ UnansweredEnds(c) PROVE Parted'
      BY <2>2, EndsParted, TalkerParted, StepReports DEF TalkStep
    <2>3. QED
      BY <2>1, <2>2, WorkerMoves, SentTo DEF TalkStep, Elsewhere, Watched, WatchedPlaces
  <1>4. QED
    BY <1>1, <1>2, <1>3 DEF NobodyTalks

LEMMA StepTalks ==
    ASSUME MaxFaults <= 1
    PROVE  TalkBase /\ TalkInv /\ TalkStep => TalkInv'
  BY GoneKeeps, BootKeeps, OnceKeeps, LegsKeep, IndexKeeps, UnheardKeeps, EndsKeep, AnswerKeeps,
     NobodyKeeps
     DEF TalkInv

LEMMA InitTalks == Init => TalkInv
  <1> SUFFICES ASSUME Init PROVE TalkInv
    OBVIOUS
  <1>1. /\ row = Blank /\ mix = {} /\ index = {} /\ dialled = {} /\ conn
        /\ \A c \in Chan : chan[c] = "absent" /\ inbox[c] = {}
    BY DEF Init, InitWith
  <1>2. W = Idle
    <2>1. "worker" \in Actor /\ "worker" \notin Hanger
      BY ActorsAssumption DEF Actor, ActorsAssumption
    <2>2. job["worker"] = Idle
      BY <2>1 DEF Init, InitWith
    <2>3. QED
      BY <2>2 DEF W
  <1>3. QED
    BY <1>1, <1>2
       DEF Blank, Idle, Terminal, TalkInv, GoneIsGone, BootIsDeaf, AnsweredOnce, LegsStored, IndexKnown,
           UnheardIsFault, EndsTogether, AnswerUnderWay, Joined, NobodyTalks, Chan

----------------------------------------------------------------------------
(* Nothing but a hangup of theirs, a request or the fault parts two talkers. *)

\* A bridge of two is that of the two the row names.
LEMMA TwoTalk ==
    ASSUME TalkBase, Cardinality(mix) = 2
    PROVE  Joined /\ mix = {row.emp, row.far}
  <1>1. mix \subseteq {row.emp, row.far} /\ mix \subseteq Up
    BY DEF TalkBase, JoinInv
  <1>2. mix = {} \/ mix = {row.emp} \/ mix = {row.far} \/ mix = {row.emp, row.far}
    BY <1>1
  <1>3. mix # {} /\ mix # {row.emp} /\ mix # {row.far}
    BY FS_EmptySet, FS_Singleton
  <1>4. QED
    BY <1>1, <1>2, <1>3 DEF Joined

Kept ==
    \/ mix' = mix
    \/ \E c \in mix : PartyHangup(c)
    \/ \E h \in Hanger : HangupRequest(h)

LEMMA TalkersStay ==
    ASSUME TalkBase, TalkInv, Next, Cardinality(mix) = 2, faults' = faults, NoRequest
    PROVE  Kept
  <1> USE DEF TalkBase
  <1> TypeOK /\ DialInv /\ JoinInv
    OBVIOUS
  <1>1. Joined /\ mix = {row.emp, row.far}
    BY TwoTalk
  <1>2. /\ row.emp \in Emp /\ row.far \in Far /\ row.far # None
        /\ chan[row.emp] = "up" /\ chan[row.far] = "up"
    BY <1>1, SidesPickedUp, ChannelsAssumption DEF ChannelsAssumption, Joined, Up, Chan
  <1>3. faults + 1 # faults
    BY DEF TypeOK
  <1>4. CASE People
    BY <1>4 DEF People, Answer, RingOut, PartyHangup, Kept
  <1>5. ASSUME NEW c \in Chan, Straggler(c) PROVE Kept
    <2>1. "up" \in inbox[c] /\ mix' = mix \ {c}
      BY <1>5 DEF Straggler, Took, HangUp
    <2>2. c \notin mix
      BY <1>1, <1>2, <2>1 DEF TalkInv, AnsweredOnce, Joined
    <2>3. QED
      BY <2>1, <2>2 DEF Kept
  <1>6. ASSUME NEW c \in Chan, TalkerGone(c) PROVE Kept
    <2>1. chan[c] \in {"missed", "over"}
      BY <1>6 DEF TalkerGone, Took, TalkInv, GoneIsGone
    <2>2. QED
      BY <1>2, <1>6, <2>1, TalkerFound
  <1>7. ASSUME NEW c \in Chan, UnansweredEnds(c) PROVE Kept
    <2>1. chan[c] \in {"missed", "over"}
      BY <1>7 DEF UnansweredEnds, LastLegGone, Took, TalkInv, GoneIsGone
    <2>2. OthersOf(c) = {} /\ ~row.ended /\ Unanswered(c) /\ W.at = "idle"
      BY <1>3, <1>7 DEF UnansweredEnds, LastLegGone, Took, At, W
    <2>3. row.emp \in Live /\ row.far \in Live /\ row.emp # c /\ row.far # c
      BY <1>2, <2>1 DEF Live, Chan
    <2>4. EmployeeLeg(c) /\ row.emp \notin Legs(row)
      BY <2>2, <2>3 DEF OthersOf, FarLegs, Unanswered
    <2>5. row.legs = dialled
      <3>1. row.emp # None
        BY <1>2, ChannelsAssumption DEF ChannelsAssumption, Chan
      <3>2. row.legs # {}
        BY <2>4, <3>1 DEF Legs
      <3>3. QED
        BY <3>2 DEF TalkInv, LegsStored
    <2>6. ~row.answered /\ row.emp \notin dialled
      BY <2>2, <2>4, <2>5 DEF Unanswered, Legs, EmployeeLeg
    <2>7. QED
      BY <1>1, <2>2, <2>6 DEF TalkInv, AnswerUnderWay
  <1>8. CASE \E c \in Chan : (\E e \in EventType : EventIgnored(c, e)) \/ LegStarted(c) \/ LegGone(c)
    BY <1>8 DEF EventIgnored, LegStarted, LegGone, Kept
  <1>9. CASE Bridging
    <2>1. ~BridgeFails
      BY <1>1, <1>3 DEF BridgeFails, Joined
    <2>2. BuildBridge => mix' = mix
      BY <1>1 DEF BuildBridge
    <2>3. QED
      BY <1>9, <2>1, <2>2
         DEF Bridging, BridgeNotNeeded, StoreBridge, StoreBridgeFailed, ReadAnswer, StoreAnswer,
             asterisk, Kept
  <1>10. CASE Ending
    <2>1. PICK p \in Hanger \cup {"worker"} : Finalize(p) \/ (p \in Hanger /\ HangupRequest(p))
      BY <1>10 DEF Ending
    <2>2. ~FinalizeTearsDown(p)
      <3>1. p \in Hanger => ~At(p, "fin")
        BY DEF NoRequest, At
      <3>2. W.at # "fin"
        BY <1>2 DEF TalkInv, NobodyTalks, Parted
      <3>3. QED
        BY <2>1, <3>1, <3>2 DEF FinalizeTearsDown, At, W
    <2>3. QED
      BY <2>1, <2>2 DEF Finalize, FinalizeSkips, FinalizeStores, asterisk, Kept
  <1>11. CASE \/ Trouble \/ Connect \/ Recovery
              \/ \E p \in {"starter", "worker"} : StoreRinging(p) \/ StoreFailed(p)
    BY <1>11
       DEF Trouble, Crash, Disconnect, ReadyExpires, Aborts, Connect, Recovery, RecoverGivesUp,
           Recover, StoreRinging, StoreFailed, asterisk, Kept
  <1>12. CASE Starter
    BY <1>12 DEF Starter, Create, DialLeg, ReadNoLegs, RecordLegs, ReadStatus, asterisk, Kept
  <1>13. ASSUME NEW c \in Chan, EmployeeAnswers(c) \/ EmployeeAgain(c) \/ FarAnswers(c) PROVE Kept
    <2>1. ~EmployeeAnswers(c)
      BY <1>2 DEF EmployeeAnswers
    <2>2. EmployeeAgain(c) => mix' = mix
      BY DEF EmployeeAgain
    <2>3. ASSUME FarAnswers(c) PROVE mix' = mix
      <3>1. c \in Far /\ Emp \cap Far = {}
        BY <2>3, ChannelsAssumption DEF ChannelsAssumption, FarAnswers, DialInv, RowNamesSides
      <3>2. c = row.far
        BY <2>3, <3>1 DEF FarAnswers, Found, JoinInv, DialInv, RowNamesSides
      <3>3. row.emp \notin FarLegs(row, c) /\ row.far \notin FarLegs(row, c)
        BY <1>2, <3>1, <3>2 DEF FarLegs
      <3>4. QED
        BY <1>1, <2>3, <3>3 DEF FarAnswers, HangUp
    <2>4. QED
      BY <1>13, <2>1, <2>2, <2>3 DEF Kept
  <1>14. CASE StoreEmployee \/ StartCustomer \/ StoreFar
    <2>1. ~RefuseEmployee /\ ~HangupRefused
      BY <1>1, <1>2 DEF RefuseEmployee, HangupRefused, At, W, TalkInv, NobodyTalks, Joined
    <2>2. QED
      BY <1>14, <2>1
         DEF StoreEmployee, StartCustomer, NotInService, PrepareFar, DialFar, StoreFar, asterisk, Kept
  <1>15. QED
    BY <1>4, <1>5, <1>6, <1>7, <1>8, <1>9, <1>10, <1>11, <1>12, <1>13, <1>14
       DEF Next, Common, Event, Ends, Worker

\* While at most one fault strikes, two people who talk are parted only by one
\* of them, by a hangup request or in the fault itself: for any number of
\* devices, crashes, lost sockets and recoveries.
THEOREM TalkersGoOn == ASSUME MaxFaults <= 1 PROVE Spec => TalkersKept
  <1>1. TalkBase /\ TalkInv /\ [Next]_vars =>
          [Cardinality(mix) = 2 /\ faults' = faults /\ NoRequest =>
             \/ mix' = mix
             \/ \E c \in mix : PartyHangup(c)
             \/ \E h \in Hanger : HangupRequest(h)]_vars
    BY TalkersStay DEF Kept
  <1>2. Spec => []TalkBase
    <2>1. TypeOK /\ DialInv /\ AnswerInv /\ JoinInv => TalkBase
      BY DEF TalkBase
    <2>2. QED
      BY <2>1, TypeCorrect, DialInvariant, InitAnswers, StepAnswers, JoinInvariant, PTL DEF Spec
  <1>3. TalkBase /\ TalkInv /\ [Next]_vars => TalkInv'
    BY StepTalks DEF TalkStep
  <1>4. QED
    BY <1>1, <1>2, <1>3, InitTalks, PTL DEF Spec, TalkersKept
=============================================================================
