------------------------- MODULE CallControlProofs -------------------------
(***************************************************************************)
(* What the steps common to both directions preserve: the lemmas that the  *)
(* proofs about OutboundCall and InboundCall rest on.                      *)
(***************************************************************************)
EXTENDS CallControl, TLAPS

----------------------------------------------------------------------------
(* Types of the pieces the actions are built from. *)

LEMMA BlankType == Blank \in Row
  BY DEF Blank, Row, Status

\* What Goto, and then Finish, leave in job is a job.
LEMMA JobTypes ==
    ASSUME job \in [Actor -> Job], NEW p \in Actor, NEW at \in Place,
           NEW c \in Chan \cup {None}, NEW r \in Row
    PROVE  Goto(p, at, c, r) => job' \in [Actor -> Job]
  <1>1. [at |-> at, ch |-> c, call |-> r] \in Job
    BY DEF Job
  <1>2. QED
    BY <1>1 DEF Goto

LEMMA FinishTypes ==
    ASSUME job \in [Actor -> Job], NEW p \in Actor, Finish(p)
    PROVE  job' \in [Actor -> Job]
  <1>1. Idle \in Job
    BY BlankType DEF Idle, Job, Place
  <1>2. QED
    BY <1>1 DEF Finish

\* A hangup leaves channels, events and the bridge well typed.
LEMMA TakeDownTypes ==
    ASSUME TypeOK, NEW S, NEW box \in [Chan -> SUBSET EventType], TakeDown(S, box)
    PROVE  /\ chan' \in [Chan -> ChanState]
           /\ inbox' \in [Chan -> SUBSET EventType]
  BY DEF TypeOK, TakeDown, ChanState, EventType

LEMMA HangUpTypes ==
    ASSUME TypeOK, NEW S, NEW box \in [Chan -> SUBSET EventType], HangUp(S, box)
    PROVE  /\ chan' \in [Chan -> ChanState]
           /\ inbox' \in [Chan -> SUBSET EventType]
           /\ mix' \subseteq Chan
  BY TakeDownTypes DEF TypeOK, HangUp

LEMMA RestType ==
    ASSUME TypeOK, NEW c \in Chan, NEW e
    PROVE  Rest(c, e) \in [Chan -> SUBSET EventType]
  BY DEF TypeOK, Rest

\* One column of a row replaced by a value of its type is a row.
LEMMA RowTypes ==
    ASSUME NEW r \in Row
    PROVE  /\ \A s \in Status : [r EXCEPT !.status = s] \in Row
           /\ \A b \in BOOLEAN : [r EXCEPT !.answered = b] \in Row
           /\ \A b \in BOOLEAN : [r EXCEPT !.ended = b] \in Row
           /\ \A b \in BOOLEAN : [r EXCEPT !.bridge = b] \in Row
           /\ \A c \in Chan \cup {None} : [r EXCEPT !.emp = c] \in Row
           /\ \A c \in Chan \cup {None} : [r EXCEPT !.far = c] \in Row
           /\ \A S \in SUBSET Chan : [r EXCEPT !.legs = S] \in Row
           /\ \A s \in Status : [r EXCEPT !.status = s, !.ended = TRUE] \in Row
  BY DEF Row

----------------------------------------------------------------------------
(* Every step common to both directions keeps the types. *)

LEMMA PeopleTypes == TypeOK /\ People => TypeOK'
  <1> SUFFICES ASSUME TypeOK, NEW c \in Chan, Answer(c) \/ RingOut(c) \/ PartyHangup(c)
               PROVE  TypeOK'
    BY DEF People
  <1> \A E \in SUBSET EventType : Emit(c, E) => inbox' \in [Chan -> SUBSET EventType]
    BY DEF TypeOK, Emit
  <1>1. CASE Answer(c)
    BY <1>1 DEF TypeOK, Answer, ChanState, EventType, link, bounds, dial
  <1>2. CASE RingOut(c)
    BY <1>2 DEF TypeOK, RingOut, ChanState, EventType, link, bounds, dial
  <1>3. CASE PartyHangup(c)
    BY <1>3 DEF TypeOK, PartyHangup, ChanState, EventType, link, bounds, dial
  <1>4. QED
    BY <1>1, <1>2, <1>3

LEMMA EventTypes == TypeOK /\ Event => TypeOK'
  <1> SUFFICES ASSUME TypeOK, NEW c \in Chan,
                      \/ \E e \in EventType : EventIgnored(c, e)
                      \/ LegStarted(c) \/ Straggler(c) \/ LegGone(c) \/ TalkerGone(c)
               PROVE  TypeOK'
    BY DEF Event
  <1> USE BlankType, RestType
  <1> "worker" \in Actor
    BY DEF Actor
  <1>1. CASE \E e \in EventType : EventIgnored(c, e)
    BY <1>1 DEF TypeOK, EventIgnored, link, bounds, dial
  <1>2. CASE LegStarted(c)
    BY <1>2, JobTypes DEF TypeOK, LegStarted, Place, link, bounds, dial
  <1>3. CASE Straggler(c)
    BY <1>3, HangUpTypes DEF TypeOK, Straggler, link, bounds, dial
  <1>4. CASE LegGone(c)
    BY <1>4 DEF TypeOK, LegGone, link, bounds, dial
  <1>5. CASE TalkerGone(c)
    BY <1>5, HangUpTypes, JobTypes DEF TypeOK, TalkerGone, Place, link, bounds, dial
  <1>6. QED
    BY <1>1, <1>2, <1>3, <1>4, <1>5

LEMMA UnansweredEndsTypes ==
    ASSUME TypeOK, NEW c \in Chan, UnansweredEnds(c)
    PROVE  TypeOK'
  <1> "worker" \in Actor
    BY DEF Actor
  <1>1. faults' \in 0 .. MaxFaults
    BY BoundsAssumption DEF BoundsAssumption, TypeOK, UnansweredEnds, LastLegGone
  <1>2. QED
    BY <1>1, BlankType, RestType, HangUpTypes, JobTypes
       DEF TypeOK, UnansweredEnds, Place, link, dial

LEMMA BridgingTypes == TypeOK /\ Bridging => TypeOK'
  <1> SUFFICES ASSUME TypeOK, Bridging PROVE TypeOK'
    OBVIOUS
  <1> USE BlankType, BoundsAssumption
  <1> "worker" \in Actor
    BY DEF Actor
  <1>1. CASE BridgeNotNeeded
    BY <1>1, JobTypes DEF TypeOK, BridgeNotNeeded, Place, asterisk, link, bounds, dial
  <1>2. CASE BuildBridge
    BY <1>2, JobTypes DEF TypeOK, BuildBridge, Place, Up, link, bounds, dial
  <1>3. CASE StoreBridge
    BY <1>3, JobTypes, RowTypes DEF TypeOK, StoreBridge, Write, Status, Place, asterisk, link, bounds, dial
  <1>4. CASE BridgeFails
    <2>1. faults' \in 0 .. MaxFaults
      BY <1>4 DEF TypeOK, BridgeFails, BoundsAssumption
    <2>2. job' \in [Actor -> Job]
      BY <1>4, JobTypes DEF TypeOK, BridgeFails, Place
    <2>3. QED
      BY <1>4, <2>1, <2>2, TakeDownTypes DEF TypeOK, BridgeFails, link, dial
  <1>5. CASE StoreBridgeFailed
    BY <1>5, JobTypes, RowTypes
       DEF TypeOK, StoreBridgeFailed, Write, Tell, Status, Terminal, Place, asterisk, link, bounds, dial
  <1>6. CASE ReadAnswer
    BY <1>6, JobTypes, FinishTypes DEF TypeOK, ReadAnswer, Place, asterisk, link, bounds, dial
  <1>7. CASE StoreAnswer
    BY <1>7, FinishTypes, RowTypes DEF TypeOK, StoreAnswer, Write, Status, Place, asterisk, link, bounds, dial
  <1>8. QED
    BY <1>1, <1>2, <1>3, <1>4, <1>5, <1>6, <1>7 DEF Bridging

LEMMA EndingTypes == TypeOK /\ Ending => TypeOK'
  <1> SUFFICES ASSUME TypeOK, NEW p \in Hanger \cup {"worker"}, Finalize(p) \/ (p \in Hanger /\ HangupRequest(p))
               PROVE  TypeOK'
    BY DEF Ending
  <1> USE BlankType, ActorsAssumption
  <1> p \in Actor
    BY DEF Actor
  <1>1. CASE FinalizeSkips(p)
    BY <1>1, FinishTypes DEF TypeOK, FinalizeSkips, asterisk, link, bounds, dial
  <1>2. CASE FinalizeTearsDown(p)
    BY <1>2, JobTypes, TakeDownTypes DEF TypeOK, FinalizeTearsDown, Place, link, bounds, dial
  <1>3. CASE FinalizeStores(p)
    <2>1. Outcome(job[p].call) \in Status \cap Terminal
      BY DEF Outcome, Status, Terminal
    <2> HIDE DEF Outcome
    <2>2. QED
      BY <1>3, <2>1, FinishTypes, RowTypes DEF TypeOK, FinalizeStores, Write, Tell, asterisk, link, bounds, dial
  <1>4. CASE p \in Hanger /\ HangupRequest(p)
    BY <1>4, JobTypes, HangUpTypes DEF TypeOK, HangupRequest, Place, link, bounds, dial
  <1>5. QED
    BY <1>1, <1>2, <1>3, <1>4 DEF Finalize

LEMMA TroubleTypes == TypeOK /\ Trouble => TypeOK'
  <1> SUFFICES ASSUME TypeOK, Trouble PROVE TypeOK'
    OBVIOUS
  <1> USE BlankType, BoundsAssumption
  <1> "worker" \in Actor
    BY DEF Actor
  <1>1. CASE Crash
    <2>1. crashes' \in 0 .. MaxCrashes
      BY <1>1 DEF TypeOK, Crash, BoundsAssumption
    <2>2. job' \in [Actor -> Job]
      BY <1>1, JobTypes DEF TypeOK, Crash, Place
    <2>3. QED
      BY <1>1, <2>1, <2>2 DEF TypeOK, Crash, dial
  <1>2. CASE Disconnect
    <2>1. drops' \in 0 .. MaxDrops
      BY <1>2 DEF TypeOK, Disconnect, BoundsAssumption
    <2>2. QED
      BY <1>2, <2>1 DEF TypeOK, Disconnect, dial
  <1>3. CASE ReadyExpires
    BY <1>3 DEF TypeOK, ReadyExpires, asterisk, bounds, dial
  <1>4. CASE \E p \in Actor : Aborts(p)
    BY <1>4, FinishTypes DEF TypeOK, Aborts, BoundsAssumption, asterisk, link, dial
  <1>5. QED
    BY <1>1, <1>2, <1>3, <1>4 DEF Trouble

LEMMA RecoveryTypes == TypeOK /\ Recovery => TypeOK'
  <1> SUFFICES ASSUME TypeOK, Recovery PROVE TypeOK'
    OBVIOUS
  <1> USE BlankType, BoundsAssumption
  <1> "worker" \in Actor
    BY DEF Actor
  <1>1. CASE RecoverGivesUp
    BY <1>1, FinishTypes DEF TypeOK, RecoverGivesUp, BoundsAssumption, asterisk, link, dial
  <1>2. CASE Recover
    <2>1. Recovered \subseteq Chan
      BY DEF TypeOK, Recovered, Legs, Row
    <2>2. QED
      BY <1>2, <2>1, JobTypes, FinishTypes DEF TypeOK, Recover, Place, asterisk, link, bounds, dial
  <1>3. QED
    BY <1>1, <1>2 DEF Recovery

LEMMA CommonTypes == TypeOK /\ Common => TypeOK'
  <1> SUFFICES ASSUME TypeOK, Common PROVE TypeOK'
    OBVIOUS
  <1> USE BlankType
  <1>1. CASE Connect
    BY <1>1 DEF TypeOK, Connect, asterisk, bounds, dial
  <1>2. ASSUME NEW p \in {"starter", "worker"}, StoreRinging(p) \/ StoreFailed(p)
        PROVE  TypeOK'
    <2> p \in Actor
      BY DEF Actor
    <2>1. CASE StoreRinging(p)
      BY <2>1, FinishTypes, RowTypes DEF TypeOK, StoreRinging, Write, Status, asterisk, link, bounds, dial
    <2>2. CASE StoreFailed(p)
      BY <2>2, FinishTypes, RowTypes
         DEF TypeOK, StoreFailed, Write, Tell, Status, Terminal, asterisk, link, bounds, dial
    <2>3. QED
      BY <1>2, <2>1, <2>2
  <1>3. QED
    BY <1>1, <1>2, PeopleTypes, EventTypes, BridgingTypes, EndingTypes, TroubleTypes, RecoveryTypes DEF Common

\* A step that changes nothing keeps the types.
LEMMA StutterTypes == TypeOK /\ UNCHANGED vars => TypeOK'
  BY DEF TypeOK, vars, asterisk, link, bounds, dial
=============================================================================
