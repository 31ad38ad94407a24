------------------------- MODULE MenuRecordingProofs -------------------------
(***************************************************************************)
(* Two parts of a call that several threads of the worker act on: the menu *)
(* a caller is offered (IvrMenu), for every number of attempts, keys and   *)
(* endpoints, and the recording (Recording), for every number of legs,     *)
(* hangup requests and faults.                                             *)
(***************************************************************************)
EXTENDS IvrMenu, Recording, TLAPS

(***************************************************************************)
(* IvrMenu.                                                                *)
(***************************************************************************)

\* A caller who is gone, whose call the platform has not ended, and whose
\* session is open: then the event that closes it is still to be handled.
\* Both threads act on the session, but only the event thread opens no new
\* one, and no one reopens a session that is closed.
SessionFollows ==
    /\ line = "gone" /\ ~cut /\ kept => "destroyed" \in news
    /\ ended /\ ~cut => ~kept

\* The check of the attempts and the new attempt are two steps, of either
\* thread: the prompt may be played once more than configured, and no more.
AgainBounded ==
    /\ \A p \in MenuThread : In(p, "again") => tries + 1 <= Attempts
    /\ (\A p \in MenuThread : In(p, "again")) => tries + 2 <= Attempts

\* Wherever a thread goes on, its place is one.
LEMMA PlaceTypes ==
    ASSUME MenuTypes, NEW p \in MenuThread
    PROVE  /\ \A to \in Place : Go(p, to) \/ GoFinal(p, to) =>
                 at' \in [MenuThread -> [to : Place, final : BOOLEAN, legs : SUBSET Endpoint]]
           /\ Done(p) => at' \in [MenuThread -> [to : Place, final : BOOLEAN, legs : SUBSET Endpoint]]
  <1> DEFINE Spot == [to : Place, final : BOOLEAN, legs : SUBSET Endpoint]
  <1>1. at[p] \in Spot /\ at \in [MenuThread -> Spot]
    BY DEF MenuTypes
  <1>2. ASSUME NEW to \in Place
        PROVE  [at[p] EXCEPT !.to = to] \in Spot /\ [to |-> to, final |-> TRUE, legs |-> {}] \in Spot
    BY <1>1
  <1>3. [to |-> "idle", final |-> FALSE, legs |-> {}] \in Spot
    BY DEF Place
  <1> HIDE DEF Spot
  <1>4. \A to \in Place : Go(p, to) => at' \in [MenuThread -> Spot]
    BY <1>1, <1>2 DEF Go
  <1>5. \A to \in Place : GoFinal(p, to) => at' \in [MenuThread -> Spot]
    BY <1>1, <1>2 DEF GoFinal
  <1>6. Done(p) => at' \in [MenuThread -> Spot]
    BY <1>1, <1>3 DEF Done
  <1> QED
    BY <1>4, <1>5, <1>6 DEF Spot

LEMMA MenuTypesKept ==
    ASSUME MenuTypes, AgainBounded, [MenuNext]_menuVars
    PROVE  MenuTypes'
  <1> USE MenuAssumption DEF MenuAssumption, MenuTypes, Place, Typed, MenuThread, In, session, call
  <1>1. ASSUME NEW p \in MenuThread, Prompt(p) PROVE MenuTypes'
    BY <1>1, PlaceTypes DEF Prompt
  <1>2. ASSUME NEW p \in MenuThread, StartClock(p) PROVE MenuTypes'
    BY <1>2, PlaceTypes DEF StartClock
  <1>3. ASSUME NEW p \in MenuThread, ResolveNothing(p) PROVE MenuTypes'
    BY <1>3, PlaceTypes DEF ResolveNothing, Final
  <1>4. ASSUME NEW p \in MenuThread, ResolveInvalid(p) PROVE MenuTypes'
    BY <1>4, PlaceTypes DEF ResolveInvalid, Final
  <1>5. ASSUME NEW p \in MenuThread, ResolveWaits(p) PROVE MenuTypes'
    BY <1>5, PlaceTypes DEF ResolveWaits, Final
  <1>6. ASSUME NEW p \in MenuThread, ResolveDials(p) PROVE MenuTypes'
    BY <1>6, PlaceTypes DEF ResolveDials, Final
  <1>7. ASSUME NEW p \in MenuThread, Retry(p) PROVE MenuTypes'
    BY <1>7, PlaceTypes DEF Retry
  <1>8. ASSUME NEW p \in MenuThread, Again(p) PROVE MenuTypes'
    BY <1>8, PlaceTypes DEF Again, AgainBounded
  <1>9. ASSUME NEW p \in MenuThread, Dial(p) PROVE MenuTypes'
    BY <1>9, PlaceTypes DEF Dial
  <1>10. ASSUME NEW p \in MenuThread, Ring(p) PROVE MenuTypes'
    BY <1>10 DEF Ring
  <1>11. ASSUME NEW p \in MenuThread, StoreLegs(p) PROVE MenuTypes'
    BY <1>11, PlaceTypes DEF StoreLegs
  <1>12. ASSUME NEW p \in MenuThread, Fallback(p) PROVE MenuTypes'
    BY <1>12, PlaceTypes DEF Fallback
  <1>13. ASSUME NEW p \in MenuThread, NoAnswerLate(p) PROVE MenuTypes'
    BY <1>13, PlaceTypes DEF NoAnswerLate
  <1>14. ASSUME NEW p \in MenuThread, NoAnswerPasses(p) PROVE MenuTypes'
    BY <1>14, PlaceTypes DEF NoAnswerPasses
  <1>15. ASSUME NEW p \in MenuThread, NoAnswerMissed(p) PROVE MenuTypes'
    BY <1>15, PlaceTypes DEF NoAnswerMissed, TakeDown
  <1>16. ASSUME NEW d \in Typed, Digit(d) PROVE MenuTypes'
    BY <1>16, PlaceTypes DEF Digit
  <1>17. CASE Wake
    BY <1>17, PlaceTypes DEF Wake
  <1>18. CASE Scan
    BY <1>18, PlaceTypes DEF Scan
  <1>19. CASE CallerUp
    BY <1>19 DEF CallerUp, TakeDown
  <1>20. CASE CallerDestroyed
    BY <1>20 DEF CallerDestroyed, TakeDown
  <1>21. CASE EventLate
    BY <1>21 DEF EventLate
  <1>22. CASE CallerHangsUp
    BY <1>22 DEF CallerHangsUp
  <1>23. CASE HangupRequest
    BY <1>23 DEF HangupRequest, TakeDown
  <1>24. CASE DeadlinePasses
    BY <1>24 DEF DeadlinePasses
  <1>25. CASE PausePasses
    BY <1>25 DEF PausePasses
  <1>26. CASE UNCHANGED menuVars
    BY <1>26 DEF menuVars
  <1> QED
    BY <1>1, <1>2, <1>3, <1>4, <1>5, <1>6, <1>7, <1>8, <1>9, <1>10,
       <1>11, <1>12, <1>13, <1>14, <1>15, <1>16, <1>17, <1>18, <1>19,
       <1>20, <1>21, <1>22, <1>23, <1>24, <1>25, <1>26
       DEF MenuNext, Handle, Events, Time

LEMMA AgainBoundedKept ==
    ASSUME MenuTypes, AgainBounded, [MenuNext]_menuVars
    PROVE  AgainBounded'
  <1> USE DEF MenuTypes, AgainBounded, MenuThread, Go, GoFinal, Done, In, session, call
  <1>1. ASSUME NEW p \in MenuThread, Prompt(p) PROVE AgainBounded'
    BY <1>1 DEF Prompt
  <1>2. ASSUME NEW p \in MenuThread, StartClock(p) PROVE AgainBounded'
    BY <1>2 DEF StartClock
  <1>3. ASSUME NEW p \in MenuThread, ResolveNothing(p) PROVE AgainBounded'
    BY <1>3 DEF ResolveNothing, Final
  <1>4. ASSUME NEW p \in MenuThread, ResolveInvalid(p) PROVE AgainBounded'
    BY <1>4 DEF ResolveInvalid, Final
  <1>5. ASSUME NEW p \in MenuThread, ResolveWaits(p) PROVE AgainBounded'
    BY <1>5 DEF ResolveWaits, Final
  <1>6. ASSUME NEW p \in MenuThread, ResolveDials(p) PROVE AgainBounded'
    BY <1>6 DEF ResolveDials, Final
  <1>7. ASSUME NEW p \in MenuThread, Retry(p) PROVE AgainBounded'
    <2>1. tries' = tries /\ Attempts \in Nat /\ \A q \in MenuThread \ {p} : at'[q] = at[q]
      BY <1>7, MenuAssumption DEF MenuAssumption, Retry
    <2>2. at'[p].to = IF tries + 1 < Attempts THEN "again" ELSE "fallback"
      BY <1>7 DEF Retry
    <2> QED
      BY <2>1, <2>2
  <1>8. ASSUME NEW p \in MenuThread, Again(p) PROVE AgainBounded'
    BY <1>8 DEF Again
  <1>9. ASSUME NEW p \in MenuThread, Dial(p) PROVE AgainBounded'
    BY <1>9 DEF Dial
  <1>10. ASSUME NEW p \in MenuThread, Ring(p) PROVE AgainBounded'
    BY <1>10 DEF Ring
  <1>11. ASSUME NEW p \in MenuThread, StoreLegs(p) PROVE AgainBounded'
    BY <1>11 DEF StoreLegs
  <1>12. ASSUME NEW p \in MenuThread, Fallback(p) PROVE AgainBounded'
    BY <1>12 DEF Fallback
  <1>13. ASSUME NEW p \in MenuThread, NoAnswerLate(p) PROVE AgainBounded'
    BY <1>13 DEF NoAnswerLate
  <1>14. ASSUME NEW p \in MenuThread, NoAnswerPasses(p) PROVE AgainBounded'
    BY <1>14 DEF NoAnswerPasses
  <1>15. ASSUME NEW p \in MenuThread, NoAnswerMissed(p) PROVE AgainBounded'
    BY <1>15 DEF NoAnswerMissed, TakeDown
  <1>16. ASSUME NEW d \in Typed, Digit(d) PROVE AgainBounded'
    BY <1>16 DEF Digit
  <1>17. CASE Wake
    BY <1>17 DEF Wake
  <1>18. CASE Scan
    BY <1>18 DEF Scan
  <1>19. CASE CallerUp
    BY <1>19 DEF CallerUp, TakeDown
  <1>20. CASE CallerDestroyed
    BY <1>20 DEF CallerDestroyed, TakeDown
  <1>21. CASE EventLate
    BY <1>21 DEF EventLate
  <1>22. CASE CallerHangsUp
    BY <1>22 DEF CallerHangsUp
  <1>23. CASE HangupRequest
    BY <1>23 DEF HangupRequest, TakeDown
  <1>24. CASE DeadlinePasses
    BY <1>24 DEF DeadlinePasses
  <1>25. CASE PausePasses
    BY <1>25 DEF PausePasses
  <1>26. CASE UNCHANGED menuVars
    BY <1>26 DEF menuVars
  <1> QED
    BY <1>1, <1>2, <1>3, <1>4, <1>5, <1>6, <1>7, <1>8, <1>9, <1>10,
       <1>11, <1>12, <1>13, <1>14, <1>15, <1>16, <1>17, <1>18, <1>19,
       <1>20, <1>21, <1>22, <1>23, <1>24, <1>25, <1>26
       DEF MenuNext, Handle, Events, Time

LEMMA SessionFollowsKept ==
    ASSUME MenuTypes, SessionFollows, [MenuNext]_menuVars
    PROVE  SessionFollows'
  <1> USE DEF MenuTypes, SessionFollows, Done, Go, GoFinal, In, session, call
  <1>1. ASSUME NEW p \in MenuThread, Prompt(p) PROVE SessionFollows'
    BY <1>1 DEF Prompt
  <1>2. ASSUME NEW p \in MenuThread, StartClock(p) PROVE SessionFollows'
    BY <1>2 DEF StartClock
  <1>3. ASSUME NEW p \in MenuThread, ResolveNothing(p) PROVE SessionFollows'
    BY <1>3 DEF ResolveNothing, Final
  <1>4. ASSUME NEW p \in MenuThread, ResolveInvalid(p) PROVE SessionFollows'
    BY <1>4 DEF ResolveInvalid, Final
  <1>5. ASSUME NEW p \in MenuThread, ResolveWaits(p) PROVE SessionFollows'
    BY <1>5 DEF ResolveWaits, Final
  <1>6. ASSUME NEW p \in MenuThread, ResolveDials(p) PROVE SessionFollows'
    BY <1>6 DEF ResolveDials, Final
  <1>7. ASSUME NEW p \in MenuThread, Retry(p) PROVE SessionFollows'
    BY <1>7 DEF Retry
  <1>8. ASSUME NEW p \in MenuThread, Again(p) PROVE SessionFollows'
    BY <1>8 DEF Again
  <1>9. ASSUME NEW p \in MenuThread, Dial(p) PROVE SessionFollows'
    BY <1>9 DEF Dial
  <1>10. ASSUME NEW p \in MenuThread, Ring(p) PROVE SessionFollows'
    BY <1>10 DEF Ring
  <1>11. ASSUME NEW p \in MenuThread, StoreLegs(p) PROVE SessionFollows'
    BY <1>11 DEF StoreLegs
  <1>12. ASSUME NEW p \in MenuThread, Fallback(p) PROVE SessionFollows'
    BY <1>12 DEF Fallback
  <1>13. ASSUME NEW p \in MenuThread, NoAnswerLate(p) PROVE SessionFollows'
    BY <1>13 DEF NoAnswerLate
  <1>14. ASSUME NEW p \in MenuThread, NoAnswerPasses(p) PROVE SessionFollows'
    BY <1>14 DEF NoAnswerPasses
  <1>15. ASSUME NEW p \in MenuThread, NoAnswerMissed(p) PROVE SessionFollows'
    BY <1>15 DEF NoAnswerMissed, TakeDown
  <1>16. ASSUME NEW d \in Typed, Digit(d) PROVE SessionFollows'
    BY <1>16 DEF Digit
  <1>17. CASE Wake
    BY <1>17 DEF Wake
  <1>18. CASE Scan
    BY <1>18 DEF Scan, Late
  <1>19. CASE CallerUp
    BY <1>19 DEF CallerUp, TakeDown
  <1>20. CASE CallerDestroyed
    BY <1>20 DEF CallerDestroyed, TakeDown
  <1>21. CASE EventLate
    BY <1>21 DEF EventLate
  <1>22. CASE CallerHangsUp
    BY <1>22 DEF CallerHangsUp
  <1>23. CASE HangupRequest
    BY <1>23 DEF HangupRequest, TakeDown
  <1>24. CASE DeadlinePasses
    BY <1>24 DEF DeadlinePasses
  <1>25. CASE PausePasses
    BY <1>25 DEF PausePasses
  <1>26. CASE UNCHANGED menuVars
    BY <1>26 DEF menuVars
  <1> QED
    BY <1>1, <1>2, <1>3, <1>4, <1>5, <1>6, <1>7, <1>8, <1>9, <1>10,
       <1>11, <1>12, <1>13, <1>14, <1>15, <1>16, <1>17, <1>18, <1>19,
       <1>20, <1>21, <1>22, <1>23, <1>24, <1>25, <1>26
       DEF MenuNext, Handle, Events, Time

\* The session and the row hold what the code puts there, and the prompt is
\* repeated at most as often as it is configured to be played.
THEOREM MenuIsTyped == MenuSpec => []MenuTypes
  <1>1. MenuInit => MenuTypes
    <2>1. MenuInit => at \in [MenuThread -> [to : Place, final : BOOLEAN, legs : SUBSET Endpoint]]
      BY DEF MenuInit, Place
    <2>2. MenuInit => tries \in 0 .. Attempts /\ keys \in 0 .. MaxKeys /\ line \in {"ring", "up", "gone"}
      BY MenuAssumption DEF MenuAssumption, MenuInit
    <2> QED
      BY <2>1, <2>2 DEF MenuInit, MenuTypes, Typed
  <1>2. MenuInit => AgainBounded
    BY DEF MenuInit, AgainBounded, MenuThread, In
  <1> QED
    BY <1>1, <1>2, MenuTypesKept, AgainBoundedKept, PTL DEF MenuSpec

\* A caller who hangs up leaves no session behind, for any number of attempts,
\* keys and endpoints and whichever thread is at work (_ivr_on_hangup).
THEOREM MenuLeavesNothing == MenuSpec => []NothingLeft
  <1>1. MenuInit => SessionFollows
    BY MenuAssumption DEF MenuAssumption, MenuInit, SessionFollows
  <1>2. SessionFollows => NothingLeft
    BY DEF SessionFollows, NothingLeft
  <1> QED
    BY <1>1, <1>2, MenuIsTyped, SessionFollowsKept, PTL DEF MenuSpec

(***************************************************************************)
(* Recording.                                                              *)
(***************************************************************************)

----------------------------------------------------------------------------
(* The inductive invariant.                                                *)

\* A call is recorded once: the start has nothing to overwrite.
StartsBlank == job["events"].at \in {"bridged", "start"} => tape = "blank"

\* A finish event that waits is about a file that is there, since files are
\* deleted only when nothing of the call is left to handle.
FinishIsTrue == "RecordingFinished" \in events => tape = "stored"

\* What is being recorded as deleted, or has been, is gone and stays gone.
DeletedIsGone == (scan = "erased" \/ row.rec = "deleted") => tape = "erased"

EvidenceInv == TypeOK /\ StartsBlank /\ FinishIsTrue /\ DeletedIsGone

----------------------------------------------------------------------------
(* Types of the pieces the actions are built from. *)

LEMMA FreshType == Fresh \in Row /\ Idle \in Job
  BY DEF Fresh, Row, Status, Idle, Job, Steps

LEMMA JobTypes ==
    ASSUME TypeOK, NEW w \in Thread
    PROVE  /\ \A s \in Steps : Goes(w, s) => job' \in [Thread -> Job]
           /\ \A s \in Steps, r \in Row : [at |-> s, call |-> r] \in Job
           /\ Ends(w) => job' \in [Thread -> Job]
           /\ job[w].call \in Row
  BY FreshType DEF TypeOK, Job, Goes, Ends

LEMMA RowTypes ==
    ASSUME TypeOK
    PROVE  /\ \A s \in Status : Records(s) => row' \in Row
           /\ \A s \in Status, b \in BOOLEAN : [row EXCEPT !.name = b, !.rec = s] \in Row
           /\ \A b \in BOOLEAN : [row EXCEPT !.answered = b] \in Row
           /\ \A b, c \in BOOLEAN : [row EXCEPT !.ended = b, !.completed = c] \in Row
           /\ \A b, c \in BOOLEAN : [row EXCEPT !.ended = b, !.answered = c] \in Row
           /\ {row.name, row.answered, row.ended, row.completed} \subseteq BOOLEAN
           /\ row.rec \in Status
  BY DEF TypeOK, Row, Records

LEMMA EventTypes ==
    ASSUME TypeOK
    PROVE  /\ \A S \in SUBSET News : Sends(S) => events' \subseteq News
           /\ Stopped => events' \subseteq News /\ tape' \in {tape, "stored"}
  BY DEF TypeOK, Sends, Stopped, News

LEMMA BoundTypes ==
    ASSUME TypeOK
    PROVE  Spends => faults' \in 0..MaxFaults
  BY RecordingAssumption DEF RecordingAssumption, TypeOK, Spends

----------------------------------------------------------------------------
(* The steps.                                                              *)

LEMMA StepTypes ==
    ASSUME TypeOK, Next
    PROVE  TypeOK'
  <1> USE RecordingAssumption DEF RecordingAssumption
  <1> "events" \in Thread /\ "request" \in Thread
    BY DEF Thread
  <1>1. CASE Intend
    BY <1>1, JobTypes, RowTypes DEF Intend, pbx, TypeOK, Steps, Status
  <1>2. CASE StartRecording
    BY <1>2, JobTypes DEF StartRecording, TypeOK, Steps
  <1>3. CASE StartTimesOut
    BY <1>3, JobTypes, BoundTypes DEF StartTimesOut, TypeOK, Steps
  <1>4. CASE StartFailed
    BY <1>4, JobTypes, RowTypes DEF StartFailed, pbx, TypeOK, Steps, Status
  <1>5. CASE Answer
    BY <1>5, JobTypes, RowTypes DEF Answer, pbx, TypeOK, Status
  <1>6. CASE ChannelDestroyed
    BY <1>6, JobTypes DEF ChannelDestroyed, TypeOK, News, Steps
  <1>7. CASE Hangup
    <2>1. job' \in [Thread -> Job]
      BY <1>7, JobTypes DEF Hangup, Steps
    <2>2. events' \subseteq News
      BY <1>7, EventTypes DEF Hangup, TypeOK, News
    <2>3. requests' \in 0..MaxRequests
      BY <1>7 DEF Hangup, TypeOK
    <2>4. QED
      BY <1>7, <2>1, <2>2, <2>3 DEF Hangup, TypeOK
  <1>8. CASE RecordingEvent
    BY <1>8, RowTypes DEF RecordingEvent, pbx, TypeOK, News, Status
  <1>9. CASE RecordingEventFails
    BY <1>9, BoundTypes DEF RecordingEventFails, pbx, TypeOK, News
  <1>10. CASE Reconcile
    BY <1>10 DEF Reconcile, pbx, TypeOK
  <1>11. CASE NotFound
    BY <1>11 DEF NotFound, pbx, TypeOK
  <1>12. CASE Found
    BY <1>12, RowTypes DEF Found, pbx, TypeOK, Status
  <1>13. CASE Cleanup
    BY <1>13 DEF Cleanup, TypeOK
  <1>14. CASE RecordDeleted
    BY <1>14, RowTypes DEF RecordDeleted, pbx, TypeOK, Status
  <1>15. CASE HangsUp
    BY <1>15, EventTypes DEF HangsUp, TypeOK, News
  <1>16. CASE RecordingStops
    BY <1>16, EventTypes DEF RecordingStops, TypeOK, News
  <1>17. CASE Crash
    BY <1>17, JobTypes, BoundTypes DEF Crash, pbx, TypeOK
  <1>18. CASE CrashApi
    BY <1>18, JobTypes, BoundTypes DEF CrashApi, pbx, TypeOK
  <1>19. CASE Recover
    BY <1>19, BoundTypes, RowTypes DEF Recover, pbx, TypeOK, Status
  <1>20. CASE Disconnect
    BY <1>20, BoundTypes DEF Disconnect, pbx, TypeOK
  <1>21. CASE Connect
    BY <1>21 DEF Connect, pbx, TypeOK
  <1>22. ASSUME NEW w \in Thread, ReadCall(w)
        PROVE  TypeOK'
    BY <1>22, JobTypes, RowTypes DEF ReadCall, pbx, TypeOK, Steps
  <1>23. ASSUME NEW w \in Thread, MarkFinalizing(w)
        PROVE  TypeOK'
    BY <1>23, JobTypes, RowTypes DEF MarkFinalizing, pbx, TypeOK, Steps, Status
  <1>24. ASSUME NEW w \in Thread, StopRecording(w)
        PROVE  TypeOK'
    BY <1>24, JobTypes, EventTypes DEF StopRecording, TypeOK, Steps
  <1>25. ASSUME NEW w \in Thread, DestroyBridge(w)
        PROVE  TypeOK'
    BY <1>25, JobTypes, EventTypes DEF DestroyBridge, TypeOK, Steps
  <1>26. ASSUME NEW w \in Thread, EndCall(w)
        PROVE  TypeOK'
    <2>1. job' \in [Thread -> Job]
      BY <1>26, JobTypes DEF EndCall
    <2>2. row' \in Row
      BY <1>26, JobTypes DEF EndCall, TypeOK, Row
    <2>3. QED
      BY <1>26, <2>1, <2>2 DEF EndCall, TypeOK, pbx
  <1>27. ASSUME NEW w \in Thread, TimesOut(w)
        PROVE  TypeOK'
    BY <1>27, JobTypes, BoundTypes, EventTypes DEF TimesOut, TypeOK
  <1>28. QED
    BY <1>1, <1>2, <1>3, <1>4, <1>5, <1>6, <1>7, <1>8, <1>9, <1>10, <1>11, <1>12, <1>13, <1>14, <1>15, <1>16,
       <1>17, <1>18, <1>19, <1>20, <1>21, <1>22, <1>23, <1>24, <1>25, <1>26, <1>27 DEF Next, Finalize

LEMMA StepStarts ==
    ASSUME TypeOK, StartsBlank, Next
    PROVE  StartsBlank'
  <1> USE RecordingAssumption DEF RecordingAssumption
  <1>1. CASE Intend
    BY <1>1 DEF Intend, At, Goes, pbx, TypeOK, Job, StartsBlank, Thread
  <1>2. CASE StartRecording
    BY <1>2 DEF StartRecording, At, Goes, TypeOK, Job, StartsBlank, Thread
  <1>3. CASE StartTimesOut
    BY <1>3 DEF StartTimesOut, At, Goes, Spends, TypeOK, Job, StartsBlank, Thread
  <1>4. CASE StartFailed
    BY <1>4 DEF StartFailed, At, Goes, Records, pbx, TypeOK, Job, StartsBlank, Thread
  <1>5. CASE Answer
    BY <1>5 DEF Answer, At, Ends, pbx, Idle, TypeOK, Job, StartsBlank, Thread
  <1>6. CASE ChannelDestroyed
    BY <1>6 DEF ChannelDestroyed, At, Goes, TypeOK, Job, StartsBlank, Thread
  <1>7. CASE Hangup
    BY <1>7 DEF Hangup, At, Goes, Sends, TypeOK, Job, StartsBlank, Thread
  <1>8. CASE RecordingEvent
    BY <1>8 DEF RecordingEvent, At, Records, pbx, TypeOK, Job, StartsBlank, Thread
  <1>9. CASE RecordingEventFails
    BY <1>9 DEF RecordingEventFails, At, Spends, pbx, TypeOK, Job, StartsBlank, Thread
  <1>10. CASE Reconcile
    BY <1>10 DEF Reconcile, StaleRecordings, pbx, TypeOK, Job, StartsBlank, Thread
  <1>11. CASE NotFound
    BY <1>11 DEF NotFound, pbx, TypeOK, Job, StartsBlank, Thread
  <1>12. CASE Found
    BY <1>12 DEF Found, Records, FoundStored, pbx, TypeOK, Job, StartsBlank, Thread
  <1>13. CASE Cleanup
    BY <1>13 DEF Cleanup, Idle, TypeOK, Job, StartsBlank, Thread
  <1>14. CASE RecordDeleted
    BY <1>14 DEF RecordDeleted, Records, pbx, TypeOK, Job, StartsBlank, Thread
  <1>15. CASE HangsUp
    BY <1>15 DEF HangsUp, Sends, TypeOK, Job, StartsBlank, Thread
  <1>16. CASE RecordingStops
    BY <1>16 DEF RecordingStops, Sends, Stopped, TypeOK, Job, StartsBlank, Thread
  <1>17. CASE Crash
    BY <1>17, FreshType DEF Crash, Ends, Spends, pbx, Idle, TypeOK, Job, StartsBlank, Thread
  <1>18. CASE CrashApi
    BY <1>18, FreshType DEF CrashApi, Ends, Spends, pbx, Idle, TypeOK, Job, StartsBlank, Thread
  <1>19. CASE Recover
    BY <1>19 DEF Recover, Spends, pbx, TypeOK, Job, StartsBlank, Thread
  <1>20. CASE Disconnect
    BY <1>20 DEF Disconnect, Spends, pbx, TypeOK, Job, StartsBlank, Thread
  <1>21. CASE Connect
    BY <1>21 DEF Connect, At, pbx, TypeOK, Job, StartsBlank, Thread
  <1>22. ASSUME NEW w \in Thread, ReadCall(w)
        PROVE  StartsBlank'
    BY <1>22 DEF ReadCall, At, Ends, pbx, Idle, TypeOK, Job, StartsBlank, Thread
  <1>23. ASSUME NEW w \in Thread, MarkFinalizing(w)
        PROVE  StartsBlank'
    BY <1>23 DEF MarkFinalizing, At, Goes, Records, pbx, TypeOK, Job, StartsBlank, Thread
  <1>24. ASSUME NEW w \in Thread, StopRecording(w)
        PROVE  StartsBlank'
    BY <1>24 DEF StopRecording, At, Goes, Stopped, Sends, TypeOK, Job, StartsBlank, Thread
  <1>25. ASSUME NEW w \in Thread, DestroyBridge(w)
        PROVE  StartsBlank'
    BY <1>25 DEF DestroyBridge, At, Goes, Stopped, Sends, TypeOK, Job, StartsBlank, Thread
  <1>26. ASSUME NEW w \in Thread, EndCall(w)
        PROVE  StartsBlank'
    BY <1>26 DEF EndCall, At, Ends, pbx, Idle, TypeOK, Job, StartsBlank, Thread
  <1>27. ASSUME NEW w \in Thread, TimesOut(w)
        PROVE  StartsBlank'
    BY <1>27 DEF TimesOut, At, Ends, Spends, Stopped, Sends, Idle, TypeOK, Job, StartsBlank, Thread
  <1>28. QED
    BY <1>1, <1>2, <1>3, <1>4, <1>5, <1>6, <1>7, <1>8, <1>9, <1>10, <1>11, <1>12, <1>13, <1>14, <1>15, <1>16,
       <1>17, <1>18, <1>19, <1>20, <1>21, <1>22, <1>23, <1>24, <1>25, <1>26, <1>27 DEF Next, Finalize

LEMMA StepFinish ==
    ASSUME EvidenceInv, Next
    PROVE  FinishIsTrue'
  <1> USE RecordingAssumption DEF RecordingAssumption
  <1>1. CASE Intend
    BY <1>1 DEF Intend, At, Goes, pbx, EvidenceInv, TypeOK, Job, StartsBlank, FinishIsTrue, Thread
  <1>2. CASE StartRecording
    BY <1>2 DEF StartRecording, At, Goes, EvidenceInv, TypeOK, Job, StartsBlank, FinishIsTrue, Thread
  <1>3. CASE StartTimesOut
    BY <1>3 DEF StartTimesOut, At, Goes, Spends, EvidenceInv, TypeOK, Job, StartsBlank, FinishIsTrue, Thread
  <1>4. CASE StartFailed
    BY <1>4 DEF StartFailed, At, Goes, Records, pbx, EvidenceInv, TypeOK, Job, StartsBlank, FinishIsTrue,
       Thread
  <1>5. CASE Answer
    BY <1>5 DEF Answer, At, Ends, pbx, Idle, EvidenceInv, TypeOK, Job, StartsBlank, FinishIsTrue, Thread
  <1>6. CASE ChannelDestroyed
    BY <1>6 DEF ChannelDestroyed, At, Goes, EvidenceInv, TypeOK, Job, StartsBlank, FinishIsTrue, Thread
  <1>7. CASE Hangup
    BY <1>7 DEF Hangup, At, Goes, Sends, EvidenceInv, TypeOK, Job, StartsBlank, FinishIsTrue, Thread
  <1>8. CASE RecordingEvent
    BY <1>8 DEF RecordingEvent, At, Records, pbx, EvidenceInv, TypeOK, Job, StartsBlank, FinishIsTrue, Thread
  <1>9. CASE RecordingEventFails
    BY <1>9 DEF RecordingEventFails, At, Spends, pbx, EvidenceInv, TypeOK, Job, StartsBlank, FinishIsTrue,
       Thread
  <1>10. CASE Reconcile
    BY <1>10 DEF Reconcile, StaleRecordings, pbx, EvidenceInv, TypeOK, Job, StartsBlank, FinishIsTrue, Thread
  <1>11. CASE NotFound
    BY <1>11 DEF NotFound, pbx, EvidenceInv, TypeOK, Job, StartsBlank, FinishIsTrue, Thread
  <1>12. CASE Found
    BY <1>12 DEF Found, Records, FoundStored, pbx, EvidenceInv, TypeOK, Job, StartsBlank, FinishIsTrue, Thread
  <1>13. CASE Cleanup
    BY <1>13 DEF Cleanup, Idle, EvidenceInv, TypeOK, Job, StartsBlank, FinishIsTrue, Thread
  <1>14. CASE RecordDeleted
    BY <1>14 DEF RecordDeleted, Records, pbx, EvidenceInv, TypeOK, Job, StartsBlank, FinishIsTrue, Thread
  <1>15. CASE HangsUp
    BY <1>15 DEF HangsUp, Sends, EvidenceInv, TypeOK, Job, StartsBlank, FinishIsTrue, Thread
  <1>16. CASE RecordingStops
    BY <1>16 DEF RecordingStops, Sends, Stopped, EvidenceInv, TypeOK, Job, StartsBlank, FinishIsTrue, Thread
  <1>17. CASE Crash
    BY <1>17, FreshType DEF Crash, Ends, Spends, pbx, Idle, EvidenceInv, TypeOK, Job, StartsBlank,
       FinishIsTrue, Thread
  <1>18. CASE CrashApi
    BY <1>18, FreshType DEF CrashApi, Ends, Spends, pbx, Idle, EvidenceInv, TypeOK, Job, StartsBlank,
       FinishIsTrue, Thread
  <1>19. CASE Recover
    BY <1>19 DEF Recover, Spends, pbx, EvidenceInv, TypeOK, Job, StartsBlank, FinishIsTrue, Thread
  <1>20. CASE Disconnect
    BY <1>20 DEF Disconnect, Spends, pbx, EvidenceInv, TypeOK, Job, StartsBlank, FinishIsTrue, Thread
  <1>21. CASE Connect
    BY <1>21 DEF Connect, At, pbx, EvidenceInv, TypeOK, Job, StartsBlank, FinishIsTrue, Thread
  <1>22. ASSUME NEW w \in Thread, ReadCall(w)
        PROVE  FinishIsTrue'
    BY <1>22 DEF ReadCall, At, Ends, pbx, Idle, EvidenceInv, TypeOK, Job, StartsBlank, FinishIsTrue, Thread
  <1>23. ASSUME NEW w \in Thread, MarkFinalizing(w)
        PROVE  FinishIsTrue'
    BY <1>23 DEF MarkFinalizing, At, Goes, Records, pbx, EvidenceInv, TypeOK, Job, StartsBlank, FinishIsTrue,
       Thread
  <1>24. ASSUME NEW w \in Thread, StopRecording(w)
        PROVE  FinishIsTrue'
    BY <1>24 DEF StopRecording, At, Goes, Stopped, Sends, EvidenceInv, TypeOK, Job, StartsBlank,
       FinishIsTrue, Thread
  <1>25. ASSUME NEW w \in Thread, DestroyBridge(w)
        PROVE  FinishIsTrue'
    BY <1>25 DEF DestroyBridge, At, Goes, Stopped, Sends, EvidenceInv, TypeOK, Job, StartsBlank,
       FinishIsTrue, Thread
  <1>26. ASSUME NEW w \in Thread, EndCall(w)
        PROVE  FinishIsTrue'
    BY <1>26 DEF EndCall, At, Ends, pbx, Idle, EvidenceInv, TypeOK, Job, StartsBlank, FinishIsTrue, Thread
  <1>27. ASSUME NEW w \in Thread, TimesOut(w)
        PROVE  FinishIsTrue'
    BY <1>27 DEF TimesOut, At, Ends, Spends, Stopped, Sends, Idle, EvidenceInv, TypeOK, Job, StartsBlank,
       FinishIsTrue, Thread
  <1>28. QED
    BY <1>1, <1>2, <1>3, <1>4, <1>5, <1>6, <1>7, <1>8, <1>9, <1>10, <1>11, <1>12, <1>13, <1>14, <1>15, <1>16,
       <1>17, <1>18, <1>19, <1>20, <1>21, <1>22, <1>23, <1>24, <1>25, <1>26, <1>27 DEF Next, Finalize

LEMMA StepDeleted ==
    ASSUME EvidenceInv, Next
    PROVE  DeletedIsGone'
  <1> USE RecordingAssumption DEF RecordingAssumption
  <1>1. CASE Intend
    BY <1>1 DEF Intend, At, Goes, pbx, EvidenceInv, TypeOK, Row, Job, StartsBlank, DeletedIsGone, Thread
  <1>2. CASE StartRecording
    BY <1>2 DEF StartRecording, At, Goes, EvidenceInv, TypeOK, Row, Job, StartsBlank, DeletedIsGone, Thread
  <1>3. CASE StartTimesOut
    BY <1>3 DEF StartTimesOut, At, Goes, Spends, EvidenceInv, TypeOK, Row, Job, StartsBlank, DeletedIsGone,
       Thread
  <1>4. CASE StartFailed
    BY <1>4 DEF StartFailed, At, Goes, Records, pbx, EvidenceInv, TypeOK, Row, Job, StartsBlank,
       DeletedIsGone, Thread
  <1>5. CASE Answer
    BY <1>5 DEF Answer, At, Ends, pbx, Idle, EvidenceInv, TypeOK, Row, Job, StartsBlank, DeletedIsGone, Thread
  <1>6. CASE ChannelDestroyed
    BY <1>6 DEF ChannelDestroyed, At, Goes, EvidenceInv, TypeOK, Row, Job, StartsBlank, DeletedIsGone, Thread
  <1>7. CASE Hangup
    BY <1>7 DEF Hangup, At, Goes, Sends, EvidenceInv, TypeOK, Row, Job, StartsBlank, DeletedIsGone, Thread
  <1>8. CASE RecordingEvent
    BY <1>8 DEF RecordingEvent, At, Records, pbx, EvidenceInv, TypeOK, Row, Job, StartsBlank, DeletedIsGone,
       Thread
  <1>9. CASE RecordingEventFails
    BY <1>9 DEF RecordingEventFails, At, Spends, pbx, EvidenceInv, TypeOK, Row, Job, StartsBlank,
       DeletedIsGone, Thread
  <1>10. CASE Reconcile
    BY <1>10 DEF Reconcile, StaleRecordings, pbx, EvidenceInv, TypeOK, Row, Job, StartsBlank, DeletedIsGone,
       Thread
  <1>11. CASE NotFound
    BY <1>11 DEF NotFound, pbx, EvidenceInv, TypeOK, Row, Job, StartsBlank, DeletedIsGone, Thread
  <1>12. CASE Found
    BY <1>12 DEF Found, Records, FoundStored, pbx, EvidenceInv, TypeOK, Row, Job, StartsBlank, DeletedIsGone,
       Thread
  <1>13. CASE Cleanup
    BY <1>13 DEF Cleanup, Idle, EvidenceInv, TypeOK, Row, Job, StartsBlank, DeletedIsGone, Thread
  <1>14. CASE RecordDeleted
    BY <1>14 DEF RecordDeleted, Records, pbx, EvidenceInv, TypeOK, Row, Job, StartsBlank, DeletedIsGone,
       Thread
  <1>15. CASE HangsUp
    BY <1>15 DEF HangsUp, Sends, EvidenceInv, TypeOK, Row, Job, StartsBlank, DeletedIsGone, Thread
  <1>16. CASE RecordingStops
    BY <1>16 DEF RecordingStops, Sends, Stopped, EvidenceInv, TypeOK, Row, Job, StartsBlank, DeletedIsGone,
       Thread
  <1>17. CASE Crash
    BY <1>17, FreshType DEF Crash, Ends, Spends, pbx, Idle, EvidenceInv, TypeOK, Row, Job, StartsBlank,
       DeletedIsGone, Thread
  <1>18. CASE CrashApi
    BY <1>18, FreshType DEF CrashApi, Ends, Spends, pbx, Idle, EvidenceInv, TypeOK, Row, Job, StartsBlank,
       DeletedIsGone, Thread
  <1>19. CASE Recover
    BY <1>19 DEF Recover, Spends, pbx, EvidenceInv, TypeOK, Row, Job, StartsBlank, DeletedIsGone, Thread
  <1>20. CASE Disconnect
    BY <1>20 DEF Disconnect, Spends, pbx, EvidenceInv, TypeOK, Row, Job, StartsBlank, DeletedIsGone, Thread
  <1>21. CASE Connect
    BY <1>21 DEF Connect, At, pbx, EvidenceInv, TypeOK, Row, Job, StartsBlank, DeletedIsGone, Thread
  <1>22. ASSUME NEW w \in Thread, ReadCall(w)
        PROVE  DeletedIsGone'
    BY <1>22 DEF ReadCall, At, Ends, pbx, Idle, EvidenceInv, TypeOK, Row, Job, StartsBlank, DeletedIsGone,
       Thread
  <1>23. ASSUME NEW w \in Thread, MarkFinalizing(w)
        PROVE  DeletedIsGone'
    BY <1>23 DEF MarkFinalizing, At, Goes, Records, pbx, EvidenceInv, TypeOK, Row, Job, StartsBlank,
       DeletedIsGone, Thread
  <1>24. ASSUME NEW w \in Thread, StopRecording(w)
        PROVE  DeletedIsGone'
    BY <1>24 DEF StopRecording, At, Goes, Stopped, Sends, EvidenceInv, TypeOK, Row, Job, StartsBlank,
       DeletedIsGone, Thread
  <1>25. ASSUME NEW w \in Thread, DestroyBridge(w)
        PROVE  DeletedIsGone'
    BY <1>25 DEF DestroyBridge, At, Goes, Stopped, Sends, EvidenceInv, TypeOK, Row, Job, StartsBlank,
       DeletedIsGone, Thread
  <1>26. ASSUME NEW w \in Thread, EndCall(w)
        PROVE  DeletedIsGone'
    BY <1>26 DEF EndCall, At, Ends, pbx, Idle, EvidenceInv, TypeOK, Row, Job, StartsBlank, DeletedIsGone,
       Thread
  <1>27. ASSUME NEW w \in Thread, TimesOut(w)
        PROVE  DeletedIsGone'
    BY <1>27 DEF TimesOut, At, Ends, Spends, Stopped, Sends, Idle, EvidenceInv, TypeOK, Row, Job,
       StartsBlank, DeletedIsGone, Thread
  <1>28. QED
    BY <1>1, <1>2, <1>3, <1>4, <1>5, <1>6, <1>7, <1>8, <1>9, <1>10, <1>11, <1>12, <1>13, <1>14, <1>15, <1>16,
       <1>17, <1>18, <1>19, <1>20, <1>21, <1>22, <1>23, <1>24, <1>25, <1>26, <1>27 DEF Next, Finalize

LEMMA StutterKeeps == EvidenceInv /\ UNCHANGED vars => EvidenceInv'
  BY DEF EvidenceInv, TypeOK, StartsBlank, FinishIsTrue, DeletedIsGone, vars, pbx

LEMMA StepKeeps == EvidenceInv /\ [Next]_vars => EvidenceInv'
  BY StepTypes, StepStarts, StepFinish, StepDeleted, StutterKeeps DEF EvidenceInv

LEMMA InitKeeps == Init => EvidenceInv
  <1> SUFFICES ASSUME Init PROVE EvidenceInv
    OBVIOUS
  <1>1. [Idle EXCEPT !.at = "bridged"] \in Job
    BY FreshType DEF Idle, Job, Steps
  <1>2. job \in [Thread -> Job]
    BY <1>1, FreshType DEF Init
  <1>3. requests \in 0..MaxRequests /\ faults \in 0..MaxFaults
    BY RecordingAssumption DEF Init, RecordingAssumption
  <1>4. TypeOK
    BY <1>2, <1>3, FreshType DEF Init, TypeOK
  <1>5. StartsBlank /\ FinishIsTrue /\ DeletedIsGone
    BY DEF Init, StartsBlank, FinishIsTrue, DeletedIsGone, Fresh
  <1>6. QED
    BY <1>4, <1>5 DEF EvidenceInv

----------------------------------------------------------------------------
(* What a step may write.                                                  *)

Evidence ==
    /\ row.rec # "finalized" /\ row'.rec = "finalized" => tape = "stored"
    /\ row'.rec = "deleted" => tape' # "stored"

\* Only a finish event and a file found store "finalized" ...
LEMMA FinalizedBy ==
    ASSUME TypeOK, Next, row.rec # "finalized", row'.rec = "finalized"
    PROVE  "RecordingFinished" \in events \/ tape = "stored"
  <1>1. CASE Intend
    BY <1>1 DEF Intend, TypeOK, Row
  <1>2. CASE StartRecording
    BY <1>2 DEF StartRecording, TypeOK, Row
  <1>3. CASE StartTimesOut
    BY <1>3 DEF StartTimesOut, TypeOK, Row
  <1>4. CASE StartFailed
    BY <1>4 DEF StartFailed, Records, TypeOK, Row
  <1>5. CASE Answer
    BY <1>5 DEF Answer, TypeOK, Row
  <1>6. CASE ChannelDestroyed
    BY <1>6 DEF ChannelDestroyed, TypeOK, Row
  <1>7. CASE Hangup
    BY <1>7 DEF Hangup, TypeOK, Row
  <1>8. CASE RecordingEvent
    BY <1>8 DEF RecordingEvent, Records, TypeOK, Row, News
  <1>9. CASE RecordingEventFails
    BY <1>9 DEF RecordingEventFails, TypeOK, Row
  <1>10. CASE Reconcile
    BY <1>10 DEF Reconcile, TypeOK, Row
  <1>11. CASE NotFound
    BY <1>11 DEF NotFound, TypeOK, Row
  <1>12. CASE Found
    BY <1>12 DEF Found, FoundStored
  <1>13. CASE Cleanup
    BY <1>13 DEF Cleanup, TypeOK, Row
  <1>14. CASE RecordDeleted
    BY <1>14 DEF RecordDeleted, Records, TypeOK, Row
  <1>15. CASE HangsUp
    BY <1>15 DEF HangsUp, TypeOK, Row
  <1>16. CASE RecordingStops
    BY <1>16 DEF RecordingStops, TypeOK, Row
  <1>17. CASE Crash
    BY <1>17 DEF Crash, TypeOK, Row
  <1>18. CASE CrashApi
    BY <1>18 DEF CrashApi, TypeOK, Row
  <1>19. CASE Recover
    BY <1>19 DEF Recover, TypeOK, Row
  <1>20. CASE Disconnect
    BY <1>20 DEF Disconnect, TypeOK, Row
  <1>21. CASE Connect
    BY <1>21 DEF Connect, TypeOK, Row
  <1>22. CASE \E w \in Thread : ReadCall(w)
    BY <1>22 DEF ReadCall, TypeOK, Row
  <1>23. CASE \E w \in Thread : MarkFinalizing(w)
    BY <1>23 DEF MarkFinalizing, Records, TypeOK, Row
  <1>24. CASE \E w \in Thread : StopRecording(w)
    BY <1>24 DEF StopRecording, TypeOK, Row
  <1>25. CASE \E w \in Thread : DestroyBridge(w)
    BY <1>25 DEF DestroyBridge, TypeOK, Row
  <1>26. CASE \E w \in Thread : EndCall(w)
    BY <1>26 DEF EndCall, TypeOK, Row
  <1>27. CASE \E w \in Thread : TimesOut(w)
    BY <1>27 DEF TimesOut, TypeOK, Row
  <1>28. QED
    BY <1>1, <1>2, <1>3, <1>4, <1>5, <1>6, <1>7, <1>8, <1>9, <1>10, <1>11, <1>12, <1>13, <1>14, <1>15, <1>16,
       <1>17, <1>18, <1>19, <1>20, <1>21, <1>22, <1>23, <1>24, <1>25, <1>26, <1>27 DEF Next, Finalize

LEMMA StepEvidence == EvidenceInv /\ [Next]_vars => [Evidence]_vars
  <1> SUFFICES ASSUME EvidenceInv, Next PROVE Evidence
    OBVIOUS
  <1>1. row.rec # "finalized" /\ row'.rec = "finalized" => tape = "stored"
    BY FinalizedBy DEF EvidenceInv, FinishIsTrue
  <1>2. row'.rec = "deleted" => tape' # "stored"
    BY StepDeleted DEF DeletedIsGone
  <1>3. QED
    BY <1>1, <1>2 DEF Evidence

----------------------------------------------------------------------------
(* The results.                                                            *)

\* Every column, file, event and thread keeps its type.
THEOREM RecordingTypes == Spec => []TypeOK
  <1>1. EvidenceInv => TypeOK
    BY DEF EvidenceInv
  <1>2. QED
    BY <1>1, InitKeeps, StepKeeps, PTL DEF Spec

\* The row says finalized only when Asterisk has the file, and deleted only
\* of what is gone, whatever is lost, killed or late.
THEOREM WrittenOnEvidence == Spec => OnEvidence
  BY InitKeeps, StepKeeps, StepEvidence, PTL DEF Spec, OnEvidence, Evidence
=============================================================================
