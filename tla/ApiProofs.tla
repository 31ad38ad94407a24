------------------------------- MODULE ApiProofs -------------------------------
(***************************************************************************)
(* What the platform promises to a customer's own software: the calls it   *)
(* places over the API with one key (IdempotentPlacement), and the events  *)
(* it is sent (WebhookOutbox).  For every number of requests, deliveries,  *)
(* endpoints, notifiers, lost answers and crashes.                         *)
(***************************************************************************)
EXTENDS IdempotentPlacement, WebhookOutbox, TLAPS

(***************************************************************************)
(* IdempotentPlacement.                                                    *)
(***************************************************************************)

----------------------------------------------------------------------------
(* The inductive invariant.                                                *)

\* Between the claim and the answer.
AtWork(r) == job[r] \notin {"unsent", "done"}

Rang(r) == call[r].device # "none"

\* What the claim of today is for: a request at work, or one whose call rang
\* and whose client was not told of an error.
Accountable(r) == AtWork(r) \/ (Rang(r) /\ call[r].day = day /\ answer[r] # "error")

\* There is one such request at a time, and the key says so.
KeyAccounts ==
    /\ \A r \in Requests : Accountable(r) => key # Free
    /\ \A r \in Requests : AtWork(r) => key = Claimed
    /\ \A r, q \in Requests : Accountable(r) /\ Accountable(q) => r = q
    /\ key \in Requests => answer[key] = "placed" /\ Rang(key) /\ call[key].day = day

\* How far a request has come says what its row and its client know.
StepsAgree ==
    \A r \in Requests :
        /\ job[r] \in {"unsent", "build"} => ~Rang(r)
        /\ job[r] = "dial" => ~Rang(r) /\ call[r].day = day
        /\ job[r] \in {"store", "finish"} => Rang(r)
        /\ AtWork(r) /\ Rang(r) => call[r].day = day
        /\ job[r] # "done" => answer[r] = "none"

RowsOfToday == \A r \in Requests : call[r].day \in 0..day

PlacementInv == PlacementTypes /\ KeyAccounts /\ StepsAgree /\ RowsOfToday /\ OneCallPerKey

\* Columns of a row replaced by values of their types make a row.
LEMMA CallTypes ==
    ASSUME NEW c \in Call
    PROVE  /\ \A s \in Live \cup Over, d \in 0..MaxDays : [c EXCEPT !.status = s, !.day = d] \in Call
           /\ \A s \in Live \cup Over : [c EXCEPT !.far = TRUE, !.status = s] \in Call
           /\ \A d \in {"rings", "up", "gone"} : [c EXCEPT !.device = d] \in Call
           /\ \A s \in Live \cup Over \cup {c.status} : [c EXCEPT !.status = s] \in Call
           /\ \A s \in Over \cup {c.status} : [c EXCEPT !.device = "gone", !.status = s] \in Call
  BY DEF Call

----------------------------------------------------------------------------
(* The steps of one request and of its call.                               *)

Step(r) == Place(r) \/ DialUnanswered(r) \/ Killed(r) \/ PickUp(r) \/ EmployeeUp(r) \/ Ends(r)

LEMMA StepTypes ==
    ASSUME PlacementTypes, NEW r \in Requests, Step(r)
    PROVE  PlacementTypes'
  <1> USE PlacementAssumption DEF PlacementAssumption
  <1>1. CASE Claim(r)
    BY <1>1 DEF Claim, Claimable, Goes, PlacementTypes
  <1>2. CASE Replay(r)
    BY <1>2 DEF Replay, Claimable, Goes, Tells, PlacementTypes
  <1>3. CASE Refuse(r)
    BY <1>3 DEF Refuse, Goes, PlacementTypes
  <1>4. CASE CreateCall(r)
    <2>1. [call[r] EXCEPT !.status = "initiated", !.day = day] \in Call
      BY CallTypes DEF PlacementTypes, Live, Over
    <2>2. QED
      BY <1>4, <2>1 DEF CreateCall, Goes, PlacementTypes
  <1>5. CASE Dial(r)
    <2>1. [call[r] EXCEPT !.device = "rings"] \in Call
      BY CallTypes DEF PlacementTypes, Live, Over
    <2>2. QED
      BY <1>5, <2>1 DEF Dial, Goes, PlacementTypes
  <1>6. CASE DialUnanswered(r)
    <2>1. [call[r] EXCEPT !.device = "rings"] \in Call
      BY CallTypes DEF PlacementTypes, Live, Over
    <2>2. QED
      BY <1>6, <2>1 DEF DialUnanswered, Goes, Spends, PlacementTypes
  <1>7. CASE FailCall(r)
    <2>1. /\ [call[r] EXCEPT !.status = "failed"] \in Call
          /\ [call[r] EXCEPT !.status = call[r].status] \in Call
      BY CallTypes DEF PlacementTypes, Live, Over
    <2>2. QED
      BY <1>7, <2>1 DEF FailCall, Goes, Writes, PlacementTypes
  <1>8. CASE StoreRinging(r)
    <2>1. /\ [call[r] EXCEPT !.status = "ringing"] \in Call
          /\ [call[r] EXCEPT !.status = call[r].status] \in Call
      BY CallTypes DEF PlacementTypes, Live, Over
    <2>2. QED
      BY <1>8, <2>1 DEF StoreRinging, Goes, Writes, Spends, PlacementTypes
  <1>9. CASE FinishKey(r)
    BY <1>9 DEF FinishKey, Goes, Tells, Spends, PlacementTypes
  <1>10. CASE Release(r)
    BY <1>10 DEF Release, Goes, Tells, Spends, PlacementTypes
  <1>11. CASE Killed(r)
    BY <1>11 DEF Killed, Spends, PlacementTypes
  <1>12. CASE PickUp(r)
    <2>1. [call[r] EXCEPT !.device = "up"] \in Call
      BY CallTypes DEF PlacementTypes, Live, Over
    <2>2. QED
      BY <1>12, <2>1 DEF PickUp, PlacementTypes
  <1>13. CASE EmployeeUp(r)
    <2>1. /\ [call[r] EXCEPT !.device = "gone"] \in Call
          /\ [call[r] EXCEPT !.far = TRUE, !.status = "connecting"] \in Call
      BY CallTypes DEF PlacementTypes, Live, Over
    <2>2. QED
      BY <1>13, <2>1 DEF EmployeeUp, PlacementTypes
  <1>14. CASE Ends(r)
    <2>1. PICK s \in Over \cup {call[r].status} :
             call' = [call EXCEPT ![r] = [call[r] EXCEPT !.device = "gone", !.status = s]]
      BY <1>14 DEF Ends, Over, PlacementTypes, Call
    <2>2. [call[r] EXCEPT !.device = "gone", !.status = s] \in Call
      BY CallTypes, <2>1 DEF PlacementTypes
    <2>3. QED
      BY <1>14, <2>1, <2>2 DEF Ends, PlacementTypes
  <1>15. QED
    BY <1>1, <1>2, <1>3, <1>4, <1>5, <1>6, <1>7, <1>8, <1>9, <1>10, <1>11, <1>12, <1>13, <1>14 DEF Step, Place

LEMMA StepAgrees ==
    ASSUME PlacementTypes, StepsAgree, NEW r \in Requests, Step(r)
    PROVE  StepsAgree'
  <1> USE PlacementAssumption DEF PlacementAssumption
  <1>1. CASE Claim(r)
    BY <1>1 DEF Claim, Goes, PlacementTypes, Call, StepsAgree, AtWork, Rang
  <1>2. CASE Replay(r)
    BY <1>2 DEF Replay, Goes, Tells, PlacementTypes, Call, StepsAgree, AtWork, Rang
  <1>3. CASE Refuse(r)
    BY <1>3 DEF Refuse, Goes, PlacementTypes, Call, StepsAgree, AtWork, Rang
  <1>4. CASE CreateCall(r)
    BY <1>4 DEF CreateCall, Goes, PlacementTypes, Call, StepsAgree, AtWork, Rang
  <1>5. CASE Dial(r)
    BY <1>5 DEF Dial, Goes, PlacementTypes, Call, StepsAgree, AtWork, Rang
  <1>6. CASE DialUnanswered(r)
    BY <1>6 DEF DialUnanswered, Goes, Spends, PlacementTypes, Call, StepsAgree, AtWork, Rang
  <1>7. CASE FailCall(r)
    BY <1>7 DEF FailCall, Goes, Writes, PlacementTypes, Call, StepsAgree, AtWork, Rang
  <1>8. CASE StoreRinging(r)
    BY <1>8 DEF StoreRinging, Goes, Writes, Spends, PlacementTypes, Call, StepsAgree, AtWork, Rang
  <1>9. CASE FinishKey(r)
    BY <1>9 DEF FinishKey, Goes, Tells, Spends, PlacementTypes, Call, StepsAgree, AtWork, Rang
  <1>10. CASE Release(r)
    BY <1>10 DEF Release, Goes, Tells, Spends, PlacementTypes, Call, StepsAgree, AtWork, Rang
  <1>11. CASE Killed(r)
    BY <1>11 DEF Killed, Spends, PlacementTypes, Call, StepsAgree, AtWork, Rang
  <1>12. CASE PickUp(r)
    BY <1>12 DEF PickUp, PlacementTypes, Call, StepsAgree, AtWork, Rang
  <1>13. CASE EmployeeUp(r)
    BY <1>13 DEF EmployeeUp, PlacementTypes, Call, StepsAgree, AtWork, Rang
  <1>14. CASE Ends(r)
    BY <1>14 DEF Ends, PlacementTypes, Call, StepsAgree, AtWork, Rang
  <1>15. QED
    BY <1>1, <1>2, <1>3, <1>4, <1>5, <1>6, <1>7, <1>8, <1>9, <1>10, <1>11, <1>12, <1>13, <1>14 DEF Step, Place

LEMMA StepAccounts ==
    ASSUME PlacementTypes, StepsAgree, KeyAccounts, NEW r \in Requests, Step(r)
    PROVE  KeyAccounts'
  <1> USE PlacementAssumption DEF PlacementAssumption
  <1>1. CASE Claim(r)
    BY <1>1 DEF Claim, Claimable, Goes, PlacementTypes, Call, StepsAgree, KeyAccounts, Accountable, AtWork, Rang
  <1>2. CASE Replay(r)
    BY <1>2 DEF Replay, Claimable, Goes, Tells, PlacementTypes, Call, StepsAgree, KeyAccounts, Accountable, AtWork,
       Rang
  <1>3. CASE Refuse(r)
    BY <1>3 DEF Refuse, Goes, PlacementTypes, Call, StepsAgree, KeyAccounts, Accountable, AtWork, Rang
  <1>4. CASE CreateCall(r)
    BY <1>4 DEF CreateCall, Goes, PlacementTypes, Call, StepsAgree, KeyAccounts, Accountable, AtWork, Rang
  <1>5. CASE Dial(r)
    BY <1>5 DEF Dial, Goes, PlacementTypes, Call, StepsAgree, KeyAccounts, Accountable, AtWork, Rang
  <1>6. CASE DialUnanswered(r)
    BY <1>6 DEF DialUnanswered, Goes, Spends, PlacementTypes, Call, StepsAgree, KeyAccounts, Accountable, AtWork, Rang
  <1>7. CASE FailCall(r)
    BY <1>7 DEF FailCall, Goes, Writes, PlacementTypes, Call, StepsAgree, KeyAccounts, Accountable, AtWork, Rang
  <1>8. CASE StoreRinging(r)
    BY <1>8 DEF StoreRinging, Goes, Writes, Spends, PlacementTypes, Call, StepsAgree, KeyAccounts, Accountable,
       AtWork, Rang
  <1>9. CASE FinishKey(r)
    BY <1>9 DEF FinishKey, Goes, Tells, Spends, PlacementTypes, Call, StepsAgree, KeyAccounts, Accountable, AtWork, Rang
  <1>10. CASE Release(r)
    BY <1>10 DEF Release, Goes, Tells, Spends, PlacementTypes, Call, StepsAgree, KeyAccounts, Accountable, AtWork,
       Rang
  <1>11. CASE Killed(r)
    BY <1>11 DEF Killed, Spends, PlacementTypes, Call, StepsAgree, KeyAccounts, Accountable, AtWork, Rang
  <1>12. CASE PickUp(r)
    BY <1>12 DEF PickUp, PlacementTypes, Call, StepsAgree, KeyAccounts, Accountable, AtWork, Rang
  <1>13. CASE EmployeeUp(r)
    BY <1>13 DEF EmployeeUp, PlacementTypes, Call, StepsAgree, KeyAccounts, Accountable, AtWork, Rang
  <1>14. CASE Ends(r)
    BY <1>14 DEF Ends, PlacementTypes, Call, StepsAgree, KeyAccounts, Accountable, AtWork, Rang
  <1>15. QED
    BY <1>1, <1>2, <1>3, <1>4, <1>5, <1>6, <1>7, <1>8, <1>9, <1>10, <1>11, <1>12, <1>13, <1>14 DEF Step, Place

\* What was told, and what rang when, is all the property is about.
LEMMA SameCalls ==
    ASSUME OneCallPerKey, answer' = answer,
           \A q \in Requests : Rang(q)' = Rang(q) /\ (Rang(q) => call'[q].day = call[q].day)
    PROVE  OneCallPerKey'
  BY DEF OneCallPerKey, Placed, Rang

LEMMA StepKeepsOne ==
    ASSUME PlacementInv, NEW r \in Requests, Step(r)
    PROVE  OneCallPerKey'
  <1> USE PlacementAssumption DEF PlacementAssumption
  <1>1. CASE Claim(r) \/ Refuse(r) \/ CreateCall(r) \/ FailCall(r) \/ StoreRinging(r) \/ Killed(r)
    <2>1. \A q \in Requests : Rang(q)' = Rang(q) /\ (Rang(q) => call'[q].day = call[q].day)
      BY <1>1 DEF Claim, Refuse, CreateCall, FailCall, StoreRinging, Killed, Goes, Writes, PlacementInv,
                  PlacementTypes, Call, StepsAgree, Rang
    <2>2. answer' = answer
      BY <1>1 DEF Claim, Refuse, CreateCall, FailCall, StoreRinging, Killed
    <2>3. QED
      BY <2>1, <2>2, SameCalls DEF PlacementInv
  <1>2. CASE PickUp(r) \/ EmployeeUp(r) \/ Ends(r)
    <2>1. \A q \in Requests : Rang(q)' = Rang(q) /\ call'[q].day = call[q].day
      <3>1. CASE PickUp(r)
        BY <3>1 DEF PickUp, PlacementInv, PlacementTypes, Call, Rang
      <3>2. CASE EmployeeUp(r)
        BY <3>2 DEF EmployeeUp, PlacementInv, PlacementTypes, Call, Rang
      <3>3. CASE Ends(r)
        BY <3>3 DEF Ends, PlacementInv, PlacementTypes, Call, Rang
      <3>4. QED
        BY <1>2, <3>1, <3>2, <3>3
    <2>2. answer' = answer
      BY <1>2 DEF PickUp, EmployeeUp, Ends
    <2>3. QED
      BY <2>1, <2>2, SameCalls DEF PlacementInv
  <1>3. CASE Dial(r) \/ DialUnanswered(r)
    <2>1. /\ answer' = answer /\ AtWork(r) /\ call[r].day = day
          /\ \A q \in Requests : call'[q].day = call[q].day /\ (Rang(q) => Rang(q)') /\ (q # r => Rang(q)' = Rang(q))
      BY <1>3 DEF Dial, DialUnanswered, Goes, PlacementInv, PlacementTypes, Call, StepsAgree, AtWork, Rang
    <2>2. \A q \in Requests : Rang(q) /\ call[q].day = day /\ q # r => answer[q] = "error"
      BY <2>1 DEF PlacementInv, KeyAccounts, Accountable
    <2>3. QED
      BY <2>1, <2>2 DEF PlacementInv, OneCallPerKey, Placed, Rang
  <1>4. CASE Replay(r)
    BY <1>4 DEF Replay, Claimable, Goes, Tells, PlacementInv, PlacementTypes, StepsAgree, KeyAccounts, AtWork, Rang,
                OneCallPerKey, Placed
  <1>5. CASE FinishKey(r)
    <2>1. /\ UNCHANGED <<call, day>> /\ job[r] = "finish" /\ Rang(r)
          /\ \A q \in Requests : q # r => answer'[q] = answer[q]
          /\ answer'[r] \in {"placed", "error"} /\ answer[r] = "none"
      BY <1>5 DEF FinishKey, Goes, Tells, PlacementInv, PlacementTypes, StepsAgree
    <2>2. \A q \in Requests : answer[q] # r
      BY <2>1 DEF PlacementInv, OneCallPerKey
    <2>3. \A d \in 0..MaxDays : Placed(d)' = Placed(d)
      BY <2>1 DEF Placed
    <2>4. \A d \in 0..MaxDays : \A p, q \in Placed(d) : p # q => "error" \in {answer'[p], answer'[q]}
      BY <2>1 DEF PlacementInv, OneCallPerKey, Placed
    <2>5. \A c, q \in Requests : answer'[c] = q => answer'[q] = "placed" /\ q \in Placed(call[q].day)
      BY <2>1, <2>2 DEF PlacementInv, OneCallPerKey
    <2>6. \A c, q \in Requests : answer'[c] = q => answer'[q] = "placed" /\ q \in Placed(call[q].day)'
      BY <2>1, <2>5 DEF Placed
    <2>7. QED
      BY <2>1, <2>3, <2>4, <2>6 DEF OneCallPerKey
  <1>6. CASE Release(r)
    BY <1>6 DEF Release, Goes, Tells, PlacementInv, PlacementTypes, StepsAgree, OneCallPerKey, Placed
  <1>7. QED
    BY <1>1, <1>2, <1>3, <1>4, <1>5, <1>6 DEF Step, Place

\* No row is of a day to come.
LEMMA StepRows ==
    ASSUME PlacementTypes, RowsOfToday, NEW r \in Requests, Step(r)
    PROVE  RowsOfToday'
  <1>1. CASE Claim(r)
    BY <1>1 DEF Claim, Goes, PlacementTypes, Call, RowsOfToday
  <1>2. CASE Replay(r)
    BY <1>2 DEF Replay, Goes, Tells, PlacementTypes, Call, RowsOfToday
  <1>3. CASE Refuse(r)
    BY <1>3 DEF Refuse, Goes, PlacementTypes, Call, RowsOfToday
  <1>4. CASE CreateCall(r)
    BY <1>4 DEF CreateCall, Goes, PlacementTypes, Call, RowsOfToday
  <1>5. CASE Dial(r)
    BY <1>5 DEF Dial, Goes, PlacementTypes, Call, RowsOfToday
  <1>6. CASE DialUnanswered(r)
    BY <1>6 DEF DialUnanswered, Goes, Spends, PlacementTypes, Call, RowsOfToday
  <1>7. CASE FailCall(r)
    BY <1>7 DEF FailCall, Goes, Writes, PlacementTypes, Call, RowsOfToday
  <1>8. CASE StoreRinging(r)
    BY <1>8 DEF StoreRinging, Goes, Writes, Spends, PlacementTypes, Call, RowsOfToday
  <1>9. CASE FinishKey(r)
    BY <1>9 DEF FinishKey, Goes, Tells, Spends, PlacementTypes, Call, RowsOfToday
  <1>10. CASE Release(r)
    BY <1>10 DEF Release, Goes, Tells, Spends, PlacementTypes, Call, RowsOfToday
  <1>11. CASE Killed(r)
    BY <1>11 DEF Killed, Spends, PlacementTypes, Call, RowsOfToday
  <1>12. CASE PickUp(r)
    BY <1>12 DEF PickUp, PlacementTypes, Call, RowsOfToday
  <1>13. CASE EmployeeUp(r)
    BY <1>13 DEF EmployeeUp, PlacementTypes, Call, RowsOfToday
  <1>14. CASE Ends(r)
    BY <1>14 DEF Ends, PlacementTypes, Call, RowsOfToday
  <1>15. QED
    BY <1>1, <1>2, <1>3, <1>4, <1>5, <1>6, <1>7, <1>8, <1>9, <1>10, <1>11, <1>12, <1>13, <1>14 DEF Step, Place


LEMMA DayKeeps == PlacementInv /\ NextDay => PlacementInv'
  <1> SUFFICES ASSUME PlacementInv, NextDay PROVE PlacementInv'
    OBVIOUS
  <1> USE PlacementAssumption DEF PlacementAssumption
  <1>1. /\ UNCHANGED <<call, job, answer>> /\ key' = Free /\ day' = day + 1
        /\ \A r \in Requests : ~AtWork(r)
    BY DEF NextDay, AtWork
  <1>2. PlacementTypes'
    BY <1>1 DEF PlacementInv, PlacementTypes, NextDay
  <1>3. StepsAgree'
    BY <1>1 DEF PlacementInv, StepsAgree, AtWork, Rang
  <1>4. OneCallPerKey'
    BY <1>1 DEF PlacementInv, OneCallPerKey, Placed
  <1>5. KeyAccounts'
    <2>1. \A r \in Requests : call[r].day \in 0..day
      BY DEF PlacementInv, RowsOfToday
    <2>2. \A r \in Requests : ~Accountable(r)'
      BY <1>1, <2>1 DEF Accountable, AtWork, PlacementInv, PlacementTypes
    <2>3. QED
      BY <1>1, <2>2 DEF KeyAccounts, Accountable
  <1>6. RowsOfToday'
    BY <1>1 DEF PlacementInv, RowsOfToday, PlacementTypes
  <1>7. QED
    BY <1>2, <1>3, <1>4, <1>5, <1>6 DEF PlacementInv

LEMMA InitKeeps == PlacementInit => PlacementInv
  <1> SUFFICES ASSUME PlacementInit PROVE PlacementInv
    OBVIOUS
  <1> USE PlacementAssumption DEF PlacementAssumption
  <1>1. NoCall \in Call
    BY DEF NoCall, Call
  <1>2. PlacementTypes
    BY <1>1 DEF PlacementInit, PlacementTypes
  <1>3. KeyAccounts /\ StepsAgree /\ RowsOfToday
    BY DEF PlacementInit, KeyAccounts, StepsAgree, RowsOfToday, Accountable, AtWork, Rang, NoCall
  <1>4. OneCallPerKey
    BY DEF PlacementInit, OneCallPerKey, Placed, NoCall
  <1>5. QED
    BY <1>2, <1>3, <1>4 DEF PlacementInv

LEMMA StepKeeps == PlacementInv /\ [PlacementNext]_placementVars => PlacementInv'
  <1> SUFFICES ASSUME PlacementInv, [PlacementNext]_placementVars PROVE PlacementInv'
    OBVIOUS
  <1>1. CASE \E r \in Requests : Step(r)
    BY <1>1, StepTypes, StepAgrees, StepAccounts, StepKeepsOne, StepRows DEF PlacementInv
  <1>2. CASE UNCHANGED placementVars
    BY <1>2 DEF placementVars, PlacementInv, PlacementTypes, KeyAccounts, StepsAgree, OneCallPerKey, RowsOfToday,
                Accountable, AtWork, Rang, Placed
  <1>3. QED
    BY <1>1, <1>2, DayKeeps DEF PlacementNext, Step

----------------------------------------------------------------------------
(* The results.                                                            *)

\* At any time at most one request is at work on the key or has a call of
\* today to answer for, and the key is taken then.
THEOREM PlacementInvariant == PlacementSpec => []PlacementInv
  BY InitKeeps, StepKeeps, PTL DEF PlacementSpec

\* One key places one call a day, except after an error the client was told
\* of: for any number of retries, crashes and lost statements.
THEOREM OneCallForOneKey == PlacementSpec => []OneCallPerKey
  <1>1. PlacementInv => OneCallPerKey
    BY DEF PlacementInv
  <1>2. QED
    BY <1>1, PlacementInvariant, PTL

(***************************************************************************)
(* WebhookOutbox.                                                          *)
(***************************************************************************)

\* What the worker holds has neither succeeded nor used up its attempts, unless
\* its endpoint was deleted meanwhile; a reply is always the reply for the
\* oldest delivery it holds.
HeldInv ==
    /\ \A d \in batch : status[d] \in {"pending", "failed"} /\ tries[d] <= MaxAttempts
    /\ stage = "asleep" => batch = {}
    /\ reply # "none" => stage = "sending" /\ batch # {}

\* Nothing is known of a delivery that was not created.
UncreatedInv == \A d \in Delivery : d > made => status[d] = "none"

\* A request in flight is not in tries yet; a delivery selected has an attempt
\* left, even if its endpoint is deleted before the attempt is recorded.
Flying(d) == InTurn(d) /\ reply # "none"

SentInv ==
    \A d \in Delivery :
        /\ sent[d] <= (IF Flying(d) THEN tries[d] + 1 ELSE tries[d]) + crashes
        /\ sent[d] <= MaxAttempts + crashes
        /\ d \in batch /\ ~Flying(d) => sent[d] + 1 <= MaxAttempts + crashes

OutboxInv == TypeOK /\ HeldInv /\ UncreatedInv /\ SentInv

LEMMA OutboxInit == Init => OutboxInv
BY OutboxAssumption
   DEF Init, OutboxInv, TypeOK, HeldInv, UncreatedInv, SentInv, Flying, InTurn, Delivery, Created

\* One step per action; what Finish does is spelled out first.
LEMMA TypeStep == TypeOK /\ HeldInv /\ [Next]_vars => TypeOK'
<1> SUFFICES ASSUME TypeOK, HeldInv, [Next]_vars PROVE TypeOK' OBVIOUS
<1> USE OutboxAssumption DEF TypeOK, Delivery, Created, rows, worker
<1>1. ASSUME NEW e \in Endpoint, Save(e) PROVE TypeOK' BY <1>1 DEF Save
<1>2. ASSUME NEW e \in Endpoint, Delete(e) PROVE TypeOK' BY <1>2 DEF Delete
<1>3. ASSUME NEW n \in Notifier, Notify(n) PROVE TypeOK' BY <1>3 DEF Notify
<1>4. ASSUME NEW n \in Notifier, Enqueue(n) PROVE TypeOK' BY <1>4 DEF Enqueue
<1>5. ASSUME NEW n \in Notifier, EnqueueFails(n) PROVE TypeOK' BY <1>5 DEF EnqueueFails
<1>6. CASE Select BY <1>6 DEF Select
<1>7. CASE Filter BY <1>7 DEF Filter
<1>8. CASE Send BY <1>8 DEF Send
<1>9. CASE Finish BY <1>9 DEF Finish, InTurn, HeldInv
<1>10. CASE RoundEnds BY <1>10 DEF RoundEnds
<1>11. CASE Crash BY <1>11 DEF Crash
<1>12. ASSUME NEW d \in Delivery, BackoffEnds(d) PROVE TypeOK' BY <1>12 DEF BackoffEnds
<1>13. CASE UNCHANGED vars BY <1>13 DEF vars
<1> QED BY <1>1, <1>2, <1>3, <1>4, <1>5, <1>6, <1>7, <1>8, <1>9, <1>10, <1>11, <1>12, <1>13 DEF Next, Work

LEMMA HeldStep == TypeOK /\ HeldInv /\ UncreatedInv /\ [Next]_vars => HeldInv' /\ UncreatedInv'
<1> SUFFICES ASSUME TypeOK, HeldInv, UncreatedInv, [Next]_vars PROVE HeldInv' /\ UncreatedInv' OBVIOUS
<1> USE OutboxAssumption DEF TypeOK, HeldInv, UncreatedInv, Delivery, Created, rows, worker
<1>1. ASSUME NEW e \in Endpoint, Save(e) PROVE HeldInv' /\ UncreatedInv' BY <1>1 DEF Save
<1>2. ASSUME NEW e \in Endpoint, Delete(e) PROVE HeldInv' /\ UncreatedInv' BY <1>2 DEF Delete
<1>3. ASSUME NEW n \in Notifier, Notify(n) PROVE HeldInv' /\ UncreatedInv' BY <1>3 DEF Notify
<1>4. ASSUME NEW n \in Notifier, Enqueue(n) PROVE HeldInv' /\ UncreatedInv' BY <1>4 DEF Enqueue
<1>5. ASSUME NEW n \in Notifier, EnqueueFails(n) PROVE HeldInv' /\ UncreatedInv' BY <1>5 DEF EnqueueFails
<1>6. CASE Select
  <2> PICK S \in SUBSET Created, old \in SUBSET {d \in Created : Retired(d)} :
         /\ S \subseteq Waiting /\ batch' = S
         /\ status' = [d \in Delivery |-> IF d \in old THEN "purged" ELSE status[d]]
         /\ stage = "asleep" /\ stage' = "selected"
         /\ UNCHANGED <<made, tries, reply>>
     BY <1>6 DEF Select, Oldest
  <2>1. \A d \in Waiting : ~Retired(d) BY DEF Waiting, Retired
  <2>2. HeldInv' BY <2>1 DEF Waiting
  <2>3. UncreatedInv' OBVIOUS
  <2> QED BY <2>2, <2>3
<1>7. CASE Filter BY <1>7 DEF Filter
<1>8. CASE Send BY <1>8 DEF Send, InTurn
<1>9. CASE Finish
  <2> PICK d \in Delivery :
         /\ InTurn(d) /\ reply # "none" /\ batch' = batch \ {d} /\ reply' = "none"
         /\ status' = [status EXCEPT ![d] = IF reply = "ok" THEN "delivered" ELSE "failed"]
         /\ tries' = [tries EXCEPT ![d] = @ + 1]
         /\ UNCHANGED <<made, stage>>
     BY <1>9 DEF Finish
  <2>1. HeldInv' BY DEF InTurn
  <2>2. UncreatedInv' BY DEF InTurn
  <2> QED BY <2>1, <2>2
<1>10. CASE RoundEnds BY <1>10 DEF RoundEnds
<1>11. CASE Crash BY <1>11 DEF Crash
<1>12. ASSUME NEW d \in Delivery, BackoffEnds(d) PROVE HeldInv' /\ UncreatedInv' BY <1>12 DEF BackoffEnds
<1>13. CASE UNCHANGED vars BY <1>13 DEF vars
<1> QED BY <1>1, <1>2, <1>3, <1>4, <1>5, <1>6, <1>7, <1>8, <1>9, <1>10, <1>11, <1>12, <1>13 DEF Next, Work

LEMMA SentStep == OutboxInv /\ [Next]_vars => SentInv'
<1> SUFFICES ASSUME TypeOK, HeldInv, UncreatedInv, SentInv, [Next]_vars PROVE SentInv'
    BY DEF OutboxInv
<1> USE OutboxAssumption DEF TypeOK, HeldInv, SentInv, Flying, Delivery, Created, rows, worker
<1>1. ASSUME NEW e \in Endpoint, Save(e) PROVE SentInv' BY <1>1 DEF Save, InTurn
<1>2. ASSUME NEW e \in Endpoint, Delete(e) PROVE SentInv' BY <1>2 DEF Delete, InTurn
<1>3. ASSUME NEW n \in Notifier, Notify(n) PROVE SentInv' BY <1>3 DEF Notify, InTurn
<1>4. ASSUME NEW n \in Notifier, Enqueue(n) PROVE SentInv' BY <1>4 DEF Enqueue, InTurn
<1>5. ASSUME NEW n \in Notifier, EnqueueFails(n) PROVE SentInv' BY <1>5 DEF EnqueueFails, InTurn
<1>6. CASE Select BY <1>6 DEF Select, Oldest, Waiting, InTurn
<1>7. CASE Filter BY <1>7 DEF Filter, InTurn
<1>8. CASE Send
  <2> PICK d \in Delivery :
         /\ InTurn(d) /\ reply = "none" /\ reply' # "none"
         /\ sent' = [sent EXCEPT ![d] = @ + 1]
         /\ UNCHANGED <<made, tries, batch, stage, crashes>>
     BY <1>8 DEF Send
  <2>1. d \in batch /\ (\A o \in batch : d <= o) /\ stage = "sending" BY DEF InTurn
  <2>2. sent[d] <= tries[d] + crashes /\ sent[d] + 1 <= MaxAttempts + crashes BY <2>1
  <2>3. ASSUME NEW o \in Delivery, o # d PROVE ~InTurn(o)
    <3>1. \A x \in batch : x \in Nat OBVIOUS
    <3>2. o \in batch => d <= o /\ d \in Nat /\ o \in Nat BY <2>1, <3>1
    <3> QED BY <2>1, <2>3, <3>2 DEF InTurn
  <2>4. InTurn(d)' /\ \A o \in Delivery \ {d} : ~InTurn(o)' BY <2>1, <2>3 DEF InTurn
  <2>5. \A o \in Delivery \ {d} :
           /\ sent'[o] = sent[o] /\ sent[o] <= tries[o] + crashes /\ sent[o] <= MaxAttempts + crashes
           /\ o \in batch => sent[o] + 1 <= MaxAttempts + crashes
        OBVIOUS
  <2>6. sent'[d] = sent[d] + 1 OBVIOUS
  <2>7. ASSUME NEW o \in Delivery
        PROVE  /\ sent'[o] <= (IF InTurn(o)' /\ reply' # "none" THEN tries'[o] + 1 ELSE tries'[o]) + crashes'
               /\ sent'[o] <= MaxAttempts + crashes'
               /\ o \in batch' /\ ~(InTurn(o)' /\ reply' # "none") => sent'[o] + 1 <= MaxAttempts + crashes'
    <3>1. CASE o = d BY <3>1, <2>2, <2>4, <2>6
    <3>2. CASE o # d BY <3>2, <2>4, <2>5
    <3> QED BY <3>1, <3>2
  <2> QED BY <2>7
<1>9. CASE Finish BY <1>9 DEF Finish, InTurn
<1>10. CASE RoundEnds BY <1>10 DEF RoundEnds, InTurn
<1>11. CASE Crash
  <2>1. \A d \in Delivery : sent[d] <= tries[d] + 1 + crashes /\ sent[d] <= MaxAttempts + crashes
        OBVIOUS
  <2>2. /\ crashes' = crashes + 1 /\ batch' = {} /\ reply' = "none"
        /\ UNCHANGED <<tries, sent>>
        BY <1>11 DEF Crash
  <2> QED BY <2>1, <2>2 DEF InTurn
<1>12. ASSUME NEW d \in Delivery, BackoffEnds(d) PROVE SentInv' BY <1>12 DEF BackoffEnds, InTurn
<1>13. CASE UNCHANGED vars BY <1>13 DEF vars, InTurn
<1> QED BY <1>1, <1>2, <1>3, <1>4, <1>5, <1>6, <1>7, <1>8, <1>9, <1>10, <1>11, <1>12, <1>13 DEF Next, Work

\* The inductive invariant: types, what the worker holds, what it has sent.
THEOREM OutboxInvariant == Spec => []OutboxInv
<1>1. OutboxInv /\ [Next]_vars => OutboxInv' BY TypeStep, HeldStep, SentStep DEF OutboxInv
<1> QED BY OutboxInit, <1>1, PTL DEF Spec

\* Every column, batch and counter has its type in every reachable state.
THEOREM OutboxTypes == Spec => []TypeOK
BY OutboxInvariant, PTL DEF OutboxInv

\* "Up to five attempts", plus one for each round whose results were lost.
THEOREM AttemptsAreBounded == Spec => []AttemptsBounded
<1>1. OutboxInv => AttemptsBounded BY DEF OutboxInv, SentInv, AttemptsBounded
<1> QED BY OutboxInvariant, <1>1, PTL

\* A delivery made or given up is never queued again, whatever result comes late.
THEOREM RetiredForGood == Spec => RetiredStays
<1>1. ASSUME OutboxInv, [Next]_vars, NEW d \in Delivery, Retired(d) PROVE Retired(d)'
  <2> USE <1>1, OutboxAssumption
      DEF OutboxInv, TypeOK, HeldInv, UncreatedInv, Retired, Delivery, Created, rows, worker
  <2>1. ASSUME NEW e \in Endpoint, Save(e) PROVE Retired(d)' BY <2>1 DEF Save
  <2>2. ASSUME NEW e \in Endpoint, Delete(e) PROVE Retired(d)' BY <2>2 DEF Delete
  <2>3. ASSUME NEW n \in Notifier, Notify(n) \/ EnqueueFails(n) PROVE Retired(d)'
        BY <2>3 DEF Notify, EnqueueFails
  <2>4. ASSUME NEW n \in Notifier, Enqueue(n) PROVE Retired(d)' BY <2>4 DEF Enqueue
  <2>5. CASE Select BY <2>5 DEF Select
  <2>6. CASE Filter \/ Send \/ RoundEnds \/ Crash BY <2>6 DEF Filter, Send, RoundEnds, Crash
  <2>7. CASE Finish
    <3> PICK o \in Delivery :
           /\ InTurn(o)
           /\ status' = [status EXCEPT ![o] = IF reply = "ok" THEN "delivered" ELSE "failed"]
           /\ tries' = [tries EXCEPT ![o] = @ + 1]
       BY <2>7 DEF Finish
    <3>1. CASE d = o
      <4>1. d \in batch BY <3>1 DEF InTurn
      <4>2. tries[d] \in Nat /\ MaxAttempts \in Nat /\ tries[d] >= MaxAttempts BY <4>1
      <4>3. tries'[d] = tries[d] + 1 BY <3>1
      <4> QED BY <4>2, <4>3
    <3>2. CASE d # o BY <3>2
    <3> QED BY <3>1, <3>2
  <2>8. ASSUME NEW o \in Delivery, BackoffEnds(o) PROVE Retired(d)' BY <2>8 DEF BackoffEnds
  <2>9. CASE UNCHANGED vars BY <2>9 DEF vars
  <2> QED BY <2>1, <2>2, <2>3, <2>4, <2>5, <2>6, <2>7, <2>8, <2>9 DEF Next, Work
<1>2. OutboxInv /\ [Next]_vars => [\A d \in Delivery : Retired(d) => Retired(d)']_vars
      BY <1>1 DEF vars
<1> QED BY OutboxInvariant, <1>2, PTL DEF Spec, RetiredStays
=============================================================================
