------------------------ MODULE IdempotentPlacement ------------------------
(***************************************************************************)
(* POST /api/v1/calls with an Idempotency-Key (src/app/routes.py): threads *)
(* of both web workers serve the first request and its retries, each       *)
(* claims the key, places the call and files it under the key or gives the *)
(* key back.  The ARI worker meanwhile handles what the devices do.  One   *)
(* key; a request places at most one call, which is named after it.        *)
(***************************************************************************)
EXTENDS Naturals

CONSTANTS
    Requests,   \* requests a client sends with one key, retries among them
    Free,       \* the key has no row
    Claimed,    \* the key's row names no call
    MaxFaults,  \* bound: answers and statements lost
    MaxKills, \* bound: requests killed with their web worker
    MaxDays     \* bound: days after which the row is deleted

ASSUME PlacementAssumption ==
    /\ {Free, Claimed} \cap Requests = {} /\ Free # Claimed
    /\ {"none", "busy", "error", "placed"} \cap Requests = {}
    /\ {MaxFaults, MaxKills, MaxDays} \subseteq Nat

VARIABLES
    key,        \* api_idempotency: Free, Claimed or the call of a request
    call,       \* the calls: the row's status, the employee's device, the far side
    job,        \* each request's step
    answer,     \* what its client was told: "none", "busy", "error", "placed" or a replayed call
    day,        \* days since the first request
    spent       \* bounds used up

placementVars == <<key, call, job, answer, day, spent>>

Live  == {"initiated", "ringing", "connecting"}
Over  == {"completed", "failed"}
Call   == [status : {"none"} \cup Live \cup Over, device : {"none", "rings", "up", "gone"},
           far : BOOLEAN, day : 0..MaxDays]
NoCall == [status |-> "none", device |-> "none", far |-> FALSE, day |-> 0]

PlacementInit ==
    /\ key = Free
    /\ call = [r \in Requests |-> NoCall]
    /\ job = [r \in Requests |-> "unsent"]
    /\ answer = [r \in Requests |-> "none"]
    /\ day = 0 /\ spent = [faults |-> 0, kills |-> 0]

Goes(r, from, to)  == job[r] = from /\ job' = [job EXCEPT ![r] = to]
Tells(r, what)     == answer' = [answer EXCEPT ![r] = what]
Writes(r, status)  == call' = [call EXCEPT ![r].status = status]
Spends(b, bound)   == spent[b] < bound /\ spent' = [spent EXCEPT ![b] = @ + 1]

-----------------------------------------------------------------------------
(* A request.                                                              *)

\* Mutant: a row without a call is no claim yet.
ClaimableUnfinished == key \in {Free, Claimed}
\* The insert of one of two requests that found no row fails.
Claimable == key = Free

Claim(r) ==
    /\ Claimable /\ Goes(r, "unsent", "build") /\ key' = Claimed
    /\ UNCHANGED <<call, answer, day, spent>>

\* A finished call is told again, a call in the making is a conflict.
Replay(r) ==
    /\ ~Claimable /\ Goes(r, "unsent", "done")
    /\ Tells(r, IF key = Claimed THEN "busy" ELSE key)
    /\ UNCHANGED <<key, call, day, spent>>

\* build_call refuses the request: its data, its number, the event loop.
Refuse(r) ==
    /\ Goes(r, "build", "release")
    /\ UNCHANGED <<key, call, answer, day, spent>>

CreateCall(r) ==
    /\ Goes(r, "build", "dial")
    /\ call' = [call EXCEPT ![r].status = "initiated", ![r].day = day]
    /\ UNCHANGED <<key, answer, day, spent>>

\* The device rings, or Asterisk refuses it.
Dial(r) ==
    /\ \/ Goes(r, "dial", "store") /\ call' = [call EXCEPT ![r].device = "rings"]
       \/ Goes(r, "dial", "fail") /\ UNCHANGED call
    /\ UNCHANGED <<key, answer, day, spent>>

\* The device rings and the answer is lost, up to ten seconds later.
DialUnanswered(r) ==
    /\ Goes(r, "dial", "fail") /\ Spends("faults", MaxFaults)
    /\ call' = [call EXCEPT ![r].device = "rings"]
    /\ UNCHANGED <<key, answer, day>>

\* No device rings for all the request knows.
FailCall(r) ==
    /\ Goes(r, "fail", "release")
    /\ Writes(r, IF call[r].status \in Live THEN "failed" ELSE call[r].status)
    /\ UNCHANGED <<key, answer, day, spent>>

\* The legs and the status, or a statement that fails.
StoreRinging(r) ==
    /\ \/ /\ Goes(r, "store", "finish") /\ UNCHANGED spent
          /\ Writes(r, IF call[r].status = "initiated" THEN "ringing" ELSE call[r].status)
       \/ Goes(r, "store", "release") /\ Spends("faults", MaxFaults) /\ UNCHANGED call
    /\ UNCHANGED <<key, answer, day>>

\* A statement that fails leaves the key claimed.
FinishKey(r) ==
    /\ Goes(r, "finish", "done")
    /\ \/ key' = r /\ Tells(r, "placed") /\ UNCHANGED spent
       \/ Tells(r, "error") /\ Spends("faults", MaxFaults) /\ UNCHANGED key
    /\ UNCHANGED <<call, day>>

Release(r) ==
    /\ Goes(r, "release", "done") /\ Tells(r, "error")
    /\ \/ key' = Free /\ UNCHANGED spent
       \/ Spends("faults", MaxFaults) /\ UNCHANGED key
    /\ UNCHANGED <<call, day>>

\* gunicorn kills a worker that does not answer for sixty seconds.
Killed(r) ==
    /\ job[r] \notin {"unsent", "done"} /\ Spends("kills", MaxKills)
    /\ job' = [job EXCEPT ![r] = "done"]
    /\ UNCHANGED <<key, call, answer, day>>

Place(r) ==
    \/ Claim(r) \/ Replay(r) \/ Refuse(r) \/ CreateCall(r) \/ Dial(r)
    \/ FailCall(r) \/ StoreRinging(r) \/ FinishKey(r) \/ Release(r)

\* The first claim after 24 hours deletes the row: whatever came of it is over.
NextDay ==
    /\ day < MaxDays /\ day' = day + 1
    /\ \A r \in Requests : job[r] \in {"unsent", "done"} /\ call[r].device \notin {"rings", "up"}
    /\ key' = Free
    /\ UNCHANGED <<call, job, answer, spent>>

-----------------------------------------------------------------------------
(* The calls.                                                              *)

PickUp(r) ==
    /\ call[r].device = "rings"
    /\ call' = [call EXCEPT ![r].device = "up"]
    /\ UNCHANGED <<key, job, answer, day, spent>>

\* The worker dials the far side, unless the call has ended.
EmployeeUp(r) ==
    /\ call[r].device = "up" /\ ~call[r].far
    /\ call' = [call EXCEPT ![r] =
           IF @.status \in Over THEN [@ EXCEPT !.device = "gone"]
           ELSE [@ EXCEPT !.far = TRUE, !.status = "connecting"]]
    /\ UNCHANGED <<key, job, answer, day, spent>>

\* Nobody answers, or the conversation ends.
Ends(r) ==
    /\ call[r].device \in {"rings", "up"}
    /\ \E outcome \in IF call[r].far THEN Over ELSE {"failed"} :
         call' = [call EXCEPT ![r].device = "gone",
                              ![r].status = IF @ \in Over THEN @ ELSE outcome]
    /\ UNCHANGED <<key, job, answer, day, spent>>

PlacementNext ==
    \/ \E r \in Requests : Place(r) \/ DialUnanswered(r) \/ Killed(r) \/ PickUp(r) \/ EmployeeUp(r) \/ Ends(r)
    \/ NextDay

PlacementSpec == PlacementInit /\ [][PlacementNext]_placementVars

-----------------------------------------------------------------------------
(* Properties.                                                             *)

\* The key, the rows and the threads are what the code makes of them.
PlacementTypes ==
    /\ key \in {Free, Claimed} \cup Requests
    /\ call \in [Requests -> Call]
    /\ job \in [Requests -> {"unsent", "build", "dial", "store", "fail", "finish", "release", "done"}]
    /\ answer \in [Requests -> {"none", "busy", "error", "placed"} \cup Requests]
    /\ day \in 0..MaxDays

Placed(d) == {r \in Requests : call[r].device # "none" /\ call[r].day = d}

\* One key rings the employee for one call a day, retries and crashes
\* notwithstanding, unless the client of the other call was told of an error;
\* and whoever is told of a call is told of that one (claim_idempotency,
\* finish_idempotency).
OneCallPerKey ==
    /\ \A d \in 0..MaxDays : \A r, q \in Placed(d) : r # q => "error" \in {answer[r], answer[q]}
    /\ \A c, r \in Requests : answer[c] = r => answer[r] = "placed" /\ r \in Placed(call[r].day)

\* "This prevents network retries from originating duplicate paid calls"
\* (docs/API.md:85).
NoDuplicateCall ==
    \A d \in 0..MaxDays : \A r, q \in Placed(d) : call[r].far /\ call[q].far => r = q
=============================================================================
