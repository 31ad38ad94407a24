---------------------------- MODULE WebhookOutbox ----------------------------
(***************************************************************************)
(* The outbox of CRM events.  Handlers in either process list the active   *)
(* endpoints and insert one delivery for each; the worker selects due      *)
(* deliveries, sends them one by one and records each result.  Endpoints   *)
(* are saved and deleted meanwhile by API threads.                         *)
(***************************************************************************)
EXTENDS Naturals, FiniteSets

CONSTANTS
    N,              \* bound: deliveries created
    Endpoint,
    Notifier,       \* handlers that may be queueing an event at once
    Limit,          \* deliveries selected at a time; 100 in the code
    MaxAttempts,    \* 5 in the code
    MaxCrashes,     \* bound: how often a batch is cut short
    None            \* the endpoint of a delivery not created yet

ASSUME OutboxAssumption ==
    /\ N \in Nat /\ Limit \in Nat \ {0} /\ MaxAttempts \in Nat \ {0} /\ MaxCrashes \in Nat
    /\ None \notin Endpoint

VARIABLES
    endpoint,   \* per endpoint: active, off or not created yet, deleted
    made,       \* deliveries created so far
    status,     \* deliveries: status
    tries,      \* deliveries: attempts
    due,        \* deliveries: next_attempt_at has come
    dest,       \* deliveries: endpoint_id
    listed,     \* per notifier: endpoints it has read and not inserted for
    batch,      \* worker: deliveries of this round not recorded yet
    stage,      \* worker: asleep, between its two reads, sending
    reply,      \* worker: how the request it has just made ended
    sent,       \* requests made per delivery
    crashes

rows   == <<made, status, tries, due, dest>>
worker == <<batch, stage, reply, crashes>>
vars   == <<endpoint, rows, listed, worker, sent>>

Delivery == 1 .. N
Created  == 1 .. made
Retired(d) == status[d] \in {"delivered", "purged"} \/ tries[d] >= MaxAttempts
----------------------------------------------------------------------------
(* Endpoints. *)

Save(e) ==
    /\ endpoint[e] # "gone"
    /\ \E active \in {"on", "off"} : endpoint' = [endpoint EXCEPT ![e] = active]
    /\ UNCHANGED <<rows, listed, worker, sent>>

Delete(e) ==
    /\ endpoint[e] # "gone"
    /\ endpoint' = [endpoint EXCEPT ![e] = "gone"]
    /\ LET given == {d \in Delivery : dest[d] = e /\ status[d] \in {"pending", "failed"}}
       IN  /\ status' = [d \in Delivery |-> IF d \in given THEN "failed" ELSE status[d]]
           /\ tries' = [d \in Delivery |-> IF d \in given THEN MaxAttempts ELSE tries[d]]
    /\ UNCHANGED <<made, due, dest, listed, worker, sent>>
----------------------------------------------------------------------------
(* notify_crm *)

\* The active endpoints that have subscribed to the event.
Notify(n) ==
    /\ listed[n] = {}
    /\ \E S \in SUBSET {e \in Endpoint : endpoint[e] = "on"} : listed' = [listed EXCEPT ![n] = S]
    /\ UNCHANGED <<endpoint, rows, worker, sent>>

Enqueue(n) == \E e \in listed[n] :
    /\ made < N
    /\ made' = made + 1
    /\ status' = [status EXCEPT ![made + 1] = "pending"]
    /\ due' = [due EXCEPT ![made + 1] = TRUE]
    /\ dest' = [dest EXCEPT ![made + 1] = e]
    /\ listed' = [listed EXCEPT ![n] = @ \ {e}]
    /\ UNCHANGED <<endpoint, tries, worker, sent>>

\* An event that cannot be stored is dropped for the sake of the call.
EnqueueFails(n) == \E e \in listed[n] :
    /\ listed' = [listed EXCEPT ![n] = @ \ {e}]
    /\ UNCHANGED <<endpoint, rows, worker, sent>>
----------------------------------------------------------------------------
(* process_webhook_deliveries *)

\* Mutant: a failed delivery is not tried again.
WaitingOnce == {d \in Created : status[d] = "pending" /\ tries[d] < MaxAttempts /\ due[d]}

Waiting == {d \in Created : status[d] \in {"pending", "failed"} /\ tries[d] < MaxAttempts /\ due[d]}

\* The oldest deliveries that wait, as many as fit.
Oldest(S) ==
    /\ S \subseteq Waiting
    /\ Cardinality(S) = Limit \/ (S = Waiting /\ Cardinality(S) < Limit)
    /\ \A d \in S, o \in Waiting \ S : d < o

\* Mutant: a delivery that was given up is selected again.
SelectAny ==
    /\ stage = "asleep"
    /\ batch' = {d \in Created : status[d] \in {"pending", "failed"} /\ due[d]}
    /\ stage' = "selected"
    /\ UNCHANGED <<endpoint, rows, listed, reply, crashes, sent>>

\* What was retired long ago is deleted first.
Select ==
    /\ stage = "asleep"
    /\ \E S \in SUBSET Created : Oldest(S) /\ batch' = S
    /\ \E old \in SUBSET {d \in Created : Retired(d)} :
         status' = [d \in Delivery |-> IF d \in old THEN "purged" ELSE status[d]]
    /\ stage' = "selected"
    /\ UNCHANGED <<endpoint, made, tries, due, dest, listed, reply, crashes, sent>>

Filter ==
    /\ stage = "selected"
    /\ batch' = {d \in batch : endpoint[dest[d]] = "on"}
    /\ stage' = "sending"
    /\ UNCHANGED <<endpoint, rows, listed, reply, crashes, sent>>

InTurn(d) == stage = "sending" /\ d \in batch /\ \A o \in batch : d <= o

\* Success is a 2xx answer; anything else, or no answer, is a failure.
Send == \E d \in Delivery :
    /\ InTurn(d) /\ reply = "none"
    /\ reply' \in {"ok", "error"}
    /\ sent' = [sent EXCEPT ![d] = @ + 1]
    /\ UNCHANGED <<endpoint, rows, listed, batch, stage, crashes>>

\* Mutant: attempts are written, not added to.
FinishWrites == \E d \in Delivery :
    /\ InTurn(d) /\ reply # "none"
    /\ status' = [status EXCEPT ![d] = IF reply = "ok" THEN "delivered" ELSE "failed"]
    /\ tries' = [tries EXCEPT ![d] = sent[d]]
    /\ due' = [due EXCEPT ![d] = FALSE]
    /\ batch' = batch \ {d} /\ reply' = "none"
    /\ UNCHANGED <<endpoint, made, dest, listed, stage, crashes, sent>>

\* Mutant: a failed attempt is not counted.
FinishForgets == \E d \in Delivery :
    /\ InTurn(d) /\ reply # "none"
    /\ status' = [status EXCEPT ![d] = IF reply = "ok" THEN "delivered" ELSE "failed"]
    /\ due' = [due EXCEPT ![d] = FALSE]
    /\ batch' = batch \ {d} /\ reply' = "none"
    /\ UNCHANGED <<endpoint, made, tries, dest, listed, stage, crashes, sent>>

Finish == \E d \in Delivery :
    /\ InTurn(d) /\ reply # "none"
    /\ status' = [status EXCEPT ![d] = IF reply = "ok" THEN "delivered" ELSE "failed"]
    /\ tries' = [tries EXCEPT ![d] = @ + 1]
    /\ due' = [due EXCEPT ![d] = FALSE]
    /\ batch' = batch \ {d} /\ reply' = "none"
    /\ UNCHANGED <<endpoint, made, dest, listed, stage, crashes, sent>>

RoundEnds ==
    /\ stage = "sending" /\ batch = {}
    /\ stage' = "asleep"
    /\ UNCHANGED <<endpoint, rows, listed, batch, reply, crashes, sent>>

\* The worker dies, or the database fails it: nothing more of the round is recorded.
Crash ==
    /\ crashes < MaxCrashes /\ stage # "asleep"
    /\ crashes' = crashes + 1
    /\ batch' = {} /\ stage' = "asleep" /\ reply' = "none"
    /\ UNCHANGED <<endpoint, rows, listed, sent>>

BackoffEnds(d) ==
    /\ d <= made /\ ~due[d]
    /\ due' = [due EXCEPT ![d] = TRUE]
    /\ UNCHANGED <<endpoint, made, status, tries, dest, listed, worker, sent>>
----------------------------------------------------------------------------

Init ==
    /\ endpoint = [e \in Endpoint |-> "off"]
    /\ made = 0
    /\ status = [d \in Delivery |-> "none"]
    /\ tries = [d \in Delivery |-> 0]
    /\ due = [d \in Delivery |-> FALSE]
    /\ dest = [d \in Delivery |-> None]
    /\ listed = [n \in Notifier |-> {}]
    /\ batch = {} /\ stage = "asleep" /\ reply = "none" /\ crashes = 0
    /\ sent = [d \in Delivery |-> 0]

Work == Select \/ Filter \/ Send \/ Finish \/ RoundEnds

Next ==
    \/ \E e \in Endpoint : Save(e) \/ Delete(e)
    \/ \E n \in Notifier : Notify(n) \/ Enqueue(n) \/ EnqueueFails(n)
    \/ Work \/ Crash
    \/ \E d \in Delivery : BackoffEnds(d)

Spec == Init /\ [][Next]_vars

\* The worker's loop runs for ever and time passes.
FairSpec == Spec /\ WF_vars(Work) /\ \A d \in Delivery : WF_vars(BackoffEnds(d))
----------------------------------------------------------------------------

TypeOK ==
    /\ endpoint \in [Endpoint -> {"on", "off", "gone"}]
    /\ made \in 0 .. N
    /\ status \in [Delivery -> {"none", "pending", "failed", "delivered", "purged"}]
    /\ tries \in [Delivery -> 0 .. MaxAttempts + 1]
    /\ due \in [Delivery -> BOOLEAN]
    /\ dest \in [Delivery -> Endpoint \cup {None}]
    /\ listed \in [Notifier -> SUBSET Endpoint]
    /\ batch \subseteq Created
    /\ stage \in {"asleep", "selected", "sending"}
    /\ reply \in {"none", "ok", "error"}
    /\ crashes \in 0 .. MaxCrashes
    /\ sent \in [Delivery -> Nat]

\* "Up to five attempts": a delivery is sent no oftener, but for the rounds
\* whose results were lost, also when its endpoint is deleted while it is sent.
AttemptsBounded == \A d \in Delivery : sent[d] <= MaxAttempts + crashes

\* What is delivered or given up is never queued again: a result that arrives
\* late does not revive a delivery of a deleted endpoint.
RetiredStays == [][\A d \in Delivery : Retired(d) => Retired(d)']_vars

\* "The dedicated worker sends queued events every few seconds": a delivery to
\* an endpoint that stays active is made or given up.
Settles == \A d \in Delivery :
    status[d] = "pending" ~> Retired(d) \/ (\E e \in Endpoint : dest[d] = e /\ endpoint[e] # "on")
=============================================================================
