------------------------ MODULE VoicemailMailProofs ------------------------
(***************************************************************************)
(* Proofs about VoicemailMail, for every number of customers, notifiers,   *)
(* messages, attempts, edits and crashes.                                  *)
(***************************************************************************)
EXTENDS VoicemailMail, SequenceTheorems, TLAPS

----------------------------------------------------------------------------
(* The inductive invariants.                                               *)

\* A row that was never claimed has used no attempt.
Untried == \A m \in Messages : row[m].status = "none" => row[m].attempts = 0

\* A message in a notifier's hands is claimed, its lease runs, and nobody
\* else has it.
Claims ==
    \A n \in Notifiers, m \in Messages : Holding(n, m) =>
        /\ row[m].status = "pending" /\ ~row[m].due
        /\ \A k \in Notifiers : Holding(k, m) => k = n

ClaimInv == TypeOK /\ Untried /\ Claims

\* Rows of the desk follow one another in time, what was left at an earlier one
\* lies before the account's cutoff, and an override is an address of the
\* desk's own customer.
RowsInTime ==
    /\ desk.id <= now + 1
    /\ desk.override \in {Nobody, desk.owner}
    /\ \A m \in Messages :
         /\ left[m].at <= now /\ left[m].desk <= now + 1
         /\ desk.id # 0 => left[m].desk <= desk.id
         /\ left[m].desk < desk.id /\ box[m] # "unborn" => left[m].at < desk.auto
         /\ box[m] # "unborn" => left[m].desk # 0

\* What was left at the present row of the desk, and not before its resume
\* cutoff, was left for whoever holds the desk and its number now, and under
\* no opt-out that was lifted since.
CutoffsTell ==
    \A m \in Messages :
        box[m] # "unborn" /\ left[m].desk = desk.id /\ left[m].at >= desk.resume =>
            /\ left[m].for = IF desk.owner = lineOwner THEN desk.owner ELSE Nobody
            /\ left[m].off => desk.mode = "off"

\* Notifiers handle, and letters are about, messages that were left.
Born ==
    \A m \in Messages : box[m] = "unborn" =>
        /\ mailed[m] = << >>
        /\ \A n \in Notifiers :
             /\ worker[n].at # "idle" => m \notin worker[n].todo
             /\ ~Holding(n, m)

\* A letter about to be sent is one that OwnMail allows.
CheckedIsOwn ==
    \A n \in Notifiers : worker[n].at = "checked" =>
        LET w == worker[n] IN
        \/ w.target.to.of = left[w.msg].for /\ ~left[w.msg].off
        \/ w.target.to.kind = "override" /\ w.target.id > left[w.msg].desk

OwnInv == RowsInTime /\ CutoffsTell /\ Born /\ CheckedIsOwn /\ OwnMail

----------------------------------------------------------------------------
(* Types of the pieces the actions are built from. *)

\* What a notifier at each point of its scan holds.
LEMMA WorkerShapes ==
    ASSUME NEW w \in Workers
    PROVE  /\ w.at = "idle" => w = Idle
           /\ w.at # "idle" => w.target \in Targets /\ w.todo \in SUBSET Messages
           /\ w.at \in {"claimed", "checked", "sent"} => w.msg \in Messages
           /\ w.at = "sent" => w.ok \in BOOLEAN
           /\ w.at \in {"idle", "reading", "scanning", "claimed", "checked", "sent"}
  BY DEF Workers, Idle

LEMMA WorkerTypes ==
    ASSUME NEW t \in Targets, NEW S \in SUBSET Messages
    PROVE  /\ Idle \in Workers
           /\ [at |-> "reading", target |-> t, todo |-> S] \in Workers
           /\ [at |-> "scanning", target |-> t, todo |-> S] \in Workers
           /\ \A m \in Messages :
                /\ [at |-> "claimed", target |-> t, todo |-> S, msg |-> m] \in Workers
                /\ [at |-> "checked", target |-> t, todo |-> S, msg |-> m] \in Workers
                /\ \A b \in BOOLEAN : [at |-> "sent", target |-> t, todo |-> S, msg |-> m, ok |-> b] \in Workers
  BY DEF Workers, Idle

\* A step along the scan changes the column it names.
LEMMA WorkerSteps ==
    ASSUME NEW w \in Workers
    PROVE  /\ w.at = "scanning" => \A S \in SUBSET Messages : [w EXCEPT !.todo = S] \in Workers
           /\ w.at = "claimed" => [w EXCEPT !.at = "checked"] \in Workers
  <1>1. ASSUME w.at = "scanning", NEW S \in SUBSET Messages
        PROVE  [w EXCEPT !.todo = S] \in Workers
    <2>1. w \in [at : {"reading", "scanning"}, target : Targets, todo : SUBSET Messages]
      BY <1>1 DEF Workers
    <2>2. [w EXCEPT !.todo = S] \in [at : {"reading", "scanning"}, target : Targets, todo : SUBSET Messages]
      BY <2>1
    <2>3. QED
      BY <2>2 DEF Workers
  <1>2. ASSUME w.at = "claimed"
        PROVE  [w EXCEPT !.at = "checked"] \in Workers
    <2>1. w \in [at : {"claimed", "checked"}, target : Targets, todo : SUBSET Messages, msg : Messages]
      BY <1>2 DEF Workers
    <2>2. [w EXCEPT !.at = "checked"] \in
             [at : {"claimed", "checked"}, target : Targets, todo : SUBSET Messages, msg : Messages]
      BY <2>1
    <2>3. QED
      BY <2>2 DEF Workers
  <1>3. QED
    BY <1>1, <1>2

LEMMA RecipientType ==
    ASSUME TypeOK, HasRecipient
    PROVE  MailboxRecipient \in Targets
  BY MailAssumption DEF MailAssumption, TypeOK, HasRecipient, MailboxRecipient, Desks, Targets, Addresses, Later

LEMMA DeliveryTypes ==
    ASSUME NEW r \in Deliveries
    PROVE  /\ [r EXCEPT !.attempts = 0] \in Deliveries
           /\ [r EXCEPT !.due = TRUE] \in Deliveries
           /\ r.attempts < RetryLimit =>
                [status |-> "pending", attempts |-> r.attempts + 1, due |-> FALSE] \in Deliveries
  <1> USE MailAssumption DEF MailAssumption
  <1>1. [r EXCEPT !.attempts = 0] \in Deliveries
    BY DEF Deliveries
  <1>2. [r EXCEPT !.due = TRUE] \in Deliveries
    BY DEF Deliveries
  <1>3. r.attempts < RetryLimit => r.attempts + 1 \in 0..RetryLimit
    BY DEF Deliveries
  <1>4. QED
    BY <1>1, <1>2, <1>3 DEF Deliveries

LEMMA FinishedType ==
    ASSUME TypeOK, NEW m \in Messages, NEW ok \in BOOLEAN
    PROVE  Finished(m, ok) \in [Messages -> Deliveries]
  <1>1. row[m] \in Deliveries
    BY DEF TypeOK
  <1>2. Finished(m, ok) = [row EXCEPT ![m] = [row[m] EXCEPT !.status = IF ok THEN "delivered" ELSE "failed", !.due = FALSE]]
    BY <1>1 DEF Finished, TypeOK, Deliveries
  <1>3. \A s \in {"delivered", "failed"} : [row[m] EXCEPT !.status = s, !.due = FALSE] \in Deliveries
    BY <1>1 DEF Deliveries
  <1>4. QED
    BY <1>2, <1>3 DEF TypeOK

LEMMA EditTime ==
    ASSUME TypeOK, Edit
    PROVE  now' \in 0..MaxEdits /\ now' = now + 1 /\ now' \in 0..MaxEdits + 1 /\ now' + 1 \in 0..MaxEdits + 1
  BY MailAssumption DEF MailAssumption, TypeOK, Edit

LEMMA DeskTypes ==
    ASSUME NEW d \in Desks, NEW t \in 0..MaxEdits + 1
    PROVE  /\ 0 \in 0..MaxEdits + 1
           /\ [d EXCEPT !.id = 0] \in Desks
           /\ [d EXCEPT !.resume = t] \in Desks
  <1>1. 0 \in 0..MaxEdits + 1
    BY MailAssumption DEF MailAssumption
  <1>2. QED
    BY <1>1 DEF Desks

----------------------------------------------------------------------------
(* Types. *)

LEMMA PeopleTypes ==
    ASSUME TypeOK, NEW m \in Messages, Leave(m) \/ Remove(m) \/ Wait(m)
    PROVE  TypeOK'
  <1>1. CASE Leave(m)
    <2>1. [at |-> now, for |-> IF desk.owner = lineOwner THEN desk.owner ELSE Nobody,
           off |-> desk.mode = "off", desk |-> desk.id] \in Origins
      BY DEF TypeOK, Desks, Origins
    <2>2. QED
      BY <1>1, <2>1 DEF Leave, TypeOK, settings
  <1>2. CASE Remove(m)
    BY <1>2 DEF Remove, TypeOK, settings
  <1>3. CASE Wait(m)
    BY <1>3, DeliveryTypes DEF Wait, TypeOK, settings
  <1>4. QED
    BY <1>1, <1>2, <1>3

EditStep ==
    \/ \E a \in {Nobody, desk.owner}, mode \in {"auto", "off"} : SaveExtension(a, mode)
    \/ \E c \in Customers : SaveNumber(c) \/ Provision(c)
    \/ DeleteNumber
    \/ \E on \in BOOLEAN : SaveEmailConfig(on)

LEMMA EditTypes ==
    ASSUME TypeOK, EditStep
    PROVE  TypeOK'
  <1>1. desk \in Desks /\ row \in [Messages -> Deliveries]
    BY DEF TypeOK
  <1>2. Edit /\ now' \in 0..MaxEdits + 1 /\ now' \in 0..MaxEdits /\ now' + 1 \in 0..MaxEdits + 1
    BY EditTime DEF EditStep, SaveExtension, SaveNumber, Provision, DeleteNumber, SaveEmailConfig
  <1>3. ASSUME NEW a \in {Nobody, desk.owner}, NEW mode \in {"auto", "off"}, SaveExtension(a, mode)
        PROVE  TypeOK'
    <2>1. PICK s \in 0..MaxEdits + 1, u \in 0..MaxEdits + 1 :
             desk' = [desk EXCEPT !.override = a, !.mode = mode, !.auto = s, !.resume = u]
      <3>1. desk.auto \in 0..MaxEdits + 1 /\ desk.resume \in 0..MaxEdits + 1
        BY <1>1 DEF Desks
      <3>2. QED
        BY <1>2, <1>3, <3>1 DEF SaveExtension
    <2>2. desk' \in Desks
      BY <1>1, <2>1 DEF Desks
    <2>3. QED
      BY <1>2, <1>3, <2>2 DEF SaveExtension, TypeOK
  <1>4. ASSUME NEW c \in Customers, SaveNumber(c)
        PROVE  TypeOK'
    <2>1. desk' \in Desks
      BY <1>1, <1>2, <1>4, DeskTypes DEF SaveNumber
    <2>2. QED
      BY <1>2, <1>4, <2>1 DEF SaveNumber, TypeOK
  <1>5. ASSUME NEW c \in Customers, Provision(c)
        PROVE  TypeOK'
    <2>1. desk' \in Desks
      BY <1>1, <1>2, <1>5, DeskTypes DEF Provision, Desks
    <2>2. QED
      BY <1>2, <1>5, <2>1 DEF Provision, TypeOK
  <1>6. CASE DeleteNumber
    <2>1. desk' \in Desks
      BY <1>1, <1>2, <1>6, DeskTypes DEF DeleteNumber
    <2>2. QED
      BY <1>2, <1>6, <2>1 DEF DeleteNumber, TypeOK
  <1>7. ASSUME NEW on \in BOOLEAN, SaveEmailConfig(on)
        PROVE  TypeOK'
    <2>1. \A m \in Messages : row[m] \in Deliveries /\ [row[m] EXCEPT !.attempts = 0] \in Deliveries
      BY <1>1, DeliveryTypes
    <2>2. row' \in [Messages -> Deliveries]
      BY <1>7, <2>1 DEF SaveEmailConfig
    <2>3. QED
      BY <1>2, <1>7, <2>2 DEF SaveEmailConfig, TypeOK
  <1>8. QED
    BY <1>3, <1>4, <1>5, <1>6, <1>7 DEF EditStep

\* What n holds is replaced by something it may hold.
LEMMA NotifierTypes ==
    ASSUME TypeOK, Untried, NEW n \in Notifiers, Notify(n) \/ Crash(n)
    PROVE  TypeOK'
  <1>1. PICK w \in Workers : w = worker[n]
    BY DEF TypeOK
  <1>2. \A m \in Messages : row[m] \in Deliveries
    BY DEF TypeOK
  <1>3. \A x \in Workers : [worker EXCEPT ![n] = x] \in [Notifiers -> Workers]
    BY DEF TypeOK
  <1>4. CASE Start(n)
    <2>1. [at |-> "reading", target |-> MailboxRecipient, todo |-> {}] \in Workers
      BY <1>4, RecipientType, WorkerTypes DEF Start
    <2>2. QED
      BY <1>3, <1>4, <2>1 DEF Start, TypeOK, settings
  <1>5. CASE ListMessages(n)
    <2>1. /\ w.at = "reading" /\ w.target \in Targets
          /\ worker' = [worker EXCEPT ![n] = [at |-> "scanning", target |-> w.target, todo |-> Listed]]
      BY <1>1, <1>5, WorkerShapes DEF ListMessages, TypeOK
    <2>2. [at |-> "scanning", target |-> w.target, todo |-> Listed] \in Workers
      BY <2>1, WorkerTypes DEF Listed
    <2>3. QED
      BY <1>3, <1>5, <2>1, <2>2 DEF ListMessages, TypeOK, settings
  <1>6. ASSUME NEW m \in Messages, Consider(n, m)
        PROVE  TypeOK'
    <2>1. /\ w.at = "scanning" /\ w.target \in Targets /\ w.todo \ {m} \in SUBSET Messages
          /\ \/ worker' = [worker EXCEPT ![n] = [at |-> "claimed", target |-> w.target, todo |-> w.todo \ {m}, msg |-> m]]
             \/ worker' = [worker EXCEPT ![n] = [w EXCEPT !.todo = w.todo \ {m}]]
      BY <1>1, <1>6, WorkerShapes DEF Consider, TypeOK
    <2>2. worker' \in [Notifiers -> Workers]
      <3>1. [w EXCEPT !.todo = w.todo \ {m}] \in Workers
        BY <2>1, WorkerSteps
      <3>2. [at |-> "claimed", target |-> w.target, todo |-> w.todo \ {m}, msg |-> m] \in Workers
        BY <2>1, WorkerTypes
      <3>3. QED
        BY <1>3, <2>1, <3>1, <3>2
    <2>3. Claimable(m) => row[m].attempts < RetryLimit
      BY MailAssumption DEF MailAssumption, Claimable, Untried
    <2>4. \/ row' = row
          \/ /\ Claimable(m)
             /\ row' = [row EXCEPT ![m] = [status |-> "pending", attempts |-> row[m].attempts + 1, due |-> FALSE]]
      BY <1>6 DEF Consider, TypeOK
    <2>5. row' \in [Messages -> Deliveries]
      BY <1>2, <2>3, <2>4, DeliveryTypes DEF TypeOK
    <2>6. QED
      BY <1>6, <2>2, <2>5 DEF Consider, TypeOK, settings
  <1>7. CASE Recheck(n)
    <2>1. /\ w.at = "claimed" /\ w.target \in Targets /\ w.todo \in SUBSET Messages /\ w.msg \in Messages
          /\ \/ worker' = [worker EXCEPT ![n] = [w EXCEPT !.at = "checked"]]
             \/ worker' = [worker EXCEPT ![n] = [at |-> "scanning", target |-> w.target, todo |-> w.todo]]
      BY <1>1, <1>7, WorkerShapes DEF Recheck, Resumed, TypeOK
    <2>2. worker' \in [Notifiers -> Workers]
      <3>1. [w EXCEPT !.at = "checked"] \in Workers
        BY <2>1, WorkerSteps
      <3>2. [at |-> "scanning", target |-> w.target, todo |-> w.todo] \in Workers
        BY <2>1, WorkerTypes
      <3>3. QED
        BY <1>3, <2>1, <3>1, <3>2
    <2>3. row' = row \/ row' = Finished(w.msg, FALSE)
      BY <1>1, <1>7 DEF Recheck
    <2>4. row' \in [Messages -> Deliveries]
      <3>1. Finished(w.msg, FALSE) \in [Messages -> Deliveries]
        BY <2>1, FinishedType
      <3>2. QED
        BY <2>3, <3>1 DEF TypeOK
    <2>5. QED
      BY <1>7, <2>2, <2>4 DEF Recheck, TypeOK, settings
  <1>8. CASE Send(n)
    <2>1. w.at = "checked" /\ w.target \in Targets /\ w.todo \in SUBSET Messages /\ w.msg \in Messages
      BY <1>1, <1>8, WorkerShapes DEF Send
    <2>2. PICK ok \in BOOLEAN :
             worker' = [worker EXCEPT ![n] = [at |-> "sent", target |-> w.target, todo |-> w.todo, msg |-> w.msg, ok |-> ok]]
      BY <1>1, <1>8 DEF Send
    <2>3. worker' \in [Notifiers -> Workers]
      BY <1>3, <2>1, <2>2, WorkerTypes
    <2>4. [to |-> w.target.to, desk |-> w.target.id] \in Letters
      BY <2>1 DEF Targets, Letters
    <2>5. \/ mailed' = mailed
          \/ mailed' = [mailed EXCEPT ![w.msg] = Append(mailed[w.msg], [to |-> w.target.to, desk |-> w.target.id])]
      BY <1>1, <1>8, <2>1 DEF Send, TypeOK
    <2>6. Append(mailed[w.msg], [to |-> w.target.to, desk |-> w.target.id]) \in Seq(Letters)
      BY <2>1, <2>4, AppendProperties DEF TypeOK
    <2>7. mailed' \in [Messages -> Seq(Letters)]
      BY <2>5, <2>6 DEF TypeOK
    <2>8. QED
      BY <1>8, <2>3, <2>7 DEF Send, TypeOK, settings
  <1>9. CASE Finish(n)
    <2>1. /\ w.at = "sent" /\ w.target \in Targets /\ w.todo \in SUBSET Messages
          /\ w.msg \in Messages /\ w.ok \in BOOLEAN
      BY <1>1, <1>9, WorkerShapes DEF Finish
    <2>2. worker' = [worker EXCEPT ![n] = [at |-> "scanning", target |-> w.target, todo |-> w.todo]]
      BY <1>1, <1>9 DEF Finish, Resumed
    <2>3. worker' \in [Notifiers -> Workers]
      BY <1>3, <2>1, <2>2, WorkerTypes
    <2>4. row' \in [Messages -> Deliveries]
      BY <1>1, <1>9, <2>1, FinishedType DEF Finish
    <2>5. QED
      BY <1>9, <2>3, <2>4 DEF Finish, TypeOK, settings
  <1>10. CASE EndScan(n) \/ Crash(n)
    <2>1. Idle \in Workers
      BY DEF Idle, Workers
    <2>2. worker' \in [Notifiers -> Workers]
      BY <1>3, <1>10, <2>1 DEF EndScan, Crash
    <2>3. crashes' \in 0..MaxCrashes
      BY <1>10, MailAssumption DEF EndScan, Crash, MailAssumption, TypeOK
    <2>4. QED
      BY <1>10, <2>2, <2>3 DEF EndScan, Crash, TypeOK, settings
  <1>11. QED
    BY <1>4, <1>5, <1>6, <1>7, <1>8, <1>9, <1>10 DEF Notify

----------------------------------------------------------------------------
(* Who has what in hand. *)

\* A step of n changes what n holds alone; what it holds after a step it has
\* held before, or claims now.
LEMMA HoldingKept ==
    ASSUME TypeOK, NEW n \in Notifiers, Notify(n) \/ Crash(n), NEW m \in Messages
    PROVE  /\ \A k \in Notifiers \ {n} : Holding(k, m)' = Holding(k, m)
           /\ Holding(n, m)' => Holding(n, m) \/ (Claimable(m) /\ row'[m].status = "pending" /\ ~row'[m].due)
           /\ Recheck(n) \/ Send(n) \/ Finish(n) =>
                worker[n].msg \in Messages /\ Holding(n, worker[n].msg) /\ (Holding(n, m) => m = worker[n].msg)
  <1>1. worker \in [Notifiers -> Workers] /\ row \in [Messages -> Deliveries] /\ worker[n] \in Workers
    BY DEF TypeOK
  <1>2. \A k \in Notifiers \ {n} : worker'[k] = worker[k]
    BY <1>1 DEF Notify, Start, ListMessages, Consider, Recheck, Send, Finish, EndScan, Crash, Resumed
  <1>3. Holding(n, m)' => Holding(n, m) \/ (Claimable(m) /\ row'[m].status = "pending" /\ ~row'[m].due)
    <2>1. CASE Start(n) \/ ListMessages(n) \/ Finish(n) \/ EndScan(n) \/ Crash(n)
      BY <1>1, <2>1 DEF Start, ListMessages, Finish, EndScan, Crash, Resumed, Idle, Holding
    <2>2. CASE Recheck(n) \/ Send(n)
      <3>1. worker'[n].at = "scanning" \/ worker'[n].msg = worker[n].msg
        <4>1. PICK w \in Workers : w = worker[n]
          BY <1>1
        <4>2. CASE Recheck(n)
          <5>1. w.at = "claimed" =>
                  w \in [at : {"claimed", "checked"}, target : Targets, todo : SUBSET Messages, msg : Messages]
            BY <4>1 DEF Workers
          <5>2. w.at = "claimed" => [w EXCEPT !.at = "checked"].msg = w.msg
            BY <5>1
          <5>3. \/ worker'[n] = [w EXCEPT !.at = "checked"] /\ w.at = "claimed"
                \/ worker'[n] = [at |-> "scanning", target |-> w.target, todo |-> w.todo]
            BY <1>1, <4>1, <4>2 DEF Recheck, Resumed
          <5>4. CASE worker'[n] = [w EXCEPT !.at = "checked"] /\ w.at = "claimed"
            BY <4>1, <5>2, <5>4
          <5>5. QED
            BY <5>3, <5>4
        <4>3. CASE Send(n)
          BY <1>1, <4>3 DEF Send
        <4>4. QED
          BY <2>2, <4>2, <4>3
      <3>2. worker[n].at \in {"claimed", "checked"}
        BY <2>2 DEF Recheck, Send
      <3>3. QED
        BY <3>1, <3>2 DEF Holding
    <2>3. ASSUME NEW x \in Messages, Consider(n, x)
          PROVE  Holding(n, m)' => Claimable(m) /\ row'[m].status = "pending" /\ ~row'[m].due
      <3>1. CASE /\ Claimable(x)
                 /\ worker' = [worker EXCEPT ![n] = [at |-> "claimed", target |-> worker[n].target,
                                                    todo |-> worker[n].todo \ {x}, msg |-> x]]
                 /\ row' = [row EXCEPT ![x] = [status |-> "pending", attempts |-> row[x].attempts + 1, due |-> FALSE]]
        <4>1. worker'[n].msg = x
          BY <1>1, <3>1
        <4>2. row'[x].status = "pending" /\ ~row'[x].due
          BY <1>1, <3>1
        <4>3. QED
          BY <3>1, <4>1, <4>2 DEF Holding
      <3>2. CASE worker' = [worker EXCEPT ![n] = [worker[n] EXCEPT !.todo = worker[n].todo \ {x}]]
        <4>1. worker'[n] = [worker[n] EXCEPT !.todo = worker[n].todo \ {x}] /\ worker[n].at = "scanning"
          BY <1>1, <2>3, <3>2 DEF Consider
        <4>2. worker'[n].at = "scanning"
          BY <1>1, <4>1 DEF Workers
        <4>3. QED
          BY <4>2 DEF Holding
      <3>3. QED
        BY <1>1, <2>3, <3>1, <3>2 DEF Consider
    <2>4. QED
      BY <2>1, <2>2, <2>3 DEF Notify
  <1>4. Recheck(n) \/ Send(n) \/ Finish(n) =>
          worker[n].msg \in Messages /\ Holding(n, worker[n].msg) /\ (Holding(n, m) => m = worker[n].msg)
    BY <1>1, WorkerShapes DEF Recheck, Send, Finish, Holding
  <1>5. QED
    BY <1>2, <1>3, <1>4 DEF Holding

\* A message in hand is in one notifier's hands, so a row that rests with
\* nobody is never pending under a running lease of somebody else.
LEMMA ClaimableUnheld ==
    ASSUME TypeOK, Claims, NEW m \in Messages, Claimable(m)
    PROVE  \A n \in Notifiers : ~Holding(n, m)
  BY DEF TypeOK, Claims, Claimable

LEMMA PeopleClaims ==
    ASSUME ClaimInv, NEW x \in Messages, Leave(x) \/ Remove(x) \/ Wait(x)
    PROVE  Untried' /\ Claims' /\ mailed' = mailed
           /\ \A m \in Messages : row[m].status = "delivered" => row'[m] = row[m]
  <1>1. worker' = worker /\ mailed' = mailed
    BY DEF Leave, Remove, Wait
  <1>2. row \in [Messages -> Deliveries]
    BY DEF ClaimInv, TypeOK
  <1>3. CASE row' = row
    BY <1>1, <1>3 DEF ClaimInv, Untried, Claims, Holding
  <1>4. CASE Wait(x)
    <2>1. /\ row[x].status \in {"failed", "pending"} /\ \A n \in Notifiers : ~Holding(n, x)
          /\ row' = [row EXCEPT ![x] = [row[x] EXCEPT !.due = TRUE]]
      BY <1>4 DEF Wait, ClaimInv, Claims
    <2>2. row'[x].status = row[x].status
      BY <1>2, <2>1 DEF Deliveries
    <2>3. \A m \in Messages \ {x} : row'[m] = row[m]
      BY <1>2, <2>1
    <2>4. QED
      BY <1>1, <2>1, <2>2, <2>3 DEF ClaimInv, Untried, Claims, Holding
  <1>5. QED
    BY <1>3, <1>4 DEF Leave, Remove

LEMMA EditClaims ==
    ASSUME ClaimInv, EditStep
    PROVE  Untried' /\ Claims' /\ mailed' = mailed
           /\ \A m \in Messages : row[m].status = "delivered" => row'[m] = row[m]
  <1>1. worker' = worker /\ mailed' = mailed
    BY DEF EditStep, SaveExtension, SaveNumber, Provision, DeleteNumber, SaveEmailConfig
  <1>2. \A m \in Messages :
          row'[m] = row[m] \/ (row[m].status = "failed" /\ row'[m] = [row[m] EXCEPT !.attempts = 0])
    BY DEF EditStep, SaveExtension, SaveNumber, Provision, DeleteNumber, SaveEmailConfig
  <1>3. \A m \in Messages : row'[m] = row[m] \/ (row[m].status = "failed" /\ row'[m].status = "failed")
    BY <1>2 DEF ClaimInv, TypeOK, Deliveries
  <1>4. QED
    BY <1>1, <1>3 DEF ClaimInv, Untried, Claims, Holding

\* The rows a notifier's step changes.
LEMMA NotifierRows ==
    ASSUME ClaimInv, NEW n \in Notifiers, Notify(n) \/ Crash(n)
    PROVE  \A m \in Messages :
             \/ row'[m] = row[m]
             \/ Claimable(m) /\ row'[m].status = "pending" /\ ~row'[m].due
             \/ Holding(n, m) /\ ~Holding(n, m)' /\ row'[m].status \in {"delivered", "failed"}
  <1>1. worker \in [Notifiers -> Workers] /\ row \in [Messages -> Deliveries] /\ TypeOK
    BY DEF ClaimInv, TypeOK
  <1>2. CASE row' = row
    BY <1>2
  <1>3. ASSUME NEW x \in Messages, Consider(n, x), row' # row
        PROVE  /\ Claimable(x) /\ row'[x].status = "pending" /\ ~row'[x].due
               /\ \A m \in Messages \ {x} : row'[m] = row[m]
    <2>1. /\ Claimable(x)
          /\ row' = [row EXCEPT ![x] = [status |-> "pending", attempts |-> row[x].attempts + 1, due |-> FALSE]]
      BY <1>1, <1>3 DEF Consider
    <2>2. QED
      BY <1>1, <2>1
  <1>4. ASSUME Recheck(n) \/ Finish(n), row' # row
        PROVE  \E x \in Messages :
                 /\ Holding(n, x) /\ ~Holding(n, x)'
                 /\ row'[x].status \in {"delivered", "failed"}
                 /\ \A m \in Messages \ {x} : row'[m] = row[m]
    <2>1. PICK x \in Messages : x = worker[n].msg /\ Holding(n, x)
      BY <1>1, <1>4, WorkerShapes DEF Recheck, Finish, Holding
    <2>2. worker' = [worker EXCEPT ![n] = Resumed(n)]
      BY <1>4 DEF Recheck, Finish
    <2>3. ~Holding(n, x)'
      BY <1>1, <2>2 DEF Resumed, Holding
    <2>4. PICK ok \in BOOLEAN : row' = Finished(x, ok)
      <3>1. CASE Recheck(n)
        BY <1>4, <2>1, <3>1 DEF Recheck
      <3>2. CASE Finish(n)
        BY <1>1, <2>1, <3>2, WorkerShapes DEF Finish
      <3>3. QED
        BY <1>4, <3>1, <3>2
    <2>5. row'[x].status = IF ok THEN "delivered" ELSE "failed"
      BY <1>1, <2>1, <2>4 DEF Finished, Deliveries
    <2>6. \A m \in Messages \ {x} : row'[m] = row[m]
      BY <1>1, <2>4 DEF Finished
    <2>7. QED
      BY <2>1, <2>3, <2>5, <2>6
  <1>5. CASE Recheck(n) \/ Finish(n)
    BY <1>2, <1>4, <1>5
  <1>6. CASE \E x \in Messages : Consider(n, x)
    BY <1>2, <1>3, <1>6
  <1>7. CASE Start(n) \/ ListMessages(n) \/ Send(n) \/ EndScan(n) \/ Crash(n)
    BY <1>2, <1>7 DEF Start, ListMessages, Send, EndScan, Crash
  <1>8. QED
    BY <1>5, <1>6, <1>7 DEF Notify

LEMMA NotifierClaims ==
    ASSUME ClaimInv, NEW n \in Notifiers, Notify(n) \/ Crash(n)
    PROVE  Untried' /\ Claims'
  <1>1. TypeOK /\ Untried /\ Claims
    BY DEF ClaimInv
  <1>2. \A m \in Messages :
          \/ row'[m] = row[m]
          \/ Claimable(m) /\ row'[m].status = "pending" /\ ~row'[m].due
          \/ Holding(n, m) /\ ~Holding(n, m)' /\ row'[m].status \in {"delivered", "failed"}
    BY NotifierRows
  <1>3. \A m \in Messages :
          /\ \A k \in Notifiers \ {n} : Holding(k, m)' = Holding(k, m)
          /\ Holding(n, m)' => Holding(n, m) \/ (Claimable(m) /\ row'[m].status = "pending" /\ ~row'[m].due)
    BY <1>1, HoldingKept
  <1>4. \A m \in Messages : Claimable(m) => \A k \in Notifiers : ~Holding(k, m)
    BY <1>1, ClaimableUnheld
  <1>5. Untried'
    BY <1>1, <1>2 DEF Untried
  <1>6. ASSUME NEW k \in Notifiers, NEW m \in Messages, Holding(k, m)'
        PROVE  /\ (row[m].status = "pending" /\ ~row[m].due)'
               /\ \A j \in Notifiers : Holding(j, m)' => j = k
    <2>1. CASE Holding(k, m)
      <3>1. /\ row[m].status = "pending" /\ ~row[m].due /\ ~Claimable(m)
            /\ \A j \in Notifiers : Holding(j, m) => j = k
        BY <1>1, <1>4, <2>1 DEF Claims
      <3>2. row'[m] = row[m]
        BY <1>2, <1>6, <3>1
      <3>3. \A j \in Notifiers : Holding(j, m)' => Holding(j, m)
        BY <1>3, <3>1
      <3>4. QED
        BY <3>1, <3>2, <3>3
    <2>2. CASE ~Holding(k, m)
      <3>1. k = n /\ Claimable(m) /\ row'[m].status = "pending" /\ ~row'[m].due
        BY <1>3, <1>6, <2>2
      <3>2. \A j \in Notifiers \ {n} : ~Holding(j, m)'
        BY <1>3, <1>4, <3>1
      <3>3. QED
        BY <3>1, <3>2
    <2>3. QED
      BY <2>1, <2>2
  <1>7. QED
    BY <1>5, <1>6 DEF Claims

LEMMA ClaimInvHolds == Spec => []ClaimInv
  <1>1. Init => ClaimInv
    <2> SUFFICES ASSUME Init
                 PROVE  ClaimInv
      OBVIOUS
    <2>1. 0 \in 0..MaxEdits /\ 0 \in 0..MaxEdits + 1 /\ 1 \in 0..MaxEdits + 1 /\ 0 \in 0..MaxCrashes /\ 0 \in 0..RetryLimit
      BY MailAssumption DEF MailAssumption
    <2>2. desk \in Desks /\ lineOwner \in Customers
      BY <2>1 DEF Init, Desks
    <2>3. left \in [Messages -> Origins]
      BY <2>1 DEF Init, Origins
    <2>4. row \in [Messages -> Deliveries]
      BY <2>1 DEF Init, Deliveries
    <2>5. worker \in [Notifiers -> Workers] /\ \A n \in Notifiers, m \in Messages : ~Holding(n, m)
      BY DEF Init, Workers, Idle, Holding
    <2>6. mailed \in [Messages -> Seq(Letters)]
      BY DEF Init
    <2>7. QED
      BY <2>1, <2>2, <2>3, <2>4, <2>5, <2>6 DEF Init, ClaimInv, TypeOK, Untried, Claims
  <1>2. ClaimInv /\ [Next]_vars => ClaimInv'
    <2> SUFFICES ASSUME ClaimInv, [Next]_vars
                 PROVE  ClaimInv'
      OBVIOUS
    <2>1. ASSUME NEW x \in Messages, Leave(x) \/ Remove(x) \/ Wait(x)
          PROVE  ClaimInv'
      BY <2>1, PeopleTypes, PeopleClaims DEF ClaimInv
    <2>2. CASE EditStep
      BY <2>2, EditTypes, EditClaims DEF ClaimInv
    <2>3. ASSUME NEW n \in Notifiers, Notify(n) \/ Crash(n)
          PROVE  ClaimInv'
      BY <2>3, NotifierTypes, NotifierClaims DEF ClaimInv
    <2>4. CASE UNCHANGED vars
      BY <2>4 DEF vars, ClaimInv, TypeOK, Untried, Claims, Holding
    <2>5. QED
      BY <2>1, <2>2, <2>3, <2>4 DEF Next, EditStep
  <1>3. QED
    BY <1>1, <1>2, PTL DEF Spec

\* A message whose acceptance was recorded is never sent again: nobody holds
\* it, so nobody sends it or gives its row up, and nobody may claim it.
THEOREM AcceptedForGood == Spec => AcceptedOnce
  <1>1. ClaimInv /\ [Next]_vars =>
          [\A m \in Messages : row[m].status = "delivered" =>
              row'[m].status = "delivered" /\ mailed'[m] = mailed[m]]_vars
    <2> SUFFICES ASSUME ClaimInv, Next, NEW m \in Messages, row[m].status = "delivered"
                 PROVE  row'[m].status = "delivered" /\ mailed'[m] = mailed[m]
      OBVIOUS
    <2>1. ASSUME NEW x \in Messages, Leave(x) \/ Remove(x) \/ Wait(x)
          PROVE  row'[m] = row[m] /\ mailed' = mailed
      BY <2>1, PeopleClaims
    <2>2. CASE EditStep
      BY <2>2, EditClaims
    <2>3. ASSUME NEW n \in Notifiers, Notify(n) \/ Crash(n)
          PROVE  row'[m] = row[m] /\ mailed'[m] = mailed[m]
      <3>1. ~Claimable(m) /\ ~Holding(n, m) /\ TypeOK
        BY DEF ClaimInv, Claimable, Claims
      <3>2. row'[m] = row[m]
        BY <2>3, <3>1, NotifierRows
      <3>3. CASE Send(n)
        <4>1. worker[n].msg \in Messages /\ worker[n].msg # m
          BY <3>1, <3>3, WorkerShapes DEF TypeOK, Send, Holding
        <4>2. QED
          BY <3>1, <3>2, <3>3, <4>1 DEF Send, TypeOK
      <3>4. CASE ~Send(n)
        BY <2>3, <3>2, <3>4 DEF Notify, Start, ListMessages, Consider, Recheck, Finish, EndScan, Crash
      <3>5. QED
        BY <3>3, <3>4
    <2>4. QED
      BY <2>1, <2>2, <2>3 DEF Next, EditStep
  <1>2. QED
    BY <1>1, ClaimInvHolds, PTL DEF Spec, AcceptedOnce

\* Types of the mail's state, whatever happens.
THEOREM MailTypes == Spec => []TypeOK
  <1>1. ClaimInv => TypeOK
    BY DEF ClaimInv
  <1>2. QED
    BY <1>1, ClaimInvHolds, PTL

----------------------------------------------------------------------------
(* Whose mail it is. *)

LEMMA LeaveOwn ==
    ASSUME TypeOK, OwnInv, NEW x \in Messages, Leave(x)
    PROVE  OwnInv'
  <1>1. /\ box[x] = "unborn" /\ desk.id # 0 /\ box'[x] = "inbox"
        /\ \A m \in Messages \ {x} : box'[m] = box[m] /\ left'[m] = left[m]
        /\ UNCHANGED <<now, desk, lineOwner, sending, row, worker, mailed, crashes>>
    BY DEF Leave, TypeOK, settings
  <1>2. /\ left'[x].at = now /\ left'[x].desk = desk.id
        /\ left'[x].for = IF desk.owner = lineOwner THEN desk.owner ELSE Nobody
        /\ left'[x].off => desk.mode = "off"
    BY DEF Leave, TypeOK
  <1>3. now \in Int /\ desk.id \in Int
    BY DEF TypeOK, Desks
  <1>4. RowsInTime'
    BY <1>1, <1>2, <1>3 DEF OwnInv, RowsInTime
  <1>5. CutoffsTell'
    BY <1>1, <1>2 DEF OwnInv, CutoffsTell
  <1>6. mailed[x] = << >> /\ \A n \in Notifiers : ~Holding(n, x)
    BY <1>1 DEF OwnInv, Born
  <1>7. Born'
    BY <1>1 DEF OwnInv, Born, Holding
  <1>8. CheckedIsOwn'
    <2>1. \A n \in Notifiers : worker[n].at = "checked" => worker[n].msg \in Messages \ {x}
      BY <1>6, WorkerShapes DEF TypeOK, Holding
    <2>2. QED
      BY <1>1, <2>1 DEF OwnInv, CheckedIsOwn
  <1>9. OwnMail'
    BY <1>1, <1>6 DEF OwnInv, OwnMail
  <1>10. QED
    BY <1>4, <1>5, <1>7, <1>8, <1>9 DEF OwnInv

LEMMA QuietOwn ==
    ASSUME OwnInv, UNCHANGED <<now, desk, lineOwner, left, worker, mailed>>,
           \A m \in Messages : (box'[m] = "unborn") = (box[m] = "unborn")
    PROVE  OwnInv'
  BY DEF OwnInv, RowsInTime, CutoffsTell, Born, CheckedIsOwn, OwnMail, Holding

\* An edit of the desk or of its number: the cutoff it writes lies behind
\* everything left before, and a new row behind every earlier row.
LEMMA EditOwn ==
    ASSUME TypeOK, OwnInv, EditStep
    PROVE  OwnInv'
  <1>1. UNCHANGED <<box, left, worker, mailed>> /\ now' = now + 1 /\ now \in Nat
    BY EditTime DEF EditStep, SaveExtension, SaveNumber, Provision, DeleteNumber, SaveEmailConfig, TypeOK
  <1>2. desk \in Desks /\ \A m \in Messages : left[m].at \in Int /\ left[m].desk \in Nat
    BY DEF TypeOK, Origins
  <1>3. Born' /\ CheckedIsOwn' /\ OwnMail'
    BY <1>1 DEF OwnInv, Born, CheckedIsOwn, OwnMail, Holding
  <1>4. \A m \in Messages : left[m].at < now' /\ left[m].desk < now' + 1
    BY <1>1, <1>2 DEF OwnInv, RowsInTime
  <1>5. ASSUME NEW a \in {Nobody, desk.owner}, NEW mode \in {"auto", "off"}, SaveExtension(a, mode)
        PROVE  RowsInTime' /\ CutoffsTell'
    <2>1. /\ desk'.id = desk.id /\ desk'.owner = desk.owner /\ desk'.override = a /\ desk'.mode = mode
          /\ desk'.resume = IF desk.mode = "off" /\ mode = "auto" THEN now' ELSE desk.resume
          /\ desk'.auto \in {now', desk.auto}
          /\ lineOwner' = lineOwner
      BY <1>2, <1>5 DEF SaveExtension, Desks
    <2>2. RowsInTime'
      BY <1>1, <1>2, <2>1 DEF OwnInv, RowsInTime, Desks
    <2>3. CutoffsTell'
      <3>1. CASE desk.mode = "off" /\ mode = "auto"
        BY <1>1, <1>2, <1>4, <2>1, <3>1 DEF CutoffsTell
      <3>2. CASE ~(desk.mode = "off" /\ mode = "auto")
        BY <1>1, <2>1, <3>2 DEF OwnInv, CutoffsTell
      <3>3. QED
        BY <3>1, <3>2
    <2>4. QED
      BY <2>2, <2>3
  <1>6. ASSUME NEW c \in Customers, SaveNumber(c)
        PROVE  RowsInTime' /\ CutoffsTell'
    <2>1. /\ desk'.id = desk.id /\ desk'.owner = desk.owner /\ desk'.override = desk.override
          /\ desk'.resume = now' /\ desk'.auto = desk.auto
      BY <1>2, <1>6 DEF SaveNumber, Desks
    <2>2. QED
      BY <1>1, <1>2, <1>4, <2>1 DEF OwnInv, RowsInTime, CutoffsTell, Desks
  <1>7. ASSUME NEW c \in Customers, Provision(c)
        PROVE  RowsInTime' /\ CutoffsTell'
    <2>1. desk'.id = now' + 1 /\ desk'.override = Nobody /\ desk'.auto = now'
      BY <1>7 DEF Provision
    <2>2. QED
      BY <1>1, <1>2, <1>4, <2>1 DEF OwnInv, RowsInTime, CutoffsTell
  <1>8. ASSUME DeleteNumber
        PROVE  RowsInTime' /\ CutoffsTell'
    <2>1. desk'.id = 0 /\ desk'.owner = desk.owner /\ desk'.override = desk.override
      BY <1>2, <1>8 DEF DeleteNumber, Desks
    <2>2. RowsInTime'
      BY <1>1, <1>2, <1>4, <2>1 DEF OwnInv, RowsInTime
    <2>3. CutoffsTell'
      BY <1>1, <2>1 DEF OwnInv, RowsInTime, CutoffsTell
    <2>4. QED
      BY <2>2, <2>3
  <1>9. ASSUME \E on \in BOOLEAN : SaveEmailConfig(on)
        PROVE  RowsInTime' /\ CutoffsTell'
    <2>1. UNCHANGED <<desk, lineOwner>>
      BY <1>9 DEF SaveEmailConfig
    <2>2. RowsInTime'
      <3>1. desk.id \in Int
        BY <1>2 DEF Desks
      <3>2. QED
        BY <1>1, <1>2, <1>4, <2>1, <3>1 DEF OwnInv, RowsInTime
    <2>3. CutoffsTell'
      BY <1>1, <2>1 DEF OwnInv, CutoffsTell
    <2>4. QED
      BY <2>2, <2>3
  <1>10. RowsInTime' /\ CutoffsTell'
    <2>1. CASE \E c \in Customers : SaveNumber(c) \/ Provision(c)
      BY <1>6, <1>7, <2>1
    <2>2. CASE \E a \in {Nobody, desk.owner}, mode \in {"auto", "off"} : SaveExtension(a, mode)
      BY <1>5, <2>2
    <2>3. QED
      BY <1>8, <1>9, <2>1, <2>2 DEF EditStep
  <1>11. QED
    BY <1>3, <1>10 DEF OwnInv

\* The second look at the settings finds what OwnMail asks for: at the row the
\* message was left at by the cutoffs, at a later row because the account's
\* cutoff lies behind the message.
LEMMA StillRightIsOwn ==
    ASSUME TypeOK, OwnInv, NEW n \in Notifiers, worker[n].at = "claimed", StillRight(n)
    PROVE  LET w == worker[n] IN
           \/ w.target.to.of = left[w.msg].for /\ ~left[w.msg].off
           \/ w.target.to.kind = "override" /\ w.target.id > left[w.msg].desk
  <1>1. PICK m \in Messages : m = worker[n].msg /\ Holding(n, m)
    BY WorkerShapes DEF TypeOK, Holding
  <1>2. box[m] # "unborn"
    BY <1>1 DEF OwnInv, Born
  <1>3. /\ desk \in Desks /\ left[m].desk \in Int /\ left[m].at \in Int /\ left[m].off \in BOOLEAN
        /\ desk.id \in Int /\ desk.resume \in Int /\ desk.auto \in Int
    BY DEF TypeOK, Origins, Desks
  <1>4. /\ MailboxRecipient.id = desk.id /\ MailboxRecipient.since >= desk.resume
        /\ MailboxRecipient.to.of = desk.owner
        /\ MailboxRecipient.to.kind = "override" \/ MailboxRecipient.since >= desk.auto
    BY <1>3 DEF OwnInv, RowsInTime, MailboxRecipient, Later
  <1>5. left[m].desk <= desk.id /\ desk.id # 0
    BY <1>3 DEF StillRight, HasRecipient, OwnInv, RowsInTime
  <1>6. left[m].at >= MailboxRecipient.since /\ MailboxRecipient.since \in Int
    BY <1>1, <1>3 DEF StillRight, MailboxRecipient, Later
  <1>7. CASE left[m].desk = desk.id
    <2>1. left[m].at >= desk.resume
      BY <1>3, <1>4, <1>6
    <2>2. left[m].for = desk.owner /\ ~left[m].off
      BY <1>2, <1>3, <1>7, <2>1 DEF StillRight, HasRecipient, OwnInv, CutoffsTell
    <2>3. QED
      BY <1>1, <1>4, <2>2 DEF StillRight
  <1>8. CASE left[m].desk < desk.id
    <2>1. left[m].at < desk.auto
      BY <1>2, <1>8 DEF OwnInv, RowsInTime
    <2>2. MailboxRecipient.to.kind = "override"
      BY <1>3, <1>4, <1>6, <2>1
    <2>3. QED
      BY <1>1, <1>3, <1>4, <1>8, <2>2 DEF StillRight
  <1>9. QED
    BY <1>3, <1>5, <1>7, <1>8

LEMMA NotifierOwn ==
    ASSUME TypeOK, OwnInv, NEW n \in Notifiers, Notify(n) \/ Crash(n)
    PROVE  OwnInv'
  <1>1. UNCHANGED <<now, desk, lineOwner, box, left>>
    BY DEF Notify, Start, ListMessages, Consider, Recheck, Send, Finish, EndScan, Crash, settings
  <1>2. RowsInTime' /\ CutoffsTell'
    BY <1>1 DEF OwnInv, RowsInTime, CutoffsTell
  <1>3. worker \in [Notifiers -> Workers] /\ \A k \in Notifiers \ {n} : worker'[k] = worker[k]
    BY DEF TypeOK, Notify, Start, ListMessages, Consider, Recheck, Send, Finish, EndScan, Crash
  <1>4. PICK w \in Workers : w = worker[n]
    BY <1>3
  <1> DEFINE InHand ==
            /\ worker'[n].at # "idle" => \A m \in worker'[n].todo : m \in Messages => box[m] # "unborn"
            /\ \A m \in Messages : Holding(n, m)' => box[m] # "unborn"
            /\ worker'[n].at = "checked" =>
                 /\ worker[n].at = "claimed" /\ StillRight(n)
                 /\ worker'[n].target = worker[n].target /\ worker'[n].msg = worker[n].msg
  <1>5. InHand
    <2>1. CASE Start(n) \/ EndScan(n) \/ Crash(n)
      BY <1>3, <2>1 DEF Start, EndScan, Crash, Idle, Holding
    <2>2. CASE ListMessages(n)
      BY <1>3, <2>2 DEF ListMessages, Listed, Holding
    <2>3. ASSUME NEW x \in Messages, Consider(n, x)
          PROVE  InHand
      <3>1. w.at = "scanning" /\ \A m \in Messages : m \in w.todo => box[m] # "unborn"
        BY <1>4, <2>3 DEF Consider, OwnInv, Born
      <3>2. CASE worker'[n] = [at |-> "claimed", target |-> w.target, todo |-> w.todo \ {x}, msg |-> x]
        BY <1>4, <2>3, <3>1, <3>2 DEF Consider, Holding
      <3>3. CASE worker'[n] = [w EXCEPT !.todo = w.todo \ {x}]
        <4>1. w \in [at : {"reading", "scanning"}, target : Targets, todo : SUBSET Messages]
          BY <3>1 DEF Workers
        <4>2. worker'[n].at = "scanning" /\ worker'[n].todo = w.todo \ {x}
          BY <3>1, <3>3, <4>1
        <4>3. QED
          BY <3>1, <4>2 DEF Holding
      <3>4. QED
        BY <1>3, <1>4, <2>3, <3>2, <3>3 DEF Consider
    <2>4. CASE Recheck(n)
      <3>1. w.at = "claimed" /\ \A m \in Messages : m \in w.todo \/ m = w.msg => box[m] # "unborn"
        BY <1>4, <2>4 DEF Recheck, OwnInv, Born, Holding
      <3>2. CASE StillRight(n) /\ worker'[n] = [w EXCEPT !.at = "checked"]
        <4>1. w \in [at : {"claimed", "checked"}, target : Targets, todo : SUBSET Messages, msg : Messages]
          BY <3>1 DEF Workers
        <4>2. /\ worker'[n].at = "checked" /\ worker'[n].todo = w.todo
              /\ worker'[n].target = w.target /\ worker'[n].msg = w.msg
          BY <3>1, <3>2, <4>1
        <4>3. QED
          BY <1>4, <3>1, <3>2, <4>2 DEF Holding
      <3>3. CASE worker'[n] = [at |-> "scanning", target |-> w.target, todo |-> w.todo]
        BY <3>1, <3>3 DEF Holding
      <3>4. QED
        BY <1>3, <1>4, <2>4, <3>2, <3>3 DEF Recheck, Resumed
    <2>5. CASE Send(n)
      <3>1. w.at = "checked" /\ \A m \in Messages : m \in w.todo \/ m = w.msg => box[m] # "unborn"
        BY <1>4, <2>5 DEF Send, OwnInv, Born, Holding
      <3>2. worker'[n].at = "sent" /\ worker'[n].todo = w.todo /\ worker'[n].msg = w.msg
        BY <1>3, <1>4, <2>5 DEF Send
      <3>3. QED
        BY <3>1, <3>2 DEF Holding
    <2>6. CASE Finish(n)
      <3>1. w.at = "sent" /\ \A m \in Messages : m \in w.todo => box[m] # "unborn"
        BY <1>4, <2>6 DEF Finish, OwnInv, Born
      <3>2. worker'[n].at = "scanning" /\ worker'[n].todo = w.todo
        BY <1>3, <1>4, <2>6 DEF Finish, Resumed
      <3>3. QED
        BY <3>1, <3>2 DEF Holding
    <2>7. QED
      BY <2>1, <2>2, <2>3, <2>4, <2>5, <2>6 DEF Notify
  <1>6. CheckedIsOwn'
    <2>1. \A k \in Notifiers \ {n} : worker'[k].at = "checked" =>
              \/ worker'[k].target.to.of = left[worker'[k].msg].for /\ ~left[worker'[k].msg].off
              \/ worker'[k].target.to.kind = "override" /\ worker'[k].target.id > left[worker'[k].msg].desk
      BY <1>3 DEF OwnInv, CheckedIsOwn
    <2>2. worker'[n].at = "checked" =>
              \/ worker'[n].target.to.of = left[worker'[n].msg].for /\ ~left[worker'[n].msg].off
              \/ worker'[n].target.to.kind = "override" /\ worker'[n].target.id > left[worker'[n].msg].desk
      BY <1>5, StillRightIsOwn
    <2>3. QED
      BY <1>1, <2>1, <2>2 DEF CheckedIsOwn
  <1>7. CASE ~Send(n)
    <2>1. mailed' = mailed
      BY <1>7 DEF Notify, Start, ListMessages, Consider, Recheck, Finish, EndScan, Crash
    <2>2. Born'
      BY <1>1, <1>3, <1>5, <2>1 DEF OwnInv, Born, Holding
    <2>3. OwnMail'
      BY <1>1, <2>1 DEF OwnInv, OwnMail
    <2>4. QED
      BY <1>2, <1>6, <2>2, <2>3 DEF OwnInv
  <1>8. CASE Send(n)
    <2>1. PICK x \in Messages : x = worker[n].msg /\ Holding(n, x) /\ worker[n].at = "checked"
      BY <1>8, WorkerShapes DEF TypeOK, Holding, Send
    <2> DEFINE letter == [to |-> worker[n].target.to, desk |-> worker[n].target.id]
    <2>2. \/ mailed' = mailed
          \/ mailed' = [mailed EXCEPT ![x] = Append(mailed[x], letter)]
      BY <1>8, <2>1 DEF Send, TypeOK
    <2>3. letter \in Letters
      BY <1>4, <2>1, WorkerShapes DEF Targets, Letters
    <2>4. \/ letter.to.of = left[x].for /\ ~left[x].off
          \/ letter.to.kind = "override" /\ letter.desk > left[x].desk
      BY <2>1 DEF OwnInv, CheckedIsOwn
    <2> HIDE DEF letter
    <2>5. \A m \in Messages \ {x} : mailed'[m] = mailed[m]
      BY <2>2 DEF TypeOK
    <2>6. mailed[x] \in Seq(Letters) /\ (mailed'[x] = mailed[x] \/ mailed'[x] = Append(mailed[x], letter))
      BY <2>2 DEF TypeOK
    <2>7. \A i \in DOMAIN mailed'[x] : (i \in DOMAIN mailed[x] /\ mailed'[x][i] = mailed[x][i]) \/ mailed'[x][i] = letter
      BY <2>3, <2>6, AppendProperties
    <2>8. OwnMail'
      BY <1>1, <2>4, <2>5, <2>7 DEF OwnInv, OwnMail
    <2>9. box[x] # "unborn"
      BY <2>1 DEF OwnInv, Born
    <2>10. Born'
      BY <1>1, <1>3, <1>5, <2>5, <2>9 DEF OwnInv, Born, Holding
    <2>11. QED
      BY <1>2, <1>6, <2>8, <2>10 DEF OwnInv
  <1>9. QED
    BY <1>7, <1>8

\* Every letter goes to the customer its message was left for, and none was left
\* under an opt-out, through every handover, opt-out, retry and crash; the one
\* exception is an override address given to a later row of the desk.
THEOREM OwnMailOnly == Spec => []OwnMail
  <1>1. Init => OwnInv
    <2>1. Init => \A m \in Messages : mailed[m] = << >>
      BY DEF Init
    <2>2. Init => RowsInTime
      BY MailAssumption DEF MailAssumption, Init, RowsInTime
    <2>3. Init => CutoffsTell /\ Born /\ CheckedIsOwn
      BY DEF Init, CutoffsTell, Born, CheckedIsOwn, Holding, Idle
    <2>4. QED
      BY <2>1, <2>2, <2>3 DEF OwnInv, OwnMail
  <1>2. ClaimInv /\ OwnInv /\ [Next]_vars => OwnInv'
    <2> SUFFICES ASSUME ClaimInv, OwnInv, [Next]_vars
                 PROVE  OwnInv'
      OBVIOUS
    <2>1. TypeOK
      BY DEF ClaimInv
    <2>2. ASSUME NEW x \in Messages, Leave(x) \/ Remove(x) \/ Wait(x)
          PROVE  OwnInv'
      <3>1. CASE Leave(x)
        BY <2>1, <3>1, LeaveOwn
      <3>2. CASE Remove(x) \/ Wait(x)
        <4>1. UNCHANGED <<now, desk, lineOwner, left, worker, mailed>>
          BY <3>2 DEF Remove, Wait, settings
        <4>2. \A m \in Messages : (box'[m] = "unborn") = (box[m] = "unborn")
          BY <2>1, <3>2 DEF Remove, Wait, TypeOK
        <4>3. QED
          BY <4>1, <4>2, QuietOwn
      <3>3. QED
        BY <2>2, <3>1, <3>2
    <2>3. CASE EditStep
      BY <2>1, <2>3, EditOwn
    <2>4. ASSUME NEW n \in Notifiers, Notify(n) \/ Crash(n)
          PROVE  OwnInv'
      BY <2>1, <2>4, NotifierOwn
    <2>5. CASE UNCHANGED vars
      BY <2>5, QuietOwn DEF vars
    <2>6. QED
      BY <2>2, <2>3, <2>4, <2>5 DEF Next, EditStep
  <1>3. OwnInv => OwnMail
    BY DEF OwnInv
  <1>4. QED
    BY <1>1, <1>2, <1>3, ClaimInvHolds, PTL DEF Spec

=============================================================================
