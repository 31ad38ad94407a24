---------------------------- MODULE VoicemailMail ----------------------------
(***************************************************************************)
(* Mailing a voicemail message to the customer of its mailbox: the scans   *)
(* of VoicemailEmailNotifier (src/app/voicemail_email.py), the delivery    *)
(* rows they claim and the settings that change under a running scan       *)
(* (save_extension, save_number, provisioning, save_email_config of        *)
(* src/app/admin.py).                                                      *)
(*                                                                         *)
(* One mailbox, that of one desk on one number.  A message is an atom; its *)
(* delivery row is keyed by it, since the fingerprint names the call and   *)
(* survives renumbering.  Times are compared with the cutoffs only, so the *)
(* clock moves when an edit writes a cutoff.                               *)
(***************************************************************************)
EXTENDS Naturals, Sequences

CONSTANTS
    Customers,   \* accounts that may hold the number and the desk
    Notifiers,   \* notifier instances: the worker's, and that of a restarted one
    Messages,    \* messages callers may leave
    Nobody,      \* no override address; a mailbox in the middle of a handover
    RetryLimit,  \* attempts of one message (5 in the code)
    MaxEdits,    \* bound: edits of the settings
    MaxCrashes   \* bound: notifiers killed in the middle of a scan

ASSUME MailAssumption ==
    /\ Nobody \notin Customers
    /\ RetryLimit \in Nat \ {0}
    /\ MaxEdits \in Nat
    /\ MaxCrashes \in Nat

VARIABLES
    now,        \* the time, in edits
    desk,       \* the extension's row
    lineOwner,  \* owner of the phone number
    sending,    \* email_config.enabled
    box,        \* where each message is
    left,       \* when a message was left, and for whom
    row,        \* voicemail_deliveries
    worker,     \* each notifier's scan
    mailed,     \* letters the provider accepted, for each message
    crashes

vars == <<now, desk, lineOwner, sending, box, left, row, worker, mailed, crashes>>
settings == <<now, desk, lineOwner, sending>>

-----------------------------------------------------------------------------
(* Addresses are named by whose they are. *)
Addresses == [of : Customers, kind : {"account", "override"}]

(* id 0 is no row: the number was taken down with its desks. *)
Desks == [id : 0..MaxEdits + 1, owner : Customers, override : Customers \cup {Nobody},
          mode : {"auto", "off"}, auto : 0..MaxEdits + 1, resume : 0..MaxEdits + 1]

Letters == [to : Addresses, desk : 1..MaxEdits + 1]

Targets == [to : Addresses, since : 0..MaxEdits + 1, id : 1..MaxEdits + 1]

Origins == [at : 0..MaxEdits, for : Customers \cup {Nobody}, off : BOOLEAN, desk : 0..MaxEdits + 1]

Deliveries == [status : {"none", "pending", "failed", "delivered"}, attempts : 0..RetryLimit, due : BOOLEAN]

Workers ==
    [at : {"idle"}]
    \cup [at : {"reading", "scanning"}, target : Targets, todo : SUBSET Messages]
    \cup [at : {"claimed", "checked"}, target : Targets, todo : SUBSET Messages, msg : Messages]
    \cup [at : {"sent"}, target : Targets, todo : SUBSET Messages, msg : Messages, ok : BOOLEAN]

Idle == [at |-> "idle"]

(* The row, the bounds of the attempts and the shape of a scan. *)
TypeOK ==
    /\ now \in 0..MaxEdits
    /\ desk \in Desks
    /\ lineOwner \in Customers
    /\ sending \in BOOLEAN
    /\ box \in [Messages -> {"unborn", "inbox", "gone"}]
    /\ left \in [Messages -> Origins]
    /\ row \in [Messages -> Deliveries]
    /\ worker \in [Notifiers -> Workers]
    /\ mailed \in [Messages -> Seq(Letters)]
    /\ crashes \in 0..MaxCrashes

Later(s, t) == IF s >= t THEN s ELSE t

(* Nobody is mailed while the desk is opted out, or while the number and the
   desk name different owners. *)
HasRecipient == desk.id # 0 /\ desk.mode # "off" /\ desk.owner = lineOwner

(* Who is mailed, since when and for which row. *)
MailboxRecipient ==
    IF desk.override # Nobody
    THEN [to |-> [of |-> desk.override, kind |-> "override"],
          since |-> desk.resume, id |-> desk.id]
    ELSE [to |-> [of |-> desk.owner, kind |-> "account"],
          since |-> Later(desk.auto, desk.resume), id |-> desk.id]

Init ==
    /\ now = 0
    /\ \E c \in Customers :
         /\ lineOwner = c
         /\ desk = [id |-> 1, owner |-> c, override |-> Nobody, mode |-> "auto",
                    auto |-> 0, resume |-> 0]
    /\ sending = TRUE
    /\ box = [m \in Messages |-> "unborn"]
    /\ left = [m \in Messages |-> [at |-> 0, for |-> Nobody, off |-> FALSE, desk |-> 0]]
    /\ row = [m \in Messages |-> [status |-> "none", attempts |-> 0, due |-> FALSE]]
    /\ worker = [n \in Notifiers |-> Idle]
    /\ mailed = [m \in Messages |-> << >>]
    /\ crashes = 0

-----------------------------------------------------------------------------
(* Callers and the console. *)

(* A caller leaves a message.  In the middle of a handover it is nobody's. *)
Leave(m) ==
    /\ box[m] = "unborn" /\ desk.id # 0
    /\ box' = [box EXCEPT ![m] = "inbox"]
    /\ left' = [left EXCEPT ![m] =
         [at |-> now, for |-> IF desk.owner = lineOwner THEN desk.owner ELSE Nobody,
          off |-> desk.mode = "off", desk |-> desk.id]]
    /\ UNCHANGED <<settings, row, worker, mailed, crashes>>

(* Reading a message moves it to Old, deleting removes it: no scan wants it. *)
Remove(m) ==
    /\ box[m] = "inbox"
    /\ box' = [box EXCEPT ![m] = "gone"]
    /\ UNCHANGED <<settings, left, row, worker, mailed, crashes>>

-----------------------------------------------------------------------------
(* Edits.  Each takes the next instant: what was left before is older. *)

Edit == now < MaxEdits /\ now' = now + 1

(* save_extension.  Neither customer can edit a desk whose number belongs to
   the other; lifting the opt-out starts a new-only period for any recipient. *)
SaveExtension(override, mode) ==
    LET toAccount == mode = "auto" /\ override = Nobody
        lifted == desk.mode = "off" /\ mode = "auto"
    IN  /\ desk.id # 0 /\ desk.owner = lineOwner /\ Edit
        /\ desk' = [desk EXCEPT
             !.override = override, !.mode = mode,
             !.auto = IF toAccount /\ (lifted \/ desk.override # Nobody) THEN now' ELSE @,
             !.resume = IF lifted THEN now' ELSE @]
        /\ UNCHANGED <<lineOwner, sending, box, left, row, worker, mailed, crashes>>

(* save_number: a change of owner keeps every earlier message out of the mail. *)
SaveNumber(owner) ==
    /\ desk.id # 0 /\ owner # lineOwner /\ Edit
    /\ lineOwner' = owner
    /\ desk' = [desk EXCEPT !.resume = now']
    /\ UNCHANGED <<sending, box, left, row, worker, mailed, crashes>>

(* The number is deleted and its desks with it; the mailbox's files stay. *)
DeleteNumber ==
    /\ desk.id # 0 /\ Edit
    /\ desk' = [desk EXCEPT !.id = 0]
    /\ UNCHANGED <<lineOwner, sending, box, left, row, worker, mailed, crashes>>

(* The number is added again and provisioned: a new row for the same mailbox. *)
Provision(owner) ==
    /\ desk.id = 0 /\ Edit
    /\ lineOwner' = owner
    /\ desk' = [id |-> now' + 1, owner |-> owner, override |-> Nobody, mode |-> "auto",
                auto |-> now', resume |-> 0]
    /\ UNCHANGED <<sending, box, left, row, worker, mailed, crashes>>

(* save_email_config: turning mail on gives every failed message its attempts. *)
SaveEmailConfig(enabled) ==
    /\ enabled # sending /\ Edit
    /\ sending' = enabled
    /\ row' = [m \in Messages |->
         IF enabled /\ row[m].status = "failed" THEN [row[m] EXCEPT !.attempts = 0] ELSE row[m]]
    /\ UNCHANGED <<desk, lineOwner, box, left, worker, mailed, crashes>>

-----------------------------------------------------------------------------
(* One scan of a notifier. *)

Holding(n, m) == worker[n].at \in {"claimed", "checked", "sent"} /\ worker[n].msg = m

(* Time passes: a failure is retried after a minute, a lease is given up after
   ten.  A living notifier is done long before. *)
Wait(m) ==
    /\ ~row[m].due
    /\ \/ row[m].status = "failed"
       \/ row[m].status = "pending" /\ \A n \in Notifiers : ~Holding(n, m)
    /\ row' = [row EXCEPT ![m].due = TRUE]
    /\ UNCHANGED <<settings, box, left, worker, mailed, crashes>>

(* process() reads the configuration and the recipients ... *)
Start(n) ==
    /\ worker[n].at = "idle" /\ sending /\ HasRecipient
    /\ worker' = [worker EXCEPT ![n] =
         [at |-> "reading", target |-> MailboxRecipient, todo |-> {}]]
    /\ UNCHANGED <<settings, box, left, row, mailed, crashes>>

Listed == {m \in Messages : box[m] = "inbox"}

(* ... and then lists the mailbox. *)
ListMessages(n) ==
    /\ worker[n].at = "reading"
    /\ worker' = [worker EXCEPT ![n] = [at |-> "scanning", target |-> @.target, todo |-> Listed]]
    /\ UNCHANGED <<settings, box, left, row, mailed, crashes>>

(* Mutant: a pending row is claimed whether or not its lease is over. *)
ClaimLeased(m) ==
    \/ row[m].status = "none"
    \/ row[m].attempts < RetryLimit /\ (row[m].status = "failed" => row[m].due)
         /\ row[m].status \in {"failed", "pending"}

(* Mutant: an abandoned claim is never taken over. *)
ClaimFailedOnly(m) ==
    \/ row[m].status = "none"
    \/ row[m].attempts < RetryLimit /\ row[m].due /\ row[m].status = "failed"

Claimable(m) ==
    \/ row[m].status = "none"
    \/ row[m].attempts < RetryLimit /\ row[m].due /\ row[m].status \in {"failed", "pending"}

(* The next message: snapshot, cutoff and claim, or it is passed over. *)
Consider(n, m) ==
    /\ worker[n].at = "scanning" /\ m \in worker[n].todo
    /\ LET rest == worker[n].todo \ {m}
           wanted == box[m] = "inbox" /\ left[m].at >= worker[n].target.since /\ Claimable(m)
       IN  \/ /\ wanted
              /\ row' = [row EXCEPT ![m] = [status |-> "pending",
                                            attempts |-> @.attempts + 1, due |-> FALSE]]
              /\ worker' = [worker EXCEPT ![n] =
                   [at |-> "claimed", target |-> @.target, todo |-> rest, msg |-> m]]
           \/ /\ ~wanted
              /\ worker' = [worker EXCEPT ![n].todo = rest]
              /\ UNCHANGED row
    /\ UNCHANGED <<settings, box, left, mailed, crashes>>

Resumed(n) == [at |-> "scanning", target |-> worker[n].target, todo |-> worker[n].todo]

Finished(m, ok) ==
    [row EXCEPT ![m].status = IF ok THEN "delivered" ELSE "failed", ![m].due = FALSE]

(* Mutant: only the opt-in is checked again, not who is mailed. *)
StillWanted(n) == HasRecipient /\ sending

(* The message may still be mailed where the scan meant to mail it. *)
StillRight(n) ==
    /\ HasRecipient /\ sending
    /\ MailboxRecipient.to = worker[n].target.to
    /\ MailboxRecipient.id = worker[n].target.id
    /\ left[worker[n].msg].at >= MailboxRecipient.since

(* Transcription is over: recipient, row, cutoff and configuration are read
   again, and the message is sent or given up. *)
Recheck(n) ==
    /\ worker[n].at = "claimed"
    /\ \/ /\ StillRight(n)
          /\ worker' = [worker EXCEPT ![n].at = "checked"]
          /\ UNCHANGED row
       \/ /\ ~StillRight(n)
          /\ worker' = [worker EXCEPT ![n] = Resumed(n)]
          /\ row' = Finished(worker[n].msg, FALSE)
    /\ UNCHANGED <<settings, box, left, mailed, crashes>>

(* The request: refused, accepted, or accepted by a provider whose answer
   never came - which counts as a failure. *)
Send(n) ==
    /\ worker[n].at = "checked"
    /\ \E accepted, answered \in BOOLEAN :
         LET w == worker[n] IN
         /\ worker' = [worker EXCEPT ![n] =
              [at |-> "sent", target |-> w.target, todo |-> w.todo, msg |-> w.msg,
               ok |-> accepted /\ answered]]
         /\ mailed' = IF accepted
                      THEN [mailed EXCEPT ![w.msg] =
                              Append(@, [to |-> w.target.to, desk |-> w.target.id])]
                      ELSE mailed
    /\ UNCHANGED <<settings, box, left, row, crashes>>

Finish(n) ==
    /\ worker[n].at = "sent"
    /\ row' = Finished(worker[n].msg, worker[n].ok)
    /\ worker' = [worker EXCEPT ![n] = Resumed(n)]
    /\ UNCHANGED <<settings, box, left, mailed, crashes>>

EndScan(n) ==
    /\ worker[n].at = "scanning" /\ worker[n].todo = {}
    /\ worker' = [worker EXCEPT ![n] = Idle]
    /\ UNCHANGED <<settings, box, left, row, mailed, crashes>>

(* The worker process dies; its claim stays pending. *)
Crash(n) ==
    /\ worker[n].at # "idle" /\ crashes < MaxCrashes
    /\ worker' = [worker EXCEPT ![n] = Idle]
    /\ crashes' = crashes + 1
    /\ UNCHANGED <<settings, box, left, row, mailed>>

Notify(n) ==
    \/ Start(n) \/ ListMessages(n) \/ \E m \in Messages : Consider(n, m)
    \/ Recheck(n) \/ Send(n) \/ Finish(n) \/ EndScan(n)

Next ==
    \/ \E m \in Messages : Leave(m) \/ Remove(m) \/ Wait(m)
    \/ \E a \in {Nobody, desk.owner}, mode \in {"auto", "off"} : SaveExtension(a, mode)
    \/ \E c \in Customers : SaveNumber(c) \/ Provision(c)
    \/ DeleteNumber
    \/ \E on \in BOOLEAN : SaveEmailConfig(on)
    \/ \E n \in Notifiers : Notify(n) \/ Crash(n)

(* The worker scans every thirty seconds and a scan runs to its end; the
   clock runs. *)
Fairness ==
    /\ \A n \in Notifiers : WF_vars(Notify(n))
    /\ \A m \in Messages : WF_vars(Wait(m))

Spec == Init /\ [][Next]_vars /\ Fairness

-----------------------------------------------------------------------------
(* A letter goes to the customer its message was left for, and not if it was
   left while the desk was opted out - whether the scan read its recipient
   before the number changed hands or comes after it was handed back.  The one
   exception: an override address given to a later row of the desk. *)
OwnMail ==
    \A m \in Messages : \A i \in DOMAIN mailed[m] :
        \/ mailed[m][i].to.of = left[m].for /\ ~left[m].off
        \/ mailed[m][i].to.kind = "override" /\ mailed[m][i].desk > left[m].desk

(* A message whose acceptance was recorded is not sent again, whichever
   notifiers, retries, crashes and resets of the attempts follow. *)
AcceptedOnce ==
    [][\A m \in Messages : row[m].status = "delivered" =>
          row'[m].status = "delivered" /\ mailed'[m] = mailed[m]]_vars

Wanted(m) ==
    /\ box[m] = "inbox" /\ sending
    /\ HasRecipient
    /\ left[m].at >= MailboxRecipient.since

(* A message its mailbox's customer should get is delivered in the end, or its
   attempts are used up: no crash leaves its row pending for good. *)
MailedAtLast ==
    \A m \in Messages :
        <>[]Wanted(m) => <>(row[m].status = "delivered" \/ row[m].attempts = RetryLimit)

(* What the manual promises of every handover: a former owner's recordings are
   mailed to nobody else, an override included. *)
FormerOwnerKept ==
    \A m \in Messages : \A i \in DOMAIN mailed[m] : mailed[m][i].to.of = left[m].for

=============================================================================
