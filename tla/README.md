# Specification of the EIP telephony control platform

TLA+ models of the platform in `src/`: its calls, the lines and flows that decide
whom a call rings, its start-up, its synchronisation with Asterisk, its mail and
webhooks; the TLC runs that check them on small instances and the proofs that
hold for every instance. `PROJECT.json` ties every definition to the source lines
it models, every property to a run, and every hazard of the code to the
properties about it. It lists the twelve runs that pass; the other `.cfg` files
end in a counterexample each and are described in section 5.

    tlc -config OutboundSolo.cfg MCOutbound        one run
    tlapm OutboundCallProofs.tla                   the proofs about outbound calls

## 1. The system

An API process (gunicorn threads, `app/routes.py`), one ARI worker process
(`app/ari_worker.py`) and Asterisk share one database. Nothing else is shared:
the worker's memory is not the API's, and there is no lock wider than an SQL
statement or a `with self._connect()` transaction.

| Component | State | Operations | Hard behaviour | What makes it correct |
|---|---|---|---|---|
| Call lifecycle (`services.py`, `models.py`, `ari_worker.py`) | the row of `calls`; the worker's `_leg_index`, `_finalizing`; channels and bridge at Asterisk | handlers of `StasisStart`, `ChannelStateChange`, `ChannelDestroyed`; `_start_bridge`, `_finalize`, `hangup`, `recover_incomplete_calls` | each handler reads the row, speaks to Asterisk and writes the row later; API threads do the same in another process; events are lost with the socket; restart | two people are joined only if both picked up; nobody waits in silence; nothing rings or stays up after the end; one outcome; nothing finished comes back |
| Outbound calls (`start_outbound`, `_start_customer`) | as above | ring every endpoint of the employee, then every endpoint of the far side | several devices answer at once; the legs are stored after the last originate; originate replies are lost | the employee comes first; the far side is dialled once; the answerer takes the call |
| Inbound calls (`start_inbound`, `_inbound_no_answer`, `_ring_fallbacks`, `_forward_call`) | as above | ring desks, then fallback desks, voicemail, forward or missed call | the channels end in one burst whose events are handled long after the call moved on | the caller is served, is not dropped while somebody can be reached, and a message is not cut off |
| Menu (`_start_ivr`, `_ivr_*`, `process_ivr_timeouts`) | `_ivr_sessions`: digits, tries, deadline | digits from the event thread, timeouts from the main thread | two threads act on one session dictionary without a lock; answering the caller makes Asterisk report the caller as up | one choice is dialled once; a caller who leaves leaves nothing |
| Recording (`_start_bridge`, `_finalize`, `reconcile_recordings`, `cleanup_recordings`) | `recording_*` columns, the recording at Asterisk | start, finish, fail, reconcile, retire | the finish event may precede the write, be lost, or be followed by the start's failure; two teardowns | the row tells no lie of what is stored, and in the end it tells of it |
| Webhook outbox (`notify_crm`, `process_webhook_deliveries`, `enqueue_webhook`, `pending_`, `finish_`) | `webhook_deliveries`, `webhook_endpoints` | enqueue, send, finish, delete the endpoint, purge | a crash between the send and the record; deletion during a send; five attempts | at least once while attempts remain, bounded retries, no delivery to a deleted endpoint is revived |
| Idempotent call placement (`claim_idempotency`, `finish_idempotency`, `POST /api/v1/calls`) | `api_idempotency` | claim, replay, file, give back, expire after 24 h | two requests with one key; the thread dies between claim and filing; an error while the device rings | one key places one call, and a replay names it |
| Voicemail email (`voicemail_email.py`, `admin.py`) | `voicemail_deliveries`, the spool, the desk's mail settings and cutoffs | scan, claim, check again, send, record; edits of desk, number and mail settings | scans that take minutes; two notifiers; a crash after the mail was sent; a number that changes hands | a message goes to the customer it was left for, not again once recorded, and in the end if it should |
| Configuration sync (`telephony_config.py`, `ami.py`, `ari_worker.py`, `configure-ice.sh`) | include files, two marker files, a lock file; what Asterisk has loaded | render, write, reload, restart when convenient, retry; Asterisk's container start | a step that fails halfway, a kill, four writers of the same files | files say what the database says, and Asterisk follows them or is owed it on record |
| Lines (`admin.py`: `save_extension`, `save_number`, `delete_*`, `provision_number`, `save_call_route`, `save_routing_flow`, ...) | numbers, extensions, flows, groups, device accounts, call defaults | one request each, of one or more transactions | requests interleave; references are rewritten when an extension moves; the first refused edit ends the rewriting | references follow, nothing dangles, digits mean one device on a line |
| Routing and dial plan (`inbound_plan`, `apply_desk_handling`, `render_dialplan`) | none: computed when a call arrives, or when the files are rendered | resolve a number to a plan | flows outlive what they name; numbers and extensions change owner | a plan rings the owner's active desks; a number that would ring somebody is in service |
| Start-up (`create_app`, `SettingsStore.__init__`, `adopt_legacy_mailboxes`) | schema, one-time settings, identity of extensions, voicemail folders | columns, key, plan and move of extensions, first administrator, environment rows | three processes boot at once; MySQL commits each DDL statement; containers restart as one | upgraded when anybody serves, one-time steps once, every process serves in the end |
| Console, HTTP routes, softphone, database adapter, transcription, deployment tools | - | - | validation, rendering and pure input/output | out of scope |

Components meet in six places: the call's row (API and worker), the channels (both
speak to Asterisk), the event stream (Asterisk to the worker only), the webhook
outbox (every handler enqueues through `notify_crm`), the tables of lines (requests
write them, calls, the dial plan and mail read them) and the include files (requests,
the worker and Asterisk's container write them).

## 2. Modules

| Module | Models | Extends |
|---|---|---|
| `CallControl` | row, channels, bridge, events, worker memory, jobs; the steps common to both directions; faults, crash, disconnection, recovery | - |
| `OutboundCall` | the API thread that rings the employee, the employee's answer, the far side's answer; properties of outbound calls | `CallControl` |
| `InboundCall` | a caller's arrival, the desks, the ways an unanswered call goes on; properties of inbound calls | `CallControl` |
| `IvrMenu` | a caller at a menu: the session, the thread of the events and the thread of the deadlines | - |
| `WebhookOutbox` | the queue of CRM events: handlers that fill it, the worker that empties it, threads that switch and delete endpoints | - |
| `Recording` | the recording of one bridged call: the events' thread, a hangup request, the main thread's reconciliation and retention | - |
| `IdempotentPlacement` | one `Idempotency-Key`: requests in web threads, the calls they place | - |
| `LineTables` | the tables of numbers, extensions, flows, groups, devices and defaults, and how a key or digits resolve | - |
| `Routing` | which flows may be stored, what the platform edits in them by itself, and the plan of an inbound call | `LineTables` |
| `Lines` | the requests that change lines, by threads that interleave between transactions | `Routing` |
| `DialPlan` | what a phone may dial and which extension a carrier's call to a number is answered for | `Routing` |
| `Boot` | the processes that start on a database of an older release | - |
| `ConfigSync` | the synchronisation of include files with a running Asterisk | - |
| `VoicemailMail` | notifiers scanning one mailbox while its desk and number change | - |
| `TwoParty` | abstract: what a call promises to the people on it | - |
| `MCOutbound`, `MCInbound`, `MCLines`, `MCBoot` | processes and data of the instances that are checked; `MCLines` joins `Lines` and `DialPlan` | the above |
| `CallControlProofs`, `OutboundCallProofs`, `InboundCallProofs`, `VoicemailMailProofs`, `BootProofs` | lemmas and theorems | the module they are named after, `TLAPS` |
| `ApiProofs` | lemmas and theorems about what the API stores for its clients | `IdempotentPlacement`, `WebhookOutbox`, `TLAPS` |
| `MenuRecordingProofs` | lemmas and theorems about a caller at a menu and about a recording | `IvrMenu`, `Recording`, `TLAPS` |
| `LinesConfigProofs` | lemmas and theorems about lines, plans and the dial plan, then about the synchronisation | `Lines`, `DialPlan`, `ConfigSync`, `TLAPS` |

`IdempotentPlacement`, `IvrMenu` and `ConfigSync` name their specifications
`PlacementSpec`, `MenuSpec` and `SyncSpec`, so that a proof module can extend each together with another component.

### How the state corresponds

- `row` is the row of one call: `status`, `answered`, `ended_at` (set or not),
  `employee_channel_id` (`emp`), `employee_channel_ids` (`legs`),
  `customer_channel_id` (`far`), `bridge_id` (set or not). `Blank` with status
  `"none"` stands for the row before `CallStore.create`.
- `chan`, `mix`, `open` are Asterisk's: a channel per device, the channels in
  `bridge-<call>`, and whether that bridge exists. `inbox` holds the events that
  were emitted and not handled. Events of one channel arrive in order with its
  destruction last; between channels the order is free.
- `index`, `busy` are `_leg_index` of the worker and `_finalizing` of each
  process. `told` is the set of terminal events queued for the CRM.
- `job[p]` says where actor `p` stands inside a handler: the next step, the
  channel it works for and the row it read. This is the heart of the model. A
  database statement and a request to Asterisk are atomic; whatever lies between
  two of them is a place where the other process, Asterisk or a person may act.
  Exceptions are listed under Abstractions. The handler of an answer, for one, is
  four places for a desk (`DeskAnswers`, `StoreDesk` writes the row, `CancelDesks`
  hangs the others up, the bridge) and three for the far side (`FarAnswers` hangs the
  others up, `StoreFar` writes the row, the bridge).
- `conn` and `ready` are the websocket and the ready file's freshness as the API
  reads it; `todo` and `dialled` belong to the running dial loop.

`Aborts` is an exception nobody catches (the database is away, a reply is lost):
the handler stops where it is, `on_event` logs it. `Crash` ends the worker
process: its memory and every undelivered event go. `Disconnect` loses the
socket, not the memory; as in the code, a reconnect does not run recovery. After
a crash `recover_incomplete_calls` runs once, before the event loop connects.

### Abstractions

- One call. Handlers of different calls share only `_leg_index` and
  `_finalizing`, both keyed by call or channel.
- Row columns nobody branches on (timestamps, names, prices) are left out, so is
  the recording, which is `Recording`'s.
- `_start_customer` and `_finalize` decide on the row their caller read; the
  model keeps that row in `job`. The early return of `_start_customer` appears
  as the guard `Dialling`.
- The journey of an inbound number is read from the settings each time it is
  needed and may have changed meanwhile, so every step that consults it chooses
  freely. A journey that begins with a menu is `IvrMenu`'s until a desk rings.
- Several hangups in a row are one step: those of `_finalize` with its read and the
  destruction of the bridge (`FinalizeTearsDown`, `services.py:1059-1082`), and those of
  a hangup request with its read (`HangupRequest`). What other actors do between
  two of these hangups is not explored; what they do between the hangups and the
  write of the end is.
- The worker consumes the answer of a device that a later round or a forward has
  replaced, and does nothing (`EventIgnored`, `LeftBehind`). A forward number the row
  does not name, left by a fault between originate and write, is taken for the far
  side of an outbound call (`UnnamedForward`).
- The caller's channel counts as up from its arrival. The dial plan hands
  inbound channels over unanswered, hence `RecoverLeaves` lets recovery find an
  inbound caller that is not `Up`.
- A channel list Asterisk does not return is read as empty by the code; that is
  a fault of `LastLegGone`. The forward's originate does not lose its reply
  (a fault `DialDesk` and `DialBackup` have).
- A channel handed to `VoiceMail` has left Stasis and emits nothing more.
- `IvrMenu` keeps of the digits what they mean: nothing, the beginning of an
  extension, an extension that can become another one, one that cannot, or none.
  The clock is `due` and `pause`, each ahead or past. Its call is cut down to what
  the menu can meet: the caller's channel and its events, the desks that ring, what
  the row names, and `passed` for a caller `_inbound_no_answer` has handed to
  another desk, a mailbox or a forward number.
- `WebhookOutbox` has one owner's endpoints; deliveries are numbered in the order
  of `created_at`, which the rounds follow. `purged` is a row deleted by the
  retention of thirty days. An endpoint not created yet is `"off"`. The endpoint of
  the environment and the test request are sent without a row and left out.
- `Recording` begins when `_start_bridge` has written the bridge. `row` is what
  its handlers read: the recording's status, whether it has a name, and the call's
  end (`completed` false at the end is `failed`). `tape` is Asterisk's recording.
  Whether the switches ask for a recording is a free choice. Retention, counted in
  days, acts when nothing else of the call is left to do. A call that ends before it
  is bridged records nothing and is left out.
- `IdempotentPlacement` names a call after its request. The employee has one
  device, and reading a status and writing it is one step: the value written does
  not depend on it beyond over or not.
- In `Lines` a transaction is a step, and a request's later steps use what its
  earlier ones read (`jobs`). What `provision_number` does after the link is three of
  them: the account's default, the call route, the desk's flow. Digits are small numbers and a key is digits and
  number; a flow is a sequence of steps that name keys. Order of names, where the
  code sorts by them and stops at the first refusal, is a free choice of the edits
  made before it (`Prefix`). Timeouts, prompts, prices, and the platform's two
  settings for a last-resort extension are left out. `AutoIvrAbove` is 5 in the code.
- `DialPlan` has no state: it is what the rendered contexts let a phone reach, as
  sets of keys. `NumberExtension` leaves out the operator's fallback extension, the last
  candidate: `CarrierServed` is the stricter for it.
- `Boot` starts on a database with legacy rows: keyed to a line, bare, with equal
  digits, of the operator. `LockTimesOut` and `Crash` share a bound. SQLite's table
  rebuild (development only, `docs/MYSQL.md:5`) is left out, and so is the rewriting of
  references at boot: `admin.py:771` runs it after the flag is written, so that a crash
  in between leaves references with bare digits until an adoption or a changed key
  rewrites them (`Lines`), and nothing here says they are rewritten at start-up.
- In `ConfigSync` a file is what the properties compare: sections, address, who
  rings, mailboxes. Transports and PJSIP sections are rendered in one step, since
  only their writing fails separately; credentials, carriers and device accounts are
  left out, and so is the first boot, before Asterisk has published its address, and
  a service name whose address changes. A restart Asterisk accepted is not lost. A
  plain reload that fails is retried by nobody, which `OwedInTheEnd` does not promise.
- `VoicemailMail` has one mailbox. A lease of ten minutes is over only when no
  living notifier holds the claim (a scan finishes a message well inside it). The
  configuration and the recipients are read in one step, and so are a snapshot
  and its claim. `RetryLimit` is 5 in the code. Left out: the branch of a claim that
  finds a message by its legacy fingerprint (`admin.py:4099-4110`; `Claimable`
  looks at the row of the present one), twenty messages per scan, the address taken over from a user's profile, mailboxes without an owner, the
  cutover of the upgrade (in `Boot`).
- Identity of the actors' processes is the constant `Home`; the MC modules put
  the worker in a container of its own and every API actor in another one, as
  `docker-compose.yml` does.

## 3. Runs

| Run | Instance | Shows |
|---|---|---|
| `OutboundSolo` | 1 employee device, 1 far channel, 1 hangup request, fair | `NoSilence`: who picks up is joined or let go; `Resolves`: a placed call is answered or ends |
| `OutboundCrash` | 2 + 1 devices, 1 error, 1 crash, 1 lost socket | `EmployeeFirst`, `FarDialedOnce`, `AnsweredByBoth`, `TalkersKept` (a device that lost the race never parts the talkers: only recovery tells the worker of the employee's other devices, so the crash makes the race), and `PromiseKept`: `OutboundCall` implements `TwoParty` |
| `InboundJourney` | 2 desks, 1 backup, 1 forward, voicemail, 1 hangup request, fair | `CallerServed`, `CallerKept`, `MessageKept`, `NoOrphans`, `BridgeNamesTalkers` (the bridge holds only channels the row names, whoever took the call from whom, apart from losers about to be hung up), and the refinement of `TwoParty` with the caller as the near side |
| `InboundTrouble` | 1 desk, 1 backup, 1 forward, 1 error, 1 crash, 1 lost socket | `NoResurrection`: a finished inbound call stays finished, after a restart too |
| `MenuCaller` | 2 attempts, 2 desk devices, 3 keys, fair | `CallerServed`: whatever is typed and whichever thread gets there first, a caller at a menu has a desk ringing, is passed on or let go; `SessionEnds`; `NothingLeft`: who hangs up leaves no session |
| `OutboxRounds` | 2 deliveries, 2 endpoints, 2 attempts, a round of 2, 1 crash, fair | `AttemptsBounded`: never sent oftener than attempts and lost rounds allow; `RetiredStays`: a late result revives nothing; `Settles`: a delivery to an active endpoint is made or given up, while all that wait fit into a round |
| `RecordingKept` | 1 call, 2 hangup requests, 1 fault (an answer, an event, the socket, a process), fair | `OnEvidence`: nobody writes `finalized` unless Asterisk has the file, nor `deleted` while it has; `StoredIsPlayable`: what is stored of an ended call is found in the end, whichever event was lost |
| `PlacementOnce` | 3 requests with one key, 2 lost answers, 1 killed worker, 2 days | `OneCallPerKey`: two calls of one key ring on one day only if a client was told of an error, and a replay names the call that was placed |
| `LinesTogether` | 2 customers and the platform, 2 numbers, 2 digits, 3 requests in sequence or 2 side by side, of all kinds | `PlanRingsOwn`: a plan rings the number's owner's extensions only, whoever owned what before; `NoDangling`; `ReferencesFollow`: an extension that moves to a number keeps its place in every flow and group; `ProvisionWhole`: a call to a provisioned number rings its extension, unless a flow saved for the extension's key switched it off; `CarrierServed`: a number whose flow rings somebody is not announced as out of service; in `TypeOK`, digits mean one device on a number |
| `BootTogether` | 2 web workers and the ARI worker, 3 numbers, 6 legacy rows, 1 crash, 1 edit, fair | `Upgraded`: when anybody serves, schema, settings and rows are what the migration promises; `OneTime`: the cutover, the retries, deleted rows of the environment and moved extensions stay; `BootsAtLast` |
| `ConfigShared` | 2 web threads, the ARI worker, 1 extension, 2 addresses and one that does not resolve, 2 edits, 1 fault, fair | `OwedKept`: Asterisk with a dropped section or an old address has been asked to restart or is on record as owed it; `FilesFollow`; `OwedInTheEnd` |
| `MailKept` | 2 customers, 2 notifiers, 1 message, 2 attempts, 2 edits, 1 crash, fair | `OwnMail`: a message goes to the customer it was left for, and not if it was left during an opt-out, unless a later row of the desk gives an override address; `AcceptedOnce`; `MailedAtLast` |

**Bounds.** `Emp`, `Far` and `Hanger` are sets of model values and
`MaxFaults`, `MaxCrashes`, `MaxDrops` cap the trouble. Two devices on a side are
what every race needs: one that wins and one that loses. A third device repeats
the part of the second. Two backups would add nothing to one, since a backup
desk is told from a first-round desk by the status alone; two first-round desks
are there because their events interleave. One fault, one crash and one lost
socket at once reach every place where a handler can be cut, before and after
every other one, recovery included. The runs with faults have one request less
to stay within minutes. A menu with two attempts has a repeated prompt and a last
one, and three keys leave one for each attempt and one in the middle of the
other thread's step. Two deliveries are one being sent and one that waits, for the same
endpoint or for two; a round of 1 in `OutboxStuck` is the code's 100 with 101
deliveries.

Recording, placement and mail follow one call, one key and one mailbox, because no
statement of theirs reads two. Two lines, two digits and two customers are the
least for a number to change hands with an extension on it and for digits to mean
two rows. A third request in sequence is needed to save a flow, move what it names
and see what the call makes of it; it is not asked for once two requests have
overlapped, where the interleaving is the point. A link is asked for as its desk's
default only. `AutoIvrAbove = 2` makes the menu appear. Larger bounds were tried
where time allows: `ConfigShared` with two faults (565,698 states) and `MailKept`
with three edits (3,081,248 states) hold. Sizes: `OutboundCrash` and `OutboxRounds`
take about a minute and a half, `LinesTogether` two minutes (402,557 states), `BootTogether`
half a minute, `MailKept` 463,732 states, `PlacementOnce` 152,198, `ConfigShared`
91,507, `RecordingKept` 28,712.

**Deadlock.** `CHECK_DEADLOCK FALSE` wherever a call is modelled: a call that is over
really stops. The outbox never does, and is checked for deadlock. What a stuck call would be is the subject of the liveness
properties.

**Fairness.** Weak fairness of the threads (`Starter`, `Worker`, events,
bridging, finalization, reconnection): Python threads run, and the event loop
retries forever (`asterisk_client.py:351-385`). Weak fairness of
`Answer(c) \/ RingOut(c)`: every originate carries a timeout, so ringing ends.
In `IvrMenu` both threads of the worker are fair and time passes: while a session
is open the main thread sleeps one second (`ari_worker.py:94`); the caller may
press nothing. In `WebhookOutbox` the main thread's rounds and the back-off are fair;
receivers may refuse for ever and endpoints may be switched for ever. In `Recording` threads go on, the container restarts, the socket is
opened again, and a file asked for every thirty seconds is answered for in the end
(strong fairness of `Found`). In `Boot` Docker restarts what has exited and a running
boot goes on. In `ConfigSync` a synchronisation goes on, the lock is strongly fair
(`flock` serves waiters, and the worker sleeps thirty seconds between two tries), a
restart "when convenient" finds a moment without calls, and Asterisk starts. In
`VoicemailMail` notifiers scan and the clock runs; nobody has to keep anything
configured. `Lines` and `IdempotentPlacement` assume nothing. Nobody is obliged to answer rather than let ring, to hang up, or to ask for a
hangup, and nothing fair makes trouble happen or stop.

## 4. Proofs

Eight modules hold the proofs. `CallControlProofs` has the lemmas both directions
share: types of the pieces (`JobTypes`, `HangUpTypes`, `RowTypes`) and of each group of
common steps. Each theorem holds for every set of devices, callers' calls, requests,
notifiers or writers, and for every bound its row does not name.

| Module | Theorem | Says | Hypothesis |
|---|---|---|---|
| `OutboundCallProofs` | `TypeCorrect` | `[]TypeOK` | |
| | `DialInvariant`, `EmployeeComesFirst`, `FarIsDialedOnce` | `[]DialInv`, `[]EmployeeFirst`, `FarDialedOnce` | |
| | `BothAnswered` | `[]AnsweredByBoth` | |
| | `JoinInvariant`, `CallKeepsPromise` | `[]JoinInv`, `PromiseKept`: `OutboundCall` implements `TwoParty` | |
| | `TalkersGoOn` | `TalkersKept` | at most one fault |
| `InboundCallProofs` | `TypeCorrect` | `[]TypeOK` | |
| | `EndedForGood` | `NoResurrection` | no hangup request |
| | `TalkersAreNamed` | `[]BridgeNamesTalkers` | no fault, no crash |
| | `InboundKeepsPromise` | `PromiseKept`: `InboundCall` implements `TwoParty` | no fault, no crash |
| | `NothingOrphaned`, `MessagesKept`, `WaitingCallerKept` | `[]NoOrphans`, `MessageKept`, `CallerKept` | no fault, no crash |
| `ApiProofs` | `OutboxTypes`, `AttemptsAreBounded`, `RetiredForGood` | `[]TypeOK`, `[]AttemptsBounded`, `RetiredStays` | |
| | `PlacementInvariant`, `OneCallForOneKey` | `[]PlacementInv`, `[]OneCallPerKey` | |
| `MenuRecordingProofs` | `MenuIsTyped`, `MenuLeavesNothing` | `[]MenuTypes`, `[]NothingLeft` | |
| | `RecordingTypes`, `WrittenOnEvidence` | `[]TypeOK`, `OnEvidence` | |
| `VoicemailMailProofs` | `MailTypes`, `AcceptedForGood`, `OwnMailOnly` | `[]TypeOK`, `AcceptedOnce`, `[]OwnMail` | |
| `LinesConfigProofs` | `LinesTypes` | `[]TypeOK` of `Lines`, with one device for the digits of a number | |
| | `CallsRingOwn`, `CarriersServed` | `[]PlanRingsOwn`, `[]CarrierServed` | |
| | `NothingDangles`, `ProvisionedNumbersWork` | `[]NoDangling`, `[]ProvisionWhole` | |
| | `SyncTypes`, `RestartNeverForgotten`, `FilesFollowRows` | `[]SyncTypeOK`, `[]OwedKept`, `[]FilesFollow` | |
| `BootProofs` | `MigrationIsRight`, `OnceOnly` | `[]Upgraded`, `OneTime` | |

**The hypotheses.** Faults, crashes and lost sockets are `MaxFaults`, `MaxCrashes` and
`MaxDrops`; a theorem holds for every value its row does not name. TLC says what lies
beyond each hypothesis (inbound on two desks, a backup and a forward number):

- `TalkersKept` fails with two faults and a crash: a device whose originate lost its
  reply is answered and talks, the statement that would record the answer is lost as
  well, and the end of any other device takes the "unanswered" call down.
- `NoResurrection` of an inbound call fails with a hangup request that ends the call
  while the worker is in `_inbound_no_answer`: `_ring_fallbacks` writes
  `ringing_fallback` over the end (`SkipBackups`).
- `BridgeNamesTalkers` fails with one fault or one crash: the handler of a second
  desk's answer is cut between the write of the row and the hangups, and the desk that
  talks stays in the bridge unnamed.
- `PromiseKept` fails with one fault or one crash: a forward whose row was not written
  rings a second time. `NoOrphans`: a lost originate reply and then voicemail, or
  recovery that stores `failed`, leave a desk ringing. `CallerKept`: an unread channel
  list, or recovery that bridges a desk not picked up yet, lets the caller go while a
  desk rings.
- `MessageKept` fails with one fault: the worker hands the caller on, does not get to the
  call's end, and the next desk's event hangs the caller up. With one crash it holds
  on this instance (325,522 states); the theorem states it without.

`InboundJourney` has neither fault nor crash, so the theorems cover that run and
carry it to any number of desks, lost sockets and requests.

**Outbound calls.** `EmployeeFirst` is not inductive: `DialFar` rings the far side
because the worker's *job* says an employee channel answered, long after the event was
consumed. The invariant `DialInv` has the missing links:

- `RowNamesSides`: the columns for one side name channels of that side, so that
  a far channel is never mistaken for an employee leg;
- `AnswersAreReal`: an `up` event waiting in `inbox`, and the channel a job in
  the answering handler works for, belong to a channel that was picked up;
- `FarNamedFirst`: while the row names no far channel, or while the worker is
  about to dial, no far channel exists; and the row the worker decides on has
  the far column the database has now. This is what makes the stale read of
  `_start_customer` harmless, and it is true because only the event thread ever
  writes that column;
- `UndialledSilent`: an endpoint still to be dialled has no channel.

`FarDialedOnce` follows: the only step that makes a far channel ring is
`DialFar`, from a state in which `FarNamedFirst` says there is none. It covers
recovery, which dials again only if the row names no far channel.

`AnsweredByBoth` speaks of the row and of what was reported. Both are written from
jobs, so `AnswerInv` says the same of what every job still holds (`ClaimsAreTrue`: an
answer claimed anywhere is an answer of the two channels the row names), and that the
row names its far channel as soon as the worker answers for it. Most steps claim
nothing new (`Modest`, and for the columns and channels `Calm`), and one lemma serves
them all.

`JoinInv` is what the refinement rests on: whoever is in the bridge is up and named by
the row, both were picked up, and while both stay up the bridge has both. The steps
of `OutboundCall` either join the two, part some (`PartsOnly`) or stutter in
`TwoParty`.

`TalkInv`, behind `TalkersKept`, looks at everything that hangs channels up or destroys
the bridge: the worker finalizes, or gives an employee up, only when nobody talks
or ever will (`NobodyTalks`, where `Parted` is stable: a channel that is gone stays
gone); a handled pick-up is not reported again (`AnsweredOnce`), so that no talker is
taken for a straggler; whatever the worker resolves from memory is a leg of the row
or the device the row has named from the start (`IndexKnown`, `LegsStored`); and two
who talk while the row does not say "answered" are about to be recorded
(`AnswerUnderWay`), unless their device was never acknowledged, which costs the one
fault allowed (`UnheardIsFault`).

**Inbound calls.** `TypeOK` needs `ForwardNamed`: the forward's channel that the worker
is about to store is one of the far side. `EndedInv` says that every place of a
handler that writes a live status has found the row not ended and that nobody but the
worker, which handles one event at a time, can have ended it since; with `CallerCame`,
nothing but a second arrival could make a row anew, and there is none. `BridgeInv` ties
bridge, row and the worker's place: a row that fits it (`RowFits`), nobody in the bridge
whose end is reported and not handled (`TalkersOn`). `StrayInv` says that a forward
number the worker can find is one the row names, so that `UnnamedForward` never
happens while nothing fails (`NobodyUnnamed`). `JourneyInv` follows a call that
nothing disturbs: who rings was rung in turn (`RungInTurn`), and what a handler read
still holds (`ReadHolds`). `ClearInv`, for a call nobody asks to hang up, says which
channels the worker can still resolve (`DevicesKnown`) and that all of them are gone
when it writes the end (`ClearedInTime`). `RingInv` says that nobody rings once a device
took the call, which is why a caller is not let go while one could be reached.

**Webhooks.** None of the three is inductive: a deletion sets `attempts` to the maximum
while the request is under way, and the late result adds one. `OutboxInv` therefore
says of what the worker holds that it is neither delivered nor beyond the maximum
(`HeldInv`), and counts a request in flight apart from the recorded attempts
(`SentInv`): what is sent is recorded, in flight, or lost in one of the crashes.

**Placement.** A request is accountable while it is between claim and filing, and
after that while its call of today rang without its client having been told of an error. `KeyAccounts`: there is at most
one such request, and the key is claimed or names it. `StepsAgree` and `RowsOfToday`
say what a place in the handler tells of the row, so that a key that expires takes no
call of the present day with it.

**Recording.** `FinishIsTrue`: a finish event that waits is about a file that is there,
because files are deleted only when nothing of the call is left to handle.
`DeletedIsGone` covers the moment between the deletion and its record, `StartsBlank`
keeps a start from overwriting.

**Mail.** `ClaimInv`: at most one notifier holds a message, and then its row is pending
and not due, so that nobody records over an accepted one. `OwnMail` compares a letter
with the customer the message was left for, who is no longer known when it is
sent, and speaks of every letter; the one it lets go elsewhere is sent to an override
address by a row of the desk made after the message was left, and those do go wrong
(`MailFormerOwner`, section 5). `CutoffsTell` replaces that knowledge: a message left at the present row of the
desk, not before its cutoff, was left for whoever holds desk and number now. Edits
that would break this renew the row or move the cutoff; `RowsInTime` orders those
rows and times. `CheckedIsOwn` carries the check to the moment of sending.

**Lines.** `LinesTyped` is `TypeOK` with what every job knows: `JobTyped` says what each
step of a request has read (that a row about to be written still has its id within the
ids given out, that only a number with an owner is provisioned, that what is adopted is
a customer's), which is what the next step relies on. Digits on a number meet one
device because every writer asks in its own transaction: `WriteExtensionTypes`,
`MovedRows` and `ReleaseTypes` are the three ways a row gets a line, and `MovedRows`
shows that rows adopted in bulk cannot meet each other there, since of those with the
same digits only the first one comes.
Operators that pick and order a sequence (`Unique`, `Among`, `LineDevices`, `RankOfKeys`
for a sort) are described once, before the steps that use them.

`CallsRingOwn` needs no invariant beyond these types: whatever flows, groups and menus
name, `Only`, `Among` and the desks' own flows let through the keys of the account the
number belongs to at the call (`PlanNodesRings`, `DeskHandlingRings`, `IvrRings`, one for
each path of `inbound_plan`, joined in `InboundRings`). It holds of every typed state,
hence of numbers whose flows name desks of a former owner. `CarriersServed` compares two
computations of the same rows, the worker's plan and the generated dial plan: whatever
the plan rings first or offers in a menu is one of the candidates `NumberExtension`
tries, or there is an active extension it finds anyway (`AnchorFound`, `FirstTried`).

`NoDangling` speaks of quiet states and is not inductive. `LinesHeld` says of the rest
that, until two requests are under way at once, at most one thread is busy, rows
are on numbers there are unless a "take down" is under way, and a "write extension"
puts its row on a number there is. Every step of a request either leaves numbers and
lines alone (`NothingMoves`), keeps the ids of the numbers while it moves rows to one
of them (`MoveHeld`), or is `TakeDown`, which releases the rows of the number it
removed before it ends (`ReleaseHeld`). Of crossed requests the theorem says nothing,
and there two threads can leave such a row (section 5).

`ProvisionWhole` speaks of the moment the last of a provisioning's transactions answers.
`LinesWhole` says what each of them hands on to the next (`Halfway`): the extension is
written under the id of the customer's number, active; the link that is stored resolves
to that row and is not claimed a second time, because it is on the number already
(`LinkFound`); an adoption in between moves rows without a number only; the account has
a default number after `ProvisionDefault` (`Presented`), and the flow `ProvisionRoute`
writes rings all devices of the number, the new one among them (`DeviceListed`,
`DefaultRings`), which makes the number `Working` until the answer is given.
For this a row must be on one number only: numbers
have ids of their own, since a new one is larger than all before (`OwnIds`). That such a
number rings is a lemma on plans (`InboundReaches`): a menu offers every active
extension of the number, a ring step that is on is not overruled, and desks' flows
take away only what they switch off themselves.

**Synchronisation.** Whoever is past the lock holds it (`JobTypes`). `OnRecord` says
that whatever the holder's plan takes from under Asterisk is marked before the files
change, and that a marker goes only when Asterisk has followed or was told to. `FollowInv`: the
files written so far are those of the plan, and the plan is what the rows say unless
a request that changed them still waits (`Stale`).

**Menu.** A session is read by two threads and written by both. `MenuIsTyped` needs
`AgainBounded`: the check of the attempts and the new attempt are two steps, so both
threads may have passed the check when the first one counts. The prompt may therefore
be played once more than configured, and never oftener. `SessionFollows` is behind
`NothingLeft`: a session without a caller has the event that closes it still to come,
because an event thread that handled the end opens none again.

**Start-up.** `Upgraded` speaks of a plan that a recursion computes: rows choose a
line in turn, each skipping what the earlier ones took. `PlacesRight(place, k)` says
what the first `k` choices leave - whose line each row has, that no two rows of equal
digits share a line by a choice, and that a row without one found all of its lines
taken - and `PlacesGoOn` that one more choice keeps it. `PlanIsRight` carries this to
the last row by the least row at which it could fail (`Least`, from the well-founded
order of the naturals), which also shows that the recursive function is defined
(`PlanUpToDefined`). `BootInv` carries the plan to the step that writes it: at most one
boot is inside the lock (`OneMigrates`), the rows are as the old release left them
until the identity is written (`Untouched`), a plan that is held is right for them
(`PlansRight`), and afterwards the rows are (`DesksRight`). `BootSoFar` and `FlagsTell`
say of every step of a boot what the steps before it have left in schema and settings.

The invariants were checked by TLC before they were proved, on the instances of the
runs: those of outbound calls on `OutboundCrash`, of inbound calls on
`InboundJourney` and `InboundTrouble`, `SyncInv` on `ConfigShared`,
`LinesHeld` and `LinesWhole` on `LinesTogether`, `OwnInv` on `MailKept` and `BootInv` on
`BootTogether`. Steps that were split later (`StoreFar`, `CancelDesks`, the three of
`provision_number`) went straight into the proofs.

**Assumptions.** The proofs assume what the modules assume, and every run evaluates it:
the three sets of channels are disjoint and `None` is no channel; the first device of
each side is one of its devices; the hangup requests and the worker are in different
processes; an outbound call has no caller and an inbound one has one; at least one
address of the service exists; the answers a client gets are no names of requests;
numbers have positive ids, legacy rows are numbered without gaps, and no two of them
have one key, which was the table's primary key; accounts, numbers and digits of lines
are finite sets that are not empty, and there is room for what the tables hold at
first (`LinesAssumption`).

**Only model-checked.** Liveness (`NoSilence`, `Resolves`, `CallerServed`,
`StoredIsPlayable`, `OwedInTheEnd`, `MailedAtLast`, `Settles`, `BootsAtLast`,
`SessionEnds`): fairness and `ENABLED` are out of the prover's reach, and none of the
safety theorems needs them. `ReferencesFollow` of `Lines` compares what flows mean
before and after a rewriting, step for step of each flow, of which the order of the
edits is free; the small instance has every kind of row it speaks of.

## 5. Disagreements found

Each `.cfg` file here states what a comment, a document or a test of the
repository says and ends in a behaviour of the code against it. They are beside the
twelve runs and not among them; run them with the module in brackets.

| Run | Claim | What happens |
|---|---|---|
| `OutboundSecondDevice` (`MCOutbound`) | `services.py:319-320`: "Whoever answers first takes the call and the rest are cancelled" (`AnswererTakesCall`) | A device other than the first is picked up and nothing happens: the API process registered it in its own `_leg_index`, the event goes to the worker, which learns of such devices only by a restart, and the row names the first device only. The numbered endpoints of the far side are registered nowhere at all: when one of them answers, both people wait in silence (`OutboundSolo` with two far channels fails `NoSilence`). |
| `OutboundStaleWrite` (`MCOutbound`) | `tests/test_services.py:955`: "no resurrection of the call" (`NoResurrection`) | The API writes `ringing` over the status of a call that ended since it was read. |
| `InboundDoubleAnswer` (`MCInbound`) | `services.py:1199`: "Whoever picks up first takes the call; the other devices stop ringing" (`FirstTakesCall`) | A second desk picked up before the first one's event has cancelled it takes the row, hangs up the desk that talks and is not bridged itself. |
| `OutboxStuck` (`WebhookOutbox`) | `docs/WEBHOOKS.md:89`: "The dedicated worker sends queued events every few seconds" (`Settles`) | A round takes the oldest due rows and only then drops those whose endpoint is off or gone. They stay due, so they are the oldest again: a hundred of them, and no event of any customer is sent. A row for a deleted endpoint comes about when the endpoint is deleted between `notify_crm`'s list and its insert. |
| `InboundForward` (`MCInbound`) | `services.py:1229`: "All ring legs can disappear before their queued events arrive" (`ForwardKept`) | Two desks ring out together; the first event forwards the call and overwrites the list of legs; the second event belongs to no side and takes the forwarded call down. |
| `MenuUnanswered` (`IvrMenu`) | `docs/UI_CONSOLE.md:356-357`: "the call still reaches the extension the caller types" (`MenuKeepsCaller`) | The dial plan hands the caller over unanswered, the menu answers, and Asterisk reports the caller's own channel as up. The handler takes that for the far side picking up and bridges the caller with `<call>-employee`, which nobody has rung: the bridge fails and the caller is cut off while the prompt plays. |
| `PlacementTwice` (`IdempotentPlacement`) | `docs/API.md:85`: "This prevents network retries from originating duplicate paid calls" (`NoDuplicateCall`) | The originate's answer, or a statement after it, is lost while the employee's device rings. `build_call` answers 502, the key is given back, and the retry places a second call; if the first device is picked up before its row is marked failed, both far sides are dialled. |
| `LinesApart` (`MCLines`) | `telephony_config.py:932-933`: "one customer's desks are never dialable by another"; `docs/NUMBER_OWNERSHIP.md:65` (`DesksApart`) | `save_number` gives a number to another customer and leaves the first customer's extensions on it. The dial plan takes the owner from the one row and the extensions from the other: the new owner's phones ring them as `<number>*<digits>`, and their phones reach the new owner's other lines. |
| `LinesFlowLost` (`MCLines`) | `admin.py:1548-1550`: "It is only written when the extension is created, so a flow the customer later edits is never overwritten" (`FlowEditsKept`) | When an extension gets its number its flow is stored under the new key, and the row that names the digits stays. At any later move, of any account, that old row is rewritten again, over the flow its customer has edited since. |
| `LinesOldFlow` (`MCLines`; about seven minutes on four cores) | `docs/UI_CONSOLE.md:113`: "The DID link, so inbound calls actually ring" (`ProvisionRings`) | A customer saves a flow for an extension of a second number that switches it off and forwards. Deleting the number leaves the extension, because another account's call default names its bare digits, and the flow stays with its key. When the number is provisioned again, `ensure_extension_flow` (`admin.py:3303-3309`) finds a flow for that key and keeps it: the new line rings nobody. |
| `BootWrongBox` (`MCBoot`) | `admin.py:4337`: "a customer's messages must never be merged into the wrong box" (`BoxKept`) | Old folders are adopted at every start by whichever extension has their digits at that moment. Once the operator's extension 900 is deleted, the next start moves its messages into the mailbox of the one customer who has a 900. |
| `MailFormerOwner` (`VoicemailMail`) | `admin.py:1493-1494`: "The opt-out period or a former owner's mailbox must never be sent to any recipient, even a deliberately supplied override"; `docs/EMAIL_AND_USERS.md:29` (`FormerOwnerKept`) | Deleting a number removes its extensions but no messages; the row made when it is provisioned for another customer starts with no cutoff for an override address, and the messages never mailed go there. |

Seen in the models and kept by no run: an inbound call that a hangup request ended is
`ringing_fallback` again (section 4, `NoResurrection`); a hangup request and the worker finalize
one call on different rows, so that the CRM is told both `call.failed` and
`call.completed` (`told` holds both); a hangup request that read the row before the
bridge was written destroys none, and the worker, which finds the call ended or being
ended, may leave the bridge with a talker in it; a second far endpoint that is picked up
replaces the far channel of a call that is bridged with the first, and waits in
silence; an employee who picks up while the worker
restarts waits in silence, since recovery runs before the socket connects and
looks at one device only; a caller gives up while the forward number rings, and
the forward's channel name makes it count as another customer device, so it rings
on; a key pressed as the deadline passes makes both threads
of a menu dial, the second is refused its channel names and may end the call
while the first one's desk rings.

Of a recording: a start whose late answer is recorded as `failed`, and a finish event
lost as well, leave a stored file `failed` for good (`RecordingKept` with
`MaxFaults = 2`); a deletion whose record is lost leaves the row `finalized` without
a file, since the next deletion is answered 404 (`services.py:1120`); after a crash
recovery marks a call failed without destroying its bridge, where the recording
runs on; and a socket that loses both destructions leaves `ended_at` unset, so that
the reconciliation passes the recording by. Of a key: a thread killed after its
claim leaves 409 as the only answer for the rest of the day.

Of lines: a number linked to a switched-off extension of its own, whose desk's flow
names another active desk, is announced as not in service although the plan would
try that desk (`CarrierServed` speaks of desks the plan rings first and of menus);
a number that changed owner keeps its call route's row, so that `provision_number`
fails half built; two threads can undo an adoption or leave a row on a number that
is gone (`NoDangling` speaks of requests that did not overlap; the release at the
next deletion mends it); two call defaults saved at once lose one of the two (`admin.py:4301`);
`save_number` can leave two default numbers (`admin.py:2126-2130`);
`delete_extension` clears device accounts by bare digits of any owner
(`admin.py:2032-2035`, its docstring at 1985-1990); deleting a desk that a number's
generated flow names as mailbox makes the next extension fail after its row is
there. Of mail: a mailbox whose folder is adopted gives its messages other
fingerprints, so that delivered ones with an explicit recipient are mailed again
(`voicemail_email.py:53`); a claim of the last attempt whose notifier dies stays
pending. Of synchronisation: a service address that does not resolve keeps the ARI
worker from starting. Of start-up: the recording switch is read and written in two
steps (`admin.py:308`), which can undo an administrator's choice of that moment.

Hazards read in the code and followed by no property: the dial loop goes on after
the call was ended (`services.py:324`); the ready file of a killed worker is fresh
for thirty seconds (`services.py:57`); fallback legs are numbered so that two
destinations with two endpoints can ask for one name (`services.py:663`); an IVR
session without a deadline (`services.py:877`); a worker that dies between a
webhook's request and its record sends it again, which `AttemptsBounded` counts.

The passing properties say what still holds in spite of these: `BridgeNamesTalkers` lets
a desk that lost the call of `InboundDoubleAnswer` be in the bridge between `StoreDesk`
and `CancelDesks`; `TalkersKept` is of outbound calls only, because of
`InboundForward`; `NoOrphans` and `NoSilence` speak of calls nobody asked to hang up;
`ReferencesFollow` and `ProvisionWhole` of requests that were accepted, `NoDangling`
and `ProvisionWhole` of those that did not cross; `OwnMail` names the letters of
`MailFormerOwner` as its exception.

## 6. Plan

Done: all modules of section 2 and the proofs of section 4. Left, in this order:

1. `MessageKept` of inbound calls under crashes: recovery leaves a caller at the mailbox
   alone; the strengthening is that no device the worker can resolve is live at `noAnswer`.
2. A form of `NoOrphans` and `CallerKept` that holds under crashes, which names the
   recovery that stores `failed` while a desk rings, checked by TLC first.
3. `ReferencesFollow` of `Lines`, from a lemma on `RemapNodes`: each step of a flow names
   after a move the rows it named before.

Not modelled, and not planned: HTTP validation and rendering, the console and
softphone, API keys and sessions, customers' requests and invoices (one transaction
each), transcription (a subprocess with a time limit), the database adapter (its
statements are the atomic steps of every module), the file route of recordings,
deployment tools. Partly modelled: the AMI client and Asterisk's image as far as
`ConfigSync` meets them, the database layer as far as `Boot` does; configuration
sync and mail with the omissions listed under Abstractions.
