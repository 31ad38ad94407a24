----------------------------- MODULE ConfigSync -----------------------------
(***************************************************************************)
(* The database's extensions, carriers and service address rendered into   *)
(* Asterisk's include files, and what it takes for a running Asterisk to   *)
(* follow them.  Every web request that changes a row, and the ARI worker, *)
(* run the same synchronisation; a file lock makes them take turns.  A     *)
(* reload adds and edits but never removes a PJSIP section nor rebinds a   *)
(* transport, so those changes owe Asterisk a restart, noted in a marker   *)
(* file until it has been asked for.                                       *)
(***************************************************************************)
EXTENDS Integers, FiniteSets

CONSTANTS
    Api,            \* threads of the web server that serve requests
    ari,            \* the ARI worker
    Extensions,
    Addresses,      \* service addresses that resolve to a public IP ...
    unresolvable,   \* ... and one that does not
    nobody,         \* no process
    MaxEdits,       \* bound: requests that change a row
    MaxFaults       \* bound: writes and AMI actions that fail, replies that time
                    \* out, processes killed, Asterisk containers recreated

ASSUME ConfigAssumption ==
    /\ ari \notin Api /\ nobody \notin Api \cup {ari}
    /\ Addresses # {} /\ unresolvable \notin Addresses
    /\ {MaxEdits, MaxFaults} \subseteq Nat

VARIABLES
    rows,       \* the database
    file,       \* the include files, in a volume both containers mount
    local,      \* rtp.local-addresses: the address of Asterisk's container
    markers,    \* which of restart-pending and rtp-reload-pending exist
    lock,       \* who holds .config-sync.lock
    job,        \* process -> its synchronisation: [step, pending]
    plan,       \* what the holder of the lock has rendered
    booted,     \* the ARI worker's first synchronisation has succeeded
    pbx,        \* Asterisk: [state, waiting for calls to end before a restart]
    loaded,     \* what Asterisk works with, by file
    missed,     \* history: a synchronisation ended early since the last render
    spent       \* bounds used up

syncVars == <<rows, file, local, markers, lock, job, plan, booted, pbx, loaded, missed, spent>>
disk == <<file, local, markers>>
asterisk == <<pbx, loaded>>

Process == Api \cup {ari}
AtRest    == [step |-> "idle", pending |-> FALSE]
Asked   == [step |-> "lock", pending |-> FALSE]

Steps == {"idle", "lock", "render", "public", "mark", "ice", "transports", "pjsip", "dialplan", "voicemail",
          "reload rtp", "unmark rtp", "apply", "verify", "unmark restart", "reload voicemail", "reload dialplan"}

\* An extension's device is off, a telephone, or a telephone and a browser.
Rows == [desk : [Extensions -> {"off", "plain", "browser"}], switch : SUBSET Extensions, steps : SUBSET Extensions,
         address : Addresses \cup {unresolvable}]

Files == [public : Addresses, ice : (0..MaxFaults) \X Addresses, transports : Addresses,
          pjsip : SUBSET (Extensions \X {"phone", "browser"}),
          dialplan : [rings : SUBSET Extensions, boxes : SUBSET Extensions, browsers : SUBSET Extensions],
          voicemail : SUBSET Extensions]

Plans == [content : Files, restart : BOOLEAN]

-----------------------------------------------------------------------------
(* What the rows render to.                                                *)

Active(r) == {e \in Extensions : r.desk[e] # "off"}

\* A mailbox exists for the desk's own switch, and for a voicemail step of
\* any stored flow.
ConfiguredVoicemail(r) == Active(r) \cap (r.switch \cup r.steps)

Transports(r) == r.address
Pjsip(r) ==
    {<<e, "phone">> : e \in Active(r)}
    \cup {<<e, "browser">> : e \in {x \in Active(r) : r.desk[x] = "browser"}}
Dialplan(r)  == [rings |-> Active(r), boxes |-> ConfiguredVoicemail(r), browsers |-> {e \in Active(r) : r.desk[e] = "browser"}]
Voicemail(r) == ConfiguredVoicemail(r)
Ice(l, public) == <<l, public>>

\* An address that cannot carry audio stops the synchronisation before
\* anything is written, as a carrier without an allowlist does.
Renderable(r) == r.address # unresolvable

Rendered(r, l) ==
    [public |-> r.address, ice |-> Ice(l, r.address), transports |-> Transports(r), pjsip |-> Pjsip(r),
     dialplan |-> Dialplan(r), voicemail |-> Voicemail(r)]

Loads(f) == [x \in DOMAIN f \ {"public"} |-> f[x]]

SyncInit ==
    /\ rows = [desk |-> [e \in Extensions |-> "plain"], switch |-> {}, steps |-> {},
               address |-> CHOOSE a \in Addresses : TRUE]
    /\ local = 0 /\ file = Rendered(rows, local) /\ loaded = Loads(file)
    /\ markers = {} /\ lock = nobody
    /\ job = [w \in Process |-> AtRest] /\ plan = <<>>
    /\ booted = TRUE /\ missed = FALSE
    /\ pbx = [state |-> "up", waiting |-> FALSE]
    /\ spent = [edits |-> 0, faults |-> 0]

Spends(b, bound) == spent[b] < bound /\ spent' = [spent EXCEPT ![b] = @ + 1]
StepsTo(w, step)    == job' = [job EXCEPT ![w].step = step] /\ UNCHANGED <<booted, missed>>

\* The end of a synchronisation, whatever becomes of it, releases the lock.
Leaves(w, next) ==
    /\ job' = [job EXCEPT ![w] = next]
    /\ IF lock = w THEN lock' = nobody /\ plan' = <<>> ELSE UNCHANGED <<lock, plan>>
Done(w)   == Leaves(w, AtRest) /\ booted' = (booted \/ w = ari) /\ UNCHANGED missed
\* A request's failure is reported to its caller; the worker tries its first
\* one again, ten times and then from a new process.
Raises(w) == Leaves(w, IF w = ari /\ ~booted THEN Asked ELSE AtRest) /\ missed' = TRUE /\ UNCHANGED booted

-----------------------------------------------------------------------------
(* Who asks for one.                                                       *)

\* A request commits its change and applies it.
Edit(w) ==
    /\ w \in Api /\ job[w] = AtRest /\ Spends("edits", MaxEdits)
    /\ \E r \in Rows :
        /\ Cardinality({f \in DOMAIN r : r[f] # rows[f]}) = 1
        /\ rows' = r
    /\ job' = [job EXCEPT ![w] = Asked]
    /\ UNCHANGED <<disk, lock, plan, booted, asterisk, missed>>

\* Every thirty seconds the worker looks for a marker.
RetryPending ==
    /\ booted /\ job[ari] = AtRest /\ markers # {}
    /\ job' = [job EXCEPT ![ari] = [step |-> "lock", pending |-> TRUE]]
    /\ UNCHANGED <<rows, disk, lock, plan, booted, asterisk, missed, spent>>

Crash(w) ==
    /\ w = ari \/ job[w] # AtRest
    /\ Spends("faults", MaxFaults)
    /\ Leaves(w, IF w = ari THEN Asked ELSE AtRest)
    /\ booted' = (booted /\ w # ari) /\ missed' = TRUE
    /\ UNCHANGED <<rows, disk, asterisk>>

Fail(w) ==
    /\ lock = w /\ Spends("faults", MaxFaults) /\ Raises(w)
    /\ UNCHANGED <<rows, disk, asterisk>>

-----------------------------------------------------------------------------
(* The synchronisation.                                                    *)

\* What another writer has settled meanwhile is not done again.
TakeLock(w) ==
    /\ job[w].step = "lock" /\ lock = nobody
    /\ IF job[w].pending /\ markers = {} THEN Done(w)
       ELSE lock' = w /\ StepsTo(w, "render") /\ UNCHANGED plan
    /\ UNCHANGED <<rows, disk, asterisk, spent>>

\* Mutants: a section that is gone is no reason; only a new reason counts,
\* not a restart still owed.
OwesTransports(r) == Transports(r) # file.transports \/ "restart" \in markers
OwesNew(r)        == Transports(r) # file.transports \/ ~(file.pjsip \subseteq Pjsip(r))
Owes(r) == Transports(r) # file.transports \/ ~(file.pjsip \subseteq Pjsip(r)) \/ "restart" \in markers

\* The owed restart is on record before any file changes.
Render(w) ==
    /\ job[w].step = "render"
    /\ IF ~Renderable(rows) THEN Raises(w) /\ UNCHANGED markers
       ELSE /\ plan' = [content |-> Rendered(rows, local), restart |-> Owes(rows)]
            /\ markers' = markers \cup (IF Owes(rows) THEN {"restart"} ELSE {})
            /\ job' = [job EXCEPT ![w].step = "public"]
            /\ missed' = FALSE /\ UNCHANGED <<lock, booted>>
    /\ UNCHANGED <<rows, file, local, asterisk, spent>>

WritePublic(w) ==
    /\ job[w].step = "public"
    /\ file' = [file EXCEPT !.public = plan.content.public]
    /\ StepsTo(w, IF file.ice = plan.content.ice THEN "transports" ELSE "mark")
    /\ UNCHANGED <<rows, local, markers, lock, plan, asterisk, spent>>

MarkRtp(w) ==
    /\ job[w].step = "mark" /\ markers' = markers \cup {"rtp"} /\ StepsTo(w, "ice")
    /\ UNCHANGED <<rows, file, local, lock, plan, asterisk, spent>>

\* The dial plan and the mailboxes are rendered when their turn comes.
Write(w, f) ==
    /\ job[w].step = f
    /\ file' = [file EXCEPT ![f] = IF f \in {"dialplan", "voicemail"} THEN Rendered(rows, local)[f] ELSE plan.content[f]]
    /\ StepsTo(w, CASE f = "ice"        -> "transports"
                 [] f = "transports" -> "pjsip"
                 [] f = "pjsip"      -> "dialplan"
                 [] f = "dialplan"   -> "voicemail"
                 [] f = "voicemail"  -> IF "rtp" \in markers THEN "reload rtp" ELSE "apply")
    /\ UNCHANGED <<rows, local, markers, lock, plan, asterisk, spent>>

\* An AMI action is taken by a running Asterisk and refused by none.
Reaches(w, effect, next) ==
    /\ IF pbx.state # "up" THEN Raises(w) /\ UNCHANGED loaded
       ELSE /\ loaded' = effect
            /\ IF next = "done" THEN Done(w) ELSE StepsTo(w, next) /\ UNCHANGED <<lock, plan>>
    /\ UNCHANGED <<rows, disk, spent>>

ReloadRtp(w) ==
    /\ job[w].step = "reload rtp" /\ UNCHANGED pbx
    /\ Reaches(w, [loaded EXCEPT !.ice = file.ice], "unmark rtp")

UnmarkRtp(w) ==
    /\ job[w].step = "unmark rtp" /\ markers' = markers \ {"rtp"} /\ StepsTo(w, "apply")
    /\ UNCHANGED <<rows, file, local, lock, plan, asterisk, spent>>

\* "core restart when convenient": Asterisk goes on until no call is up.
AskRestart(w) ==
    /\ job[w].step = "apply" /\ plan.restart
    /\ pbx' = [pbx EXCEPT !.waiting = @ \/ pbx.state = "up"]
    /\ Reaches(w, loaded, "verify")

\* It answers before it has gone down as well as after it has come back; a
\* new container that waits for the lock is given up on.
Verify(w) ==
    /\ job[w].step = "verify"
    /\ \/ pbx.state = "up" /\ StepsTo(w, "unmark restart") /\ UNCHANGED <<lock, plan>>
       \/ pbx.state = "down" /\ Raises(w)
    /\ UNCHANGED <<rows, disk, asterisk, spent>>

UnmarkRestart(w) ==
    /\ job[w].step = "unmark restart" /\ markers' = markers \ {"restart"} /\ Done(w)
    /\ UNCHANGED <<rows, file, local, asterisk, spent>>

\* A reload adds and edits sections; those gone from the file stay.
ReloadPjsip(w) ==
    /\ job[w].step = "apply" /\ ~plan.restart /\ UNCHANGED pbx
    /\ Reaches(w, [loaded EXCEPT !.pjsip = @ \cup file.pjsip], "reload voicemail")

ReloadVoicemail(w) ==
    /\ job[w].step = "reload voicemail" /\ UNCHANGED pbx
    /\ Reaches(w, [loaded EXCEPT !.voicemail = file.voicemail], "reload dialplan")

ReloadDialplan(w) ==
    /\ job[w].step = "reload dialplan" /\ UNCHANGED pbx
    /\ Reaches(w, [loaded EXCEPT !.dialplan = file.dialplan], "done")

Sync(w) ==
    \/ Render(w) \/ WritePublic(w) \/ MarkRtp(w)
    \/ \E f \in {"ice", "transports", "pjsip", "dialplan", "voicemail"} : Write(w, f)
    \/ ReloadRtp(w) \/ UnmarkRtp(w) \/ AskRestart(w) \/ Verify(w) \/ UnmarkRestart(w)
    \/ ReloadPjsip(w) \/ ReloadVoicemail(w) \/ ReloadDialplan(w)

-----------------------------------------------------------------------------
(* Asterisk.                                                               *)

Stops(state) == pbx' = [state |-> state, waiting |-> FALSE]

CallsEnd ==
    /\ pbx.state = "up" /\ pbx.waiting /\ Stops("starting")
    /\ UNCHANGED <<rows, disk, lock, job, plan, booted, loaded, missed, spent>>

\* The container is recreated, often with another address.
Recreate ==
    /\ pbx.state = "up" /\ Spends("faults", MaxFaults) /\ Stops("down")
    /\ UNCHANGED <<rows, disk, lock, job, plan, booted, loaded, missed>>

\* Mutant: without the lock.
ConfigureIceAtOnce ==
    /\ pbx.state = "down"
    /\ local' \in {local, spent.faults}
    /\ file' = [file EXCEPT !.ice = Ice(local', file.public)]
    /\ Stops("starting")
    /\ UNCHANGED <<rows, markers, lock, job, plan, booted, loaded, missed, spent>>
\* Before Asterisk starts, its container publishes the address and maps it.
ConfigureIce ==
    /\ pbx.state = "down" /\ lock = nobody
    /\ local' \in {local, spent.faults}
    /\ file' = [file EXCEPT !.ice = Ice(local', file.public)]
    /\ Stops("starting")
    /\ UNCHANGED <<rows, markers, lock, job, plan, booted, loaded, missed, spent>>

Starts ==
    /\ pbx.state = "starting" /\ loaded' = Loads(file)
    /\ pbx' = [pbx EXCEPT !.state = "up"]
    /\ UNCHANGED <<rows, disk, lock, job, plan, booted, missed, spent>>

SyncNext ==
    \/ RetryPending \/ CallsEnd \/ Recreate \/ ConfigureIce \/ Starts
    \/ \E w \in Process : Edit(w) \/ TakeLock(w) \/ Sync(w) \/ Fail(w) \/ Crash(w)

\* flock serves whoever waits when the worker sleeps between two tries; a
\* busy exchange has a moment without calls.
Fairness ==
    /\ WF_syncVars(RetryPending) /\ WF_syncVars(CallsEnd) /\ SF_syncVars(ConfigureIce) /\ WF_syncVars(Starts)
    /\ \A w \in Process : SF_syncVars(TakeLock(w)) /\ WF_syncVars(Sync(w))

SyncSpec == SyncInit /\ [][SyncNext]_syncVars /\ Fairness

-----------------------------------------------------------------------------
(* Properties.                                                             *)

\* Files, markers and jobs are what the code writes; whoever is past the lock
\* holds it, and whoever has rendered has a plan.
SyncTypeOK ==
    /\ rows \in Rows /\ file \in Files /\ local \in 0..MaxFaults
    /\ DOMAIN loaded = {"ice", "transports", "pjsip", "dialplan", "voicemail"}
    /\ markers \subseteq {"restart", "rtp"} /\ lock \in Process \cup {nobody}
    /\ job \in [Process -> [step : Steps, pending : BOOLEAN]]
    /\ \A w \in Process :
         /\ lock = w <=> job[w].step \notin {"idle", "lock"}
         /\ job[w].step \notin {"idle", "lock", "render"} => plan \in Plans
         /\ job[w].pending => w = ari
    /\ {booted, missed} \subseteq BOOLEAN
    /\ pbx \in [state : {"up", "down", "starting"}, waiting : BOOLEAN]
    /\ spent \in [edits : 0..MaxEdits, faults : 0..MaxFaults]

\* A running Asterisk that answers for a section the files have dropped, or
\* with an old transport, has been asked to restart or is on record as owed
\* one; one with an old RTP address is owed that reload (_apply_locked,
\* _prepare_webrtc_ice).
OwedKept ==
    pbx.state = "up" =>
        /\ \/ loaded.transports = file.transports /\ loaded.pjsip \subseteq file.pjsip
           \/ "restart" \in markers \/ pbx.waiting
        /\ loaded.ice = file.ice \/ "rtp" \in markers

\* When no change is waiting to be applied and none was cut short, the files
\* say what the database says, however requests, the worker and Asterisk's
\* own start have overlapped (_run_locked, configure-ice.sh).
FilesFollow ==
    (\A w \in Api : job[w] = AtRest) /\ lock = nobody /\ ~missed => file = Rendered(rows, local)

\* Once the settings can be rendered again, nothing stays owed: Asterisk
\* drops what was deleted and moves to the new address (retry_pending).
OwedInTheEnd ==
    <>[]Renderable(rows) =>
        <>[](/\ markers = {}
             /\ loaded.transports = file.transports /\ loaded.pjsip \subseteq file.pjsip /\ loaded.ice = file.ice)
=============================================================================
