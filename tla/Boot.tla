-------------------------------- MODULE Boot --------------------------------
(***************************************************************************)
(* Every process that starts - the two gunicorn workers of the API and the *)
(* ARI worker - brings the same MySQL database up to date before it        *)
(* serves: columns, one-time settings, the move of extensions onto phone   *)
(* numbers, the first administrator, the rows of the environment, and the  *)
(* voicemail folders of an older release.  A boot that raises takes its    *)
(* container down, and Docker starts the container again.                  *)
(***************************************************************************)
EXTENDS Integers, FiniteSets

CONSTANTS
    Workers,
    Container,      \* per worker: the container that restarts as one
    Numbers,        \* phone number rows, by id
    NumberOwner,    \* their customers
    Main,           \* the default outbound numbers
    OldLink,        \* per number: digits its inbound link names, 0 for none
    Rows,           \* legacy extension rows, 1 .. n by id
    OldKey,         \* per row: [digits, line], line 0 for bare digits
    RowOwner,       \* per row: customer, 0 for the platform
    Messages,       \* messages left in folders named by bare digits
    LeftFor,        \* per message: the row they were left for
    MaxCrashes,     \* bound: containers killed and locks waited for too long
    MaxEdits        \* bound: requests of administrators

ASSUME BootAssumption ==
    /\ IsFiniteSet(Rows) /\ Rows = 1 .. Cardinality(Rows) /\ Numbers \subseteq Nat \ {0}
    /\ OldKey \in [Rows -> [digits : Nat, line : Nat]]
    /\ \A r, q \in Rows : OldKey[r] = OldKey[q] => r = q    \* the legacy primary key
    /\ MaxCrashes \in Nat /\ MaxEdits \in Nat

VARIABLES
    pc,         \* per worker: the step of its boot
    schema,     \* [columns, key, unique] of the tables
    flags,      \* one-time settings written so far
    cutover,    \* voicemail_associated_email_since_ms, 0 before it is set
    retried,    \* times the mails SendGrid refused were given new attempts
    recording,  \* recording_enabled, the platform's switch
    ext,        \* extension rows: [digits, line, number, sip] or Gone
    link,       \* numbers: inbound_extension [digits, line]
    device,     \* a device account's extension [digits, line]
    admins,     \* first administrator created
    seeds,      \* the extension of the environment
    folder,     \* messages: mailbox [digits, line]
    seen,       \* per worker: what it read and has not yet acted on
    plan,       \* per worker: the number it decided on for each row
    moved,      \* history: rows an administrator has moved
    now, crashes, edits

seed   == <<flags, cutover, retried, recording>>
data   == <<ext, link, device>>
people == <<admins, seeds, folder>>
limits == <<moved, crashes, edits>>
mind   == <<seen, plan>>
vars   == <<pc, schema, seed, data, people, mind, limits, now>>

Steps == {"down", "schema", "alter", "recording", "settings", "lock", "key", "read", "write",
          "names", "admin", "bootstrap", "adopt", "up"}
MigrationHeld == {"key", "read", "write", "names"}     \* pcs inside the advisory lock
Gone   == [digits |-> 0, line |-> 0, number |-> 0, sip |-> "own"]
NoPlan == [r \in Rows |-> 0]
NoLink == [digits |-> 0, line |-> 0]
Bare(d) == [digits |-> d, line |-> 0]

DeviceOwner  == 1
DeviceDigits == 1

Init ==
    /\ pc = [w \in Workers |-> "down"]
    /\ schema = [columns |-> FALSE, key |-> "digits", unique |-> FALSE]
    /\ flags = {} /\ cutover = 0 /\ retried = 0
    /\ recording \in {"unset", "on", "off"}
    /\ ext = [r \in Rows |-> [digits |-> OldKey[r].digits, line |-> OldKey[r].line, number |-> 0, sip |-> "digits"]]
    /\ link = [n \in Numbers |-> Bare(OldLink[n])]
    /\ device = Bare(DeviceDigits)
    /\ admins \in BOOLEAN /\ seeds = "none"
    /\ folder = [m \in Messages |-> Bare(OldKey[LeftFor[m]].digits)]
    /\ seen = [w \in Workers |-> "nothing"] /\ plan = [w \in Workers |-> NoPlan]
    /\ moved = {} /\ now = 1 /\ crashes = 0 /\ edits = 0

Goes(w, from, to) == pc[w] = from /\ pc' = [pc EXCEPT ![w] = to]
Sees(w, what)     == seen' = [seen EXCEPT ![w] = what] /\ UNCHANGED plan

\* An exception ends the boot: gunicorn halts with its other worker, wsgi.py
\* and ari_worker.py pause and exit, and the container comes up again.
Falls(w) ==
    /\ pc' = [v \in Workers |-> IF Container[v] = Container[w] THEN "down" ELSE pc[v]]
    /\ seen' = [v \in Workers |-> IF Container[v] = Container[w] THEN "nothing" ELSE seen[v]]
    /\ plan' = [v \in Workers |-> IF Container[v] = Container[w] THEN NoPlan ELSE plan[v]]

Start(w) == Goes(w, "down", "schema") /\ UNCHANGED <<schema, seed, data, people, mind, limits, now>>
----------------------------------------------------------------------------
(* create_all and the one-time settings. *)

\* GET_LOCK gives up after two minutes, and create_all goes on without it.
InspectColumns(w) ==
    /\ Goes(w, "schema", "alter")
    /\ Sees(w, IF schema.columns THEN "present" ELSE "missing")
    /\ UNCHANGED <<schema, seed, data, people, limits, now>>

\* A column that another process has added meanwhile is a duplicate, an error.
AlterTables(w) ==
    /\ pc[w] = "alter"
    /\ IF seen[w] = "missing" /\ schema.columns
       THEN Falls(w) /\ UNCHANGED schema
       ELSE Goes(w, "alter", "recording") /\ Sees(w, "nothing") /\ schema' = [schema EXCEPT !.columns = TRUE]
    /\ UNCHANGED <<seed, data, people, limits, now>>

ReadRecording(w) ==
    /\ Goes(w, "recording", "settings")
    /\ Sees(w, IF "recording" \in flags THEN "present" ELSE "missing")
    /\ UNCHANGED <<schema, seed, data, people, limits, now>>

Cutover == IF cutover = 0 THEN now ELSE cutover             \* INSERT IGNORE
Retries == IF "elastic" \in flags THEN retried ELSE retried + 1

WriteSettings(w) ==
    /\ Goes(w, "settings", "lock")
    /\ recording' = IF seen[w] = "missing" THEN "on" ELSE recording
    /\ cutover' = Cutover /\ retried' = Retries
    /\ flags' = flags \cup {"recording", "elastic"}
    /\ Sees(w, "nothing")
    /\ UNCHANGED <<schema, data, people, limits, now>>
----------------------------------------------------------------------------
(* The identity migration, under the advisory lock. *)

\* Mutant: the lock is not waited for.
MigrationUnlocked(w) == TRUE

\* One boot at a time migrates; one that waits two minutes for it raises.
MigrationFree(w) == \A v \in Workers \ {w} : pc[v] \notin MigrationHeld

TakeLock(w) ==
    /\ MigrationFree(w)
    /\ Goes(w, "lock", "key")
    /\ UNCHANGED <<schema, seed, data, people, mind, limits, now>>

LockTimesOut(w) ==
    /\ pc[w] = "lock" /\ ~MigrationFree(w)
    /\ crashes < MaxCrashes /\ crashes' = crashes + 1
    /\ Falls(w)
    /\ UNCHANGED <<schema, seed, data, people, moved, edits, now>>

\* One DDL statement at a time, each committed by itself.
\* Mutant: a key already dropped is not noticed.
NextKeyFromOld == IF schema.key = "digits" THEN "none" ELSE schema.key

NextKey == IF schema.key = "digits" THEN "none" ELSE "id"

AlterKey(w) ==
    /\ pc[w] = "key"
    /\ IF schema.key = "id" /\ schema.unique
       THEN Goes(w, "key", "read") /\ UNCHANGED schema
       ELSE /\ schema' = IF schema.key # "id" THEN [schema EXCEPT !.key = NextKey] ELSE [schema EXCEPT !.unique = TRUE]
            /\ UNCHANGED pc
    /\ UNCHANGED <<seed, data, people, mind, limits, now>>

\* Mutant: the first number, whoever owns it.
MainOfAll(owner) == CHOOSE n \in Numbers : \A m \in Numbers : n <= m

Lowest(S) == CHOOSE n \in S : \A m \in S : n <= m

MainNumber(owner) ==
    LET own == {n \in Numbers : NumberOwner[n] = owner}
    IN  IF own = {} THEN 0 ELSE IF own \cap Main # {} THEN Lowest(own \cap Main) ELSE Lowest(own)

Linked(r) == {n \in Numbers : NumberOwner[n] = RowOwner[r] /\ link[n].digits = ext[r].digits}

\* The number a row names already, by its key or by its column.
Named(r) == IF ext[r].line \in Numbers THEN ext[r].line ELSE ext[r].number

\* Row k chooses: a number that links to its digits, then the main line,
\* skipping every number on which the digits are taken.
Chosen(place, k) ==
    LET free(n) == n # 0 /\ \A q \in Rows : <<place[q], ext[q].digits>> # <<n, ext[k].digits>>
        links   == {n \in Linked(k) : free(n)}
        choices == IF links # {} THEN links ELSE {n \in {MainNumber(RowOwner[k])} : free(n)}
    IN  IF Named(k) # 0 \/ RowOwner[k] = 0 \/ choices = {} THEN place
        ELSE [place EXCEPT ![k] = Lowest(choices)]

\* Rows choose in turn.
PlanUpTo[k \in 0 .. Cardinality(Rows)] ==
    IF k = 0 THEN [r \in Rows |-> Named(r)] ELSE Chosen(PlanUpTo[k - 1], k)

Plan == PlanUpTo[Cardinality(Rows)]

ReadIdentity(w) ==
    /\ IF "identity" \in flags
       THEN Goes(w, "read", "names") /\ UNCHANGED plan
       ELSE Goes(w, "read", "write") /\ plan' = [plan EXCEPT ![w] = Plan]
    /\ UNCHANGED seen
    /\ UNCHANGED <<schema, seed, data, people, limits, now>>

Placed(to) ==
    [r \in Rows |-> IF ext[r] = Gone THEN Gone ELSE [ext[r] EXCEPT !.line = 0, !.number = to[r]]]

\* A bare reference becomes a key while one row of the account can be meant.
Rekeyed(ref, to, candidates) ==
    IF ref.digits = 0 \/ ref.line # 0 \/ Cardinality(candidates) # 1 THEN ref
    ELSE [ref EXCEPT !.line = to[CHOOSE r \in candidates : TRUE]]

WriteIdentity(w) ==
    /\ Goes(w, "write", "names")
    /\ LET to == plan[w]
           at(d, n) == {r \in Rows : ext[r].digits = d /\ to[r] = n}
           mine == {r \in Rows : ext[r].digits = device.digits /\ to[r] # 0 /\ RowOwner[r] = DeviceOwner}
       IN  /\ ext' = Placed(to)
           /\ device' = Rekeyed(device, to, mine)
           /\ link' = [n \in Numbers |-> Rekeyed(link[n], to, at(link[n].digits, n))]
    /\ flags' = flags \cup {"identity"}
    /\ plan' = [plan EXCEPT ![w] = NoPlan] /\ UNCHANGED seen
    /\ UNCHANGED <<schema, cutover, retried, recording, people, limits, now>>

NormaliseNames(w) ==
    /\ Goes(w, "names", "admin")
    /\ ext' = [r \in Rows |-> [ext[r] EXCEPT !.sip = "own"]]
    /\ UNCHANGED <<schema, seed, link, device, people, mind, limits, now>>
----------------------------------------------------------------------------
(* The first administrator, the rows of the environment, the old folders.  *)

\* Each reads first and inserts then: a second process that also read "none"
\* violates a unique key, and its boot ends.
FirstAdmin(w) ==
    /\ pc[w] = "admin"
    /\ IF seen[w] = "nothing" /\ ~admins
       THEN Sees(w, "none") /\ UNCHANGED <<pc, admins>>
       ELSE IF seen[w] = "none" /\ admins THEN Falls(w) /\ UNCHANGED admins
       ELSE Goes(w, "admin", "bootstrap") /\ Sees(w, "nothing") /\ admins' = TRUE
    /\ UNCHANGED <<schema, seed, data, seeds, folder, limits, now>>

Bootstrap(w) ==
    /\ pc[w] = "bootstrap"
    /\ IF seen[w] = "nothing" /\ "bootstrap" \notin flags
       THEN Sees(w, "none") /\ UNCHANGED <<pc, flags, seeds>>
       ELSE IF seen[w] = "none" /\ "bootstrap" \in flags THEN Falls(w) /\ UNCHANGED <<flags, seeds>>
       ELSE /\ Goes(w, "bootstrap", "adopt")
            /\ seeds' = IF seen[w] = "none" THEN "there" ELSE seeds
            /\ flags' = flags \cup {"bootstrap"}
            /\ Sees(w, "nothing")
    /\ UNCHANGED <<schema, cutover, retried, recording, data, admins, folder, limits, now>>

\* Folders move while one row has their digits, and no row has them bare.
Scoped(d) == {r \in Rows : ext[r].digits = d /\ ext[r].number # 0}
Adopters(d) == IF \E r \in Rows : ext[r].digits = d /\ ext[r].number = 0 THEN {} ELSE Scoped(d)

AdoptMailboxes(w) ==
    /\ Goes(w, "adopt", "up")
    /\ folder' = [m \in Messages |->
           LET heirs == Adopters(folder[m].digits)
           IN  IF folder[m].line = 0 /\ Cardinality(heirs) = 1
               THEN [folder[m] EXCEPT !.line = ext[CHOOSE r \in heirs : TRUE].number] ELSE folder[m]]
    /\ UNCHANGED <<schema, seed, data, admins, seeds, mind, limits, now>>
----------------------------------------------------------------------------
(* What happens around the boots. *)

Served == \E w \in Workers : pc[w] = "up"
Edit   == Served /\ edits < MaxEdits /\ edits' = edits + 1

MoveRow(r, n) ==
    /\ Edit
    /\ ext[r] # Gone /\ RowOwner[r] = NumberOwner[n] /\ n # ext[r].number
    /\ \A q \in Rows : ext[q].digits = ext[r].digits => ext[q].number # n
    /\ ext' = [ext EXCEPT ![r].number = n]
    /\ moved' = moved \cup {r}
    /\ UNCHANGED <<pc, schema, seed, link, device, people, mind, crashes, now>>

DeleteRow(r) ==
    /\ Edit
    /\ ext[r] # Gone
    /\ \A n \in Numbers : link[n] # [digits |-> ext[r].digits, line |-> ext[r].number]
    /\ ext' = [ext EXCEPT ![r] = Gone]
    /\ device' = IF device = Bare(ext[r].digits) THEN NoLink ELSE device
    /\ UNCHANGED <<pc, schema, seed, link, people, mind, moved, crashes, now>>

DropSeed ==
    /\ Edit
    /\ seeds = "there" /\ seeds' = "dropped"
    /\ UNCHANGED <<pc, schema, seed, data, admins, folder, mind, moved, crashes, now>>

ChooseRecording ==
    /\ Edit
    /\ \E choice \in {"on", "off"} : recording' = choice
    /\ UNCHANGED <<pc, schema, flags, cutover, retried, data, people, mind, moved, crashes, now>>

Crash(w) ==
    /\ crashes < MaxCrashes /\ crashes' = crashes + 1
    /\ pc[w] # "down"
    /\ Falls(w)
    /\ now' = now + 1
    /\ UNCHANGED <<schema, seed, data, people, moved, edits>>
----------------------------------------------------------------------------
Booting(w) ==
    \/ Start(w) \/ InspectColumns(w) \/ AlterTables(w) \/ ReadRecording(w) \/ WriteSettings(w)
    \/ TakeLock(w) \/ AlterKey(w) \/ ReadIdentity(w) \/ WriteIdentity(w) \/ NormaliseNames(w)
    \/ FirstAdmin(w) \/ Bootstrap(w) \/ AdoptMailboxes(w)

Requests ==
    \/ \E r \in Rows : DeleteRow(r) \/ \E n \in Numbers : MoveRow(r, n)
    \/ DropSeed \/ ChooseRecording

Next ==
    \/ \E w \in Workers : Booting(w) \/ LockTimesOut(w) \/ Crash(w)
    \/ Requests

\* Docker starts a container that has exited, and a process that runs goes on.
Spec == Init /\ [][Next]_vars /\ \A w \in Workers : WF_vars(Booting(w))
----------------------------------------------------------------------------
\* Where row r could have gone: the numbers of its customer that linked to its
\* digits, and that customer's main line.
LinesFor(r) ==
    {n \in Numbers : /\ NumberOwner[n] = RowOwner[r]
                     /\ OldLink[n] = OldKey[r].digits \/ n = MainNumber(RowOwner[r])}

\* What a process that serves can rely on, and what the migration promises:
\* every row that was not moved since is the desk it was - same digits, on the
\* line its key named, else on a line of its own customer that linked to it or
\* is the main one - no two rows are one desk, and no row that had a free line
\* was left without one (_migrate_extension_identity).
Upgraded ==
    Served =>
    /\ schema = [columns |-> TRUE, key |-> "id", unique |-> TRUE]
    /\ flags = {"recording", "elastic", "identity", "bootstrap"}
    /\ \A r \in Rows : ext[r] # Gone =>
        /\ ext[r].digits = OldKey[r].digits /\ ext[r].sip = "own"
        /\ r \notin moved /\ OldKey[r].line \in Numbers => ext[r].number = OldKey[r].line
        /\ r \notin moved /\ OldKey[r].line \notin Numbers => ext[r].number \in {0} \cup LinesFor(r)
        /\ r \in moved => NumberOwner[ext[r].number] = RowOwner[r]
        /\ r \notin moved /\ RowOwner[r] # 0 /\ ext[r].number = 0 =>
               \A n \in LinesFor(r) : \E q \in Rows \ {r} :
                   OldKey[q].digits = OldKey[r].digits /\ (ext[q].number = n \/ ext[q] = Gone \/ q \in moved)
    /\ \A r, q \in Rows : r # q /\ ext[r].number # 0 =>
           <<ext[r].digits, ext[r].number>> # <<ext[q].digits, ext[q].number>>

\* The one-time steps happen once, whatever restarts: the voicemail cutover
\* never moves forward, refused mails get one more chance, a row of the
\* environment that was deleted does not come back, and once the identities
\* are written a boot moves no extension any more.
OneTime ==
    [][ /\ cutover # 0 => cutover' = cutover
        /\ retried' <= 1
        /\ seeds = "dropped" => seeds' = "dropped"
        /\ "identity" \in flags /\ edits' = edits =>
               \A r \in Rows : ext'[r].number = ext[r].number ]_vars

\* However often containers are killed, and whatever a boot that lost a race
\* trips over, in the end every process serves.
BootsAtLast == <>[](\A w \in Workers : pc[w] = "up")

\* "a customer's messages must never be merged into the wrong box"
\* (adopt_legacy_mailboxes): a message only moves to the row it was left for.
BoxKept ==
    [][\A m \in Messages : folder'[m] # folder[m] =>
           ext[LeftFor[m]] # Gone /\ folder'[m].line = ext[LeftFor[m]].number]_vars
=============================================================================
