----------------------------- MODULE Recording -----------------------------
(***************************************************************************)
(* The recording of one bridged call (src/app/services.py): what the row   *)
(* of the call says of it, and what Asterisk has.  The event thread of the *)
(* ARI worker starts it and hears of its end, the worker's main thread     *)
(* looks for ends nobody heard of and deletes what is too old, and a       *)
(* hangup request ends the call from another process.                      *)
(***************************************************************************)
EXTENDS Naturals

CONSTANTS
    Legs,         \* the two channels in the bridge
    MaxRequests,  \* bound: hangup requests
    MaxFaults     \* bound: processes killed, sockets and answers lost

ASSUME RecordingAssumption ==
    /\ {"RecordingFinished", "RecordingFailed"} \cap Legs = {}
    /\ {MaxRequests, MaxFaults} \subseteq Nat

VARIABLES
    row,        \* calls: recording_status, whether recording_name is set, the call's end
    talking,    \* Asterisk: legs in the bridge ...
    bridge,     \* ... which exists until it is destroyed
    tape,       \* Asterisk: the recording
    events,     \* sent to the worker and not yet handled
    job,        \* per thread: its step, and the row it read
    scan,       \* the main thread's step
    worker,     \* the worker's process and its socket
    requests, faults

pbx  == <<talking, bridge, tape>>
vars == <<row, pbx, events, job, scan, worker, requests, faults>>

Thread == {"events", "request"}
Status == {"none", "recording", "finalizing", "finalized", "failed", "deleted"}
Row    == [rec : Status, name : BOOLEAN, answered : BOOLEAN,
           ended : BOOLEAN, completed : BOOLEAN]    \* ended and not completed is failed
Fresh  == [rec |-> "none", name |-> FALSE, answered |-> FALSE, ended |-> FALSE, completed |-> FALSE]
Idle   == [at |-> "idle", call |-> Fresh]

\* _start_bridge has built the bridge and written its name.
Init ==
    /\ row = Fresh
    /\ talking = Legs /\ bridge = TRUE /\ tape = "blank"
    /\ events = {}
    /\ job = [w \in Thread |-> IF w = "events" THEN [Idle EXCEPT !.at = "bridged"] ELSE Idle]
    /\ scan = "idle" /\ worker = "up" /\ requests = 0 /\ faults = 0

At(w, step)   == job[w].at = step
Goes(w, step) == job' = [job EXCEPT ![w].at = step]
Ends(w)       == job' = [job EXCEPT ![w] = Idle]
Records(s)    == row' = [row EXCEPT !.rec = s]
Spends        == faults < MaxFaults /\ faults' = faults + 1

\* What Asterisk sends while the socket is down reaches nobody.
Sends(S) == events' = IF worker = "up" THEN events \cup S ELSE events

-----------------------------------------------------------------------------
(* The event thread starts the recording (_start_bridge).                  *)

\* Both switches agree, or the call goes on without a recording.
Intend ==
    /\ At("events", "bridged")
    /\ \/ row' = [row EXCEPT !.name = TRUE, !.rec = "recording"] /\ Goes("events", "start")
       \/ UNCHANGED row /\ Goes("events", "answer")
    /\ UNCHANGED <<pbx, events, scan, worker, requests, faults>>

\* Asterisk may refuse: the bridge is gone, the file cannot be opened.
StartRecording ==
    /\ At("events", "start")
    /\ \/ bridge /\ tape' = "running" /\ Goes("events", "answer")
       \/ UNCHANGED tape /\ Goes("events", "start failed")
    /\ UNCHANGED <<row, talking, bridge, events, scan, worker, requests, faults>>

\* The request has been carried out and its answer is late.
StartTimesOut ==
    /\ At("events", "start") /\ Spends
    /\ bridge /\ tape' = "running" /\ Goes("events", "start failed")
    /\ UNCHANGED <<row, talking, bridge, events, scan, worker, requests>>

StartFailed ==
    /\ At("events", "start failed")
    /\ Records("failed") /\ Goes("events", "answer")
    /\ UNCHANGED <<pbx, events, scan, worker, requests, faults>>

\* The rest of the handler: the call counts as answered unless it has failed.
Answer ==
    /\ At("events", "answer")
    /\ row' = [row EXCEPT !.answered = ~row.ended \/ row.completed \/ @]
    /\ Ends("events")
    /\ UNCHANGED <<pbx, events, scan, worker, requests, faults>>

-----------------------------------------------------------------------------
(* The end of the call.                                                    *)

\* A leg has gone: the other one is hung up and the call finalized.
ChannelDestroyed ==
    /\ At("events", "idle") /\ worker = "up"
    /\ \E l \in events \cap Legs :
         IF row.ended THEN events' = events \ {l} /\ UNCHANGED <<job, talking>>
         ELSE /\ Goes("events", "finalize")
              /\ talking' = {} /\ events' = (events \ {l}) \cup talking
    /\ UNCHANGED <<row, bridge, tape, scan, worker, requests, faults>>

\* hangup, asked for through the API.
Hangup ==
    /\ At("request", "idle") /\ requests < MaxRequests /\ requests' = requests + 1
    /\ Goes("request", "finalize")
    /\ talking' = {} /\ Sends(talking)
    /\ UNCHANGED <<row, bridge, tape, scan, worker, faults>>

ReadCall(w) ==
    /\ At(w, "finalize")
    /\ IF row.completed THEN Ends(w)
       ELSE job' = [job EXCEPT ![w] = [at |-> IF row.name THEN "mark" ELSE "stop", call |-> row]]
    /\ UNCHANGED <<row, pbx, events, scan, worker, requests, faults>>

\* A finish that is recorded already is not taken back.
MarkFinalizing(w) ==
    /\ At(w, "mark")
    /\ Records(IF row.rec = "recording" THEN "finalizing" ELSE row.rec)
    /\ Goes(w, "stop")
    /\ UNCHANGED <<pbx, events, scan, worker, requests, faults>>

\* A running recording is stored, and Asterisk says so.
Stopped ==
    /\ tape' = IF tape = "running" THEN "stored" ELSE tape
    /\ Sends(IF tape = "running" THEN {"RecordingFinished"} ELSE {})

StopRecording(w) ==
    /\ At(w, "stop") /\ Goes(w, "destroy")
    /\ IF job[w].call.rec = "recording" THEN Stopped ELSE UNCHANGED <<tape, events>>
    /\ UNCHANGED <<row, talking, bridge, scan, worker, requests, faults>>

DestroyBridge(w) ==
    /\ At(w, "destroy") /\ Goes(w, "end")
    /\ bridge' = FALSE /\ Stopped
    /\ UNCHANGED <<row, talking, scan, worker, requests, faults>>

\* A late answer is no AsteriskError: it ends the handler, after a hangup
\* ("finalize", "stop") or after a stop or a destruction, done or not.
TimesOut(w) ==
    /\ Spends /\ Ends(w)
    /\ \/ job[w].at \in {"finalize", "stop", "destroy"} /\ UNCHANGED <<bridge, tape, events>>
       \/ At(w, "stop") /\ job[w].call.rec = "recording" /\ Stopped /\ UNCHANGED bridge
       \/ At(w, "destroy") /\ bridge' = FALSE /\ Stopped
    /\ UNCHANGED <<row, talking, scan, worker, requests>>

EndCall(w) ==
    /\ At(w, "end") /\ Ends(w)
    /\ row' = [row EXCEPT !.ended = TRUE,
                          !.completed = job[w].call.answered /\ ~job[w].call.ended]
    /\ UNCHANGED <<pbx, events, scan, worker, requests, faults>>

Finalize(w) ==
    ReadCall(w) \/ MarkFinalizing(w) \/ StopRecording(w) \/ DestroyBridge(w) \/ EndCall(w)

-----------------------------------------------------------------------------
(* News of the recording.                                                  *)

RecordingEvent ==
    /\ At("events", "idle") /\ worker = "up"
    /\ \E e \in events \ Legs :
         /\ events' = events \ {e}
         /\ IF row.name THEN Records(IF e = "RecordingFinished" THEN "finalized" ELSE "failed")
            ELSE UNCHANGED row
    /\ UNCHANGED <<pbx, job, scan, worker, requests, faults>>

\* The handler asks for the file first, and the answer does not come.
RecordingEventFails ==
    /\ At("events", "idle") /\ worker = "up" /\ Spends
    /\ "RecordingFinished" \in events /\ events' = events \ {"RecordingFinished"}
    /\ UNCHANGED <<row, pbx, job, scan, worker, requests>>

\* Mutant: only a recording whose call has not been finalized is looked for.
StaleRecordingsOnly == row.name /\ row.rec = "recording"
StaleRecordings     == row.name /\ row.rec \in {"recording", "finalizing"}

Reconcile ==
    /\ worker # "down" /\ scan = "idle" /\ StaleRecordings /\ row.ended
    /\ scan' = "stale"
    /\ UNCHANGED <<row, pbx, events, job, worker, requests, faults>>

\* Mutant: a recording Asterisk does not have is taken to be finished.
Presumed    == TRUE
FoundStored == tape = "stored"

\* No answer, or no file, is no evidence of anything.
NotFound ==
    /\ scan = "stale" /\ scan' = "idle"
    /\ UNCHANGED <<row, pbx, events, job, worker, requests, faults>>
Found ==
    /\ scan = "stale" /\ scan' = "idle"
    /\ FoundStored /\ Records("finalized")
    /\ UNCHANGED <<pbx, events, job, worker, requests, faults>>

\* Retention is counted in days: whatever the call left to do is over.
Cleanup ==
    /\ worker # "down" /\ scan = "idle" /\ events = {} /\ \A w \in Thread : job[w] = Idle
    /\ row.name /\ row.ended /\ row.rec # "deleted"
    /\ tape = "stored" /\ tape' = "erased" /\ scan' = "erased"
    /\ UNCHANGED <<row, talking, bridge, events, job, worker, requests, faults>>
RecordDeleted ==
    /\ scan = "erased" /\ scan' = "idle"
    /\ Records("deleted")
    /\ UNCHANGED <<pbx, events, job, worker, requests, faults>>

-----------------------------------------------------------------------------
(* People, Asterisk and trouble.                                           *)

HangsUp ==
    /\ \E l \in talking : talking' = talking \ {l} /\ Sends({l})
    /\ UNCHANGED <<row, bridge, tape, job, scan, worker, requests, faults>>

\* The longest duration is reached, or writing fails.
RecordingStops ==
    /\ tape = "running"
    /\ \/ Stopped
       \/ tape' = "spoilt" /\ Sends({"RecordingFailed"})
    /\ UNCHANGED <<row, talking, bridge, job, scan, worker, requests, faults>>

\* The worker is killed, and with it its threads and what was sent to it.
Crash ==
    /\ worker # "down" /\ Spends
    /\ worker' = "down" /\ events' = {} /\ scan' = "idle" /\ Ends("events")
    /\ UNCHANGED <<row, pbx, requests>>
CrashApi ==
    /\ job["request"] # Idle /\ Spends /\ Ends("request")
    /\ UNCHANGED <<row, pbx, events, scan, worker, requests>>

\* recover_incomplete_calls, before the socket is opened: nothing more is
\* done when Asterisk does not list its channels.
Recover ==
    /\ worker = "down" /\ worker' = "unconnected"
    /\ \/ /\ row' = [row EXCEPT !.ended = @ \/ talking = {},
                                !.answered = @ \/ (talking = Legs /\ ~row.ended)]
          /\ UNCHANGED faults
       \/ Spends /\ UNCHANGED row
    /\ UNCHANGED <<pbx, events, job, scan, requests>>

Disconnect ==
    /\ worker = "up" /\ Spends
    /\ worker' = "unconnected" /\ events' = {}
    /\ UNCHANGED <<row, pbx, job, scan, requests>>
Connect ==
    /\ worker = "unconnected" /\ At("events", "idle") /\ worker' = "up"
    /\ UNCHANGED <<row, pbx, events, job, scan, requests, faults>>

Next ==
    \/ Intend \/ StartRecording \/ StartTimesOut \/ StartFailed \/ Answer
    \/ ChannelDestroyed \/ Hangup \/ RecordingEvent \/ RecordingEventFails
    \/ \E w \in Thread : Finalize(w) \/ TimesOut(w)
    \/ Reconcile \/ NotFound \/ Found \/ Cleanup \/ RecordDeleted
    \/ HangsUp \/ RecordingStops
    \/ Crash \/ CrashApi \/ Recover \/ Disconnect \/ Connect

\* Threads run, the container restarts, the socket is opened again; Asterisk
\* answers in the end when it is asked for a file again and again.
Fairness ==
    /\ WF_vars(Intend) /\ WF_vars(StartRecording) /\ WF_vars(StartFailed) /\ WF_vars(Answer)
    /\ WF_vars(ChannelDestroyed) /\ WF_vars(RecordingEvent)
    /\ \A w \in Thread : WF_vars(Finalize(w))
    /\ WF_vars(Reconcile) /\ SF_vars(Found) /\ WF_vars(RecordDeleted)
    /\ WF_vars(Recover) /\ WF_vars(Connect)

Spec == Init /\ [][Next]_vars /\ Fairness

-----------------------------------------------------------------------------
(* Properties.                                                             *)

Steps == {"idle", "bridged", "start", "start failed", "answer", "finalize", "mark", "stop", "destroy", "end"}
Job   == [at : Steps, call : Row]
News  == Legs \cup {"RecordingFinished", "RecordingFailed"}

\* The row, Asterisk and the threads are what the code makes of them.
TypeOK ==
    /\ row \in Row
    /\ talking \subseteq Legs /\ bridge \in BOOLEAN
    /\ tape \in {"blank", "running", "stored", "spoilt", "erased"}
    /\ events \subseteq News
    /\ job \in [Thread -> Job]
    /\ scan \in {"idle", "stale", "erased"} /\ worker \in {"up", "down", "unconnected"}
    /\ requests \in 0..MaxRequests /\ faults \in 0..MaxFaults

\* The row says finalized on evidence only, and deleted of nothing that is
\* still there, whoever writes it and however late (reconcile_recordings,
\* RecordingFinished, cleanup_recordings).
OnEvidence ==
    [][/\ row.rec # "finalized" /\ row'.rec = "finalized" => tape = "stored"
       /\ row'.rec = "deleted" => tape' # "stored"]_vars

\* What Asterisk has stored of an ended call is playable in the end: neither
\* a finish event that was lost with the socket or the worker, nor one that
\* came before the start was known to have worked, leaves the row unfinished
\* or failed (stale_recordings).
StoredIsPlayable ==
    <>[](tape = "stored" /\ row.ended) => <>[](row.rec = "finalized")
=============================================================================
