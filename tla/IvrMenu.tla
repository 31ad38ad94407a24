------------------------------- MODULE IvrMenu -------------------------------
(***************************************************************************)
(* A caller at a menu: the session the ARI worker keeps for the caller's   *)
(* channel, and the two threads that act on it.  The event thread takes    *)
(* the keys and the events of the caller's channel; the main thread scans  *)
(* the sessions for deadlines (process_ivr_timeouts).  They share the      *)
(* session without a lock, so a check and the change it guards are two     *)
(* steps.  The call ends here where a desk rings or where                  *)
(* _inbound_no_answer takes over; InboundCall has the rest.                *)
(***************************************************************************)
EXTENDS Naturals, FiniteSets

CONSTANTS
    Attempts,   \* how often the prompt is played
    Endpoint,   \* names of the channels an extension is rung on
    First,      \* <call>-employee, which the row names before anybody is rung
    Arrives,    \* how the carrier's channel may arrive: "ring" or "up"
    MaxKeys     \* bound: keys the caller presses

ASSUME MenuAssumption ==
    First \in Endpoint /\ Attempts \in Nat \ {0} /\ Arrives \subseteq {"ring", "up"} /\ MaxKeys \in Nat

VARIABLES
    kept,       \* the session is in _ivr_sessions
    digits,     \* session: what the digits typed so far mean
    tries,      \* session: prompts repeated
    due,        \* session: its deadline
    pause,      \* session: resolve_after
    at,         \* per thread: where it is, whether input is final, the legs it rang
    line,       \* Asterisk: the caller's channel
    news,       \* Asterisk: events of the caller's channel not yet handled
    rings,      \* Asterisk: the endpoints that ring for the caller
    named,      \* the row: employee_channel_ids
    ended,      \* the row: ended_at is set
    passed,     \* another desk, a mailbox or a forward number has the caller
    cut,        \* the platform ended the call, before the caller did
    keys        \* keys pressed

session == <<kept, digits, tries, due, pause>>
call    == <<line, news, rings, named, ended, passed, cut>>
menuVars    == <<session, at, call, keys>>

MenuThread == {"event", "clock"}

\* "prefix" can still become an extension, "short" is one and can become
\* another, "whole" is one and no other, "wrong" is none.
Typed == {"none", "prefix", "short", "whole", "wrong"}

Go(p, to)      == at' = [at EXCEPT ![p].to = to]
GoFinal(p, to) == at' = [at EXCEPT ![p] = [to |-> to, final |-> TRUE, legs |-> {}]]
Done(p)        == at' = [at EXCEPT ![p] = [to |-> "idle", final |-> FALSE, legs |-> {}]]
In(p, to)      == at[p].to = to

----------------------------------------------------------------------------
(* The prompt.  The deadline of a new session is set only after it.        *)

Prompt(p) ==
    /\ In(p, "prompt")
    /\ IF kept THEN Go(p, "play") ELSE Done(p)
    /\ IF kept /\ line = "ring" THEN line' = "up" /\ news' = news \cup {"up"}
       ELSE UNCHANGED <<line, news>>
    /\ UNCHANGED <<session, rings, named, ended, passed, cut, keys>>

StartClock(p) ==
    /\ In(p, "play")
    /\ due' = "ahead" /\ pause' = "off"
    /\ Done(p)
    /\ UNCHANGED <<kept, digits, tries, call, keys>>

----------------------------------------------------------------------------
(* Digits. *)

\* The event thread takes a key; the caller may have hung up since.
Digit(d) ==
    /\ In("event", "idle") /\ kept /\ keys < MaxKeys
    /\ line = "up" \/ "destroyed" \in news
    /\ keys' = keys + 1
    /\ d \in Typed \ {"none"} /\ (digits = "wrong" => d = "wrong")
    /\ digits' = d
    /\ Go("event", "resolve")
    /\ UNCHANGED <<kept, tries, due, pause, call>>

Final(p) == at[p].final

\* _ivr_resolve.  The caller may have been asked again meanwhile.
ResolveNothing(p) ==
    /\ In(p, "resolve") /\ digits = "none"
    /\ Done(p)
    /\ UNCHANGED <<session, call, keys>>

\* Mutant: digits that are no extension are left to the next key.
ResolveForgets(p) ==
    /\ In(p, "resolve") /\ digits \in {"prefix", "wrong"}
    /\ Done(p)
    /\ UNCHANGED <<session, call, keys>>

ResolveInvalid(p) ==
    /\ In(p, "resolve")
    /\ digits = "wrong" \/ (digits = "prefix" /\ Final(p))
    /\ Go(p, "retry")
    /\ UNCHANGED <<session, call, keys>>

ResolveWaits(p) ==
    /\ In(p, "resolve")
    /\ digits \in {"prefix", "short"} /\ ~Final(p)
    /\ pause' = "ahead"
    /\ Done(p)
    /\ UNCHANGED <<kept, digits, tries, due, call, keys>>

ResolveDials(p) ==
    /\ In(p, "resolve")
    /\ digits = "whole" \/ (digits = "short" /\ Final(p))
    /\ Go(p, "dial")
    /\ UNCHANGED <<session, call, keys>>

\* _ivr_retry: the check, and the new attempt.
Retry(p) ==
    /\ In(p, "retry")
    /\ Go(p, IF tries + 1 < Attempts THEN "again" ELSE "fallback")
    /\ UNCHANGED <<session, call, keys>>

Again(p) ==
    /\ In(p, "again")
    /\ tries' = tries + 1 /\ digits' = "none"
    /\ Go(p, "prompt")
    /\ UNCHANGED <<kept, due, pause, call, keys>>

----------------------------------------------------------------------------
(* The session is over: a desk is rung, or nobody is. *)

\* _ivr_dial, for a typed extension or the menu's fallback.
Dial(p) ==
    /\ In(p, "dial")
    /\ kept' = FALSE
    /\ Go(p, "ring")
    /\ UNCHANGED <<digits, tries, due, pause, call, keys>>

\* A channel name that is in use is refused, and so is a leg for a caller who
\* is gone.  The extension may be switched off.
Ring(p) ==
    /\ In(p, "ring")
    /\ \E S \in SUBSET (Endpoint \ rings) :
         /\ S # {} => line = "up"
         /\ rings' = rings \cup S
         /\ at' = [at EXCEPT ![p].legs = S, ![p].to = IF S = {} THEN "noAnswer" ELSE "store"]
    /\ UNCHANGED <<session, line, news, named, ended, passed, cut, keys>>

StoreLegs(p) ==
    /\ In(p, "store")
    /\ named' = at[p].legs
    /\ Done(p)
    /\ UNCHANGED <<session, line, news, rings, ended, passed, cut, keys>>

\* Mutant: the session of a caller who gave no valid input is kept.
FallbackKeeps(p) ==
    /\ In(p, "fallback")
    /\ Go(p, "ring") \/ Go(p, "noAnswer")
    /\ UNCHANGED <<session, call, keys>>

\* _ivr_fallback: the menu's own fallback, the rest of the flow, or neither.
Fallback(p) ==
    /\ In(p, "fallback")
    /\ kept' = FALSE
    /\ Go(p, "ring") \/ Go(p, "noAnswer")
    /\ UNCHANGED <<digits, tries, due, pause, call, keys>>

\* What the row names is taken down and the row is ended; handled is the event
\* that asks for it.
TakeDown(handled) ==
    /\ line' = "gone"
    /\ news' = (news \ handled) \cup (IF line = "gone" THEN {} ELSE {"destroyed"})
    /\ rings' = rings \ (IF named = {} THEN {First} ELSE named)
    /\ ended' = TRUE

\* _inbound_no_answer: nothing if the call is over, or another desk or the
\* forward number rings, or the mailbox has the caller, or the call is missed.
NoAnswerLate(p) ==
    /\ In(p, "noAnswer") /\ ended
    /\ Done(p)
    /\ UNCHANGED <<session, call, keys>>

NoAnswerPasses(p) ==
    /\ In(p, "noAnswer") /\ ~ended /\ line = "up"
    /\ passed' = TRUE
    /\ Done(p)
    /\ UNCHANGED <<session, line, news, rings, named, ended, cut, keys>>

NoAnswerMissed(p) ==
    /\ In(p, "noAnswer") /\ ~ended
    /\ TakeDown({}) /\ cut' = TRUE
    /\ Done(p)
    /\ UNCHANGED <<session, named, passed, keys>>

----------------------------------------------------------------------------
(* process_ivr_timeouts, in the main thread. *)

Wake ==
    /\ In("clock", "idle") /\ kept
    /\ Go("clock", "scan")
    /\ UNCHANGED <<session, call, keys>>

Late == due \in {"unset", "past"}

Scan ==
    /\ In("clock", "scan")
    /\ \/ (pause = "past" \/ (Late /\ digits # "none")) /\ GoFinal("clock", "resolve")
       \/ pause # "past" /\ Late /\ digits = "none"     /\ GoFinal("clock", "retry")
       \/ pause # "past" /\ ~Late                       /\ Done("clock")
    /\ UNCHANGED <<session, call, keys>>

----------------------------------------------------------------------------
(* The events of the caller's channel. *)

\* The caller's own channel is up because the menu answered it: handled like a
\* far side that picks up, and bridged with a desk nobody picked up.
CallerUp ==
    /\ In("event", "idle") /\ "up" \in news /\ ~ended
    /\ TakeDown({"up"}) /\ cut' = TRUE
    /\ UNCHANGED <<session, at, named, passed, keys>>

\* Mutant: the session of a caller who hung up is kept.
CallerDestroyedKeeps ==
    /\ In("event", "idle") /\ news = {"destroyed"} /\ ~ended
    /\ TakeDown({"destroyed"})
    /\ UNCHANGED <<session, at, named, passed, cut, keys>>

CallerDestroyed ==
    /\ In("event", "idle") /\ news = {"destroyed"} /\ ~ended
    /\ kept' = FALSE
    /\ TakeDown({"destroyed"})
    /\ UNCHANGED <<digits, tries, due, pause, at, named, passed, cut, keys>>

\* ended_at is looked at before the session is.
EventLate ==
    /\ In("event", "idle") /\ ended
    /\ \E e \in news : news' = news \ {e} /\ (e = "destroyed" => news = {e})
    /\ UNCHANGED <<session, at, line, rings, named, ended, passed, cut, keys>>

----------------------------------------------------------------------------
(* People and time. *)

CallerHangsUp ==
    /\ line \in {"ring", "up"}
    /\ line' = "gone" /\ news' = news \cup {"destroyed"}
    /\ UNCHANGED <<session, at, rings, named, ended, passed, cut, keys>>

HangupRequest ==
    /\ ~cut
    /\ TakeDown({}) /\ cut' = TRUE
    /\ UNCHANGED <<session, at, named, passed, keys>>

DeadlinePasses == due = "ahead" /\ due' = "past"
    /\ UNCHANGED <<kept, digits, tries, pause, at, call, keys>>

PausePasses == pause = "ahead" /\ pause' = "past"
    /\ UNCHANGED <<kept, digits, tries, due, at, call, keys>>

----------------------------------------------------------------------------

MenuInit ==
    /\ kept = TRUE /\ digits = "none" /\ tries = 0
    /\ due = "unset" /\ pause = "off"
    /\ at = [p \in MenuThread |-> [to |-> IF p = "event" THEN "prompt" ELSE "idle",
                               final |-> FALSE, legs |-> {}]]
    /\ line \in Arrives /\ news = {}
    /\ rings = {} /\ named = {} /\ ended = FALSE
    /\ passed = FALSE /\ cut = FALSE /\ keys = 0

Handle(p) ==
    \/ Prompt(p) \/ StartClock(p)
    \/ ResolveNothing(p) \/ ResolveInvalid(p) \/ ResolveWaits(p) \/ ResolveDials(p)
    \/ Retry(p) \/ Again(p)
    \/ Dial(p) \/ Ring(p) \/ StoreLegs(p) \/ Fallback(p)
    \/ NoAnswerLate(p) \/ NoAnswerPasses(p) \/ NoAnswerMissed(p)

Events == CallerUp \/ CallerDestroyed \/ EventLate

Time == DeadlinePasses \/ PausePasses

MenuNext ==
    \/ \E p \in MenuThread : Handle(p)
    \/ \E d \in Typed : Digit(d)
    \/ Wake \/ Scan \/ Events \/ Time \/ CallerHangsUp \/ HangupRequest

MenuSpec == MenuInit /\ [][MenuNext]_menuVars

\* Both threads run and time passes; the caller may press nothing.
MenuFairness ==
    /\ \A p \in MenuThread : WF_menuVars(Handle(p))
    /\ WF_menuVars(Wake) /\ WF_menuVars(Scan) /\ WF_menuVars(Events)
    /\ WF_menuVars(DeadlinePasses) /\ WF_menuVars(PausePasses)

MenuFairSpec == MenuSpec /\ MenuFairness
----------------------------------------------------------------------------

Place == {"idle", "prompt", "play", "resolve", "retry", "again", "dial", "ring", "store",
          "fallback", "noAnswer", "scan"}

MenuTypes ==
    /\ kept \in BOOLEAN /\ digits \in Typed /\ tries \in 0 .. Attempts
    /\ due \in {"unset", "ahead", "past"} /\ pause \in {"off", "ahead", "past"}
    /\ at \in [MenuThread -> [to : Place, final : BOOLEAN, legs : SUBSET Endpoint]]
    /\ line \in {"ring", "up", "gone"} /\ news \subseteq {"up", "destroyed"}
    /\ rings \subseteq Endpoint /\ named \subseteq Endpoint
    /\ {ended, passed, cut} \subseteq BOOLEAN
    /\ keys \in 0 .. MaxKeys

\* A caller at the menu ends up with a desk ringing, passed on, or let go,
\* whatever is typed and whichever thread gets there first.
CallerServed == line = "up" ~> rings # {} \/ passed \/ ended \/ line # "up"

\* No session is kept for ever: the main thread stops waking every second.
SessionEnds == [](kept => <>~kept)

\* "A caller who gives up during the prompt leaves no session behind", unless
\* the platform had ended the call.
NothingLeft ==
    line = "gone" /\ news = {} /\ ~cut /\ (\A p \in MenuThread : In(p, "idle")) => ~kept

\* While the session is open, only the caller or a request ends the call: "the
\* call still reaches the extension the caller types".
MenuKeepsCaller ==
    [][kept /\ kept' /\ line = "up" /\ line' = "gone" => CallerHangsUp \/ HangupRequest]_menuVars
=============================================================================
