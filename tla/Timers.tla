------------------------------- MODULE Timers --------------------------------
(***************************************************************************)
(* The time events of the event loop (ae.cc) and the three kinds of timers *)
(* that Lua can make of them: Timer.addtimer and Timer.addselftimer        *)
(* (ltimer.cc) and Ae.create_time_event (lae.cc).                          *)
(*                                                                         *)
(* A turn of the loop sleeps in the poll until the nearest timer, runs the *)
(* callbacks of sockets, and then walks the list of time events.  The      *)
(* callbacks add and stop timers, their own too, while the walk is under   *)
(* way; and the wall clock may be set back at any time.                    *)
(***************************************************************************)
EXTENDS Integers, Sequences, SequencesExt

CONSTANTS
  Kinds,     \* "timer", "self", "ae": the function that made a timer
  Delays,    \* the milliseconds that timers are added with
  Returns,   \* what a Lua callback may return
  PerSec,    \* milliseconds of a second
  None,      \* a null pointer, and the timeout of a poll without one
  Start,     \* the clock when the loop is created
  MaxClock,  \* bound: the last time of the clock
  MaxTimers, \* bound: timers created
  MaxBack    \* bound: times that the clock is set back

ASSUME TimersAssumption ==
  /\ Kinds \subseteq {"timer", "self", "ae"}
  /\ Delays \subseteq Nat /\ Returns \subseteq Nat \cup {-1}
  /\ PerSec \in Nat \ {0} /\ Start \in Nat /\ Start >= PerSec
  /\ None \notin Int
  /\ MaxClock \in Nat /\ Start <= MaxClock /\ MaxTimers \in Nat /\ MaxBack \in Nat

VARIABLES
  clock,     \* the wall clock, in milliseconds
  list,      \* the time events, from timeEventHead on
  nextId,    \* timeEventNextId
  lastTime,  \* the second of the last walk
  phase,     \* "poll", "sleep", "files", "walk", or "call" of a timer's callback
  timeout,   \* what is left of the poll's timeout, or None
  te,        \* the event that is in the memory te points to, or None
  id,        \* the timer whose callback runs
  now,       \* the time that the walk compares with
  maxId,     \* the newest timer that the walk looks at
  \* history and bounds
  due,       \* the time from which on a timer may be called
  heirs,     \* timers added by a callback that had stopped its own timer
  served,    \* timers called in this walk and armed for a time after its now
  forced,    \* timers that a walk has to call because the clock was set back
  backs

loopVars == <<clock, nextId, lastTime, timeout, now, maxId, backs>>
vars == <<clock, list, nextId, lastTime, phase, timeout, te, id, now, maxId,
          due, heirs, served, forced, backs>>

Sec(t) == t \div PerSec
Msec(t) == t % PerSec

Ids == {list[i].id : i \in DOMAIN list}
Pos(i) == CHOOSE k \in DOMAIN list : list[k].id = i
Event(i) == list[Pos(i)]

\* aeCreateEventLoop, and the start of aeMain.
Init ==
  /\ clock = Start /\ list = <<>> /\ nextId = 0 /\ lastTime = Sec(Start)
  /\ phase = "poll" /\ timeout = None
  /\ te = None /\ id = None /\ now = 0 /\ maxId = -1
  /\ due = <<>> /\ heirs = {} /\ served = {} /\ forced = {}
  /\ backs = 0

-----------------------------------------------------------------------------
(* Time *)

\* Mutant: the carry of the milliseconds is lost.
AddNoCarry(ms) == [sec |-> Sec(clock) + Sec(ms), msec |-> (Msec(clock) + Msec(ms)) % PerSec]

\* The time in ms milliseconds, as seconds and milliseconds.
aeAddMillisecondsToNow(ms) ==
  LET m == Msec(clock) + Msec(ms) IN
  IF m >= PerSec THEN [sec |-> Sec(clock) + Sec(ms) + 1, msec |-> m - PerSec]
  ELSE [sec |-> Sec(clock) + Sec(ms), msec |-> m]

\* Mutant: a timer of the present millisecond has to wait.
ReachedStrict(t, e) == Sec(t) > e.sec \/ (Sec(t) = e.sec /\ Msec(t) > e.msec)

\* The time t is not before that of the event.
Reached(t, e) == Sec(t) > e.sec \/ (Sec(t) = e.sec /\ Msec(t) >= e.msec)

Tick ==
  /\ clock < MaxClock /\ clock' = clock + 1
  /\ timeout' = IF timeout \in {None, 0} THEN timeout ELSE timeout - 1
  /\ UNCHANGED <<list, nextId, lastTime, phase, te, id, now, maxId, due, heirs, served, forced,
                 backs>>

\* The system clock is set back, by less than it ran since the start.
SetBack ==
  /\ backs < MaxBack /\ backs' = backs + 1
  /\ clock' \in Start..(clock - 1)
  /\ UNCHANGED <<list, nextId, lastTime, phase, timeout, te, id, now, maxId, due, heirs, served,
                 forced>>

-----------------------------------------------------------------------------
(* What callbacks of sockets and of timers do *)

\* aeCreateTimeEvent puts the event in front of the list.  malloc() may give it
\* the memory of the timer that runs, if its callback stopped it before.
addtimer(kind, ms) ==
  /\ phase \in {"files", "call"}
  /\ nextId < MaxTimers /\ nextId' = nextId + 1
  /\ LET w == aeAddMillisecondsToNow(ms) IN
     list' = <<[id |-> nextId, kind |-> kind, every |-> IF kind = "timer" THEN ms ELSE 0,
                sec |-> w.sec, msec |-> w.msec]>> \o list
  /\ te' \in IF phase = "call" /\ te = None THEN {None, nextId} ELSE {te}
  /\ due' = Append(due, clock + ms)
  /\ heirs' = IF phase = "call" /\ id \notin Ids THEN heirs \cup {nextId} ELSE heirs
  /\ UNCHANGED <<clock, lastTime, phase, timeout, id, now, maxId, served, forced, backs>>

\* aeDeleteTimeEvent unlinks the event and frees it, with its TimerData.
Without(i) == IF i \in Ids THEN RemoveAt(list, Pos(i)) ELSE list

\* Timer.stopselftimer, Ae.delete_time_event.
stopselftimer(i) ==
  /\ phase \in {"files", "call"}
  /\ i \in Ids
  /\ list' = Without(i)
  /\ te' = IF te = i THEN None ELSE te
  /\ forced' = forced \ {i}
  /\ UNCHANGED <<loopVars, phase, id, due, heirs, served>>

-----------------------------------------------------------------------------
(* A turn of aeMain *)

\* The event of the nearest time, the first of several.
Nearest == CHOOSE k \in DOMAIN list :
  \A l \in DOMAIN list :
    LET a == list[k]  b == list[l] IN
    \/ a.sec < b.sec
    \/ a.sec = b.sec /\ a.msec < b.msec
    \/ a.sec = b.sec /\ a.msec = b.msec /\ k <= l

\* Mutant: the borrowed second is not taken off.
TimeoutNoBorrow ==
  LET e == list[Nearest]
      sec == e.sec - Sec(clock)
      msec == e.msec - Msec(clock)
  IN IF msec < 0 THEN (IF sec < 0 THEN 0 ELSE sec) * PerSec + msec + PerSec
     ELSE (IF sec < 0 THEN 0 ELSE sec) * PerSec + msec

\* The time until the nearest event, as struct timeval: seconds that are
\* negative become 0, and the part of a second stays.
Timeout ==
  LET e == list[Nearest]
      borrow == IF e.msec < Msec(clock) THEN 1 ELSE 0
      sec == e.sec - Sec(clock) - borrow
      msec == e.msec + borrow * PerSec - Msec(clock)
  IN (IF sec < 0 THEN 0 ELSE sec) * PerSec + msec

\* Mutant: a single timer is overlooked.
PollOneMissed ==
  /\ phase = "poll" /\ phase' = "sleep"
  /\ timeout' = IF Len(list) <= 1 THEN None ELSE Timeout
  /\ UNCHANGED <<clock, list, nextId, lastTime, te, id, now, maxId, due, heirs, served, forced,
                 backs>>

\* aeProcessEvents calls aeApiPoll.
Poll ==
  /\ phase = "poll" /\ phase' = "sleep"
  /\ timeout' = IF list = <<>> THEN None ELSE Timeout
  /\ UNCHANGED <<clock, list, nextId, lastTime, te, id, now, maxId, due, heirs, served, forced,
                 backs>>

\* select() returns: the time is over, or a socket is ready.
Wake ==
  /\ phase = "sleep" /\ phase' = "files"
  /\ timeout' = None
  /\ UNCHANGED <<clock, list, nextId, lastTime, te, id, now, maxId, due, heirs, served, forced,
                 backs>>

First(l) == IF l = <<>> THEN None ELSE Head(l).id

\* The clock was set back: all events become due.
Skewed(events) == [k \in DOMAIN events |-> [events[k] EXCEPT !.sec = 0]]

\* processTimeEvents begins, after the callbacks of the sockets.
processTimeEvents ==
  /\ phase = "files" /\ phase' = "walk"
  /\ LET skew == Sec(clock) < lastTime IN
     /\ list' = IF skew THEN Skewed(list) ELSE list
     /\ due' = IF skew THEN [k \in DOMAIN due |-> 0] ELSE due
     /\ forced' = IF skew THEN Ids ELSE {}
  /\ lastTime' = Sec(clock)
  /\ te' = First(list)
  /\ maxId' = nextId - 1
  /\ now' = clock
  /\ served' = {}
  /\ UNCHANGED <<clock, nextId, timeout, id, heirs, backs>>

\* te->next
After(i) == IF Pos(i) = Len(list) THEN None ELSE list[Pos(i) + 1].id

\* The walk goes on to the next event: this one is new or its time is to come.
Skip ==
  /\ phase = "walk" /\ te # None
  /\ te > maxId \/ ~Reached(now, Event(te))
  /\ te' = After(te)
  /\ UNCHANGED <<loopVars, list, phase, id, due, heirs, served, forced>>

Call ==
  /\ phase = "walk" /\ te # None
  /\ te <= maxId /\ Reached(now, Event(te))
  /\ phase' = "call" /\ id' = te
  /\ forced' = forced \ {te}
  /\ UNCHANGED <<loopVars, list, te, due, heirs, served>>

\* What the callback comes to: a Lua error, a function that is not found, or
\* what the function returns.
Results == {<<"error", 0>>, <<"missing", 0>>} \cup ({"value"} \X Returns)

NOMORE == -1

\* timer_proc, self_timer_proc and time_proc turn the result into milliseconds.
\* timer_proc reads the interval from its TimerData, which is freed if the
\* callback stopped the timer: that may be the interval of another one.
Retvals(kind, every, r) ==
  IF kind = "timer" /\ r \in {<<"error", 0>>, <<"value", 1>>} THEN every
  ELSE IF r[1] # "value" \/ (kind # "ae" /\ r[2] = 0) THEN {NOMORE}
  ELSE {r[2]}

\* Mutant: the milliseconds are added without a carry into the seconds.
RearmRaw(i, ms) ==
  [k \in DOMAIN list |-> IF list[k].id = i
     THEN [list[k] EXCEPT !.sec = Sec(clock), !.msec = Msec(clock) + ms] ELSE list[k]]

\* Mutant: an interval counts from the time the timer was due.
RearmFromDue(i, ms) ==
  [k \in DOMAIN list |->
     IF list[k].id # i THEN list[k]
     ELSE LET t == list[k].sec * PerSec + list[k].msec + ms IN
          [list[k] EXCEPT !.sec = Sec(t), !.msec = Msec(t)]]

\* Mutant: the event at the head of the list gets the new time.
RearmHead(i, ms) ==
  [k \in DOMAIN list |->
     IF k # 1 THEN list[k]
     ELSE LET w == aeAddMillisecondsToNow(ms) IN [list[k] EXCEPT !.sec = w.sec, !.msec = w.msec]]

\* The event gets a new time, counted from the end of its callback.
Rearm(i, ms) ==
  [k \in DOMAIN list |->
     IF list[k].id # i THEN list[k]
     ELSE LET w == aeAddMillisecondsToNow(ms) IN [list[k] EXCEPT !.sec = w.sec, !.msec = w.msec]]

\* Mutant: the walk goes on behind the event instead of from the head.
ResumeNext(l) == IF id \in Ids THEN After(id) ELSE None

\* Where the walk goes on after a callback: the list may have changed.
Resume(l) == First(l)

\* The callback returned.  A timer that goes on gets its time through te; if
\* its callback stopped it, te points to freed memory or to another timer, which
\* gets a time that nobody asked for: what is due does not change then.
\* (A callback of kind "ae" that returns 0 is called until the clock moves on.)
Return(kind, every) ==
  /\ phase = "call" /\ phase' = "walk"
  /\ \E r \in Results : \E ms \in Retvals(kind, every, r) :
       /\ ms = 0 => clock < MaxClock
       /\ \/ /\ ms = NOMORE
             /\ list' = Without(id)
             /\ UNCHANGED <<due, heirs, served>>
          \/ /\ ms # NOMORE
             /\ list' = Rearm(te, ms)
             /\ due' = IF te = id THEN [due EXCEPT ![id + 1] = clock + ms] ELSE due
             /\ heirs' = IF te = id THEN heirs \ {id} ELSE heirs
             /\ served' = IF ms > 0 /\ clock >= now THEN served \cup {id} ELSE served
  /\ te' = Resume(list') /\ id' = None
  /\ UNCHANGED <<loopVars, forced>>

\* The callback of a timer that is still in the list, and of one that is not:
\* nothing is known of it then.
CallbackEnds ==
  \/ id \in Ids /\ Return(Event(id).kind, {Event(id).every})
  \/ id # None /\ id \notin Ids /\ \E kind \in Kinds : Return(kind, Delays)

\* The walk is at the end of the list, and aeMain goes into its next turn.
EndWalk ==
  /\ phase = "walk" /\ te = None
  /\ phase' = "poll" /\ now' = 0 /\ maxId' = -1 /\ served' = {}
  /\ UNCHANGED <<clock, list, nextId, lastTime, timeout, te, id, due, heirs, forced, backs>>

-----------------------------------------------------------------------------
\* The poll comes to its end by itself: its time is over, at the bound at once.
TimedOut == timeout # None /\ (timeout = 0 \/ clock = MaxClock)

Loop == Poll \/ (TimedOut /\ Wake) \/ processTimeEvents \/ Skip \/ Call \/ CallbackEnds \/ EndWalk

Next ==
  \/ Tick \/ SetBack
  \/ \E kind \in Kinds, ms \in Delays : addtimer(kind, ms)
  \/ \E i \in Ids : stopselftimer(i)
  \/ Poll \/ Wake \/ processTimeEvents \/ Skip \/ Call \/ CallbackEnds \/ EndWalk

Spec == Init /\ [][Next]_vars

\* The loop runs, callbacks return, and time goes on.
FairSpec == Spec /\ WF_vars(Loop) /\ WF_vars(Tick)

-----------------------------------------------------------------------------
(* Properties *)

\* Events have different ids that were given out, and te is one of them.
TypeOK ==
  /\ clock \in Start..MaxClock /\ backs \in 0..MaxBack
  /\ \A k, l \in DOMAIN list : list[k].id = list[l].id => k = l
  /\ Ids \subseteq 0..(nextId - 1) /\ nextId \in 0..MaxTimers /\ Len(due) = nextId
  /\ \A k \in DOMAIN list : list[k].msec \in 0..(PerSec - 1)
  /\ phase \in {"poll", "sleep", "files", "walk", "call"}
  /\ te # None => te \in Ids /\ phase \in {"walk", "call"}
  /\ phase = "call" <=> id # None

\* A timer is not called before its milliseconds are over, counted from when it
\* was added or from the end of its last callback, unless the clock was set back.
\* Only a timer that was added by a callback which had stopped its own timer can
\* be early: it may have the memory of the stopped one, and then gets the time
\* that the callback returned for that (ae.cc, the use of te after timeProc).
NotEarly == phase = "call" /\ id \in Ids \ heirs => now >= due[id + 1]

\* A walk leaves no timer behind that was there when it began and whose time
\* had come, whatever the callbacks on the way added and stopped; and if the
\* clock was set back into an earlier second, it called every timer that was not
\* stopped before its turn.
NoneLeft ==
  phase = "walk" /\ te = None =>
    /\ \A i \in Ids : i <= maxId => ~Reached(now, Event(i))
    /\ forced = {}

\* A timer is called once in a walk, unless it asks to be called at once or
\* the clock is set back under way: timers cannot keep the loop from the sockets.
OncePerWalk == phase = "call" => id \notin served

\* When a callback ends, every other timer is still in the list with its time,
\* whatever the callback returned and whatever it added or stopped.  If it stopped
\* its own timer, te is a dangling pointer, and of the others only the timers that
\* were added since can be hit by it.
OthersKeepTime ==
  [][phase = "call" /\ phase' = "walk" =>
       \A i \in Ids \ ({id} \cup heirs) : i \in Ids' /\ Event(i)' = Event(i)]_vars

\* The time of an event has passed.
Overdue(i) == Event(i).sec * PerSec + Event(i).msec < clock

\* The poll ends when the next timer is due, or earlier.  Only when callbacks took
\* their time, so that some timer is overdue already, does the loop sleep although
\* it has work, and then for less than a second: of a time that has passed,
\* aeProcessEvents keeps the fraction of the second.  (Timers that were hit by a
\* dangling te excepted.)
SleepsNotTooLong ==
  phase = "sleep" /\ backs = 0 =>
    \A i \in Ids \ heirs :
      /\ timeout # None
      /\ \/ timeout = 0 \/ clock + timeout <= due[i + 1]
         \/ timeout < PerSec /\ \E j \in Ids : Overdue(j)

\* A timer whose time has come is called, or stopped, unless the clock is set
\* back before that, or a dangling te put the timer off.
DueIsCalled ==
  \A i \in 0..(MaxTimers - 1) :
    [](i \in Ids \ heirs /\ clock >= due[i + 1] => <>(id = i \/ i \notin Ids \/ clock < due[i + 1]))
=============================================================================
