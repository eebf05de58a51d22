----------------------------- MODULE TimersProofs -----------------------------
(***************************************************************************)
(* Proofs about the walk over the time events (Timers): for any number of  *)
(* timers, any delays and any return values, a walk calls the timers that  *)
(* are due, none of them early, none twice, and leaves none behind; and    *)
(* the loop does not sleep through a timer.                                *)
(***************************************************************************)
EXTENDS Timers, SequenceTheorems, WellFoundedInduction, TLAPS

-----------------------------------------------------------------------------
(* Numbers *)

\* A set of natural numbers that is not empty has a least element.
LEMMA LeastNat ==
  ASSUME NEW S \in SUBSET Nat, S # {}
  PROVE  \E m \in S : \A n \in S : m <= n
<1> DEFINE R == OpToRel(<, Nat)
<1>1. \E m \in S : \A n \in S : <<n, m>> \notin R
  <2> HIDE DEF R
  <2>1. IsWellFoundedOn(R, Nat)
    BY NatLessThanWellFounded DEF R
  <2> QED
    BY <2>1, WFMin, Zenon
<1>2. PICK m \in S : \A n \in S : <<n, m>> \notin R
  BY <1>1
<1>3. ASSUME NEW n \in S PROVE m <= n
  <2>1. m \in Nat /\ n \in Nat
    OBVIOUS
  <2>2. <<n, m>> \notin R
    BY <1>2
  <2>3. ~(n < m)
    BY <2>1, <2>2, Zenon DEF R, OpToRel
  <2> QED
    BY <2>1, <2>3
<1> QED
  BY <1>3

\* Seconds and milliseconds make up the time.
LEMMA SplitTime ==
  ASSUME NEW t \in Nat
  PROVE  /\ Sec(t) \in Nat /\ Msec(t) \in 0..(PerSec - 1)
         /\ t = Sec(t) * PerSec + Msec(t)
  BY TimersAssumption DEF Sec, Msec

\* Whole seconds count for more than milliseconds.
LEMMA SecondsFirst ==
  ASSUME NEW a \in Int, NEW b \in Int, a < b
  PROVE  a * PerSec + PerSec <= b * PerSec
<1>1. PICK d \in Nat : b = a + 1 + d
  <2>1. b - a - 1 \in Nat /\ b = a + 1 + (b - a - 1)
    OBVIOUS
  <2> QED
    BY <2>1
<1>2. PerSec \in Nat
  BY TimersAssumption
<1>3. b * PerSec = a * PerSec + PerSec + d * PerSec
  BY <1>1, <1>2
<1>4. d * PerSec \in Nat /\ a * PerSec \in Int /\ b * PerSec \in Int
  BY <1>2
<1> QED
  BY <1>2, <1>3, <1>4

\* The time of an event.
Time(e) == e.sec * PerSec + e.msec

-----------------------------------------------------------------------------
(* The inductive invariant *)

Events == [id : Nat, kind : Kinds, every : Nat, sec : Nat, msec : 0..(PerSec - 1)]

Typed ==
  /\ clock \in Start..MaxClock /\ backs \in 0..MaxBack
  /\ list \in Seq(Events)
  /\ nextId \in 0..MaxTimers
  /\ due \in Seq(Nat) /\ Len(due) = nextId
  /\ lastTime \in Nat /\ now \in Nat
  /\ timeout \in Nat \cup {None}
  /\ te \in Nat \cup {None} /\ id \in Nat \cup {None}
  /\ maxId \in Int /\ maxId < nextId
  /\ phase \in {"poll", "sleep", "files", "walk", "call"}
  /\ served \subseteq 0..(nextId - 1) /\ heirs \subseteq 0..(nextId - 1)

\* Events have different ids, and ids that were given out.
Distinct ==
  /\ \A k, l \in DOMAIN list : list[k].id = list[l].id => k = l
  /\ \A k \in DOMAIN list : list[k].id < nextId

\* te points to an event, and only during a walk.  While a callback runs it is
\* the timer of the callback; once the callback stopped that one, te is dangling:
\* it is nothing, or a timer that was added since, which is then an heir.
Pointers ==
  /\ te # None => te \in Ids /\ phase \in {"walk", "call"}
  /\ phase = "call" <=> id # None
  /\ phase = "call" => /\ id <= maxId
                       /\ te = id \/ (id \notin Ids /\ (te # None => te > maxId /\ te \in heirs))

\* An event does not come before the time that its timer was promised, and if
\* the clock was never set back it is that time; but for heirs, which a dangling
\* te may have moved.
Dues == \A k \in DOMAIN list : list[k].id \notin heirs =>
  /\ due[list[k].id + 1] <= Time(list[k])
  /\ backs = 0 => due[list[k].id + 1] = Time(list[k])

\* The second of the last walk is over, if the clock was never set back.
Forward == backs = 0 => lastTime <= Sec(clock)

\* What the walk has passed is not due.
Walked ==
  phase = "walk" => \A k \in DOMAIN list :
    (\A l \in 1..k : list[l].id # te) /\ list[k].id <= maxId => Time(list[k]) > now

\* The timers that a walk has to call are due; the others are not in forced.
Forced ==
  /\ phase \notin {"walk", "call"} => forced = {}
  /\ forced \subseteq Ids
  /\ \A k \in DOMAIN list : list[k].id \in forced => list[k].id <= maxId /\ list[k].sec = 0
  /\ phase \in {"walk", "call"} => now >= PerSec
  /\ phase = "call" => id \notin forced

\* A timer that was served was there when the walk began, and is not due any more.
Served ==
  /\ phase \in {"walk", "call"} =>
       \A k \in DOMAIN list : list[k].id \in served => Time(list[k]) > now
  /\ phase = "call" => id \notin served
  /\ \A i \in served : i <= maxId

\* The timer that is called was due when the walk began.
Called == phase = "call" /\ te = id /\ id \notin heirs => due[id + 1] <= now

\* The time of some event has passed.
Late == \E k \in DOMAIN list : Time(list[k]) < clock

\* The poll does not last longer than to any timer that is to come, unless one is
\* overdue.
Sleeps ==
  phase = "sleep" /\ backs = 0 => \A k \in DOMAIN list :
    /\ timeout # None
    /\ \/ list[k].id \in heirs \/ timeout = 0 \/ clock + timeout <= due[list[k].id + 1]
       \/ timeout < PerSec /\ Late

Inv == Typed /\ Distinct /\ Pointers /\ Dues /\ Forward /\ Walked /\ Forced /\ Served
       /\ Called /\ Sleeps

-----------------------------------------------------------------------------
(* Lemmas about events and the list *)

\* An event is reached when its time is not after t.
LEMMA ReachedTime ==
  ASSUME NEW e \in Events, NEW t \in Nat
  PROVE  Time(e) \in Nat /\ (Reached(t, e) <=> Time(e) <= t)
<1> DEFINE s == Sec(t)  m == Msec(t)
<1>1. /\ PerSec \in Nat /\ e.sec \in Nat /\ e.msec \in 0..(PerSec - 1)
      /\ s \in Nat /\ m \in 0..(PerSec - 1) /\ t = s * PerSec + m
  BY TimersAssumption, SplitTime DEF Events
<1>2. e.sec * PerSec \in Nat /\ s * PerSec \in Nat
  BY <1>1
<1> HIDE DEF s, m
<1>3. CASE s < e.sec
  BY <1>1, <1>2, <1>3, SecondsFirst DEF Time, Reached, s, m
<1>4. CASE e.sec < s
  BY <1>1, <1>2, <1>4, SecondsFirst DEF Time, Reached, s, m
<1>5. CASE e.sec = s
  BY <1>1, <1>2, <1>5 DEF Time, Reached, s, m
<1> QED
  BY <1>1, <1>3, <1>4, <1>5

\* The carry is right.
LEMMA AddTime ==
  ASSUME clock \in Nat, NEW ms \in Nat
  PROVE  LET w == aeAddMillisecondsToNow(ms) IN
         /\ w.sec \in Nat /\ w.msec \in 0..(PerSec - 1)
         /\ w.sec * PerSec + w.msec = clock + ms
<1> DEFINE s == Sec(clock)  m == Msec(clock)  u == Sec(ms)  n == Msec(ms)
<1>1. /\ PerSec \in Nat /\ s \in Nat /\ u \in Nat
      /\ m \in 0..(PerSec - 1) /\ n \in 0..(PerSec - 1)
      /\ clock = s * PerSec + m /\ ms = u * PerSec + n
  BY TimersAssumption, SplitTime
<1>2. /\ s * PerSec \in Nat /\ u * PerSec \in Nat
      /\ (s + u) * PerSec = s * PerSec + u * PerSec
      /\ (s + u + 1) * PerSec = s * PerSec + u * PerSec + PerSec
  BY <1>1
<1> HIDE DEF s, m, u, n
<1>3. CASE m + n >= PerSec
  <2>1. aeAddMillisecondsToNow(ms) = [sec |-> s + u + 1, msec |-> m + n - PerSec]
    BY <1>1, <1>3 DEF aeAddMillisecondsToNow, s, m, u, n
  <2> QED
    BY <2>1, <1>1, <1>2, <1>3
<1>4. CASE ~(m + n >= PerSec)
  <2>1. aeAddMillisecondsToNow(ms) = [sec |-> s + u, msec |-> m + n]
    BY <1>1, <1>4 DEF aeAddMillisecondsToNow, s, m, u, n
  <2> QED
    BY <2>1, <1>1, <1>2, <1>4
<1> QED
  BY <1>3, <1>4

\* An event of the list is found by its id.
LEMMA Find ==
  ASSUME Typed, Distinct, NEW k \in DOMAIN list
  PROVE  /\ Pos(list[k].id) = k /\ Event(list[k].id) = list[k]
         /\ list[k].id \in Ids /\ list[k] \in Events /\ list[k].id \in 0..(nextId - 1)
         /\ k \in 1..Len(list)
<1>1. list \in Seq(Events) /\ k \in 1..Len(list)
  BY DEF Typed
<1>2. list[k] \in Events
  BY <1>1
<1>3. Pos(list[k].id) = k
  BY DEF Pos, Distinct
<1>4. list[k].id \in Nat /\ list[k].id < nextId /\ nextId \in Nat
  BY <1>2 DEF Distinct, Typed, Events
<1> QED
  BY <1>1, <1>2, <1>3, <1>4 DEF Event, Ids

LEMMA Position ==
  ASSUME Typed, Distinct, NEW i \in Ids
  PROVE  /\ Pos(i) \in DOMAIN list /\ list[Pos(i)].id = i /\ Event(i) = list[Pos(i)]
         /\ Event(i) \in Events
<1>1. PICK k \in DOMAIN list : list[k].id = i
  BY DEF Ids
<1> QED
  BY <1>1, Find

\* What RemoveAt leaves.
LEMMA Removed ==
  ASSUME NEW S, NEW s \in Seq(S), NEW p \in 1..Len(s)
  PROVE  /\ RemoveAt(s, p) \in Seq(S)
         /\ Len(RemoveAt(s, p)) = Len(s) - 1
         /\ \A k \in 1..(Len(s) - 1) : RemoveAt(s, p)[k] = s[IF k < p THEN k ELSE k + 1]
<1> DEFINE a == SubSeq(s, 1, p - 1)  b == SubSeq(s, p + 1, Len(s))
<1>1. /\ a \in Seq(S) /\ Len(a) = p - 1 /\ \A k \in 1..(p - 1) : a[k] = s[k]
  OBVIOUS
<1>2. /\ b \in Seq(S) /\ Len(b) = Len(s) - p /\ \A k \in 1..(Len(s) - p) : b[k] = s[p + k]
  OBVIOUS
<1>3. RemoveAt(s, p) = a \o b
  BY DEF RemoveAt
<1> HIDE DEF a, b
<1>4. a \o b \in Seq(S) /\ Len(a \o b) = Len(s) - 1
  <2>1. Len(s) \in Nat /\ p \in Nat /\ Len(a) + Len(b) = Len(s) - 1
    BY <1>1, <1>2
  <2>2. a \in Seq(S) /\ b \in Seq(S)
    BY <1>1, <1>2
  <2>3. a \o b \in Seq(S) /\ Len(a \o b) = Len(a) + Len(b)
    BY <2>2
  <2> QED
    BY <2>1, <2>3
<1>5. ASSUME NEW k \in 1..(Len(s) - 1)
      PROVE  (a \o b)[k] = s[IF k < p THEN k ELSE k + 1]
  <2>1. CASE k < p
    BY <2>1, <1>1, <1>2
  <2>2. CASE ~(k < p)
    <3>1. k \in Nat /\ p \in Nat /\ Len(a) = p - 1 /\ k - (p - 1) \in 1..(Len(s) - p)
      BY <2>2, <1>1
    <3>2. (a \o b)[k] = b[k - (p - 1)]
      BY <3>1, <2>2, <1>1, <1>2
    <3>3. b[k - (p - 1)] = s[p + (k - (p - 1))] /\ p + (k - (p - 1)) = k + 1
      BY <3>1, <1>2
    <3> QED
      BY <3>2, <3>3, <2>2
  <2> QED
    BY <2>1, <2>2
<1> QED
  BY <1>3, <1>4, <1>5

\* aeDeleteTimeEvent takes one event out of the list and leaves all others.
LEMMA WithoutIt ==
  ASSUME Typed, Distinct, NEW i
  PROVE  /\ Without(i) \in Seq(Events)
         /\ \A k \in DOMAIN Without(i) :
              \E l \in DOMAIN list : Without(i)[k] = list[l] /\ list[l].id # i
         /\ \A l \in DOMAIN list :
              list[l].id # i => \E k \in DOMAIN Without(i) : Without(i)[k] = list[l]
         /\ \A k, l \in DOMAIN Without(i) : Without(i)[k].id = Without(i)[l].id => k = l
<1>0. list \in Seq(Events)
  BY DEF Typed
<1>1. CASE i \notin Ids
  <2>1. Without(i) = list /\ \A l \in DOMAIN list : list[l].id # i
    BY <1>1 DEF Without, Ids
  <2> QED
    BY <2>1, <1>0 DEF Distinct
<1>2. CASE i \in Ids
  <2> DEFINE p == Pos(i)  w == RemoveAt(list, p)
  <2>1. p \in 1..Len(list) /\ list[p].id = i /\ Without(i) = w
    BY <1>0, <1>2, Position DEF Without
  <2> HIDE DEF p
  <2>2. /\ w \in Seq(Events) /\ DOMAIN w = 1..(Len(list) - 1)
        /\ \A k \in 1..(Len(list) - 1) : w[k] = list[IF k < p THEN k ELSE k + 1]
    <3>1. w \in Seq(Events) /\ Len(w) = Len(list) - 1
      BY <1>0, <2>1, Removed
    <3>2. \A k \in 1..(Len(list) - 1) : w[k] = list[IF k < p THEN k ELSE k + 1]
      BY <1>0, <2>1, Removed
    <3> HIDE DEF w
    <3> QED
      BY <3>1, <3>2
  <2> HIDE DEF w
  <2>3. DOMAIN list = 1..Len(list) /\ Len(list) \in Nat
    BY <1>0
  <2>4. ASSUME NEW k \in DOMAIN w
        PROVE  \E l \in DOMAIN list : w[k] = list[l] /\ list[l].id # i
    <3>1. (IF k < p THEN k ELSE k + 1) \in DOMAIN list /\ (IF k < p THEN k ELSE k + 1) # p
      BY <2>1, <2>2, <2>3
    <3> QED
      BY <3>1, <2>1, <2>2, <2>3 DEF Distinct
  <2>5. ASSUME NEW l \in DOMAIN list, list[l].id # i
        PROVE  \E k \in DOMAIN w : w[k] = list[l]
    <3>1. l # p
      BY <2>1, <2>5
    <3>2. CASE l < p
      BY <3>2, <2>1, <2>2, <2>3
    <3>3. CASE l > p
      <4>1. l - 1 \in DOMAIN w /\ ~(l - 1 < p) /\ (l - 1) + 1 = l
        BY <3>3, <2>1, <2>2, <2>3
      <4> QED
        BY <4>1, <2>2
    <3> QED
      BY <3>1, <3>2, <3>3, <2>1, <2>3
  <2>6. ASSUME NEW k \in DOMAIN w, NEW l \in DOMAIN w, w[k].id = w[l].id PROVE k = l
    <3>1. /\ (IF k < p THEN k ELSE k + 1) \in DOMAIN list
          /\ (IF l < p THEN l ELSE l + 1) \in DOMAIN list
      BY <2>1, <2>2, <2>3
    <3>2. (IF k < p THEN k ELSE k + 1) = (IF l < p THEN l ELSE l + 1)
      BY <3>1, <2>2, <2>6 DEF Distinct
    <3> QED
      BY <3>2, <2>1, <2>2, <2>3
  <2> QED
    BY <2>1, <2>2, <2>4, <2>5, <2>6
<1> QED
  BY <1>1, <1>2

\* A new time for one event leaves the ids and all other events.
LEMMA Rearmed ==
  ASSUME Typed, Distinct, NEW i, NEW ms \in Nat
  PROVE  /\ Rearm(i, ms) \in Seq(Events) /\ DOMAIN Rearm(i, ms) = DOMAIN list
         /\ \A k \in DOMAIN list :
              /\ Rearm(i, ms)[k].id = list[k].id
              /\ list[k].id # i => Rearm(i, ms)[k] = list[k]
              /\ list[k].id = i => Time(Rearm(i, ms)[k]) = clock + ms
<1> DEFINE w == aeAddMillisecondsToNow(ms)  r == Rearm(i, ms)
<1>1. clock \in Nat
  BY TimersAssumption DEF Typed
<1>2. w.sec \in Nat /\ w.msec \in 0..(PerSec - 1) /\ w.sec * PerSec + w.msec = clock + ms
  BY <1>1, AddTime
<1> HIDE DEF w
<1>3. r = [k \in DOMAIN list |-> IF list[k].id # i THEN list[k]
                                 ELSE [list[k] EXCEPT !.sec = w.sec, !.msec = w.msec]]
  BY DEF Rearm, w
<1> HIDE DEF r
<1>4. ASSUME NEW k \in DOMAIN list
      PROVE  /\ r[k] \in Events /\ r[k].id = list[k].id
             /\ list[k].id # i => r[k] = list[k]
             /\ list[k].id = i => Time(r[k]) = clock + ms
  <2>1. list[k] \in Events
    BY Find
  <2>2. CASE list[k].id # i
    BY <2>1, <2>2, <1>3
  <2>3. CASE list[k].id = i
    <3>1. r[k] = [list[k] EXCEPT !.sec = w.sec, !.msec = w.msec]
      BY <2>3, <1>3
    <3>2. r[k].id = list[k].id /\ r[k].sec = w.sec /\ r[k].msec = w.msec
      BY <2>1, <3>1 DEF Events
    <3>3. r[k] \in Events
      BY <2>1, <3>1, <1>2 DEF Events
    <3> QED
      BY <2>3, <3>2, <3>3, <1>2 DEF Time
  <2> QED
    BY <2>2, <2>3
<1>5. list \in Seq(Events) /\ DOMAIN r = DOMAIN list
  BY <1>3 DEF Typed
<1>6. DOMAIN list = 1..Len(list) /\ Len(list) \in Nat
  BY <1>5
<1>7. r \in [1..Len(list) -> Events]
  BY <1>3, <1>4, <1>6
<1>8. r \in Seq(Events)
  BY <1>6, <1>7
<1> QED
  BY <1>4, <1>5, <1>8 DEF r

\* The second does not go back with the time.
LEMMA SecGrows ==
  ASSUME NEW a \in Nat, NEW b \in Nat, a <= b
  PROVE  Sec(a) <= Sec(b)
<1>1. /\ PerSec \in Nat /\ Sec(a) \in Nat /\ Sec(b) \in Nat
      /\ Msec(a) \in 0..(PerSec - 1) /\ Msec(b) \in 0..(PerSec - 1)
      /\ a = Sec(a) * PerSec + Msec(a) /\ b = Sec(b) * PerSec + Msec(b)
  BY TimersAssumption, SplitTime
<1>2. Sec(a) * PerSec \in Nat /\ Sec(b) * PerSec \in Nat
  BY <1>1
<1>3. Sec(b) < Sec(a) => Sec(b) * PerSec + PerSec <= Sec(a) * PerSec
  BY <1>1, SecondsFirst
<1> QED
  BY <1>1, <1>2, <1>3

LEMMA ClockNat ==
  ASSUME Typed
  PROVE  clock \in Nat /\ clock >= PerSec /\ Sec(clock) \in Nat /\ PerSec \in Nat
<1>1. clock \in Nat /\ clock >= PerSec /\ PerSec \in Nat
  BY TimersAssumption DEF Typed
<1> QED
  BY <1>1, SplitTime

-----------------------------------------------------------------------------
(* The initial state, and the steps that leave the list alone *)

LEMMA InitInv == Init => Inv
<1> SUFFICES ASSUME Init PROVE Inv
  OBVIOUS
<1>1. Start \in Nat /\ Sec(Start) \in Nat /\ Sec(Start) <= Sec(Start)
  BY TimersAssumption, SplitTime
<1>2. Start \in Start..MaxClock /\ 0 \in 0..MaxTimers /\ 0 \in 0..MaxBack
  BY TimersAssumption
<1>3. Typed
  BY <1>1, <1>2 DEF Init, Typed
<1>4. DOMAIN list = {} /\ Ids = {}
  BY DEF Init, Ids
<1> QED
  BY <1>1, <1>3, <1>4 DEF Init, Inv, Distinct, Pointers, Dues, Forward, Walked, Forced,
     Served, Called, Sleeps

LEMMA TickInv == Inv /\ Tick => Inv'
<1> SUFFICES ASSUME Inv, Tick PROVE Inv'
  OBVIOUS
<1>0. Typed
  BY DEF Inv
<1>1. /\ clock \in Nat /\ Start \in Nat /\ MaxClock \in Nat /\ clock' = clock + 1
      /\ PerSec \in Nat \ {0} /\ None \notin Int /\ timeout \in Nat \cup {None}
  BY <1>0, ClockNat, TimersAssumption DEF Tick, Typed
<1>2. timeout' \in Nat \cup {None}
  BY <1>1 DEF Tick
<1>3. clock' \in Start..MaxClock
  BY <1>0, <1>1 DEF Tick, Typed
<1>4. Typed'
  BY <1>0, <1>2, <1>3 DEF Tick, Typed
<1>5. Sec(clock) \in Nat /\ Sec(clock') \in Nat /\ Sec(clock) <= Sec(clock')
  BY <1>1, SecGrows, SplitTime
<1>6. Forward'
  BY <1>0, <1>5 DEF Inv, Forward, Tick, Typed
<1>7. (Distinct /\ Pointers /\ Dues /\ Walked /\ Forced /\ Served /\ Called)'
  BY DEF Inv, Tick, Distinct, Pointers, Dues, Walked, Forced, Served, Called, Ids, Time
<1>8. Sleeps'
  <2> SUFFICES ASSUME phase = "sleep", backs = 0, NEW k \in DOMAIN list
               PROVE  /\ timeout' # None
                      /\ \/ list[k].id \in heirs \/ timeout' = 0
                         \/ clock' + timeout' <= due[list[k].id + 1]
                         \/ timeout' < PerSec /\ Late'
    BY DEF Sleeps, Tick
  <2>0. Late => Late'
    <3> SUFFICES ASSUME NEW l \in DOMAIN list, Time(list[l]) < clock
                 PROVE  l \in DOMAIN list' /\ Time(list[l])' < clock'
      BY DEF Late
    <3>1. list[l] \in Events
      BY <1>0 DEF Typed
    <3>2. Time(list[l]) \in Nat
      BY <1>1, <3>1, ReachedTime
    <3>3. list' = list /\ Time(list[l])' = Time(list[l])
      BY DEF Tick, Time
    <3> QED
      BY <1>1, <3>2, <3>3
  <2>1. /\ timeout # None
        /\ \/ list[k].id \in heirs \/ timeout = 0 \/ clock + timeout <= due[list[k].id + 1]
           \/ timeout < PerSec /\ Late
    BY DEF Inv, Sleeps
  <2>2. CASE timeout = 0
    BY <1>1, <2>2 DEF Tick
  <2>3. CASE timeout # 0
    <3>1. timeout' = timeout - 1 /\ timeout \in Nat
      BY <1>1, <2>1, <2>3 DEF Tick
    <3> QED
      BY <1>1, <2>0, <2>1, <2>3, <3>1
  <2> QED
    BY <2>2, <2>3
<1> QED
  BY <1>4, <1>6, <1>7, <1>8 DEF Inv

LEMMA SetBackInv == Inv /\ SetBack => Inv'
<1> SUFFICES ASSUME Inv, SetBack PROVE Inv'
  OBVIOUS
<1>0. Typed
  BY DEF Inv
<1>1. clock' \in Start..MaxClock /\ backs' \in 0..MaxBack /\ backs' # 0
  BY <1>0, TimersAssumption DEF SetBack, Typed
<1>2. Typed'
  BY <1>0, <1>1 DEF SetBack, Typed
<1>3. (Distinct /\ Pointers /\ Walked /\ Forced /\ Served /\ Called)'
  BY DEF Inv, SetBack, Distinct, Pointers, Walked, Forced, Served, Called, Ids, Time
<1>4. Dues' /\ Forward' /\ Sleeps'
  BY <1>1 DEF Inv, SetBack, Dues, Time, Forward, Sleeps
<1> QED
  BY <1>2, <1>3, <1>4 DEF Inv

LEMMA WakeInv == Inv /\ Wake => Inv'
<1> SUFFICES ASSUME Inv, Wake PROVE Inv'
  OBVIOUS
<1>1. Typed'
  BY DEF Inv, Wake, Typed
<1>2. (Distinct /\ Pointers /\ Dues /\ Forward /\ Walked /\ Forced /\ Served /\ Called /\ Sleeps)'
  BY DEF Inv, Wake, Distinct, Pointers, Dues, Forward, Walked, Forced, Served, Called, Sleeps,
     Ids, Time
<1> QED
  BY <1>1, <1>2 DEF Inv

LEMMA SkipInv == Inv /\ Skip => Inv'
<1> SUFFICES ASSUME Inv, Skip PROVE Inv'
  OBVIOUS
<1>0. Typed /\ Distinct
  BY DEF Inv
<1> DEFINE p == Pos(te)
<1>1. /\ te \in Ids /\ p \in DOMAIN list /\ list[p].id = te /\ Event(te) = list[p]
      /\ list[p] \in Events
  BY <1>0, Position DEF Inv, Pointers, Skip
<1>2. DOMAIN list = 1..Len(list) /\ Len(list) \in Nat
  BY <1>0 DEF Typed
<1>3. te' = IF p = Len(list) THEN None ELSE list[p + 1].id
  BY DEF Skip, After
<1> HIDE DEF p
<1>4. te' = None \/ (p + 1 \in DOMAIN list /\ te' = list[p + 1].id)
  BY <1>1, <1>2, <1>3
<1>5. te' \in Nat \cup {None} /\ (te' # None => te' \in Ids)
  BY <1>0, <1>4, Find DEF Typed
<1>6. Typed'
  BY <1>0, <1>5 DEF Typed, Skip, loopVars
<1>7. Pointers'
  BY <1>5 DEF Inv, Pointers, Skip, loopVars, Ids
<1>8. Walked'
  <2> SUFFICES ASSUME NEW k \in DOMAIN list, \A l \in 1..k : list[l].id # te',
                      list[k].id <= maxId
               PROVE  Time(list[k]) > now
    BY DEF Walked, Skip, loopVars, Time
  <2>1. k <= p
    BY <1>1, <1>2, <1>3, <1>4
  <2>2. CASE k = p
    <3>1. ~Reached(now, list[p]) /\ now \in Nat
      BY <1>0, <1>1, <2>2, <2>1 DEF Skip, Typed, Events
    <3>2. Time(list[p]) \in Nat /\ ~(Time(list[p]) <= now)
      BY <3>1, <1>1, ReachedTime
    <3> QED
      BY <3>1, <3>2, <2>2
  <2>3. CASE k # p
    <3>1. \A l \in 1..k : l \in DOMAIN list /\ l # p
      BY <1>1, <1>2, <2>1, <2>3
    <3>2. \A l \in 1..k : list[l].id # te
      BY <3>1, <1>0, <1>1 DEF Distinct
    <3> QED
      BY <3>2 DEF Inv, Walked, Skip
  <2> QED
    BY <2>2, <2>3
<1>9. (Distinct /\ Dues /\ Forward /\ Forced /\ Served /\ Called /\ Sleeps)'
  BY DEF Inv, Skip, loopVars, Distinct, Dues, Forward, Forced, Served, Called, Sleeps, Ids, Time
<1> QED
  BY <1>6, <1>7, <1>8, <1>9 DEF Inv

LEMMA CallInv == Inv /\ Call => Inv'
<1> SUFFICES ASSUME Inv, Call PROVE Inv'
  OBVIOUS
<1>0. Typed /\ Distinct /\ None \notin Int
  BY TimersAssumption DEF Inv
<1> DEFINE p == Pos(te)
<1>1. /\ te \in Ids /\ p \in DOMAIN list /\ list[p].id = te /\ Event(te) = list[p]
      /\ list[p] \in Events /\ te \in 0..(nextId - 1)
  BY <1>0, Position, Find DEF Inv, Pointers, Call
<1> HIDE DEF p
<1>2. now \in Nat /\ Time(list[p]) \in Nat /\ Time(list[p]) <= now
  BY <1>0, <1>1, ReachedTime DEF Call, Typed
<1>3. Typed'
  BY <1>0, <1>1 DEF Typed, Call, loopVars
<1>4. Pointers'
  BY <1>0, <1>1 DEF Inv, Pointers, Call, loopVars, Ids
<1>5. Forced'
  BY <1>0, <1>1 DEF Inv, Forced, Call, loopVars, Ids
<1>6. Served'
  BY <1>0, <1>1, <1>2 DEF Inv, Served, Call, loopVars, Time
<1>7. Called'
  <2> SUFFICES ASSUME te \notin heirs PROVE due[te + 1] <= now
    BY DEF Called, Call, loopVars
  <2>1. due \in Seq(Nat) /\ Len(due) = nextId /\ nextId \in Nat
    BY <1>0 DEF Typed
  <2>2. te + 1 \in DOMAIN due
    BY <2>1, <1>1
  <2>3. due[te + 1] \in Nat
    BY <2>1, <2>2
  <2>4. due[te + 1] <= Time(list[p])
    BY <1>1 DEF Inv, Dues
  <2> QED
    BY <1>2, <2>3, <2>4
<1>8. (Distinct /\ Dues /\ Forward /\ Walked /\ Sleeps)'
  BY DEF Inv, Call, loopVars, Distinct, Dues, Forward, Walked, Sleeps, Time
<1> QED
  BY <1>3, <1>4, <1>5, <1>6, <1>7, <1>8 DEF Inv

\* At the end of a walk no timer is left that is due.
LEMMA EndOfWalk ==
  ASSUME Inv, phase = "walk", te = None
  PROVE  /\ \A k \in DOMAIN list : list[k].id <= maxId => Time(list[k]) > now
         /\ forced = {}
<1>0. Typed /\ Distinct /\ None \notin Int
  BY TimersAssumption DEF Inv
<1>1. ASSUME NEW k \in DOMAIN list, list[k].id <= maxId PROVE Time(list[k]) > now
  <2>1. \A l \in 1..k : l \in DOMAIN list
    BY <1>0 DEF Typed
  <2>2. \A l \in 1..k : list[l].id # te
    BY <1>0, <2>1, Find
  <2> QED
    BY <1>1, <2>2 DEF Inv, Walked
<1>2. ASSUME NEW i \in forced PROVE FALSE
  <2>1. PICK k \in DOMAIN list : list[k].id = i
    BY DEF Inv, Forced, Ids
  <2>2. list[k].id <= maxId /\ list[k].sec = 0 /\ now >= PerSec
    BY <2>1 DEF Inv, Forced
  <2>3. Time(list[k]) > now
    BY <1>1, <2>2
  <2>4. list[k] \in Events /\ PerSec \in Nat /\ now \in Nat
    BY <1>0, Find, TimersAssumption DEF Typed
  <2>5. Time(list[k]) = list[k].msec /\ list[k].msec \in 0..(PerSec - 1)
    BY <2>2, <2>4 DEF Time, Events
  <2> QED
    BY <2>2, <2>3, <2>4, <2>5
<1> QED
  BY <1>1, <1>2

LEMMA EndWalkInv == Inv /\ EndWalk => Inv'
<1> SUFFICES ASSUME Inv, EndWalk PROVE Inv'
  OBVIOUS
<1>1. forced = {}
  BY EndOfWalk DEF EndWalk
<1>2. Typed'
  BY TimersAssumption DEF Inv, EndWalk, Typed
<1>3. (Distinct /\ Pointers /\ Dues /\ Forward /\ Walked /\ Forced /\ Served /\ Called /\ Sleeps)'
  BY <1>1 DEF Inv, EndWalk, Distinct, Pointers, Dues, Forward, Walked, Forced, Served, Called,
     Sleeps, Ids, Time
<1> QED
  BY <1>2, <1>3 DEF Inv

-----------------------------------------------------------------------------
(* The poll *)

\* aeSearchNearestTimer compares seconds and then milliseconds.
LEMMA TimeOrder ==
  ASSUME NEW a \in Events, NEW b \in Events
  PROVE  /\ Time(a) < Time(b) <=> a.sec < b.sec \/ (a.sec = b.sec /\ a.msec < b.msec)
         /\ Time(a) = Time(b) <=> a.sec = b.sec /\ a.msec = b.msec
<1>1. /\ PerSec \in Nat /\ a.sec \in Nat /\ b.sec \in Nat
      /\ a.msec \in 0..(PerSec - 1) /\ b.msec \in 0..(PerSec - 1)
  BY TimersAssumption DEF Events
<1>2. a.sec * PerSec \in Nat /\ b.sec * PerSec \in Nat
  BY <1>1
<1>3. CASE a.sec < b.sec
  <2>1. a.sec * PerSec + PerSec <= b.sec * PerSec
    BY <1>1, <1>3, SecondsFirst
  <2> QED
    BY <2>1, <1>1, <1>2, <1>3 DEF Time
<1>4. CASE b.sec < a.sec
  <2>1. b.sec * PerSec + PerSec <= a.sec * PerSec
    BY <1>1, <1>4, SecondsFirst
  <2> QED
    BY <2>1, <1>1, <1>2, <1>4 DEF Time
<1>5. CASE a.sec = b.sec
  BY <1>1, <1>2, <1>5 DEF Time
<1> QED
  BY <1>1, <1>3, <1>4, <1>5

\* aeSearchNearestTimer finds an event, and none comes before it.
LEMMA NearestIsFirst ==
  ASSUME Typed, list # <<>>
  PROVE  /\ Nearest \in DOMAIN list
         /\ \A l \in DOMAIN list : Time(list[Nearest]) <= Time(list[l])
<1>0. list \in Seq(Events)
  BY DEF Typed
<1>1. DOMAIN list # {} /\ DOMAIN list \subseteq Nat
  <2>1. DOMAIN list = 1..Len(list) /\ Len(list) \in Nat
    BY <1>0
  <2>2. Len(list) # 0
    BY <1>0, EmptySeq
  <2> QED
    BY <2>1, <2>2
<1>2. ASSUME NEW k \in DOMAIN list PROVE list[k] \in Events /\ Time(list[k]) \in Nat
  <2>1. list[k] \in Events /\ 0 \in Nat
    BY <1>0
  <2> QED
    BY <2>1, ReachedTime
<1> DEFINE T == {Time(list[k]) : k \in DOMAIN list}
<1>3. PICK t \in T : \A u \in T : t <= u
  <2>1. T \in SUBSET Nat /\ T # {}
    BY <1>1, <1>2
  <2> QED
    BY <2>1, LeastNat
<1> DEFINE K == {k \in DOMAIN list : Time(list[k]) = t}
<1>4. PICK k \in K : \A l \in K : k <= l
  <2>1. K \in SUBSET Nat /\ K # {}
    BY <1>1, <1>3
  <2> QED
    BY <2>1, LeastNat
<1> DEFINE Before(i, l) ==
      \/ list[i].sec < list[l].sec
      \/ list[i].sec = list[l].sec /\ list[i].msec < list[l].msec
      \/ list[i].sec = list[l].sec /\ list[i].msec = list[l].msec /\ i <= l
<1>5. ASSUME NEW l \in DOMAIN list PROVE Before(k, l)
  <2>1. Time(list[k]) \in Nat /\ Time(list[l]) \in Nat /\ Time(list[k]) <= Time(list[l])
    BY <1>2, <1>3, <1>4
  <2>2. CASE Time(list[k]) < Time(list[l])
    BY <2>2, <1>2, <1>4, TimeOrder
  <2>3. CASE Time(list[k]) = Time(list[l])
    <3>1. list[k].sec = list[l].sec /\ list[k].msec = list[l].msec
      BY <2>3, <1>2, <1>4, TimeOrder
    <3>2. k <= l
      BY <2>3, <1>4
    <3> QED
      BY <3>1, <3>2
  <2> QED
    BY <2>1, <2>2, <2>3
<1>6. Nearest = CHOOSE i \in DOMAIN list : \A l \in DOMAIN list : Before(i, l)
  BY DEF Nearest
<1>7. Nearest \in DOMAIN list /\ \A l \in DOMAIN list : Before(Nearest, l)
  <2> HIDE DEF Before
  <2> QED
    BY <1>4, <1>5, <1>6
<1>8. ASSUME NEW l \in DOMAIN list PROVE Time(list[Nearest]) <= Time(list[l])
  <2>1. Before(Nearest, l) /\ list[Nearest] \in Events /\ list[l] \in Events
    BY <1>2, <1>7
  <2>2. Time(list[Nearest]) < Time(list[l]) \/ Time(list[Nearest]) = Time(list[l])
    BY <2>1, TimeOrder
  <2> QED
    BY <2>2, <1>2, <1>7
<1> QED
  BY <1>7, <1>8

\* The timeout of the poll ends with the nearest event, or it is less than a second
\* and that event has passed.
LEMMA TimeoutFits ==
  ASSUME Typed, list # <<>>
  PROVE  /\ Timeout \in Nat
         /\ \A k \in DOMAIN list : \/ clock + Timeout <= Time(list[k])
                                   \/ Timeout < PerSec /\ Late
<1> DEFINE e == list[Nearest]  s == Sec(clock)  m == Msec(clock)
           borrow == IF e.msec < m THEN 1 ELSE 0
           sec == e.sec - s - borrow
           msec == e.msec + borrow * PerSec - m
<1>1. /\ e \in Events /\ \A k \in DOMAIN list : Time(e) <= Time(list[k])
  BY NearestIsFirst DEF Typed
<1>0. Time(e) < clock => Late
  BY NearestIsFirst DEF Late
<1>2. /\ PerSec \in Nat /\ clock \in Nat /\ s \in Nat /\ m \in 0..(PerSec - 1)
      /\ clock = s * PerSec + m
  BY ClockNat, SplitTime
<1>3. Timeout = (IF sec < 0 THEN 0 ELSE sec) * PerSec + msec
  BY DEF Timeout
<1>4. e.sec \in Nat /\ e.msec \in 0..(PerSec - 1) /\ Time(e) = e.sec * PerSec + e.msec
  BY <1>1 DEF Events, Time
<1> HIDE DEF e, s, m
<1>5. borrow \in {0, 1} /\ sec \in Int /\ msec \in 0..(PerSec - 1)
  BY <1>2, <1>4
<1>6. CASE sec < 0
  <2>1. Timeout = msec
    BY <1>2, <1>3, <1>5, <1>6
  <2>2. CASE e.sec < s
    <3> DEFINE x == e.sec  X == x * PerSec  S == s * PerSec
    <3>0. x \in Int /\ s \in Int /\ x < s
      BY <1>2, <1>4, <2>2
    <3>1. X + PerSec <= S
      <4> HIDE DEF x
      <4> QED
        BY ONLY <3>0, SecondsFirst
    <3>2. Time(e) < clock
      <4>1. X \in Nat /\ S \in Nat
        <5>1. x \in Nat /\ s \in Nat /\ PerSec \in Nat
          BY <1>2, <1>4
        <5> HIDE DEF x
        <5> QED
          BY ONLY <5>1
      <4>2. /\ Time(e) = X + e.msec /\ clock = S + m
            /\ e.msec \in 0..(PerSec - 1) /\ m \in 0..(PerSec - 1) /\ PerSec \in Nat
        BY <1>2, <1>4
      <4> HIDE DEF X, S
      <4> QED
        BY ONLY <3>1, <4>1, <4>2
    <3> QED
      BY <2>1, <3>2, <1>0, <1>2, <1>5
  <2>3. CASE ~(e.sec < s)
    <3>1. e.sec = s /\ e.msec < m
      BY <1>2, <1>4, <1>6, <2>3
    <3>2. Time(e) < clock
      <4> DEFINE S == s * PerSec
      <4>1. S \in Nat
        BY ONLY <1>2
      <4>2. /\ Time(e) = S + e.msec /\ clock = S + m /\ e.msec < m
            /\ e.msec \in 0..(PerSec - 1) /\ m \in 0..(PerSec - 1) /\ PerSec \in Nat
        BY <3>1, <1>2, <1>4
      <4> HIDE DEF S
      <4> QED
        BY ONLY <4>1, <4>2
    <3> QED
      BY <2>1, <3>2, <1>0, <1>2, <1>5
  <2> QED
    BY <2>2, <2>3
<1>7. CASE ~(sec < 0)
  <2>1. Timeout = sec * PerSec + msec /\ sec \in Nat
    BY <1>3, <1>5, <1>7
  <2>2. sec * PerSec \in Nat
    BY <1>2, <2>1
  <2>3. sec * PerSec = e.sec * PerSec - s * PerSec - borrow * PerSec
    BY <1>2, <1>4, <1>5
  <2>4. e.sec * PerSec \in Nat /\ s * PerSec \in Nat /\ borrow * PerSec \in Nat
    BY <1>2, <1>4, <1>5
  <2>5. Timeout \in Nat
    BY <2>1, <2>2, <1>5
  <2>6. clock + Timeout = Time(e)
    <3>1. msec = e.msec + borrow * PerSec - m
      OBVIOUS
    <3> DEFINE x == e.sec * PerSec  y == s * PerSec  z == borrow * PerSec  v == sec * PerSec
    <3>2. /\ x \in Nat /\ y \in Nat /\ z \in Nat /\ v = x - y - z
          /\ Timeout = v + msec /\ msec = e.msec + z - m /\ clock = y + m /\ Time(e) = x + e.msec
      BY <3>1, <2>1, <2>3, <2>4, <1>2, <1>4
    <3>3. e.msec \in Nat /\ m \in Nat
      BY <1>2, <1>4
    <3> HIDE DEF x, y, z, v, msec
    <3> QED
      BY <3>2, <3>3
  <2> QED
    BY <2>5, <2>6, <1>1
<1> QED
  BY <1>6, <1>7

LEMMA PollInv == Inv /\ Poll => Inv'
<1> SUFFICES ASSUME Inv, Poll PROVE Inv'
  OBVIOUS
<1>0. Typed /\ Distinct /\ None \notin Int
  BY TimersAssumption DEF Inv
<1>1. list # <<>> => timeout' = Timeout /\ Timeout \in Nat
  BY <1>0, TimeoutFits DEF Poll
<1>2. list = <<>> => timeout' = None
  BY DEF Poll
<1>3. Typed'
  BY <1>0, <1>1, <1>2 DEF Poll, Typed
<1>4. Sleeps'
  <2> SUFFICES ASSUME backs = 0, NEW k \in DOMAIN list
               PROVE  /\ timeout' # None
                      /\ \/ list[k].id \in heirs \/ timeout' = 0
                         \/ clock + timeout' <= due[list[k].id + 1]
                         \/ timeout' < PerSec /\ Late
    BY DEF Sleeps, Poll, Late, Time
  <2>1. list # <<>>
    OBVIOUS
  <2>2. clock + Timeout <= Time(list[k]) \/ (Timeout < PerSec /\ Late)
    BY <1>0, <2>1, TimeoutFits
  <2>3. list[k].id \notin heirs => due[list[k].id + 1] = Time(list[k])
    BY DEF Inv, Dues
  <2> QED
    BY <1>0, <1>1, <2>1, <2>2, <2>3
<1>5. (Distinct /\ Pointers /\ Dues /\ Forward /\ Walked /\ Forced /\ Served /\ Called)'
  BY DEF Inv, Poll, Distinct, Pointers, Dues, Forward, Walked, Forced, Served, Called, Ids, Time
<1> QED
  BY <1>3, <1>4, <1>5 DEF Inv

-----------------------------------------------------------------------------
(* The steps that change the list *)

LEMMA FirstOf ==
  ASSUME NEW l \in Seq(Events)
  PROVE  /\ l = <<>> => First(l) = None
         /\ l # <<>> => 1 \in DOMAIN l /\ First(l) = l[1].id
         /\ \A k \in DOMAIN l : 1 \in 1..k /\ l[1].id = First(l)
<1>1. DOMAIN l = 1..Len(l) /\ Len(l) \in Nat /\ (Len(l) = 0 <=> l = <<>>)
  BY EmptySeq
<1>2. l # <<>> => 1 \in DOMAIN l /\ First(l) = l[1].id
  BY <1>1 DEF First
<1>3. ASSUME NEW k \in DOMAIN l PROVE 1 \in 1..k /\ l[1].id = First(l)
  <2>1. l # <<>> /\ 1 \in 1..k
    BY <1>1
  <2> QED
    BY <1>2, <2>1
<1> QED
  BY <1>2, <1>3 DEF First

\* A walk that begins at the head has not passed anything.
LEMMA FromHead ==
  ASSUME list' \in Seq(Events), te' = First(list')
  PROVE  Walked'
<1>1. \A k \in DOMAIN list' : ~ \A l \in 1..k : list'[l].id # te'
  BY FirstOf
<1> QED
  BY <1>1 DEF Walked

LEMMA processTimeEventsInv == Inv /\ processTimeEvents => Inv'
<1> SUFFICES ASSUME Inv, processTimeEvents PROVE Inv'
  OBVIOUS
<1>0. Typed /\ Distinct /\ None \notin Int
  BY TimersAssumption DEF Inv
<1> DEFINE skew == Sec(clock) < lastTime
<1>1. /\ list' = IF skew THEN Skewed(list) ELSE list
      /\ due' = IF skew THEN [k \in DOMAIN due |-> 0] ELSE due
      /\ forced' = IF skew THEN Ids ELSE {}
      /\ lastTime' = Sec(clock) /\ te' = First(list) /\ maxId' = nextId - 1 /\ now' = clock
      /\ served' = {} /\ phase = "files" /\ phase' = "walk"
      /\ UNCHANGED <<clock, nextId, timeout, id, heirs, backs>>
  BY DEF processTimeEvents
<1>2. clock \in Nat /\ clock >= PerSec /\ Sec(clock) \in Nat /\ PerSec \in Nat
  BY <1>0, ClockNat
<1>3. skew => backs # 0
  BY <1>0, <1>2 DEF Inv, Forward, Typed
<1> HIDE DEF skew
<1>4. list \in Seq(Events) /\ due \in Seq(Nat) /\ Len(due) = nextId /\ nextId \in Nat
  BY <1>0 DEF Typed
<1>5. ASSUME NEW k \in DOMAIN list
      PROVE  /\ list'[k] \in Events /\ list'[k].id = list[k].id
             /\ skew => list'[k].sec = 0
             /\ ~skew => list'[k] = list[k]
  <2>1. list[k] \in Events
    BY <1>4
  <2>2. CASE skew
    <3>1. list'[k] = [list[k] EXCEPT !.sec = 0]
      BY <1>1, <2>2 DEF Skewed
    <3> QED
      BY <2>1, <2>2, <3>1 DEF Events
  <2> QED
    BY <1>1, <2>1, <2>2
<1>6. DOMAIN list' = DOMAIN list /\ DOMAIN list = 1..Len(list) /\ Len(list) \in Nat
  BY <1>1, <1>4 DEF Skewed
<1>7. list' \in Seq(Events)
  <2>1. CASE skew
    <3>1. list' \in [1..Len(list) -> Events]
      BY <1>1, <1>5, <1>6, <2>1 DEF Skewed
    <3> QED
      BY <1>6, <3>1
  <2> QED
    BY <1>1, <1>4, <2>1
<1>8. due' \in Seq(Nat) /\ Len(due') = nextId
  <2>1. CASE skew
    <3>1. DOMAIN due = 1..nextId
      BY <1>4
    <3>2. due' = [k \in 1..nextId |-> 0]
      BY <1>1, <2>1, <3>1
    <3> QED
      BY <1>4, <3>2
  <2> QED
    BY <1>1, <1>4, <2>1
<1>9. Ids' = Ids
  BY <1>5, <1>6 DEF Ids
<1>10. te' = First(list')
  <2>1. CASE list = <<>>
    <3>1. list' = <<>>
      BY <1>4, <1>6, <1>7, <2>1, EmptySeq
    <3> QED
      BY <1>1, <2>1, <3>1
  <2>2. CASE list # <<>>
    <3>1. 1 \in DOMAIN list /\ te' = list[1].id
      BY <1>1, <1>4, <2>2, FirstOf
    <3>2. First(list') = list'[1].id
      BY <1>6, <1>7, <3>1, FirstOf
    <3> QED
      BY <1>5, <3>1, <3>2
  <2> QED
    BY <2>1, <2>2
<1>11. te' = None \/ (te' \in Ids /\ te' \in Nat)
  BY <1>0, <1>1, <1>4, FirstOf, Find
<1>12. Typed'
  <2>1. /\ lastTime' \in Nat /\ now' \in Nat /\ te' \in Nat \cup {None}
        /\ maxId' \in Int /\ maxId' < nextId' /\ phase' = "walk" /\ served' = {}
        /\ UNCHANGED <<clock, nextId, timeout, id, heirs, backs>>
    BY <1>1, <1>2, <1>4, <1>11
  <2> QED
    BY <1>0, <1>7, <1>8, <2>1 DEF Typed
<1>13. Distinct'
  BY <1>0, <1>1, <1>5, <1>6 DEF Distinct
<1>14. Pointers'
  BY <1>1, <1>9, <1>11 DEF Inv, Pointers
<1>15. Dues'
  <2> SUFFICES ASSUME NEW k \in DOMAIN list, list'[k].id \notin heirs
               PROVE  /\ due'[list'[k].id + 1] <= Time(list'[k])
                      /\ backs = 0 => due'[list'[k].id + 1] = Time(list'[k])
    BY <1>1, <1>6 DEF Dues, Time
  <2>1. CASE skew
    <3>1. list[k].id + 1 \in DOMAIN due
      BY <1>0, <1>4, Find
    <3>2. due'[list'[k].id + 1] = 0
      BY <1>1, <1>5, <2>1, <3>1
    <3>3. Time(list'[k]) \in Nat
      BY <1>2, <1>5, ReachedTime
    <3> QED
      BY <1>3, <2>1, <3>2, <3>3
  <2>2. CASE ~skew
    BY <1>1, <1>5, <2>2 DEF Inv, Dues
  <2> QED
    BY <2>1, <2>2
<1>16. Forward'
  <2>1. lastTime' <= Sec(clock')
    BY <1>1, <1>2
  <2> QED
    BY <2>1 DEF Forward
<1>17. Walked'
  BY <1>7, <1>10, FromHead
<1>18. Forced'
  <2>1. \A k \in DOMAIN list' : list'[k].id <= maxId'
    BY <1>0, <1>1, <1>4, <1>5, <1>6, Find
  <2>2. forced' \subseteq Ids'
    BY <1>1, <1>9
  <2>3. \A k \in DOMAIN list' : list'[k].id \in forced' => list'[k].sec = 0
    BY <1>1, <1>5, <1>6
  <2> QED
    BY <1>1, <1>2, <2>1, <2>2, <2>3 DEF Forced
<1>19. (Served /\ Called /\ Sleeps)'
  BY <1>1 DEF Served, Called, Sleeps
<1> QED
  BY <1>12, <1>13, <1>14, <1>15, <1>16, <1>17, <1>18, <1>19 DEF Inv

LEMMA stopselftimerInv ==
  ASSUME Inv, NEW i \in Ids, stopselftimer(i)
  PROVE  Inv'
<1>0. Typed /\ Distinct /\ None \notin Int
  BY TimersAssumption DEF Inv
<1>1. /\ phase \in {"files", "call"} /\ list' = Without(i)
      /\ te' = IF te = i THEN None ELSE te
      /\ forced' = forced \ {i}
      /\ UNCHANGED <<clock, nextId, lastTime, timeout, now, maxId, backs, phase, id, due, heirs,
                     served>>
  BY DEF stopselftimer, loopVars
<1>2. list' \in Seq(Events)
  BY <1>0, <1>1, WithoutIt
<1>3. \A k \in DOMAIN list' : \E l \in DOMAIN list : list'[k] = list[l] /\ list[l].id # i
  BY <1>0, <1>1, WithoutIt
<1>4. Ids' = Ids \ {i}
  <2>1. \A l \in DOMAIN list : list[l].id # i => \E k \in DOMAIN list' : list'[k] = list[l]
    BY <1>0, <1>1, WithoutIt
  <2> QED
    BY <1>3, <2>1 DEF Ids
<1>5. Typed'
  BY <1>0, <1>1, <1>2 DEF Typed
<1>6. Distinct'
  <2>1. \A k, l \in DOMAIN list' : list'[k].id = list'[l].id => k = l
    BY <1>0, <1>1, WithoutIt
  <2> QED
    BY <1>0, <1>1, <1>3, <2>1 DEF Distinct
<1>7. Pointers'
  BY <1>0, <1>1, <1>4 DEF Inv, Pointers
<1>8. Dues'
  BY <1>1, <1>3 DEF Inv, Dues, Time
<1>9. Forward' /\ Walked' /\ Sleeps'
  BY <1>1 DEF Inv, Forward, Walked, Sleeps
<1>10. Forced'
  BY <1>1, <1>3, <1>4 DEF Inv, Forced
<1>11. Served'
  BY <1>1, <1>3 DEF Inv, Served, Time
<1>12. Called'
  BY <1>1 DEF Inv, Called, Pointers
<1> QED
  BY <1>5, <1>6, <1>7, <1>8, <1>9, <1>10, <1>11, <1>12 DEF Inv

LEMMA addtimerInv ==
  ASSUME Inv, NEW kind \in Kinds, NEW ms \in Delays, addtimer(kind, ms)
  PROVE  Inv'
<1>0. Typed /\ Distinct /\ None \notin Int /\ ms \in Nat /\ clock \in Nat /\ nextId \in Nat
  BY TimersAssumption, ClockNat DEF Inv, Typed
<1> DEFINE w == aeAddMillisecondsToNow(ms)
           e == [id |-> nextId, kind |-> kind, every |-> IF kind = "timer" THEN ms ELSE 0,
                 sec |-> w.sec, msec |-> w.msec]
<1>1. /\ phase \in {"files", "call"} /\ nextId < MaxTimers /\ nextId' = nextId + 1
      /\ list' = <<e>> \o list
      /\ te' \in IF phase = "call" /\ te = None THEN {None, nextId} ELSE {te}
      /\ due' = Append(due, clock + ms)
      /\ heirs' = IF phase = "call" /\ id \notin Ids THEN heirs \cup {nextId} ELSE heirs
      /\ UNCHANGED <<clock, lastTime, phase, timeout, id, now, maxId, served, forced, backs>>
  BY DEF addtimer
<1>2. w.sec \in Nat /\ w.msec \in 0..(PerSec - 1) /\ w.sec * PerSec + w.msec = clock + ms
  BY <1>0, AddTime
<1> HIDE DEF w
<1>3. e \in Events /\ e.id = nextId /\ Time(e) = clock + ms
  BY <1>0, <1>2 DEF Events, Time
<1> HIDE DEF e
<1>4. /\ list \in Seq(Events) /\ due \in Seq(Nat) /\ Len(due) = nextId
      /\ nextId' \in 0..MaxTimers /\ maxId < nextId /\ maxId \in Int
  BY <1>0, <1>1, TimersAssumption DEF Typed
<1>5. /\ list' \in Seq(Events) /\ DOMAIN list' = 1..(Len(list) + 1) /\ list'[1] = e
      /\ \A k \in DOMAIN list : k + 1 \in DOMAIN list' /\ list'[k + 1] = list[k]
      /\ \A k \in DOMAIN list' : k # 1 => k - 1 \in DOMAIN list /\ list'[k] = list[k - 1]
  <2>1. <<e>> \in Seq(Events) /\ Len(<<e>>) = 1 /\ <<e>>[1] = e
    BY <1>3
  <2>2. /\ <<e>> \o list \in Seq(Events) /\ Len(<<e>> \o list) = 1 + Len(list)
        /\ \A k \in 1..(1 + Len(list)) :
             (<<e>> \o list)[k] = IF k <= 1 THEN <<e>>[k] ELSE list[k - 1]
    <3> DEFINE a == <<e>>
    <3>1. a \in Seq(Events) /\ Len(a) = 1
      BY <2>1
    <3> HIDE DEF a
    <3>2. /\ a \o list \in Seq(Events) /\ Len(a \o list) = 1 + Len(list)
          /\ \A k \in 1..(1 + Len(list)) : (a \o list)[k] = IF k <= 1 THEN a[k] ELSE list[k - 1]
      <4>1. /\ a \o list \in Seq(Events) /\ Len(a \o list) = Len(a) + Len(list)
            /\ \A k \in 1..(Len(a) + Len(list)) :
                 (a \o list)[k] = IF k <= Len(a) THEN a[k] ELSE list[k - Len(a)]
        BY <3>1, <1>4, ConcatProperties, Zenon
      <4> QED
        BY <3>1, <4>1
    <3> QED
      BY <3>2 DEF a
  <2>3. Len(list) \in Nat /\ DOMAIN list = 1..Len(list)
    BY <1>4
  <2>4. list' \in Seq(Events) /\ DOMAIN list' = 1..(Len(list) + 1) /\ list'[1] = e
    BY <1>1, <2>1, <2>2, <2>3
  <2>5. ASSUME NEW k \in DOMAIN list', k # 1
        PROVE  k - 1 \in DOMAIN list /\ list'[k] = list[k - 1]
    BY <1>1, <2>2, <2>3, <2>4, <2>5
  <2>6. ASSUME NEW k \in DOMAIN list
        PROVE  k + 1 \in DOMAIN list' /\ list'[k + 1] = list[k]
    <3>1. k + 1 \in DOMAIN list' /\ k + 1 # 1 /\ (k + 1) - 1 = k
      BY <2>3, <2>4
    <3> QED
      BY <2>5, <3>1
  <2> QED
    BY <2>4, <2>5, <2>6
<1>6. Ids' = Ids \cup {nextId}
  <2>1. 1 \in DOMAIN list'
    BY <1>4, <1>5
  <2>2. ASSUME NEW i \in Ids' PROVE i \in Ids \cup {nextId}
    <3>1. PICK k \in DOMAIN list' : i = list'[k].id
      BY DEF Ids
    <3> QED
      BY <1>3, <1>5, <3>1 DEF Ids
  <2>3. ASSUME NEW i \in Ids PROVE i \in Ids'
    <3>1. PICK k \in DOMAIN list : i = list[k].id
      BY DEF Ids
    <3>2. k + 1 \in DOMAIN list' /\ list'[k + 1] = list[k]
      BY <1>5
    <3> QED
      BY <3>1, <3>2 DEF Ids
  <2>4. nextId \in Ids'
    BY <1>3, <1>5, <2>1 DEF Ids
  <2> QED
    BY <2>2, <2>3, <2>4
<1>7. \A i \in Ids : i < nextId
  BY <1>0 DEF Distinct, Ids
<1>8. /\ due' \in Seq(Nat) /\ Len(due') = nextId + 1 /\ due'[nextId + 1] = clock + ms
      /\ \A i \in 0..(nextId - 1) : due'[i + 1] = due[i + 1]
  <2>1. clock + ms \in Nat
    BY <1>0
  <2>2. /\ due' \in Seq(Nat) /\ Len(due') = nextId + 1 /\ due'[nextId + 1] = clock + ms
        /\ \A j \in 1..nextId : due'[j] = due[j]
    <3> DEFINE a == Append(due, clock + ms)
    <3>1. /\ a \in Seq(Nat) /\ Len(a) = Len(due) + 1 /\ a[Len(due) + 1] = clock + ms
          /\ \A j \in 1..Len(due) : a[j] = due[j]
      BY <1>4, <2>1, AppendProperties
    <3> HIDE DEF a
    <3>2. due' = a /\ Len(due) = nextId
      BY <1>1, <1>4 DEF a
    <3> QED
      BY <3>1, <3>2
  <2>3. ASSUME NEW i \in 0..(nextId - 1) PROVE due'[i + 1] = due[i + 1]
    <3>1. i + 1 \in 1..nextId
      BY <1>0
    <3> QED
      BY <2>2, <3>1
  <2> QED
    BY <2>2, <2>3
<1>9. Typed'
  <2>1. te' \in Nat \cup {None}
    BY <1>0, <1>1 DEF Typed
  <2>2. /\ maxId < nextId' /\ served \subseteq 0..(nextId' - 1)
        /\ heirs' \subseteq 0..(nextId' - 1)
    BY <1>0, <1>1, <1>4 DEF Typed
  <2> QED
    BY <1>0, <1>1, <1>4, <1>5, <1>8, <2>1, <2>2 DEF Typed
<1>10. Distinct'
  <2>1. ASSUME NEW k \in DOMAIN list' PROVE list'[k].id < nextId'
    <3>1. CASE k = 1
      BY <1>0, <1>1, <1>3, <1>5, <3>1
    <3>2. CASE k # 1
      <4>1. k - 1 \in DOMAIN list /\ list'[k] = list[k - 1]
        BY <1>5, <3>2
      <4>2. list[k - 1].id \in 0..(nextId - 1) /\ nextId' = nextId + 1
        BY <1>0, <1>1, <4>1, Find
      <4> QED
        BY <1>0, <4>1, <4>2
    <3> QED
      BY <3>1, <3>2
  <2>2. ASSUME NEW k \in DOMAIN list', NEW l \in DOMAIN list', list'[k].id = list'[l].id
        PROVE  k = l
    <3>1. k \in Int /\ l \in Int
      BY <1>4, <1>5
    <3>2. \A j \in DOMAIN list : list[j].id < nextId
      BY <1>0 DEF Distinct
    <3>3. CASE k = 1 /\ l # 1
      BY <1>0, <1>3, <1>5, <2>2, <3>2, <3>3
    <3>4. CASE k # 1 /\ l = 1
      BY <1>0, <1>3, <1>5, <2>2, <3>2, <3>4
    <3>5. CASE k # 1 /\ l # 1
      <4>1. k - 1 = l - 1
        BY <1>0, <1>5, <2>2, <3>5 DEF Distinct
      <4> QED
        BY <3>1, <4>1
    <3> QED
      BY <3>3, <3>4, <3>5
  <2> QED
    BY <2>1, <2>2 DEF Distinct
<1>11. Pointers'
  <2>1. phase = "call" => id \in Nat /\ id <= maxId /\ id # nextId
    BY <1>0, <1>4 DEF Inv, Pointers, Typed
  <2>2. te' # None => te' \in Ids' /\ phase' \in {"walk", "call"}
    BY <1>1, <1>6 DEF Inv, Pointers
  <2>3. phase' = "call" <=> id' # None
    BY <1>1 DEF Inv, Pointers
  <2>4. ASSUME phase' = "call"
        PROVE  te' = id' \/ (id' \notin Ids' /\ (te' # None => te' > maxId' /\ te' \in heirs'))
    <3>1. CASE te = id
      BY <1>1, <2>3, <2>4, <3>1
    <3>2. CASE id \notin Ids /\ (te # None => te > maxId /\ te \in heirs)
      <4>1. id' \notin Ids'
        BY <1>1, <1>6, <2>1, <2>4, <3>2
      <4>2. te' # None => te' > maxId' /\ te' \in heirs'
        BY <1>1, <1>4, <2>4, <3>2
      <4> QED
        BY <4>1, <4>2
    <3> QED
      BY <1>1, <2>4, <3>1, <3>2 DEF Inv, Pointers
  <2> QED
    BY <1>1, <2>1, <2>2, <2>3, <2>4 DEF Pointers
<1>12. Dues'
  <2> SUFFICES ASSUME NEW k \in DOMAIN list', list'[k].id \notin heirs
               PROVE  /\ due'[list'[k].id + 1] <= Time(list'[k])
                      /\ backs = 0 => due'[list'[k].id + 1] = Time(list'[k])
    BY <1>1 DEF Dues, Time
  <2>1. CASE k = 1
    BY <1>0, <1>3, <1>5, <1>8, <2>1
  <2>2. CASE k # 1
    <3>1. k - 1 \in DOMAIN list /\ list'[k] = list[k - 1]
      BY <1>5, <2>2
    <3>2. list[k - 1].id \in 0..(nextId - 1)
      BY <1>0, <3>1, Find
    <3>3. due'[list[k - 1].id + 1] = due[list[k - 1].id + 1]
      BY <1>8, <3>2
    <3> QED
      BY <3>1, <3>3 DEF Inv, Dues
  <2> QED
    BY <2>1, <2>2
<1>13. Forward' /\ Walked' /\ Sleeps'
  BY <1>1 DEF Inv, Forward, Walked, Sleeps
<1>14. Forced'
  <2>1. nextId \notin forced
    BY <1>0, <1>7 DEF Inv, Forced
  <2>2. forced' \subseteq Ids'
    BY <1>1, <1>6 DEF Inv, Forced
  <2>3. ASSUME NEW k \in DOMAIN list', list'[k].id \in forced'
        PROVE  list'[k].id <= maxId' /\ list'[k].sec = 0
    <3>1. k # 1
      BY <1>1, <1>3, <1>5, <2>1, <2>3
    <3> QED
      BY <1>1, <1>5, <2>3, <3>1 DEF Inv, Forced
  <2> QED
    BY <1>1, <2>2, <2>3 DEF Inv, Forced
<1>15. Served'
  <2>1. nextId \notin served
    BY <1>0 DEF Typed
  <2>2. ASSUME phase' \in {"walk", "call"}, NEW k \in DOMAIN list', list'[k].id \in served'
        PROVE  Time(list'[k]) > now'
    <3>1. k # 1
      BY <1>1, <1>3, <1>5, <2>1, <2>2
    <3> QED
      BY <1>1, <1>5, <2>2, <3>1 DEF Inv, Served
  <2> QED
    BY <1>1, <2>2 DEF Inv, Served, Time
<1>16. Called'
  <2> SUFFICES ASSUME phase = "call", te' = id, id \notin heirs PROVE due'[id + 1] <= now
    BY <1>1 DEF Called
  <2>1. id \in Nat /\ id <= maxId /\ id # None
    BY <1>0 DEF Inv, Pointers, Typed
  <2>2. id \in 0..(nextId - 1) /\ te = id
    BY <1>0, <1>1, <1>4, <2>1
  <2> QED
    BY <1>8, <2>2 DEF Inv, Called
<1> QED
  BY <1>9, <1>10, <1>11, <1>12, <1>13, <1>14, <1>15, <1>16 DEF Inv

\* A callback comes to AE_NOMORE or to milliseconds.
LEMMA RetvalsType ==
  ASSUME NEW kind, NEW every \in SUBSET Nat, NEW r \in Results, NEW ms \in Retvals(kind, every, r)
  PROVE  ms = NOMORE \/ (ms # NOMORE /\ ms \in Nat)
<1>1. r \in {<<"error", 0>>, <<"missing", 0>>} \/ r \in {"value"} \X Returns
  BY DEF Results
<1>2. r[1] = "value" => r[2] \in Nat \cup {-1}
  <2>1. CASE r = <<"error", 0>> \/ r = <<"missing", 0>>
    BY <2>1
  <2>2. CASE r \in {"value"} \X Returns
    <3>1. r[2] \in Returns
      BY <2>2
    <3> QED
      BY <3>1, TimersAssumption
  <2> QED
    BY <1>1, <2>1, <2>2
<1>3. Retvals(kind, every, r) \subseteq Nat \cup {-1}
  <2> DEFINE again == kind = "timer" /\ r \in {<<"error", 0>>, <<"value", 1>>}
             over == r[1] # "value" \/ (kind # "ae" /\ r[2] = 0)
  <2>1. Retvals(kind, every, r) = IF again THEN every ELSE IF over THEN {-1} ELSE {r[2]}
    BY DEF Retvals, NOMORE
  <2>2. ~over => r[1] = "value"
    OBVIOUS
  <2> HIDE DEF again, over
  <2> QED
    BY <1>2, <2>1, <2>2
<1> QED
  BY <1>3 DEF NOMORE

\* The callback's timer ends.
LEMMA EndsInv ==
  ASSUME Inv, phase = "call", phase' = "walk", list' = Without(id),
         UNCHANGED <<due, heirs, served>>,
         te' = First(list'), id' = None, UNCHANGED <<loopVars, forced>>
  PROVE  Inv'
<1>0. Typed /\ Distinct /\ None \notin Int
  BY TimersAssumption DEF Inv
<1>1. UNCHANGED <<clock, nextId, lastTime, timeout, now, maxId, backs, due, heirs, served, forced>>
  BY DEF loopVars
<1>2. list' \in Seq(Events)
  BY <1>0, WithoutIt
<1>3. \A k \in DOMAIN list' : \E l \in DOMAIN list : list'[k] = list[l] /\ list[l].id # id
  BY <1>0, WithoutIt
<1>4. Ids' = Ids \ {id}
  <2>1. \A l \in DOMAIN list : list[l].id # id => \E k \in DOMAIN list' : list'[k] = list[l]
    BY <1>0, WithoutIt
  <2> QED
    BY <1>3, <2>1 DEF Ids
<1>5. te' = None \/ (te' \in Ids' /\ te' \in Nat)
  <2>1. CASE list' # <<>>
    <3>1. 1 \in DOMAIN list' /\ te' = list'[1].id /\ list'[1] \in Events
      BY <1>2, <2>1, FirstOf
    <3> QED
      BY <3>1 DEF Ids, Events
  <2> QED
    BY <1>2, <2>1, FirstOf
<1>6. Typed'
  BY <1>0, <1>1, <1>2, <1>5 DEF Typed
<1>7. Distinct'
  <2>1. \A k, l \in DOMAIN list' : list'[k].id = list'[l].id => k = l
    BY <1>0, WithoutIt
  <2> QED
    BY <1>0, <1>1, <1>3, <2>1 DEF Distinct
<1>8. Pointers'
  BY <1>5 DEF Pointers
<1>9. Dues'
  BY <1>1, <1>3 DEF Inv, Dues, Time
<1>10. Forward'
  BY <1>1 DEF Inv, Forward
<1>11. Walked'
  BY <1>2, FromHead
<1>12. Forced'
  BY <1>1, <1>3, <1>4 DEF Inv, Forced
<1>13. Served'
  BY <1>1, <1>3 DEF Inv, Served, Time
<1>14. Called' /\ Sleeps'
  BY DEF Called, Sleeps
<1> QED
  BY <1>6, <1>7, <1>8, <1>9, <1>10, <1>11, <1>12, <1>13, <1>14 DEF Inv

\* The callback's timer goes on: te gets a new time, and only if that is the timer
\* of the callback does it have a right to it.
LEMMA GoesOnInv ==
  ASSUME Inv, NEW ms \in Nat, phase = "call", phase' = "walk", list' = Rearm(te, ms),
         due' = IF te = id THEN [due EXCEPT ![id + 1] = clock + ms] ELSE due,
         heirs' = IF te = id THEN heirs \ {id} ELSE heirs,
         served' = IF ms > 0 /\ clock >= now THEN served \cup {id} ELSE served,
         te' = First(list'), id' = None, UNCHANGED <<loopVars, forced>>
  PROVE  Inv'
<1>0. /\ Typed /\ Distinct /\ None \notin Int /\ clock \in Nat /\ now \in Nat
      /\ nextId \in Nat /\ maxId \in Int /\ maxId < nextId
  BY TimersAssumption, ClockNat DEF Inv, Typed
<1>1. UNCHANGED <<clock, nextId, lastTime, timeout, now, maxId, backs, forced>>
  BY DEF loopVars
<1>2. /\ list' \in Seq(Events) /\ DOMAIN list' = DOMAIN list
  BY <1>0, Rearmed
<1>3. ASSUME NEW k \in DOMAIN list
      PROVE  /\ list'[k].id = list[k].id
             /\ list[k].id # te => list'[k] = list[k]
             /\ list[k].id = te => Time(list'[k]) = clock + ms
  BY <1>0, Rearmed
<1>4. /\ id \in Nat /\ id <= maxId /\ id \notin forced /\ id \notin served
      /\ te = id \/ (id \notin Ids /\ (te # None => te > maxId /\ te \in heirs))
  BY <1>0 DEF Inv, Pointers, Forced, Served, Typed
<1>5. Ids' = Ids
  BY <1>2, <1>3 DEF Ids
<1>6. te' = None \/ (te' \in Ids' /\ te' \in Nat)
  <2>1. CASE list' # <<>>
    <3>1. 1 \in DOMAIN list' /\ te' = list'[1].id /\ list'[1] \in Events
      BY <1>2, <2>1, FirstOf
    <3> QED
      BY <3>1 DEF Ids, Events
  <2> QED
    BY <1>2, <2>1, FirstOf
<1>7. te # None => te \in 0..(nextId - 1)
  <2> SUFFICES ASSUME te # None PROVE te \in 0..(nextId - 1)
    OBVIOUS
  <2>1. PICK k \in DOMAIN list : list[k].id = te
    BY DEF Inv, Pointers, Ids
  <2> QED
    BY <1>0, <2>1, Find
<1>8. /\ due' \in Seq(Nat) /\ Len(due') = nextId
      /\ te = id => due'[te + 1] = clock + ms
      /\ \A i \in 0..(nextId - 1) : i # te => due'[i + 1] = due[i + 1]
  <2>1. due \in Seq(Nat) /\ Len(due) = nextId /\ DOMAIN due = 1..nextId
    BY <1>0 DEF Typed
  <2>2. CASE te # id
    BY <2>1, <2>2
  <2>3. CASE te = id
    <3>0. te # None /\ te \in 0..(nextId - 1)
      BY <1>0, <1>4, <1>7, <2>3
    <3>1. due' = [due EXCEPT ![te + 1] = clock + ms] /\ te + 1 \in 1..nextId /\ clock + ms \in Nat
      BY <1>0, <3>0, <2>3
    <3>2. due' \in Seq(Nat) /\ Len(due') = nextId /\ due'[te + 1] = clock + ms
      BY <2>1, <3>1
    <3>3. ASSUME NEW i \in 0..(nextId - 1), i # te PROVE due'[i + 1] = due[i + 1]
      <4>1. i + 1 \in DOMAIN due /\ i + 1 # te + 1
        BY <1>0, <2>1, <3>0, <3>3
      <4> QED
        BY <3>1, <4>1
    <3> QED
      BY <3>2, <3>3
  <2> QED
    BY <2>2, <2>3
<1>9. Typed'
  <2>1. served' \subseteq 0..(nextId - 1) /\ heirs' \subseteq 0..(nextId - 1)
    BY <1>0, <1>4 DEF Typed
  <2>2. te' \in Nat \cup {None} /\ id' \in Nat \cup {None} /\ phase' = "walk"
    BY <1>6
  <2> QED
    BY <1>0, <1>1, <1>2, <1>8, <2>1, <2>2 DEF Typed
<1>10. Distinct'
  BY <1>0, <1>1, <1>2, <1>3 DEF Distinct
<1>11. Pointers'
  BY <1>6 DEF Pointers
<1>12. Dues'
  <2> SUFFICES ASSUME NEW k \in DOMAIN list, list'[k].id \notin heirs'
               PROVE  /\ due'[list'[k].id + 1] <= Time(list'[k])
                      /\ backs = 0 => due'[list'[k].id + 1] = Time(list'[k])
    BY <1>1, <1>2 DEF Dues, Time
  <2>1. list[k].id \in 0..(nextId - 1) /\ list[k].id # None
    BY <1>0, Find
  <2>2. CASE list[k].id = te
    <3>0. te = id
      BY <1>3, <1>4, <2>1, <2>2
    <3>1. due'[list'[k].id + 1] = clock + ms /\ Time(list'[k]) = clock + ms
      BY <1>3, <1>8, <2>1, <2>2, <3>0
    <3> QED
      BY <1>0, <3>1
  <2>3. CASE list[k].id # te
    <3>1. list'[k] = list[k] /\ due'[list[k].id + 1] = due[list[k].id + 1]
      BY <1>3, <1>8, <2>1, <2>3
    <3>2. list[k].id \notin heirs
      BY <2>3, <3>1
    <3> QED
      BY <3>1, <3>2 DEF Inv, Dues
  <2> QED
    BY <2>2, <2>3
<1>13. Forward'
  BY <1>1 DEF Inv, Forward
<1>14. Walked'
  BY <1>2, FromHead
<1>15. Forced'
  <2>1. ASSUME NEW k \in DOMAIN list, list[k].id \in forced
        PROVE  list'[k] = list[k] /\ list[k].id <= maxId /\ list[k].sec = 0
    <3>1. list[k].id <= maxId /\ list[k].sec = 0 /\ list[k].id \in Nat
      BY <1>0, <2>1, Find DEF Inv, Forced
    <3>2. list[k].id # te
      BY <1>0, <1>4, <2>1, <3>1
    <3> QED
      BY <1>3, <3>1, <3>2
  <2>2. \A k \in DOMAIN list' : list'[k].id \in forced' => list'[k].id <= maxId' /\ list'[k].sec = 0
    BY <1>1, <1>2, <1>3, <2>1
  <2>3. forced' \subseteq Ids' /\ now' >= PerSec
    BY <1>1, <1>5 DEF Inv, Forced
  <2> QED
    BY <2>2, <2>3 DEF Forced
<1>16. Served'
  <2>1. ASSUME NEW k \in DOMAIN list, list[k].id \in served' PROVE Time(list'[k]) > now
    <3>1. list[k].id \in Ids /\ list[k].id \in Nat /\ list[k].id # None
      BY <1>0, Find
    <3>2. CASE list[k].id = te
      <4>1. te = id \/ te > maxId
        BY <1>4, <3>1, <3>2
      <4>2. te \notin served
        BY <1>0, <1>4, <3>1, <3>2, <4>1 DEF Inv, Served
      <4>3. ms > 0 /\ clock >= now
        BY <2>1, <3>2, <4>2
      <4>4. Time(list'[k]) = clock + ms
        BY <1>3, <3>2
      <4> QED
        BY <1>0, <4>3, <4>4
    <3>3. CASE list[k].id # te
      <4>1. list[k].id # id
        BY <1>4, <3>1, <3>3
      <4>2. list[k].id \in served /\ list'[k] = list[k]
        BY <1>3, <2>1, <3>3, <4>1
      <4> QED
        BY <4>2 DEF Inv, Served
    <3> QED
      BY <3>2, <3>3
  <2>2. \A i \in served' : i <= maxId
    BY <1>4 DEF Inv, Served
  <2>3. \A k \in DOMAIN list' : list'[k].id \in served' => Time(list'[k]) > now'
    BY <1>1, <1>2, <1>3, <2>1
  <2> QED
    BY <1>1, <2>2, <2>3 DEF Served, Time
<1>17. Called' /\ Sleeps'
  BY DEF Called, Sleeps
<1> QED
  BY <1>9, <1>10, <1>11, <1>12, <1>13, <1>14, <1>15, <1>16, <1>17 DEF Inv

LEMMA ReturnInv ==
  ASSUME Inv, NEW kind, NEW every \in SUBSET Nat, Return(kind, every)
  PROVE  Inv'
<1>0. PICK r \in Results : \E ms \in Retvals(kind, every, r) :
          \/ /\ ms = NOMORE
             /\ list' = Without(id)
             /\ UNCHANGED <<due, heirs, served>>
          \/ /\ ms # NOMORE
             /\ list' = Rearm(te, ms)
             /\ due' = IF te = id THEN [due EXCEPT ![id + 1] = clock + ms] ELSE due
             /\ heirs' = IF te = id THEN heirs \ {id} ELSE heirs
             /\ served' = IF ms > 0 /\ clock >= now THEN served \cup {id} ELSE served
  BY Zenon DEF Return
<1>1. PICK ms \in Retvals(kind, every, r) :
        \/ /\ ms = NOMORE
           /\ list' = Without(id)
           /\ UNCHANGED <<due, heirs, served>>
        \/ /\ ms # NOMORE
           /\ list' = Rearm(te, ms)
           /\ due' = IF te = id THEN [due EXCEPT ![id + 1] = clock + ms] ELSE due
           /\ heirs' = IF te = id THEN heirs \ {id} ELSE heirs
           /\ served' = IF ms > 0 /\ clock >= now THEN served \cup {id} ELSE served
  BY <1>0, Zenon
<1>2. phase = "call" /\ phase' = "walk" /\ te' = First(list') /\ id' = None
      /\ UNCHANGED <<loopVars, forced>>
  BY DEF Return, Resume
<1>3. CASE ms = NOMORE
  BY <1>1, <1>2, <1>3, EndsInv
<1>4. CASE ms # NOMORE
  <2>1. ms \in Nat
    BY <1>4, RetvalsType
  <2> QED
    BY <1>1, <1>2, <1>4, <2>1, GoesOnInv
<1> QED
  BY <1>3, <1>4

LEMMA CallbackEndsInv == Inv /\ CallbackEnds => Inv'
<1> SUFFICES ASSUME Inv, CallbackEnds PROVE Inv'
  OBVIOUS
<1>1. CASE id \in Ids /\ Return(Event(id).kind, {Event(id).every})
  <2>1. Event(id) \in Events
    BY <1>1, Position DEF Inv
  <2>2. {Event(id).every} \in SUBSET Nat
    BY <2>1 DEF Events
  <2> QED
    BY <1>1, <2>2, ReturnInv
<1>2. CASE \E kind \in Kinds : Return(kind, Delays)
  <2>1. Delays \in SUBSET Nat
    BY TimersAssumption
  <2> QED
    BY <1>2, <2>1, ReturnInv
<1> QED
  BY <1>1, <1>2 DEF CallbackEnds

LEMMA StepInv == Inv /\ [Next]_vars => Inv'
<1> SUFFICES ASSUME Inv, [Next]_vars PROVE Inv'
  OBVIOUS
<1>1. CASE UNCHANGED vars
  <2>1. Typed'
    BY <1>1 DEF Inv, vars, Typed
  <2>2. (Distinct /\ Pointers /\ Dues /\ Forward /\ Walked /\ Forced /\ Served /\ Called /\ Sleeps)'
    BY <1>1 DEF Inv, vars, Distinct, Pointers, Dues, Forward, Walked, Forced, Served, Called,
       Sleeps, Late, Ids, Time
  <2> QED
    BY <2>1, <2>2 DEF Inv
<1>2. CASE \E kind \in Kinds, ms \in Delays : addtimer(kind, ms)
  BY <1>2, addtimerInv
<1>3. CASE \E i \in Ids : stopselftimer(i)
  BY <1>3, stopselftimerInv
<1> QED
  BY <1>1, <1>2, <1>3, TickInv, SetBackInv, PollInv, WakeInv, processTimeEventsInv, SkipInv,
     CallInv, CallbackEndsInv, EndWalkInv DEF Next

LEMMA Invariance == Spec => []Inv
  BY InitInv, StepInv, PTL DEF Spec

-----------------------------------------------------------------------------
(* Theorems *)

\* Events have different ids that were given out, their milliseconds are less than
\* a second, and te is one of them or null in every step of aeMain, also after
\* callbacks stopped their own timer.
THEOREM TypeCorrect == Spec => []TypeOK
<1>1. Inv => TypeOK
  <2> SUFFICES ASSUME Inv PROVE TypeOK
    OBVIOUS
  <2>1. Typed /\ Distinct
    BY DEF Inv
  <2>2. Ids \subseteq 0..(nextId - 1)
    BY <2>1, Find DEF Ids
  <2>3. \A k \in DOMAIN list : list[k].msec \in 0..(PerSec - 1)
    BY <2>1, Find DEF Events
  <2> QED
    BY <2>1, <2>2, <2>3 DEF TypeOK, Inv, Typed, Distinct, Pointers
<1> QED
  BY <1>1, Invariance, PTL

\* processTimeEvents calls no timer before its milliseconds are over, unless the
\* clock was set back, or the timer was added by a callback that had stopped its own
\* timer and may have got the time which that callback returned.
THEOREM NoTimerEarly == Spec => []NotEarly
<1>1. Inv => NotEarly
  <2> SUFFICES ASSUME Inv, phase = "call", id \in Ids, id \notin heirs PROVE now >= due[id + 1]
    BY DEF NotEarly
  <2>0. te = id
    BY DEF Inv, Pointers
  <2>1. due[id + 1] <= now
    BY <2>0 DEF Inv, Called
  <2>2. due \in Seq(Nat) /\ Len(due) = nextId /\ now \in Nat /\ nextId \in Nat
    BY DEF Inv, Typed
  <2>3. PICK k \in DOMAIN list : list[k].id = id
    BY DEF Ids
  <2>4. id \in 0..(nextId - 1)
    BY <2>3, Find DEF Inv
  <2>5. due[id + 1] \in Nat
    BY <2>2, <2>4
  <2> QED
    BY <2>1, <2>2, <2>5
<1> QED
  BY <1>1, Invariance, PTL

\* processTimeEvents leaves no timer behind that is due, although it begins again
\* at the head after every callback, and calls all timers if the clock was set back.
THEOREM WalkIsComplete == Spec => []NoneLeft
<1>1. Inv => NoneLeft
  <2> SUFFICES ASSUME Inv, phase = "walk", te = None
               PROVE  /\ \A i \in Ids : i <= maxId => ~Reached(now, Event(i))
                      /\ forced = {}
    BY DEF NoneLeft
  <2>1. ASSUME NEW i \in Ids, i <= maxId PROVE ~Reached(now, Event(i))
    <3>1. PICK k \in DOMAIN list : list[k].id = i
      BY DEF Ids
    <3>2. Event(i) = list[k] /\ list[k] \in Events /\ now \in Nat
      BY <3>1, Find DEF Inv, Typed
    <3>3. Time(list[k]) > now
      BY <2>1, <3>1, EndOfWalk
    <3>4. Time(list[k]) \in Nat /\ (Reached(now, list[k]) <=> Time(list[k]) <= now)
      BY <3>2, ReachedTime
    <3> QED
      BY <3>2, <3>3, <3>4
  <2> QED
    BY <2>1, EndOfWalk
<1> QED
  BY <1>1, Invariance, PTL

\* No timer is called a second time in a walk, unless it asks for it or the clock
\* goes back: processTimeEvents comes to its end.
THEOREM CalledOnce == Spec => []OncePerWalk
<1>1. Inv => OncePerWalk
  BY DEF Inv, Served, OncePerWalk
<1> QED
  BY <1>1, Invariance, PTL

\* aeProcessEvents does not sleep past the time of any timer, unless one is overdue
\* already, and then for less than a second.
THEOREM NoOversleeping == Spec => []SleepsNotTooLong
<1>1. Inv => SleepsNotTooLong
  <2> SUFFICES ASSUME Inv, phase = "sleep", backs = 0, NEW i \in Ids \ heirs
               PROVE  /\ timeout # None
                      /\ \/ timeout = 0 \/ clock + timeout <= due[i + 1]
                         \/ timeout < PerSec /\ \E j \in Ids : Overdue(j)
    BY DEF SleepsNotTooLong
  <2>1. PICK k \in DOMAIN list : list[k].id = i
    BY DEF Ids
  <2>2. Late => \E j \in Ids : Overdue(j)
    <3> SUFFICES ASSUME NEW l \in DOMAIN list, Time(list[l]) < clock
                 PROVE  \E j \in Ids : Overdue(j)
      BY DEF Late
    <3>1. list[l].id \in Ids /\ Event(list[l].id) = list[l]
      BY Find DEF Inv
    <3>2. Overdue(list[l].id)
      BY <3>1 DEF Overdue, Time
    <3> QED
      BY <3>1, <3>2
  <2> QED
    BY <2>1, <2>2 DEF Inv, Sleeps
<1> QED
  BY <1>1, Invariance, PTL

\* The end of a callback leaves every other timer in the list with its time, also
\* if the callback stopped its own timer: but for those that were added since.
THEOREM OthersLeftAlone == Spec => OthersKeepTime
<1> DEFINE A == phase = "call" /\ phase' = "walk" =>
                  \A i \in Ids \ ({id} \cup heirs) : i \in Ids' /\ Event(i)' = Event(i)
<1>1. OthersKeepTime <=> [][A]_vars
  BY PTL DEF OthersKeepTime
<1>2. Inv /\ Inv' /\ [Next]_vars => [A]_vars
  <2> SUFFICES ASSUME Inv, Inv', [Next]_vars, phase = "call", phase' = "walk",
                      NEW i \in Ids, i # id, i \notin heirs
               PROVE  i \in Ids' /\ Event(i)' = Event(i)
    BY DEF OthersKeepTime
  <2>1. CallbackEnds
    BY DEF Next, vars, Tick, SetBack, addtimer, stopselftimer, Poll, Wake, processTimeEvents,
       Skip, Call, EndWalk
  <2>2. PICK kind \in Kinds \cup {Event(id).kind}, every \in SUBSET Nat : Return(kind, every)
    <3>1. CASE id \in Ids /\ Return(Event(id).kind, {Event(id).every})
      <4>1. Event(id) \in Events
        BY <3>1, Position DEF Inv
      <4>2. {Event(id).every} \in SUBSET Nat
        BY <4>1 DEF Events
      <4> QED
        BY <3>1, <4>2, Zenon
    <3>2. CASE \E kind \in Kinds : Return(kind, Delays)
      <4>1. Delays \in SUBSET Nat
        BY TimersAssumption
      <4> QED
        BY <3>2, <4>1, Zenon
    <3> QED
      BY <2>1, <3>1, <3>2 DEF CallbackEnds
  <2>4. \/ list' = Without(id)
        \/ \E ms \in Nat : list' = Rearm(te, ms)
    <3>1. PICK r \in Results : \E ms \in Retvals(kind, every, r) :
            \/ list' = Without(id)
            \/ ms # NOMORE /\ list' = Rearm(te, ms)
      BY <2>2, Zenon DEF Return
    <3>2. PICK ms \in Retvals(kind, every, r) :
            \/ list' = Without(id)
            \/ ms # NOMORE /\ list' = Rearm(te, ms)
      BY <3>1, Zenon
    <3>3. ms # NOMORE => ms \in Nat
      BY RetvalsType, Zenon
    <3> QED
      BY <3>2, <3>3
  <2>5. Typed /\ Distinct /\ i # te
    <3>1. te = id \/ (te # None => te \in heirs)
      BY DEF Inv, Pointers
    <3>2. i \in Nat /\ None \notin Int
      BY TimersAssumption, Position DEF Inv, Events
    <3> QED
      BY <3>1, <3>2 DEF Inv
  <2>6. PICK k \in DOMAIN list : list[k].id = i /\ Event(i) = list[k]
    BY <2>5, Find DEF Ids
  <2>7. \E l \in DOMAIN list' : list'[l] = list[k]
    <3>1. CASE list' = Without(id)
      BY <3>1, <2>5, <2>6, WithoutIt
    <3>2. ASSUME NEW ms \in Nat, list' = Rearm(te, ms) PROVE list'[k] = list[k] /\ k \in DOMAIN list'
      BY <3>2, <2>5, <2>6, Rearmed
    <3> QED
      BY <2>4, <3>1, <3>2
  <2>8. PICK l \in DOMAIN list' : list'[l] = list[k]
    BY <2>7
  <2>9. (CHOOSE j \in DOMAIN list' : list'[j].id = i) = l
    BY <2>6, <2>8 DEF Inv, Distinct
  <2> QED
    BY <2>6, <2>8, <2>9 DEF Ids, Event, Pos
<1> QED
  BY <1>1, <1>2, Invariance, PTL DEF Spec
=============================================================================
