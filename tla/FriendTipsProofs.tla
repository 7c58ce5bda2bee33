-------------------------- MODULE FriendTipsProofs --------------------------
(***************************************************************************)
(* The welcome timer, for any number of friends and buffers, any intervals  *)
(* and any lateness of the loop: who owns the interval's buffer, how soon   *)
(* who is owed the text is tried again, and how soon the bot may give up.   *)
(*                                                                         *)
(* The inductive invariant ties a friend to a timer and a timer to the      *)
(* interval in its buffer: whoever is owed the text has a timer, and the    *)
(* time since it was tried and the time the timer has yet to wait are       *)
(* together no more than the interval, which is no more than twice          *)
(* RESEND_TIME_MAX.                                                         *)
(***************************************************************************)
EXTENDS FriendTips, TLAPS

USE FriendTipsAssumption

Events ==
  [friend : Friends \cup {NoFriend}, buf : Buffers, wait : - MaxLate .. Horizon,
   elapsed : 0 .. Horizon]

(* No interval is longer than twice the maximum. *)
IntervalsBounded == \A b \in DOMAIN heap : heap[b] <= 2 * RESEND_TIME_MAX

(* A timer waits for no more than its interval, and the time since its      *)
(* friend was tried is part of it.                                          *)
WaitsWithin(t, clocks, interval) ==
  /\ t.wait <= interval
  /\ t.friend \in Friends => clocks[t.friend] + t.wait <= interval

WaitsWithinInterval == \A t \in timers : WaitsWithin(t, untried, heap[t.buf])

(* Whoever is owed the text has a timer.                                    *)
DebtsHaveTimers == owed \subseteq {t.friend : t \in timers}

IInv ==
  TypeOK /\ BufferOwnership /\ IntervalsBounded /\ WaitsWithinInterval /\ DebtsHaveTimers

-----------------------------------------------------------------------------
(* The numbers.                                                             *)
LEMMA HorizonLemma ==
  /\ RESEND_TIME_BASE \in Nat /\ RESEND_TIME_MAX \in Nat /\ MaxLate \in Nat
  /\ 1 <= RESEND_TIME_BASE /\ RESEND_TIME_BASE <= RESEND_TIME_MAX
  /\ Horizon \in Nat
  /\ 2 * RESEND_TIME_MAX <= Horizon /\ 4 * RESEND_TIME_MAX <= Horizon
BY DEF Horizon

LEMMA OlderLemma ==
  \A s \in 0 .. Horizon :
    /\ Older(s) \in 0 .. Horizon
    /\ Older(s) <= s + 1
    /\ Older(s) = s + 1 \/ Older(s) = Horizon
BY HorizonLemma DEF Older

LEMMA TimerLemma ==
  \A friend, buf, wait, elapsed :
    LET t == Timer(friend, buf, wait, elapsed)
    IN  /\ t.friend = friend /\ t.buf = buf /\ t.wait = wait
        /\ t.elapsed = elapsed
        /\ friend \in Friends \cup {NoFriend} /\ buf \in Buffers
             /\ wait \in - MaxLate .. Horizon /\ elapsed \in 0 .. Horizon =>
               t \in Events
BY DEF Timer, Events

(* A text that is sent goes to a friend who is connected.                   *)
LEMMA SentLemma == \A f : TRUE \in Sent(f) => f \in connected
BY DEF Sent

(* What the invariant says of one timer.                                    *)
LEMMA EventLemma ==
  ASSUME IInv, NEW t \in timers
  PROVE  /\ t \in Events
         /\ t.buf \in DOMAIN heap
         /\ heap[t.buf] \in 1 .. 2 * RESEND_TIME_MAX
         /\ WaitsWithin(t, untried, heap[t.buf])
         /\ \A u \in timers : u.buf = t.buf => u = t
<1>1. t \in Events /\ t.buf \in DOMAIN heap
  BY DEF IInv, TypeOK, Events, BufferOwnership
<1>2. heap[t.buf] \in 1 .. Horizon /\ heap[t.buf] <= 2 * RESEND_TIME_MAX
  BY <1>1 DEF IInv, TypeOK, IntervalsBounded
<1> QED BY <1>1, <1>2, HorizonLemma
        DEF IInv, BufferOwnership, WaitsWithinInterval

(* To be tried sets the clock of a friend back, and no other.               *)
LEMMA TriedLemma ==
  ASSUME IInv, NEW f, Tried(f)
  PROVE  /\ untried' \in [Friends -> 0 .. Horizon]
         /\ \A g \in Friends : untried'[g] <= untried[g]
         /\ f \in Friends => untried'[f] = 0
         /\ \A t \in timers : WaitsWithin(t, untried', heap[t.buf])
<1>1. /\ untried \in [Friends -> 0 .. Horizon]
      /\ untried' = [g \in Friends |-> IF g = f THEN 0 ELSE untried[g]]
  BY DEF IInv, TypeOK, Tried
<1>2. /\ untried' \in [Friends -> 0 .. Horizon]
      /\ \A g \in Friends : untried'[g] <= untried[g]
      /\ f \in Friends => untried'[f] = 0
  BY <1>1, HorizonLemma
<1>3. ASSUME NEW t \in timers
      PROVE  WaitsWithin(t, untried', heap[t.buf])
  <2>1. /\ WaitsWithin(t, untried, heap[t.buf])
        /\ t.wait \in Int /\ heap[t.buf] \in Int
    BY EventLemma, HorizonLemma DEF Events
  <2> QED BY <1>1, <1>2, <2>1, HorizonLemma DEF WaitsWithin
<1> QED BY <1>2, <1>3

-----------------------------------------------------------------------------
(* A request gets a buffer and a timer of its own, or is answered at once.  *)
LEMMA RequestLemma ==
  ASSUME IInv, NEW f \in Friends, Request(f)
  PROVE  IInv'
<1> DEFINE friend_number == IF f \in friends' THEN f ELSE NoFriend
<1>1. /\ friends' \in {friends, friends \cup {f}}
      /\ connected' = connected /\ up' = up /\ Tried(f)
  BY DEF Request
<1>2. /\ friends' \subseteq Friends /\ connected' \subseteq friends'
      /\ friends \subseteq friends' /\ up' \in BOOLEAN
  BY <1>1 DEF IInv, TypeOK
<1>3. /\ untried' \in [Friends -> 0 .. Horizon] /\ untried'[f] = 0
      /\ \A t \in timers : WaitsWithin(t, untried', heap[t.buf])
  BY <1>1, TriedLemma
<1>4. CASE /\ TRUE \in Sent(friend_number)
           /\ told' = told \cup {f}
           /\ owed' = owed \ {f}
           /\ UNCHANGED <<timers, heap>>
  <2>1. f \in friends'
    <3>1. friend_number \in Friends
      BY <1>4, SentLemma DEF IInv, TypeOK
    <3> QED BY <3>1, FriendTipsAssumption
  <2>2. TypeOK'
    BY <1>2, <1>3, <1>4, <2>1 DEF IInv, TypeOK
  <2>3. WaitsWithinInterval' /\ DebtsHaveTimers' /\ BufferOwnership' /\ IntervalsBounded'
    BY <1>3, <1>4 DEF IInv, BufferOwnership, IntervalsBounded, WaitsWithinInterval,
                      DebtsHaveTimers
  <2> QED BY <2>2, <2>3 DEF IInv
<1>5. CASE /\ \E buf \in Buffers \ DOMAIN heap :
                /\ heap' = Malloc(heap, buf, RESEND_TIME_BASE)
                /\ timers' = timers \cup
                               {Timer(friend_number, buf, RESEND_TIME_BASE, 0)}
           /\ owed' = owed \cup ({friend_number} \ {NoFriend})
           /\ UNCHANGED told
  <2>1. PICK buf \in Buffers \ DOMAIN heap :
          /\ heap' = Malloc(heap, buf, RESEND_TIME_BASE)
          /\ timers' = timers \cup {Timer(friend_number, buf, RESEND_TIME_BASE, 0)}
    BY <1>5
  <2> DEFINE new == Timer(friend_number, buf, RESEND_TIME_BASE, 0)
  <2>2. /\ told' \subseteq friends' /\ owed' \subseteq friends'
        /\ friend_number \in {f, NoFriend}
    BY <1>2, <1>5 DEF IInv, TypeOK
  <2>3. /\ DOMAIN heap' = DOMAIN heap \cup {buf}
        /\ heap'[buf] = RESEND_TIME_BASE
        /\ \A b \in DOMAIN heap : heap'[b] = heap[b]
    BY <2>1 DEF Malloc
  <2>4. /\ new.buf = buf /\ new.wait = RESEND_TIME_BASE
        /\ new.friend = friend_number
        /\ new \in Events
    BY <2>2, HorizonLemma, TimerLemma
  <2> HIDE DEF new, friend_number
  <2>5. TypeOK'
    <3>1. timers' \subseteq Events
      BY <2>1, <2>4, EventLemma DEF new
    <3>2. \A b \in DOMAIN heap' : heap'[b] \in 1 .. Horizon
      BY <2>3, HorizonLemma DEF IInv, TypeOK
    <3>3. DOMAIN heap' \subseteq Buffers
      BY <2>3 DEF IInv, TypeOK
    <3> QED BY <1>2, <1>3, <2>2, <3>1, <3>2, <3>3 DEF TypeOK, Events
  <2>6. BufferOwnership'
    BY <2>1, <2>3, <2>4 DEF IInv, BufferOwnership, new
  <2>7. IntervalsBounded'
    BY <2>3, HorizonLemma DEF IInv, IntervalsBounded
  <2>8. WaitsWithinInterval'
    <3>1. \A t \in timers : heap'[t.buf] = heap[t.buf]
      BY <2>3, EventLemma
    <3>2. WaitsWithin(new, untried', heap'[buf])
      BY <1>3, <2>2, <2>3, <2>4, HorizonLemma, FriendTipsAssumption DEF WaitsWithin
    <3> QED BY <1>3, <2>1, <2>4, <3>1, <3>2 DEF WaitsWithinInterval, new
  <2>9. DebtsHaveTimers'
    BY <1>5, <2>1, <2>4 DEF IInv, DebtsHaveTimers, new
  <2> QED BY <2>5, <2>6, <2>7, <2>8, <2>9 DEF IInv
<1> QED BY <1>4, <1>5 DEF Request

(* A timer that is done takes its buffer with it.                           *)
LEMMA FreedLemma ==
  ASSUME IInv, NEW t \in timers, timers' = timers \ {t}, heap' = Free(heap, t.buf),
         Tried(t.friend), UNCHANGED <<up, friends, connected>>,
         told' \subseteq friends, owed' \subseteq owed,
         t.friend \in owed' => t.friend \in {u.friend : u \in timers'}
  PROVE  IInv'
<1>1. /\ DOMAIN heap' = DOMAIN heap \ {t.buf}
      /\ \A b \in DOMAIN heap' : heap'[b] = heap[b]
  BY DEF Free
<1>2. TypeOK'
  BY <1>1, TriedLemma DEF IInv, TypeOK
<1>3. BufferOwnership'
  <2>1. DOMAIN heap' = {u.buf : u \in timers'}
    BY <1>1, EventLemma DEF IInv, BufferOwnership
  <2> QED BY <2>1 DEF IInv, BufferOwnership
<1>4. IntervalsBounded'
  BY <1>1 DEF IInv, IntervalsBounded
<1>5. \A u \in timers' : heap'[u.buf] = heap[u.buf]
  BY <1>1, <1>3 DEF BufferOwnership
<1>6. WaitsWithinInterval'
  BY <1>5, TriedLemma DEF IInv, WaitsWithinInterval
<1>7. DebtsHaveTimers'
  BY DEF IInv, DebtsHaveTimers
<1> QED BY <1>2, <1>3, <1>4, <1>6, <1>7 DEF IInv

(* A timer armed again waits for the doubled interval in the same buffer.   *)
LEMMA TimeoutAgainLemma ==
  ASSUME IInv, NEW t \in timers, TimeoutAgain(t)
  PROVE  IInv'
<1> DEFINE i   == heap[t.buf] * 2
           new == Timer(t.friend, t.buf, i, t.elapsed)
<1>1. /\ ~(heap[t.buf] > RESEND_TIME_MAX)
      /\ heap' = [heap EXCEPT ![t.buf] = i]
      /\ timers' = (timers \ {t}) \cup {new} /\ Tried(t.friend)
      /\ UNCHANGED <<up, friends, connected, told, owed>>
  BY EventLemma DEF TimeoutAgain, GivesUp, Doubled
<1>2. /\ t \in Events /\ t.buf \in DOMAIN heap
      /\ heap[t.buf] \in 1 .. 2 * RESEND_TIME_MAX
      /\ \A u \in timers : u.buf = t.buf => u = t
  BY EventLemma
<1>3. i \in 2 .. 2 * RESEND_TIME_MAX /\ i \in 1 .. Horizon
  BY <1>1, <1>2, HorizonLemma
<1>4. /\ DOMAIN heap' = DOMAIN heap
      /\ heap'[t.buf] = i
      /\ \A b \in DOMAIN heap \ {t.buf} : heap'[b] = heap[b]
  BY <1>1, <1>2
<1> HIDE DEF i
<1>5. /\ new.buf = t.buf /\ new.friend = t.friend /\ new.wait = i
      /\ new \in Events
  <2>1. /\ t.friend \in Friends \cup {NoFriend} /\ t.buf \in Buffers
        /\ i \in - MaxLate .. Horizon /\ t.elapsed \in 0 .. Horizon
    BY <1>2, <1>3, HorizonLemma DEF Events
  <2> QED BY <2>1, TimerLemma
<1> HIDE DEF new
<1>6. TypeOK'
  <2>1. timers' \subseteq Events
    BY <1>1, <1>5, EventLemma
  <2>2. \A b \in DOMAIN heap' : heap'[b] \in 1 .. Horizon
    BY <1>3, <1>4 DEF IInv, TypeOK
  <2> QED BY <1>1, <1>4, <2>1, <2>2, TriedLemma DEF IInv, TypeOK, Events
<1>7. BufferOwnership'
  <2>1. DOMAIN heap' = {u.buf : u \in timers'}
    BY <1>1, <1>2, <1>4, <1>5 DEF IInv, BufferOwnership
  <2>2. \A u, v \in timers' : u.buf = v.buf => u = v
    BY <1>1, <1>2, <1>5 DEF IInv, BufferOwnership
  <2> QED BY <2>1, <2>2 DEF BufferOwnership
<1>8. IntervalsBounded'
  BY <1>3, <1>4 DEF IInv, IntervalsBounded
<1>9. WaitsWithinInterval'
  <2>1. \A u \in timers \ {t} : heap'[u.buf] = heap[u.buf]
    BY <1>2, <1>4, EventLemma
  <2>2. WaitsWithin(new, untried', heap'[t.buf])
    <3>1. t.friend \in Friends => untried'[t.friend] = 0
      BY <1>1, TriedLemma
    <3> QED BY <1>3, <1>4, <1>5, <3>1 DEF WaitsWithin
  <2> QED BY <1>1, <1>5, <2>1, <2>2, TriedLemma DEF WaitsWithinInterval
<1>10. DebtsHaveTimers'
  BY <1>1, <1>5 DEF IInv, DebtsHaveTimers
<1> QED BY <1>6, <1>7, <1>8, <1>9, <1>10 DEF IInv

(* A second has passed for a timer. *)
Aged(t) == Timer(t.friend, t.buf, t.wait - 1, Older(t.elapsed))

LEMMA AgedLemma ==
  ASSUME IInv, NEW t \in timers, t.wait > - MaxLate
  PROVE  /\ Aged(t) \in Events
         /\ Aged(t).buf = t.buf /\ Aged(t).friend = t.friend
         /\ Aged(t).wait = t.wait - 1
         /\ Aged(t).elapsed = Older(t.elapsed)
<1>1. t \in Events
  BY EventLemma
<1>2. /\ t.friend \in Friends \cup {NoFriend} /\ t.buf \in Buffers
      /\ t.wait - 1 \in - MaxLate .. Horizon
      /\ t.elapsed \in 0 .. Horizon
  BY <1>1, HorizonLemma DEF Events
<1>3. Older(t.elapsed) \in 0 .. Horizon
  BY <1>2, OlderLemma
<1> QED BY <1>2, <1>3, TimerLemma DEF Aged

(* What is added to the time since a try is taken from the time to wait.    *)
LEMMA TickLemma ==
  ASSUME IInv, Tick
  PROVE  IInv'
<1>1. /\ \A t \in timers : t.wait > - MaxLate
      /\ timers' = {Aged(t) : t \in timers}
      /\ untried' = [f \in Friends |-> IF f \in owed THEN Older(untried[f]) ELSE 0]
      /\ UNCHANGED <<up, friends, connected, heap, told, owed>>
  BY DEF Tick, Aged
<1>2. untried \in [Friends -> 0 .. Horizon]
  BY DEF IInv, TypeOK
<1>3. /\ untried' \in [Friends -> 0 .. Horizon]
      /\ \A f \in Friends : untried'[f] <= untried[f] + 1
  BY <1>1, <1>2, HorizonLemma, OlderLemma
<1>4. TypeOK'
  <2>1. timers' \subseteq Events
    BY <1>1, AgedLemma
  <2> QED BY <1>1, <1>3, <2>1 DEF IInv, TypeOK, Events
<1>5. BufferOwnership'
  BY <1>1, AgedLemma DEF IInv, BufferOwnership
<1>6. ASSUME NEW t \in timers
      PROVE  WaitsWithin(Aged(t), untried', heap'[Aged(t).buf])
  <2>1. /\ Aged(t).friend = t.friend /\ Aged(t).buf = t.buf
        /\ Aged(t).wait = t.wait - 1
        /\ WaitsWithin(t, untried, heap[t.buf])
        /\ t.wait \in Int /\ heap[t.buf] \in Int
    BY <1>1, AgedLemma, EventLemma, HorizonLemma DEF Events
  <2> QED BY <1>1, <1>2, <1>3, <2>1, HorizonLemma DEF WaitsWithin
<1>7. WaitsWithinInterval'
  BY <1>1, <1>6 DEF WaitsWithinInterval
<1>8. IntervalsBounded'
  BY <1>1 DEF IInv, IntervalsBounded
<1>9. DebtsHaveTimers'
  BY <1>1, AgedLemma DEF IInv, DebtsHaveTimers
<1> QED BY <1>4, <1>5, <1>7, <1>8, <1>9 DEF IInv

-----------------------------------------------------------------------------
LEMMA InitLemma == Init => IInv
BY HorizonLemma
   DEF Init, IInv, TypeOK, BufferOwnership, IntervalsBounded, WaitsWithinInterval,
       DebtsHaveTimers

LEMMA TimeoutLemma ==
  ASSUME IInv, NEW t \in timers, Timeout(t)
  PROVE  IInv'
<1>1. CASE TimeoutSent(t)
  <2>1. t.friend \in connected
    BY <1>1, SentLemma DEF TimeoutSent
  <2>2. told' \subseteq friends
    BY <1>1, <2>1 DEF TimeoutSent, IInv, TypeOK
  <2> QED BY <1>1, <2>2, FreedLemma DEF TimeoutSent
<1>2. CASE TimeoutGiveUp(t)
  <2>1. told' \subseteq friends
    BY <1>2 DEF TimeoutGiveUp, IInv, TypeOK
  <2> QED BY <1>2, <2>1, FreedLemma DEF TimeoutGiveUp
<1>3. CASE TimeoutAgain(t)
  BY <1>3, TimeoutAgainLemma
<1> QED BY <1>1, <1>2, <1>3 DEF Timeout

(* A death leaves nothing to speak of. *)
LEMMA DieLemma ==
  ASSUME IInv, Die
  PROVE  IInv'
BY DEF Die, IInv, TypeOK, BufferOwnership, IntervalsBounded, WaitsWithinInterval,
       DebtsHaveTimers

(* Nor is anything said of who is connected. *)
LEMMA OtherLemma ==
  ASSUME IInv, UNCHANGED <<friends, timers, heap, told, owed, untried>>,
         connected' \subseteq friends, up' \in BOOLEAN
  PROVE  IInv'
BY DEF IInv, TypeOK, BufferOwnership, IntervalsBounded, WaitsWithinInterval,
       DebtsHaveTimers

LEMMA StepLemma == IInv /\ [Next]_vars => IInv'
<1> SUFFICES ASSUME IInv, [Next]_vars PROVE IInv'
  OBVIOUS
<1>1. CASE Tick
  BY <1>1, TickLemma
<1>2. CASE Die
  BY <1>2, DieLemma
<1>3. CASE Start \/ UNCHANGED vars \/ \E f \in Friends : Connect(f) \/ Disconnect(f)
  <2>1. UNCHANGED <<friends, timers, heap, told, owed, untried>>
    BY <1>3 DEF Start, Connect, Disconnect, vars
  <2>2. connected' \subseteq friends /\ up' \in BOOLEAN
    BY <1>3 DEF IInv, TypeOK, Start, Connect, Disconnect, vars
  <2> QED BY <2>1, <2>2, OtherLemma
<1>4. ASSUME NEW f \in Friends, Request(f)
      PROVE  IInv'
  BY <1>4, RequestLemma
<1>5. ASSUME NEW t \in timers, Timeout(t)
      PROVE  IInv'
  BY <1>5, TimeoutLemma
<1> QED BY <1>1, <1>2, <1>3, <1>4, <1>5 DEF Next

LEMMA Invariance == Spec => []IInv
BY InitLemma, StepLemma, PTL DEF Spec

(* Every variable keeps its type; only friends are connected or told.       *)
THEOREM TypeCorrect == Spec => []TypeOK
<1>1. IInv => TypeOK
  BY DEF IInv
<1> QED BY <1>1, Invariance, PTL

(* A buffer belongs to one pending timer from malloc to free.               *)
THEOREM BuffersOwned == Spec => []BufferOwnership
<1>1. IInv => BufferOwnership
  BY DEF IInv
<1> QED BY <1>1, Invariance, PTL

(* Whoever is owed the text is tried again within the longest interval and  *)
(* what the loop takes to come round.                                       *)
THEOREM TriedInTime == Spec => []TriedSoonEnough
<1>1. IInv => TriedSoonEnough
  <2> SUFFICES ASSUME IInv, NEW f \in owed
               PROVE  untried[f] <= 2 * RESEND_TIME_MAX + MaxLate
    BY DEF TriedSoonEnough
  <2>1. PICK t \in timers : t.friend = f
    BY DEF IInv, DebtsHaveTimers
  <2>2. f \in Friends /\ untried[f] \in 0 .. Horizon
    BY DEF IInv, TypeOK
  <2>3. /\ t.wait \in - MaxLate .. Horizon
        /\ heap[t.buf] \in 1 .. 2 * RESEND_TIME_MAX
        /\ untried[f] + t.wait <= heap[t.buf]
    BY <2>1, <2>2, EventLemma DEF Events, WaitsWithin
  <2> QED BY <2>2, <2>3, HorizonLemma
<1> QED BY <1>1, Invariance, PTL

-----------------------------------------------------------------------------
(* The constants of the code: RESEND_TIME_MAX is RESEND_TIME_BASE doubled   *)
(* some times. D holds the intervals on the way, 1, 2, 4, ... 128.          *)
Doublings(D) ==
  /\ D \subseteq 1 .. RESEND_TIME_MAX
  /\ RESEND_TIME_BASE \in D
  /\ \A i \in D : i < RESEND_TIME_MAX => 2 * i \in D

MaxIsBaseDoubled == \E D \in SUBSET (1 .. RESEND_TIME_MAX) : Doublings(D)

(* The interval that makes the bot give up is twice RESEND_TIME_MAX.        *)
IntervalsDoubled(D) == \A b \in DOMAIN heap : heap[b] \in D \cup {2 * RESEND_TIME_MAX}

(* The intervals before this one have passed, and it, but for the wait.     *)
WaitedFor(t, interval) ==
  \/ t.elapsed = Horizon
  \/ t.elapsed + t.wait >= 2 * interval - RESEND_TIME_BASE

IntervalsPassed == \A t \in timers : WaitedFor(t, heap[t.buf])

LateInv(D) == IntervalsDoubled(D) /\ IntervalsPassed

(* A timer that is gone leaves the others and their intervals as they were. *)
LEMMA LateFreed ==
  ASSUME IInv, NEW D, LateInv(D), NEW t \in timers,
         timers' = timers \ {t}, heap' = Free(heap, t.buf)
  PROVE  LateInv(D)'
<1>1. /\ DOMAIN heap' = DOMAIN heap \ {t.buf}
      /\ \A b \in DOMAIN heap' : heap'[b] = heap[b]
  BY DEF Free
<1>2. \A u \in timers' : u \in timers /\ heap'[u.buf] = heap[u.buf]
  BY <1>1, EventLemma
<1> QED BY <1>1, <1>2 DEF LateInv, IntervalsDoubled, IntervalsPassed

LEMMA LateRequest ==
  ASSUME IInv, NEW D, Doublings(D), LateInv(D), NEW f \in Friends, Request(f)
  PROVE  LateInv(D)' /\ DOMAIN heap \subseteq DOMAIN heap'
<1>1. CASE UNCHANGED <<timers, heap>>
  BY <1>1 DEF LateInv, IntervalsDoubled, IntervalsPassed
<1>2. CASE ~UNCHANGED <<timers, heap>>
  <2> DEFINE new(buf) == Timer(IF f \in friends' THEN f ELSE NoFriend, buf,
                                RESEND_TIME_BASE, 0)
  <2>1. PICK buf \in Buffers \ DOMAIN heap :
          /\ heap' = Malloc(heap, buf, RESEND_TIME_BASE)
          /\ timers' = timers \cup {new(buf)}
    BY <1>2 DEF Request
  <2>2. /\ DOMAIN heap' = DOMAIN heap \cup {buf}
        /\ heap'[buf] = RESEND_TIME_BASE
        /\ \A b \in DOMAIN heap : heap'[b] = heap[b]
    BY <2>1 DEF Malloc
  <2>3. new(buf).buf = buf /\ new(buf).wait = RESEND_TIME_BASE /\ new(buf).elapsed = 0
    BY TimerLemma
  <2> HIDE DEF new
  <2>4. IntervalsDoubled(D)'
    BY <2>2 DEF LateInv, IntervalsDoubled, Doublings
  <2>5. WaitedFor(new(buf), heap'[buf])
    BY <2>2, <2>3, HorizonLemma DEF WaitedFor
  <2>6. \A u \in timers : heap'[u.buf] = heap[u.buf]
    BY <2>2, EventLemma
  <2> QED BY <2>1, <2>2, <2>3, <2>4, <2>5, <2>6 DEF LateInv, IntervalsPassed
<1> QED BY <1>1, <1>2

LEMMA LateAgain ==
  ASSUME IInv, NEW D, Doublings(D), LateInv(D), NEW t \in timers, TimeoutAgain(t)
  PROVE  LateInv(D)' /\ DOMAIN heap' = DOMAIN heap
<1> DEFINE i   == heap[t.buf] * 2
           new == Timer(t.friend, t.buf, i, t.elapsed)
<1>1. /\ ~(heap[t.buf] > RESEND_TIME_MAX) /\ t.wait <= 0
      /\ heap' = [heap EXCEPT ![t.buf] = i]
      /\ timers' = (timers \ {t}) \cup {new}
  BY EventLemma DEF TimeoutAgain, GivesUp, Doubled
<1>2. /\ t \in Events /\ t.buf \in DOMAIN heap
      /\ heap[t.buf] \in 1 .. 2 * RESEND_TIME_MAX
      /\ \A u \in timers : u.buf = t.buf => u = t
      /\ \A u \in timers : u.buf \in DOMAIN heap
  BY EventLemma
<1>3. /\ DOMAIN heap' = DOMAIN heap
      /\ heap'[t.buf] = i
      /\ \A b \in DOMAIN heap \ {t.buf} : heap'[b] = heap[b]
  BY <1>1, <1>2
<1>4. i \in D \cup {2 * RESEND_TIME_MAX} /\ i \in Int
  <2>1. heap[t.buf] \in D
    BY <1>1, <1>2, HorizonLemma DEF LateInv, IntervalsDoubled
  <2> QED BY <1>1, <1>2, <2>1, HorizonLemma DEF Doublings
<1>5. new.buf = t.buf /\ new.wait = i /\ new.elapsed = t.elapsed
  BY TimerLemma
<1>6. WaitedFor(new, i)
  <2>1. /\ WaitedFor(t, heap[t.buf])
        /\ t.elapsed \in Int /\ t.wait \in Int
    BY <1>2, HorizonLemma DEF LateInv, IntervalsPassed, Events
  <2> QED BY <1>1, <1>2, <1>5, <2>1, HorizonLemma DEF WaitedFor
<1> HIDE DEF i, new
<1>7. IntervalsDoubled(D)'
  BY <1>3, <1>4 DEF LateInv, IntervalsDoubled
<1>8. \A u \in timers \ {t} : heap'[u.buf] = heap[u.buf]
  BY <1>2, <1>3
<1>9. \A u \in timers' : WaitedFor(u, heap'[u.buf])
  BY <1>1, <1>3, <1>5, <1>6, <1>8 DEF LateInv, IntervalsPassed
<1> QED BY <1>3, <1>7, <1>9 DEF LateInv, IntervalsPassed

LEMMA LateTick ==
  ASSUME IInv, NEW D, LateInv(D), Tick
  PROVE  LateInv(D)'
<1>1. /\ \A t \in timers : t.wait > - MaxLate
      /\ timers' = {Aged(t) : t \in timers}
      /\ heap' = heap
  BY DEF Tick, Aged
<1>2. ASSUME NEW t \in timers
      PROVE  WaitedFor(Aged(t), heap'[Aged(t).buf])
  <2>1. /\ Aged(t).buf = t.buf /\ Aged(t).wait = t.wait - 1
        /\ Aged(t).elapsed = Older(t.elapsed)
    BY <1>1, AgedLemma
  <2>2. /\ t.elapsed \in 0 .. Horizon /\ t.wait \in Int
        /\ heap[t.buf] \in Int
    BY EventLemma, HorizonLemma DEF Events
  <2>3. /\ Older(t.elapsed) \in 0 .. Horizon
        /\ Older(t.elapsed) = t.elapsed + 1 \/ Older(t.elapsed) = Horizon
    BY <2>2, OlderLemma
  <2>4. WaitedFor(t, heap[t.buf])
    BY DEF LateInv, IntervalsPassed
  <2> QED BY <1>1, <2>1, <2>2, <2>3, <2>4, HorizonLemma DEF WaitedFor
<1> QED BY <1>1, <1>2 DEF LateInv, IntervalsDoubled, IntervalsPassed

LEMMA KeptLemma ==
  ASSUME IInv, DOMAIN heap \subseteq DOMAIN heap'
  PROVE  \A t \in timers : ~EndsEarly(t)
BY EventLemma DEF EndsEarly

LEMMA GiveUpLemma ==
  ASSUME IInv, NEW D, Doublings(D), LateInv(D), NEW t \in timers, TimeoutGiveUp(t)
  PROVE  ~(t.elapsed < 4 * RESEND_TIME_MAX - RESEND_TIME_BASE)
<1>1. heap[t.buf] > RESEND_TIME_MAX /\ t.wait <= 0
  BY DEF TimeoutGiveUp, GivesUp
<1>2. /\ t.elapsed \in 0 .. Horizon /\ t.wait \in Int
      /\ heap[t.buf] \in Int /\ t.buf \in DOMAIN heap
  BY EventLemma, HorizonLemma DEF Events
<1>3. heap[t.buf] = 2 * RESEND_TIME_MAX
  BY <1>1, <1>2, HorizonLemma DEF LateInv, IntervalsDoubled, Doublings
<1>4. WaitedFor(t, heap[t.buf])
  BY DEF LateInv, IntervalsPassed
<1> QED BY <1>1, <1>2, <1>3, <1>4, HorizonLemma DEF WaitedFor

LEMMA LateTimeout ==
  ASSUME IInv, NEW D, Doublings(D), LateInv(D), NEW t \in timers, Timeout(t)
  PROVE  LateInv(D)' /\ \A u \in timers : ~EndsEarly(u)
<1>1. CASE TimeoutAgain(t)
  BY <1>1, LateAgain, KeptLemma
<1>2. CASE TimeoutSent(t) \/ TimeoutGiveUp(t)
  <2>1. timers' = timers \ {t} /\ heap' = Free(heap, t.buf)
    BY <1>2 DEF TimeoutSent, TimeoutGiveUp
  <2>2. LateInv(D)'
    BY <2>1, LateFreed
  <2>3. \A u \in timers \ {t} : ~EndsEarly(u)
    BY <2>1, EventLemma DEF EndsEarly, Free
  <2>4. ~EndsEarly(t)
    <3>1. CASE TimeoutSent(t)
      BY <3>1 DEF TimeoutSent, EndsEarly
    <3>2. CASE TimeoutGiveUp(t)
      BY <3>2, GiveUpLemma DEF EndsEarly
    <3> QED BY <1>2, <3>1, <3>2
  <2> QED BY <2>2, <2>3, <2>4
<1> QED BY <1>1, <1>2 DEF Timeout

LEMMA LateStep ==
  ASSUME IInv, NEW D, Doublings(D), LateInv(D), [Next]_vars
  PROVE  LateInv(D)' /\ (up' => \A t \in timers : ~EndsEarly(t))
<1>1. CASE Tick
  BY <1>1, LateTick, KeptLemma DEF Tick
<1>2. CASE Die
  BY <1>2 DEF Die, LateInv, IntervalsDoubled, IntervalsPassed
<1>8. CASE Start
  BY <1>8, KeptLemma DEF Start, LateInv, IntervalsDoubled, IntervalsPassed
<1>3. ASSUME NEW f \in Friends, Request(f)
      PROVE  LateInv(D)' /\ \A t \in timers : ~EndsEarly(t)
  BY <1>3, LateRequest, KeptLemma
<1>4. ASSUME NEW f \in Friends, Connect(f)
      PROVE  LateInv(D)' /\ \A t \in timers : ~EndsEarly(t)
  BY <1>4, KeptLemma DEF Connect, LateInv, IntervalsDoubled, IntervalsPassed
<1>5. ASSUME NEW f \in Friends, Disconnect(f)
      PROVE  LateInv(D)' /\ \A t \in timers : ~EndsEarly(t)
  BY <1>5, KeptLemma DEF Disconnect, LateInv, IntervalsDoubled, IntervalsPassed
<1>6. ASSUME NEW t \in timers, Timeout(t)
      PROVE  LateInv(D)' /\ \A u \in timers : ~EndsEarly(u)
  BY <1>6, LateTimeout
<1>7. CASE UNCHANGED vars
  BY <1>7, KeptLemma DEF vars, LateInv, IntervalsDoubled, IntervalsPassed
<1> QED BY <1>1, <1>2, <1>3, <1>4, <1>5, <1>6, <1>7, <1>8 DEF Next

(* When RESEND_TIME_MAX is RESEND_TIME_BASE doubled some times, as it is in  *)
(* the code, a process that runs on does not give a welcome up before 4 *   *)
(* RESEND_TIME_MAX - RESEND_TIME_BASE seconds.                              *)
THEOREM GivesUpInTime == MaxIsBaseDoubled /\ Spec => GivesUpLate
<1> SUFFICES ASSUME MaxIsBaseDoubled PROVE Spec => GivesUpLate
  OBVIOUS
<1>1. PICK D \in SUBSET (1 .. RESEND_TIME_MAX) : Doublings(D)
  BY DEF MaxIsBaseDoubled
<1>2. Init => LateInv(D)
  BY DEF Init, LateInv, IntervalsDoubled, IntervalsPassed
<1>3. IInv /\ LateInv(D) /\ [Next]_vars => LateInv(D)'
  BY <1>1, LateStep
<1>4. IInv /\ LateInv(D) /\ [Next]_vars =>
        [up' => \A t \in timers : ~EndsEarly(t)]_vars
  BY <1>1, LateStep
<1> QED BY <1>2, <1>3, <1>4, Invariance, PTL DEF Spec, GivesUpLate
=============================================================================
