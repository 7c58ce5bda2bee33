----------------------------- MODULE FriendTips -----------------------------
(***************************************************************************)
(* The welcome text of a new friend and the timer that sends it again       *)
(* (friend_request_cb and event_timeout_cb in Assisant.cpp).                *)
(*                                                                         *)
(* A request is accepted and the text sent at once, which fails as long as  *)
(* the new friend is not connected. A buffer holding the interval is then   *)
(* malloc'd and travels with a timer: each time the timer runs out the text *)
(* is tried again, until it is sent or the interval has passed              *)
(* RESEND_TIME_MAX. tox_add_timer_event is a call of the bot's toxcore      *)
(* fork: the timer fires once, from tox_iterate, no sooner than its         *)
(* interval and, the loop being busy at times, up to MaxLate seconds late.  *)
(***************************************************************************)
EXTENDS Integers

CONSTANTS
  Friends,            \* who may send a friend request
  NoFriend,           \* UINT32_MAX, the friend number of whoever is no friend
  Buffers,            \* the addresses malloc can return; bounds the heap
  RESEND_TIME_BASE,   \* 1 in the code
  RESEND_TIME_MAX,    \* 128 in the code
  MaxLate,            \* how late a timer fires, in seconds
  AddFails,           \* tox_friend_add_norequest may fail
  RepeatRequests,     \* toxcore reports the requests of friends, too
  Refusals            \* tox_friend_send_message may refuse a connected friend

ASSUME FriendTipsAssumption ==
  /\ NoFriend \notin Friends
  /\ RESEND_TIME_BASE \in Nat \ {0}
  /\ RESEND_TIME_MAX \in Nat /\ RESEND_TIME_BASE <= RESEND_TIME_MAX
  /\ MaxLate \in Nat
  /\ {AddFails, RepeatRequests, Refusals} \subseteq BOOLEAN

VARIABLES
  up,          \* is the process running?
  friends,     \* toxcore's friend list
  connected,   \* the friends that are connected
  timers,      \* the timer events not fired yet
  heap,        \* allocated buffer -> the interval it holds
  told,        \* history: the friends the text was sent to
  owed,        \* history: the friends whose request is to be answered yet
  untried      \* history: friend -> the seconds since it was last tried

vars == <<up, friends, connected, timers, heap, told, owed, untried>>

(* Bounds the clocks, which only the properties read. *)
Horizon == 4 * RESEND_TIME_MAX + MaxLate
Older(seconds) == IF seconds < Horizon THEN seconds + 1 ELSE seconds

(* A timer for friend with user_data buf, which fires in wait seconds;      *)
(* history: the seconds since the request.                                  *)
Timer(friend, buf, wait, elapsed) ==
  [friend |-> friend, buf |-> buf, wait |-> wait, elapsed |-> elapsed]

Init ==
  /\ up = TRUE
  /\ friends = {}
  /\ connected = {}
  /\ timers = {}
  /\ heap = [b \in {} |-> 0]
  /\ told = {}
  /\ owed = {}
  /\ untried = [f \in Friends |-> 0]

(* Mutant: the buffer of a timer that is done is not freed. *)
FreeNothing(h, buf) == h

Free(h, buf) == [b \in DOMAIN h \ {buf} |-> h[b]]

(* A buffer is malloc'd and the interval stored in it. *)
Malloc(h, buf, interval) ==
  [b \in DOMAIN h \cup {buf} |-> IF b = buf THEN interval ELSE h[b]]

(* Mutant: the error code of the send is not looked at. *)
SentAlways(f) == {TRUE}

(* What send_friend_message_req may return. *)
Sent(f) == {f \in connected} \cup (IF Refusals THEN {FALSE} ELSE {})

(* History: who is owed the text was tried, that is, it was sent or not.    *)
Tried(f) == untried' = [g \in Friends |-> IF g = f THEN 0 ELSE untried[g]]

(* friend_request_cb. A request that cannot be added still gets its timer,  *)
(* for the friend number that tox_friend_by_public_key returns then.        *)
Request(f) ==
  /\ up
  /\ f \notin friends \/ RepeatRequests
  /\ \E added \in IF AddFails /\ f \notin friends THEN BOOLEAN ELSE {TRUE} :
       friends' = IF added THEN friends \cup {f} ELSE friends
  /\ LET friend_number == IF f \in friends' THEN f ELSE NoFriend IN
       \/ /\ TRUE \in Sent(friend_number)
          /\ told' = told \cup {f}
          /\ owed' = owed \ {f}
          /\ UNCHANGED <<timers, heap>>
       \/ /\ FALSE \in Sent(friend_number)
          /\ \E buf \in Buffers \ DOMAIN heap :
               /\ heap' = Malloc(heap, buf, RESEND_TIME_BASE)
               /\ timers' = timers \cup
                              {Timer(friend_number, buf, RESEND_TIME_BASE, 0)}
          /\ owed' = owed \cup ({friend_number} \ {NoFriend})
          /\ UNCHANGED told
  /\ Tried(f)
  /\ UNCHANGED <<up, connected>>

-----------------------------------------------------------------------------
(* event_timeout_cb: the text is sent now. *)
TimeoutSent(t) ==
  /\ t.wait <= 0
  /\ TRUE \in Sent(t.friend)
  /\ told' = told \cup {t.friend}
  /\ owed' = owed \ {t.friend}
  /\ heap' = Free(heap, t.buf)
  /\ timers' = timers \ {t}
  /\ Tried(t.friend)
  /\ UNCHANGED <<up, friends, connected>>

(* Mutant: one attempt early. *)
GivesUpEarly(interval) == interval >= RESEND_TIME_MAX

(* The interval has passed RESEND_TIME_MAX. *)
GivesUp(interval) == interval > RESEND_TIME_MAX

(* event_timeout_cb: the last attempt, which another timer of the same      *)
(* friend may outlive.                                                      *)
TimeoutGiveUp(t) ==
  /\ t.wait <= 0
  /\ FALSE \in Sent(t.friend)
  /\ GivesUp(heap[t.buf])
  /\ heap' = Free(heap, t.buf)
  /\ timers' = timers \ {t}
  /\ owed' = owed \ ({t.friend} \ {u.friend : u \in timers'})
  /\ Tried(t.friend)
  /\ UNCHANGED <<up, friends, connected, told>>

(* Mutant: the interval is kept at RESEND_TIME_MAX. *)
DoubledToMax(interval) ==
  IF interval * 2 > RESEND_TIME_MAX THEN RESEND_TIME_MAX ELSE interval * 2

(* time_interval = ( *tmp) * 2 *)
Doubled(interval) == interval * 2

(* Mutant: the timer is not armed again. *)
TimeoutNoMore(t) ==
  /\ t.wait <= 0
  /\ FALSE \in Sent(t.friend)
  /\ ~GivesUp(heap[t.buf])
  /\ heap' = Free(heap, t.buf)
  /\ timers' = timers \ {t}
  /\ Tried(t.friend)
  /\ UNCHANGED <<up, friends, connected, told, owed>>

(* event_timeout_cb: a new timer, with the same buffer. *)
TimeoutAgain(t) ==
  /\ t.wait <= 0
  /\ FALSE \in Sent(t.friend)
  /\ ~GivesUp(heap[t.buf])
  /\ LET time_interval == Doubled(heap[t.buf]) IN
       /\ heap' = [heap EXCEPT ![t.buf] = time_interval]
       /\ timers' = (timers \ {t}) \cup
                      {Timer(t.friend, t.buf, time_interval, t.elapsed)}
  /\ Tried(t.friend)
  /\ UNCHANGED <<up, friends, connected, told, owed>>

Timeout(t) == TimeoutSent(t) \/ TimeoutGiveUp(t) \/ TimeoutAgain(t)

-----------------------------------------------------------------------------
(* A second passes, unless a timer would then be later than it ever is. *)
Tick ==
  /\ up
  /\ \A t \in timers : t.wait > - MaxLate
  /\ timers' = {Timer(t.friend, t.buf, t.wait - 1, Older(t.elapsed)) : t \in timers}
  /\ untried' = [f \in Friends |-> IF f \in owed THEN Older(untried[f]) ELSE 0]
  /\ UNCHANGED <<up, friends, connected, heap, told, owed>>

Connect(f) ==
  /\ up
  /\ f \in friends \ connected
  /\ connected' = connected \cup {f}
  /\ UNCHANGED <<up, friends, timers, heap, told, owed, untried>>

Disconnect(f) ==
  /\ f \in connected
  /\ connected' = connected \ {f}
  /\ UNCHANGED <<up, friends, timers, heap, told, owed, untried>>

(* The process dies. The friends are in the savedata file, written by       *)
(* friend_request_cb; the timers are gone for good, and so is every debt.   *)
Die ==
  /\ up
  /\ up' = FALSE
  /\ connected' = {}
  /\ timers' = {}
  /\ heap' = [b \in {} |-> 0]
  /\ owed' = {}
  /\ UNCHANGED <<friends, told, untried>>

Start == ~up /\ up' = TRUE /\ UNCHANGED <<friends, connected, timers, heap, told, owed, untried>>

Next ==
  \/ Tick
  \/ Die
  \/ Start
  \/ \E f \in Friends : Request(f) \/ Connect(f) \/ Disconnect(f)
  \/ \E t \in timers : Timeout(t)

Fire == \E t \in timers : Timeout(t)

Spec == Init /\ [][Next]_vars

(* Time passes, and the loop comes round to the timers that have run out.   *)
FairSpec == Spec /\ WF_vars(Tick) /\ WF_vars(Fire)

-----------------------------------------------------------------------------
TypeOK ==
  /\ up \in BOOLEAN
  /\ friends \subseteq Friends
  /\ connected \subseteq friends
  /\ told \subseteq friends /\ owed \subseteq friends
  /\ timers \subseteq [friend : Friends \cup {NoFriend}, buf : Buffers,
                       wait : - MaxLate .. Horizon, elapsed : 0 .. Horizon]
  /\ DOMAIN heap \subseteq Buffers
  /\ \A b \in DOMAIN heap : heap[b] \in 1 .. Horizon
  /\ untried \in [Friends -> 0 .. Horizon]

(* A buffer belongs to one pending timer from malloc to free: none is       *)
(* leaked, freed while a timer still holds it, or held by two timers        *)
(* (Assisant.cpp:91, 432, 443 and the re-arming at 449).                    *)
BufferOwnership ==
  /\ DOMAIN heap = {t.buf : t \in timers}
  /\ \A t, u \in timers : t.buf = u.buf => t = u

(* Whoever is owed the text is tried again within the longest interval:     *)
(* twice RESEND_TIME_MAX, which the code compares before it doubles, and    *)
(* not RESEND_TIME_MAX. A friend is owed it from a request that could not   *)
(* be answered until the text is sent, the last of its timers gives up, or  *)
(* the process dies; that a try succeeds is not said, and after a death     *)
(* there is none.                                                           *)
TriedSoonEnough ==
  \A f \in owed : untried[f] <= 2 * RESEND_TIME_MAX + MaxLate

(* A timer that ends though its friend was not told, sooner than 4 *        *)
(* RESEND_TIME_MAX less the first interval after the request: 511 seconds   *)
(* in the code.                                                             *)
EndsEarly(t) ==
  /\ t.buf \notin DOMAIN heap' /\ t.friend \notin told'
  /\ t.elapsed < 4 * RESEND_TIME_MAX - RESEND_TIME_BASE

(* A process that runs on does not give up early, whoever is connected and  *)
(* however many timers there are. It is stated for a RESEND_TIME_MAX that   *)
(* is the base doubled some times.                                          *)
GivesUpLate == [][up' => \A t \in timers : ~EndsEarly(t)]_vars

(* Every welcome comes to an end: it is sent or given up and its buffer is  *)
(* freed, or the process dies, however often the friend comes, goes and     *)
(* asks again. Nobody is resent the text for ever.                          *)
WelcomeSettles ==
  \A b \in Buffers : b \in DOMAIN heap ~> b \notin DOMAIN heap
=============================================================================
