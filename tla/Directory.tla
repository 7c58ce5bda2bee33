------------------------------ MODULE Directory ------------------------------
(***************************************************************************)
(* What FindFriendBot promises (README.md, Commands List), with no cache,   *)
(* pool, table or process: a friend who sent /start and not /stop since is  *)
(* recommended, while connected, to the others and to nobody else.          *)
(***************************************************************************)
CONSTANTS
  Users,    \* the bot's friends
  NULL      \* nobody

VARIABLES
  authorized,   \* who let the bot recommend them
  present,      \* who is connected
  told          \* the recommendation just given: to a friend, of a friend

vars == <<authorized, present, told>>

Nothing == [to |-> NULL, who |-> NULL]

Init ==
  /\ authorized = {}
  /\ present = {}
  /\ told = Nothing

(* Those the bot may recommend to p. *)
Candidates(p) == (authorized \cap present) \ {p}

Authorize(p) ==
  /\ p \in present
  /\ authorized' = authorized \cup {p}
  /\ told' = Nothing
  /\ UNCHANGED present

Withdraw(p) ==
  /\ p \in present
  /\ authorized' = authorized \ {p}
  /\ told' = Nothing
  /\ UNCHANGED present

Arrive(p) ==
  /\ present' = present \cup {p}
  /\ told' = Nothing
  /\ UNCHANGED authorized

Leave(p) ==
  /\ present' = present \ {p}
  /\ told' = Nothing
  /\ UNCHANGED authorized

(* The bot dies: everyone is gone, and nobody's authorization, but that it  *)
(* may have died of the command of one friend, which is then obeyed.        *)
AllLeave ==
  /\ present' = {}
  /\ told' = Nothing
  /\ \/ UNCHANGED authorized
     \/ \E p \in present : authorized' \in {authorized \cup {p}, authorized \ {p}}

(* p asks and is told of q. *)
Recommend(p, q) ==
  /\ p \in present
  /\ q \in Candidates(p)
  /\ told' = [to |-> p, who |-> q]
  /\ UNCHANGED <<authorized, present>>

(* p asks and there is nobody. *)
RecommendNobody(p) ==
  /\ p \in present
  /\ Candidates(p) = {}
  /\ told' = [to |-> p, who |-> NULL]
  /\ UNCHANGED <<authorized, present>>

(* Anything else the bot says or does. *)
Other == told' = Nothing /\ UNCHANGED <<authorized, present>>

Next ==
  \/ AllLeave \/ Other
  \/ \E p \in Users :
       \/ Authorize(p) \/ Withdraw(p) \/ Arrive(p) \/ Leave(p)
       \/ RecommendNobody(p)
       \/ \E q \in Users : Recommend(p, q)

Spec == Init /\ [][Next]_vars
=============================================================================
