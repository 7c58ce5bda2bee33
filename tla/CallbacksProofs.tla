-------------------------- MODULE CallbacksProofs --------------------------
(***************************************************************************)
(* The callbacks taken apart implement the callbacks in one step, for any   *)
(* friends, texts and objects and any faults that include a death before    *)
(* and after every statement.                                               *)
(*                                                                         *)
(* A callback is mapped to its last step, or to the one it dies in; until   *)
(* then it is a stutter. The inductive invariant says of every place a      *)
(* callback can be in how the state differs from the one the callback       *)
(* found: by the outcomes its calls have had so far, which are outcomes     *)
(* Assisant gives them.                                                     *)
(***************************************************************************)
EXTENDS Callbacks, AssisantProofs

USE CallbacksAssumption, AssisantAssumption, MemberModelAssumption, MemberMgrAssumption

-----------------------------------------------------------------------------
(* The callback in progress, and what it has to say of the state.           *)
Callings ==
  [of : {"tox_iterate", "online", "request", "nick_name", "bio", "start", "stop", "set"},
   step : Steps, who : Users \cup {NULL},
   text : UNION {TokIds, Names, Bios, Signatures, {Empty}},
   member : Members \cup {NULL}, answers : BOOLEAN]

(* The member find_friend returned is nobody's yet.                         *)
Handed(m) ==
  m # NULL => m \in Members /\ Unowned(mgr, m) /\ mgr.member[m].pk \in Keys

OnlineInv ==
  /\ call.step \in {"add", "avatar"}
  /\ profile = before.profile /\ db = before.db
  /\ consent = before.consent /\ acked_signature = before.acked_signature
  /\ \E c \in Conns : /\ before.conn[call.who] # c
                      /\ conn = [before.conn EXCEPT ![call.who] = c]
  /\ \E r \in FindFriend(before.db, before.mgr, call.who) :
       /\ r.up
       /\ call.step = "add" => mgr = r.mgr /\ call.member = r.member
       /\ call.step = "avatar" =>
            mgr = IF r.member = NULL THEN r.mgr ELSE AddMember(r.mgr, r.member)
  /\ call.step = "add" => Handed(call.member)

(* Nothing has changed but the temporary file. *)
RequestInv ==
  /\ call.step \in {"fopen", "fwrite", "rename"}
  /\ conn = before.conn /\ profile = before.profile
  /\ mgr = before.mgr /\ db = before.db
  /\ consent = before.consent /\ acked_signature = before.acked_signature
  /\ call.step = "rename" => tmp = profile

With(profiles, p, field, v) == [profiles EXCEPT ![p] = [@ EXCEPT ![field] = v]]

ReportInv ==
  LET p == call.who
  IN
  /\ call.step \in {"cache", "fopen", "fwrite", "rename"}
  /\ call.text \in Texts[call.of]
  /\ conn = before.conn /\ consent = before.consent /\ acked_signature = before.acked_signature
  /\ \E r \in Execute(before.db, UpdateColumn(before.db, p, call.of, call.text, now)) :
       r.up /\ db = r.table
  /\ mgr = IF call.step = "cache" THEN before.mgr
                                  ELSE SetField(before.mgr, p, call.of, call.text)
  /\ profile = IF NameStoredFirst THEN With(before.profile, p, call.of, call.text)
                                  ELSE before.profile
  /\ call.step = "rename" => tmp = profile

(* The cache after cmd_start has filled in the object at m. *)
Registered(s, m, p, tok_id, profiles) ==
  AddMember(Fill(Allocate(s, m), m,
                 [Allocate(s, m).member[m] EXCEPT
                    !.pk = p, !.tok_id = tok_id,
                    !.nick_name = profiles[p].nick_name, !.bio = profiles[p].bio]), m)

StartInv ==
  LET p == call.who
  IN
  /\ call.step \in {"register", "answer"}
  /\ call.text \in TokIds
  /\ conn = before.conn /\ profile = before.profile
  /\ \E r \in Execute(before.db,
                      ReplaceRow(before.db, p, call.text, before.profile[p].nick_name,
                                 before.profile[p].bio, now)) :
       r.up /\ db = r.table
  /\ call.step = "register" => mgr = before.mgr
  /\ call.step = "answer" =>
       /\ \E m \in Allocatable(before.mgr) :
            mgr = Registered(before.mgr, m, p, call.text, before.profile)
       /\ call.answers = TRUE
  /\ consent = [before.consent EXCEPT ![p] = "on"]
  /\ acked_signature = [before.acked_signature EXCEPT ![p] = Empty]

(* After the statement of cmd_stop or cmd_set. *)
StatementDone(table) ==
  /\ \E r \in Execute(before.db, table) :
       r.up /\ db = r.table /\ call.answers = Answered(r)
  /\ acked_signature = [before.acked_signature EXCEPT ![call.who] = Empty]

StopInv ==
  LET p == call.who
  IN
  /\ call.step \in {"statement", "answer"}
  /\ conn = before.conn /\ profile = before.profile
  /\ mgr = DelMember(before.mgr, p)
  /\ call.step = "statement" =>
       /\ db = before.db
       /\ consent = before.consent /\ acked_signature = before.acked_signature
  /\ call.step = "answer" =>
       /\ StatementDone(DeleteRow(before.db, p))
       /\ consent = [before.consent EXCEPT ![p] = IF @ = "on" THEN "stopping" ELSE @]

SetInv ==
  LET p == call.who
  IN
  /\ call.step \in {"statement", "answer"}
  /\ call.text \in Signatures
  /\ conn = before.conn /\ profile = before.profile /\ consent = before.consent
  /\ mgr = SetField(before.mgr, p, "signature", call.text)
  /\ call.step = "statement" => db = before.db /\ acked_signature = before.acked_signature
  /\ call.step = "answer" =>
       StatementDone(UpdateColumn(before.db, p, "signature", call.text, now))

(* A callback is in a process that is up and, but for friend_request_cb,    *)
(* for a friend who is connected.                                           *)
CallInv ==
  /\ call = Idle <=> before = NULL
  /\ call # Idle =>
       /\ up
       /\ call.of # "request" => call.who \in Users /\ conn[call.who] # Offline
       /\ \/ call.of = "online" /\ OnlineInv
          \/ call.of = "request" /\ RequestInv
          \/ call.of \in {"nick_name", "bio"} /\ ReportInv
          \/ call.of = "start" /\ StartInv
          \/ call.of = "stop" /\ StopInv
          \/ call.of = "set" /\ SetInv

CallTypes ==
  /\ Typed
  /\ call \in Callings
  /\ tmp \in [Users -> Profile] \cup {NULL}
  /\ before \in Snapshot \cup {NULL}

CInv == CallTypes /\ CallInv

-----------------------------------------------------------------------------
(* The operators of Assisant are the same ones in Atomic.                   *)
LEMMA SameConstants ==
  /\ Atomic!Blank = Blank /\ Atomic!InitMgr = InitMgr
  /\ Atomic!NoMessage = NoMessage /\ Atomic!Offline = Offline
  /\ Atomic!Empty = Empty /\ Atomic!Texts = Texts
BY DEF Atomic!Blank, Blank, Atomic!Card, Card, Atomic!InitMgr, InitMgr,
       Atomic!NoMessage, NoMessage, Atomic!Message, Message,
       Atomic!Offline, Offline, Atomic!Texts, Texts, Empty, Atomic!Empty

LEMMA SameStatements ==
  /\ \A old, new : Atomic!Execute(old, new) = Execute(old, new)
  /\ \A table, p, column, v, time :
       Atomic!UpdateColumn(table, p, column, v, time) = UpdateColumn(table, p, column, v, time)
  /\ \A table, p, tok_id, name, bio, time :
       Atomic!ReplaceRow(table, p, tok_id, name, bio, time) =
         ReplaceRow(table, p, tok_id, name, bio, time)
  /\ \A table, p : Atomic!DeleteRow(table, p) = DeleteRow(table, p)
  /\ \A r : Atomic!Answered(r) = Answered(r)
<1>1. \A old, new : Atomic!Execute(old, new) = Execute(old, new)
  BY DEF Atomic!Execute, Execute, Atomic!Failed, Failed
<1>2. \A table, p, column, v, time :
        Atomic!UpdateColumn(table, p, column, v, time) = UpdateColumn(table, p, column, v, time)
  BY DEF Atomic!UpdateColumn, UpdateColumn
<1>3. \A table, p, tok_id, name, bio, time :
        Atomic!ReplaceRow(table, p, tok_id, name, bio, time) =
          ReplaceRow(table, p, tok_id, name, bio, time)
  BY DEF Atomic!ReplaceRow, ReplaceRow, Atomic!Put, Put, Atomic!Record, Record,
         Empty, Atomic!Empty
<1>4. \A table, p : Atomic!DeleteRow(table, p) = DeleteRow(table, p)
  BY DEF Atomic!DeleteRow, DeleteRow, Atomic!Erase, Erase
<1>5. \A r : Atomic!Answered(r) = Answered(r)
  BY DEF Atomic!Answered, Answered
<1> QED BY <1>1, <1>2, <1>3, <1>4, <1>5

LEMMA SameAllocate ==
  /\ \A s, m : Atomic!Allocate(s, m) = Allocate(s, m)
  /\ \A s : Atomic!Allocatable(s) = Allocatable(s)
  /\ \A s, m, card : Atomic!Fill(s, m, card) = Fill(s, m, card)
  /\ \A s, m : Atomic!AddMember(s, m) = AddMember(s, m)
<1>1. \A s, m : Atomic!Allocate(s, m) = Allocate(s, m)
  BY SameConstants DEF Atomic!Allocate, Allocate
<1>2. \A s : Atomic!Allocatable(s) = Allocatable(s)
  BY DEF Atomic!Allocatable, Allocatable
<1>3. \A s, m, card : Atomic!Fill(s, m, card) = Fill(s, m, card)
  BY DEF Atomic!Fill, Fill
<1>4. \A s, m : Atomic!AddMember(s, m) = AddMember(s, m)
  BY DEF Atomic!AddMember, AddMember, Atomic!Insert, Insert
<1> QED BY <1>1, <1>2, <1>3, <1>4

LEMMA SameCache ==
  /\ \A s, p : Atomic!Online(s, p) = Online(s, p)
  /\ \A s, p : Atomic!FindMember(s, p) = FindMember(s, p)
  /\ \A s, p : Atomic!DelMember(s, p) = DelMember(s, p)
  /\ \A s, p, field, v : Atomic!SetField(s, p, field, v) = SetField(s, p, field, v)
  /\ \A s, p : Atomic!RandomMember(s, p) = RandomMember(s, p)
<1>1. \A s, p : Atomic!Online(s, p) = Online(s, p)
  BY DEF Atomic!Online, Online
<1>2. \A s, p : Atomic!FindMember(s, p) = FindMember(s, p)
  BY DEF Atomic!FindMember, FindMember
<1>3. \A s, p : Atomic!DelMember(s, p) = DelMember(s, p)
  BY SameConstants
     DEF Atomic!DelMember, DelMember, Online, Atomic!Online, Atomic!Deallcate, Deallcate,
         EraseMember, Atomic!EraseMember, Erase, Atomic!Erase
<1>4. \A s, p, field, v : Atomic!SetField(s, p, field, v) = SetField(s, p, field, v)
  BY DEF Atomic!SetField, SetField, Online, Atomic!Online
<1>5. \A s, p : Atomic!RandomMember(s, p) = RandomMember(s, p)
  BY <1>2 DEF Atomic!RandomMember, RandomMember
<1> QED BY <1>1, <1>2, <1>3, <1>4, <1>5

LEMMA SameFindFriend ==
  \A table, s, p : Atomic!FindFriend(table, s, p) = FindFriend(table, s, p)
BY SameConstants, SameAllocate
   DEF Atomic!FindFriend, FindFriend, Atomic!FoundRow, FoundRow, Atomic!FoundNothing,
       FoundNothing, Atomic!Found, Found, Atomic!Loaded, Loaded, Atomic!ColumnsRead,
       ColumnsRead, Atomic!Card, Card

LEMMA SameReply ==
  \A p, desc, about : Atomic!Reply(p, desc, about) <=> Reply(p, desc, about)
BY SameConstants DEF Atomic!Reply, Reply, Atomic!Message, Message

-----------------------------------------------------------------------------
(* What the friends see of a callback.                                      *)
LEMMA CallingLemma ==
  \A of, step, who, text, member :
    LET c == Calling(of, step, who, text, member)
    IN  /\ c.of = of /\ c.step = step /\ c.who = who /\ c.text = text
        /\ c.member = member /\ c.answers = FALSE
        /\ of \in {"tox_iterate", "online", "request", "nick_name", "bio",
                   "start", "stop", "set"}
             /\ step \in Steps /\ who \in Users \cup {NULL}
             /\ text \in UNION {TokIds, Names, Bios, Signatures, {Empty}}
             /\ member \in Members \cup {NULL} => c \in Callings
BY DEF Calling, Callings

LEMMA IdleLemma == Idle \in Callings /\ Idle.of = "tox_iterate" /\ Idle.step = "wait"
BY CallingLemma DEF Idle, Steps

LEMMA NowLemma ==
  /\ Now.conn = conn /\ Now.profile = profile /\ Now.mgr = mgr /\ Now.db = db
  /\ Now.consent = consent /\ Now.acked_signature = acked_signature
  /\ Typed => Now \in Snapshot
BY DEF Now, Snapshot, Typed, TypeOK

(* Between callbacks they see what there is.                                *)
LEMMA SeenNow ==
  ASSUME call = Idle
  PROVE  /\ Seen.conn = conn /\ Seen.profile = profile /\ Seen.mgr = mgr /\ Seen.db = db
         /\ Seen.consent = consent /\ Seen.acked_signature = acked_signature
BY NowLemma DEF Seen

LEMMA SeenBefore ==
  ASSUME call # Idle
  PROVE  Seen = before
BY DEF Seen

(* A step inside a callback that shows the friends nothing.                 *)
LEMMA Stutter ==
  ASSUME Seen' = Seen, UNCHANGED <<up, saved, avatar, now, out>>
  PROVE  UNCHANGED Atomic!vars
BY DEF Atomic!vars

LEMMA StutterBegin ==
  ASSUME call = Idle, call' # Idle, before' = Now, UNCHANGED <<up, saved, avatar, now, out>>
  PROVE  UNCHANGED Atomic!vars
<1>1. Idle' = Idle
  BY DEF Idle, Calling
<1>2. Seen' = Seen
  BY <1>1 DEF Seen
<1> QED BY <1>2, Stutter

LEMMA StutterInside ==
  ASSUME call # Idle, call' # Idle, before' = before,
         UNCHANGED <<up, saved, avatar, now, out>>
  PROVE  UNCHANGED Atomic!vars
<1>1. Idle' = Idle
  BY DEF Idle, Calling
<1>2. Seen' = Seen
  BY <1>1 DEF Seen
<1> QED BY <1>2, Stutter

-----------------------------------------------------------------------------
(* Types after a step the process survives, and after one it does not.      *)
Consents == [Users -> {"none", "on", "stopping", "off"}]
Acked == [Users -> Signatures \cup {Empty}]
Messages == [to : Users \cup {NULL}, desc : Descs, about : Cards]

LEMMA AliveTypes ==
  ASSUME Typed, up, UNCHANGED <<up, now>>,
         conn' \in [Users -> Conns \cup {Offline}],
         profile' \in [Users -> Profile], saved' \in [Users -> Profile],
         avatar' \in BOOLEAN, Sound(mgr'), db' \in Rows, out' \in Messages,
         consent' \in Consents, acked_signature' \in Acked
  PROVE  Typed'
<1>1. TypeOK'
  BY DEF Typed, TypeOK, Sound, Rows, Messages, Consents, Acked
<1> QED BY <1>1 DEF Typed

LEMMA TypeFacts ==
  ASSUME Typed
  PROVE  /\ conn \in [Users -> Conns \cup {Offline}]
         /\ profile \in [Users -> Profile] /\ saved \in [Users -> Profile]
         /\ avatar \in BOOLEAN /\ Sound(mgr) /\ db \in Rows /\ out \in Messages
         /\ consent \in Consents /\ acked_signature \in Acked
         /\ now \in 0 .. MaxTime
BY DEF Typed, TypeOK, Rows, Messages, Consents, Acked

LEMMA DiesLemma ==
  ASSUME CInv, NEW table \in Rows, Dies(table), now' = now,
         consent' \in Consents, acked_signature' \in Acked
  PROVE  CInv'
<1>1. Typed /\ Die(table) /\ call' = Idle /\ before' = NULL /\ tmp' = tmp
  BY DEF CInv, CallTypes, Dies, End
<1>2. DeadTypes' /\ db' = table
  BY <1>1, DieLemma
<1>3. TypeOK'
  BY <1>1, <1>2, TypeFacts DEF DeadTypes, TypeOK, Sound, Rows, Consents, Acked
<1>4. Typed'
  BY <1>2, <1>3 DEF DeadTypes, Typed
<1>5. Idle' = Idle
  BY DEF Idle, Calling
<1>6. CallTypes'
  BY <1>1, <1>4, IdleLemma DEF CInv, CallTypes
<1>7. CallInv'
  BY <1>1, <1>5 DEF CallInv
<1> QED BY <1>6, <1>7 DEF CInv

(* What the friends see of a death.                                         *)
LEMMA DiesSeen ==
  ASSUME NEW table, Dies(table)
  PROVE  /\ up' = FALSE
         /\ Seen'.conn = [p \in Users |-> Offline] /\ Seen'.profile = saved
         /\ avatar' = FALSE /\ Seen'.mgr = InitMgr /\ out' = NoMessage /\ saved' = saved
         /\ Seen'.db = table /\ Seen'.consent = consent'
         /\ Seen'.acked_signature = acked_signature'
<1>1. call' = Idle /\ Idle' = Idle
  BY DEF Dies, End, Idle, Calling
<1>2. Seen' = Now'
  BY <1>1 DEF Seen
<1> QED BY <1>2 DEF Now, Dies, Die

(* So a death anywhere is the death of Atomic.                              *)
LEMMA DiesAtomic ==
  ASSUME NEW table, Dies(table)
  PROVE  Atomic!Die(table)
BY DiesSeen, SameConstants DEF Atomic!Die

(* The outcomes a callback has had are those of a death as well.            *)
LEMMA DeathOutcomes ==
  ASSUME NEW old, NEW new, NEW r \in Execute(old, new)
  PROVE  \E d \in Execute(old, new) : ~d.up /\ d.table = r.table
<1>1. r.table \in {old, new}
  BY ExecuteLemma
<1>2. /\ [up |-> FALSE, table |-> old, ret |-> 0] \in Execute(old, new)
      /\ [up |-> FALSE, table |-> new, ret |-> 0] \in Execute(old, new)
  BY DEF Execute, Failed
<1>3. CASE r.table = old
  <2> DEFINE d == [up |-> FALSE, table |-> old, ret |-> 0]
  <2>1. d.up = FALSE /\ d.table = old
    OBVIOUS
  <2> QED BY <1>2, <1>3, <2>1
<1>4. CASE r.table = new
  <2> DEFINE d == [up |-> FALSE, table |-> new, ret |-> 0]
  <2>1. d.up = FALSE /\ d.table = new
    OBVIOUS
  <2> QED BY <1>2, <1>4, <2>1
<1> QED BY <1>1, <1>3, <1>4

-----------------------------------------------------------------------------
(* What every step has to show. *)
Simulated == Atomic!Next \/ UNCHANGED Atomic!vars

(* The Crash of Assisant, in a callback that has changed nothing yet.       *)
LEMMA CrashSimulated ==
  ASSUME up, Dies(db), db = Seen.db, now' = now,
         consent' = Seen.consent, acked_signature' = Seen.acked_signature
  PROVE  Simulated
<1>1. Atomic!Die(Seen.db)
  BY DiesAtomic
<1>2. Atomic!Crash
  BY <1>1, DiesSeen DEF Atomic!Crash, Atomic!history
<1> QED BY <1>2 DEF Simulated, Atomic!Next

-----------------------------------------------------------------------------
(* tox_friend_connection_status_callback                                    *)
LEMMA FindFoundLemma ==
  ASSUME CInv, NEW p \in Users, NEW c \in Conns, FindFound(p, c)
  PROVE  CInv' /\ Simulated
<1>1. /\ up /\ call = Idle /\ conn[p] # c
      /\ UNCHANGED <<now, consent, acked_signature>>
  BY DEF FindFound, history
<1>2. PICK r \in FindFriend(db, mgr, p) :
        \/ ~r.up /\ Dies(db)
        \/ /\ r.up
           /\ conn' = [conn EXCEPT ![p] = c]
           /\ mgr' = r.mgr
           /\ Begin(Calling("online", "add", p, Empty, r.member))
           /\ UNCHANGED <<up, profile, saved, avatar, db, out>>
  BY DEF FindFound
<1>3. Typed
  BY DEF CInv, CallTypes
<1>4. CASE ~r.up /\ Dies(db)
  <2>1. CInv'
    BY <1>1, <1>3, <1>4, TypeFacts, DiesLemma
  <2>2. Atomic!FriendOnline(p, c)
    <3>1. r \in Atomic!FindFriend(Seen.db, Seen.mgr, p)
      BY <1>1, SeenNow, SameFindFriend
    <3>2. Atomic!Die(Seen.db)
      BY <1>1, <1>4, SeenNow, DiesAtomic
    <3>3. UNCHANGED <<now, Atomic!history>>
      BY <1>1, <1>4, SeenNow, DiesSeen DEF Atomic!history
    <3> QED BY <1>1, <1>4, <3>1, <3>2, <3>3, SeenNow DEF Atomic!FriendOnline
  <2> QED BY <2>1, <2>2 DEF Simulated, Atomic!Next, Atomic!Callback
<1>5. CASE /\ r.up
           /\ conn' = [conn EXCEPT ![p] = c]
           /\ mgr' = r.mgr
           /\ Begin(Calling("online", "add", p, Empty, r.member))
           /\ UNCHANGED <<up, profile, saved, avatar, db, out>>
  <2>1. /\ call' \in Callings /\ call'.of = "online" /\ call'.step = "add"
        /\ call'.who = p /\ call'.member = r.member
        /\ before' = Now /\ tmp' = tmp
    <3>1. r.member \in Members \cup {NULL}
      BY <1>3, FindFriendLemma
    <3>2. Empty \in UNION {TokIds, Names, Bios, Signatures, {Empty}}
      OBVIOUS
    <3> QED BY <1>5, <3>1, <3>2, CallingLemma DEF Begin, Steps
  <2>2. call' # Idle /\ Idle' = Idle
    BY <2>1, IdleLemma DEF Idle, Calling
  <2>3. /\ Sound(mgr')
        /\ \/ r.member = NULL
           \/ /\ r.member \in Members /\ Unowned(mgr', r.member)
              /\ mgr'.member[r.member].pk \in Keys
    BY <1>3, <1>5, TypeFacts, FindFriendLemma, PkLemma DEF Keys
  <2>4. /\ conn' \in [Users -> Conns \cup {Offline}] /\ conn'[p] = c
        /\ conn'[p] # Offline
    BY <1>3, <1>5, TypeFacts
  <2>5. Typed'
    BY <1>1, <1>3, <1>5, <2>3, <2>4, TypeFacts, AliveTypes
  <2>6. CallTypes'
    BY <1>3, <2>1, <2>5, NowLemma DEF CInv, CallTypes
  <2>7. OnlineInv'
    <3>1. /\ before'.conn = conn /\ before'.profile = profile /\ before'.mgr = mgr
          /\ before'.db = db /\ before'.consent = consent
          /\ before'.acked_signature = acked_signature
      BY <2>1, NowLemma
    <3>2. UNCHANGED <<profile, db, consent, acked_signature>>
      BY <1>1, <1>5
    <3>3. Handed(call.member)'
      BY <2>1, <2>3 DEF Handed
    <3>4. \E d \in Conns : before'.conn[call'.who] # d
                           /\ conn' = [before'.conn EXCEPT ![call'.who] = d]
      BY <1>1, <1>5, <2>1, <3>1
    <3>5. r \in FindFriend(before'.db, before'.mgr, call'.who)
      BY <2>1, <3>1
    <3> QED BY <1>5, <2>1, <3>1, <3>2, <3>3, <3>4, <3>5 DEF OnlineInv
  <2>8. CallInv'
    <3>1. before' # NULL
      BY <1>3, <2>1, NowLemma
    <3> QED BY <1>1, <1>5, <2>1, <2>2, <2>4, <2>7, <3>1 DEF CallInv
  <2>9. Simulated
    BY <1>1, <1>5, <2>1, <2>2, StutterBegin DEF Simulated
  <2> QED BY <2>6, <2>8, <2>9 DEF CInv
<1> QED BY <1>2, <1>4, <1>5

(* What CInv says in the middle of it. *)
LEMMA OnlineLemma ==
  ASSUME CInv, call.step \in {"add", "avatar"}
  PROVE  /\ Typed /\ up /\ call # Idle /\ call \in Callings
         /\ call.who \in Users /\ conn[call.who] # Offline
         /\ call.of = "online" /\ OnlineInv
         /\ before # NULL /\ before \in Snapshot /\ Seen = before
<1>1. call # Idle
  BY IdleLemma
<1>2. call.of = "online" /\ OnlineInv
  BY <1>1 DEF CInv, CallInv, RequestInv, ReportInv, StartInv, StopInv, SetInv
<1>3. /\ Typed /\ call \in Callings /\ before # NULL /\ before \in Snapshot
      /\ up /\ call.who \in Users /\ conn[call.who] # Offline
  BY <1>1, <1>2 DEF CInv, CallTypes, CallInv
<1> QED BY <1>1, <1>2, <1>3, SeenBefore

LEMMA AddFoundLemma ==
  ASSUME CInv, AddFound
  PROVE  CInv' /\ Simulated
<1>1. /\ call.step = "add"
      /\ mgr' = IF call.member = NULL THEN mgr ELSE AddMember(mgr, call.member)
      /\ call' = [call EXCEPT !.step = "avatar"] /\ before' = before
      /\ UNCHANGED <<up, conn, profile, saved, avatar, db, now, out,
                     consent, acked_signature, tmp>>
  BY DEF AddFound, Goto, history
<1>2. /\ Typed /\ up /\ call # Idle /\ call \in Callings
      /\ call.who \in Users /\ conn[call.who] # Offline
      /\ call.of = "online" /\ OnlineInv
      /\ before # NULL /\ before \in Snapshot
  BY <1>1, OnlineLemma
<1>3. /\ call' \in Callings /\ call'.of = "online" /\ call'.step = "avatar"
      /\ call'.who = call.who
  BY <1>1, <1>2 DEF Callings, Steps
<1>4. call' # Idle /\ Idle' = Idle
  BY <1>3, IdleLemma DEF Idle, Calling
<1>5. Sound(mgr')
  BY <1>1, <1>2, TypeFacts, AddMemberLemma DEF OnlineInv, Handed
<1>6. Typed'
  BY <1>1, <1>2, <1>5, TypeFacts, AliveTypes
<1>7. CallTypes'
  BY <1>1, <1>2, <1>3, <1>6 DEF CInv, CallTypes
<1>8. OnlineInv'
  <2>1. PICK r \in FindFriend(before.db, before.mgr, call.who) :
          r.up /\ mgr = r.mgr /\ call.member = r.member
    BY <1>1, <1>2 DEF OnlineInv
  <2>2. mgr' = IF r.member = NULL THEN r.mgr ELSE AddMember(r.mgr, r.member)
    BY <1>1, <2>1
  <2> QED BY <1>1, <1>2, <1>3, <2>1, <2>2 DEF OnlineInv
<1>9. CallInv'
  BY <1>1, <1>2, <1>3, <1>4, <1>8 DEF CallInv
<1>10. Simulated
  BY <1>1, <1>2, <1>4, StutterInside DEF Simulated
<1> QED BY <1>7, <1>9, <1>10 DEF CInv

(* The last step of a callback shows the friends all of it.                 *)
LEMMA EndSeen ==
  ASSUME End
  PROVE  /\ Seen'.conn = conn' /\ Seen'.profile = profile' /\ Seen'.mgr = mgr'
         /\ Seen'.db = db' /\ Seen'.consent = consent'
         /\ Seen'.acked_signature = acked_signature'
<1>1. call' = Idle /\ Idle' = Idle
  BY DEF End, Idle, Calling
<1>2. Seen' = Now'
  BY <1>1 DEF Seen
<1> QED BY <1>2 DEF Now

LEMMA EndTypes ==
  ASSUME Typed', End, tmp' \in [Users -> Profile] \cup {NULL}
  PROVE  CInv'
<1>1. call' = Idle /\ before' = NULL /\ Idle' = Idle
  BY DEF End, Idle, Calling
<1>2. CallTypes'
  BY <1>1, IdleLemma DEF CallTypes
<1> QED BY <1>1, <1>2 DEF CInv, CallInv

(* The offer of the avatar has the type of a message.                       *)
LEMMA SendAvatarLemma ==
  ASSUME Typed, NEW p \in Users, SendAvatar(p)
  PROVE  avatar' \in BOOLEAN /\ out' \in Messages
<1>1. avatar' \in BOOLEAN
  BY DEF SendAvatar
<1>2. Message(p, "avatar", Blank) \in Messages
  BY BlankLemma DEF Message, Messages, Descs
<1>3. NoMessage \in Messages
  BY NoMessageLemma DEF Messages
<1> QED BY <1>1, <1>2, <1>3 DEF SendAvatar

LEMMA OfferAvatarLemma ==
  ASSUME CInv, OfferAvatar
  PROVE  CInv' /\ Simulated
<1> DEFINE p == call.who
<1>1. /\ call.step = "avatar" /\ SendAvatar(p) /\ End
      /\ UNCHANGED <<up, conn, profile, saved, mgr, db, now, consent,
                     acked_signature, tmp>>
  BY DEF OfferAvatar, history
<1>2. /\ Typed /\ up /\ p \in Users /\ OnlineInv /\ Seen = before
  BY <1>1, OnlineLemma
<1>3. CInv'
  <2>1. avatar' \in BOOLEAN /\ out' \in Messages
    BY <1>1, <1>2, SendAvatarLemma
  <2>2. Typed'
    BY <1>1, <1>2, <2>1, TypeFacts, AliveTypes
  <2> QED BY <1>1, <2>2, EndTypes DEF CInv, CallTypes
<1>4. PICK c \in Conns : before.conn[p] # c /\ conn = [before.conn EXCEPT ![p] = c]
  BY <1>2 DEF OnlineInv
<1>5. PICK r \in FindFriend(before.db, before.mgr, p) :
        r.up /\ mgr = IF r.member = NULL THEN r.mgr ELSE AddMember(r.mgr, r.member)
  BY <1>1, <1>2 DEF OnlineInv
<1>6. Atomic!FriendOnline(p, c)
  <2>1. r \in Atomic!FindFriend(Seen.db, Seen.mgr, p)
    BY <1>2, <1>5, SameFindFriend
  <2>2. Seen'.mgr = IF r.member = NULL THEN r.mgr ELSE Atomic!AddMember(r.mgr, r.member)
    BY <1>1, <1>5, EndSeen, SameAllocate
  <2>3. Seen'.conn = [Seen.conn EXCEPT ![p] = c]
    BY <1>1, <1>2, <1>4, EndSeen
  <2>4. Atomic!SendAvatar(p)
    BY <1>1, SameConstants DEF SendAvatar, Atomic!SendAvatar, Message, Atomic!Message
  <2>5. /\ UNCHANGED <<up, saved, now>> /\ Seen'.profile = Seen.profile
        /\ Seen'.db = Seen.db /\ Seen'.consent = Seen.consent
        /\ Seen'.acked_signature = Seen.acked_signature
    BY <1>1, <1>2, EndSeen DEF OnlineInv
  <2> QED BY <1>2, <1>4, <1>5, <2>1, <2>2, <2>3, <2>4, <2>5
          DEF Atomic!FriendOnline, Atomic!history
<1> QED BY <1>2, <1>3, <1>6 DEF Simulated, Atomic!Next, Atomic!Callback

-----------------------------------------------------------------------------
(* friend_name_cb and friend_status_message_cb                              *)
LEMMA WithLemma ==
  ASSUME NEW f \in [Users -> Profile], NEW p \in Users,
         NEW field \in {"nick_name", "bio"}, NEW v \in Texts[field]
  PROVE  /\ With(f, p, field, v) \in [Users -> Profile]
         /\ With(With(f, p, field, v), p, field, v) = With(f, p, field, v)
<1> DEFINE g == [f[p] EXCEPT ![field] = v]
           h == With(f, p, field, v)
<1>1. f[p] \in Profile
  OBVIOUS
<1>2. g \in Profile
  BY <1>1 DEF Profile, Texts
<1>3. [g EXCEPT ![field] = v] = g
  BY <1>1 DEF Profile
<1>4. h = [f EXCEPT ![p] = g] /\ h[p] = g
  BY DEF With
<1>5. h \in [Users -> Profile]
  BY <1>2, <1>4
<1> HIDE DEF g, h
<1>6. With(h, p, field, v) = [h EXCEPT ![p] = g]
  BY <1>3, <1>4 DEF With
<1>7. [h EXCEPT ![p] = g] = h
  BY <1>4, <1>5
<1> QED BY <1>5, <1>6, <1>7 DEF h

LEMMA UpdateReportedLemma ==
  ASSUME CInv, NEW p \in Users, NEW field \in {"nick_name", "bio"},
         NEW v \in Texts[field], UpdateReported(p, field, v)
  PROVE  CInv' /\ Simulated
<1> DEFINE new == UpdateColumn(db, p, field, v, now)
<1>1. /\ up /\ call = Idle /\ conn[p] # Offline
      /\ UNCHANGED <<now, consent, acked_signature>>
  BY DEF UpdateReported, Ready, history
<1>2. PICK r \in Execute(db, new) :
        \/ ~r.up /\ Dies(r.table)
        \/ /\ r.up
           /\ db' = r.table
           /\ profile' = IF NameStoredFirst THEN Stored(p, field, v) ELSE profile
           /\ Begin(Calling(field, "cache", p, v, NULL))
           /\ UNCHANGED <<up, conn, saved, avatar, mgr, out>>
  BY DEF UpdateReported
<1>3. Typed
  BY DEF CInv, CallTypes
<1>4. r.table \in Rows
  <2>1. new \in Rows
    BY <1>3, TypeFacts, UpdateColumnInRows
  <2> HIDE DEF new
  <2> QED BY <1>3, <2>1, TypeFacts, ExecuteLemma
<1>5. r \in Atomic!Execute(Seen.db, Atomic!UpdateColumn(Seen.db, p, field, v, now))
  BY <1>1, SeenNow, SameStatements
<1> HIDE DEF new
<1>6. CASE ~r.up /\ Dies(r.table)
  <2>1. CInv'
    BY <1>1, <1>3, <1>4, <1>6, TypeFacts, DiesLemma
  <2>2. Atomic!FriendReports(p, field, v)
    <3>1. Atomic!Die(r.table)
      BY <1>6, DiesAtomic
    <3>2. UNCHANGED <<now, Atomic!history>>
      BY <1>1, <1>6, SeenNow, DiesSeen DEF Atomic!history
    <3> QED BY <1>1, <1>5, <1>6, <3>1, <3>2, SeenNow, SameConstants DEF Atomic!FriendReports
  <2> QED BY <2>1, <2>2, SameConstants DEF Simulated, Atomic!Next, Atomic!Callback
<1>7. CASE /\ r.up
           /\ db' = r.table
           /\ profile' = IF NameStoredFirst THEN Stored(p, field, v) ELSE profile
           /\ Begin(Calling(field, "cache", p, v, NULL))
           /\ UNCHANGED <<up, conn, saved, avatar, mgr, out>>
  <2>1. /\ call' \in Callings /\ call'.of = field /\ call'.step = "cache"
        /\ call'.who = p /\ call'.text = v
        /\ before' = Now /\ tmp' = tmp
    <3>1. v \in UNION {TokIds, Names, Bios, Signatures, {Empty}}
      BY DEF Texts
    <3> QED BY <1>7, <3>1, CallingLemma DEF Begin, Steps
  <2>2. call' # Idle /\ Idle' = Idle
    BY <2>1, IdleLemma DEF Idle, Calling
  <2>3. /\ profile' \in [Users -> Profile]
        /\ profile' = IF NameStoredFirst THEN With(profile, p, field, v) ELSE profile
    BY <1>3, <1>7, TypeFacts, WithLemma DEF Stored, With
  <2>4. Typed'
    BY <1>1, <1>3, <1>4, <1>7, <2>3, TypeFacts, AliveTypes
  <2>5. CallTypes'
    BY <1>3, <2>1, <2>4, NowLemma DEF CInv, CallTypes
  <2>6. ReportInv'
    <3>1. /\ before'.conn = conn /\ before'.profile = profile /\ before'.mgr = mgr
          /\ before'.db = db /\ before'.consent = consent
          /\ before'.acked_signature = acked_signature
      BY <2>1, NowLemma
    <3>2. r \in Execute(before'.db,
                        UpdateColumn(before'.db, call'.who, call'.of, call'.text, now'))
      BY <1>1, <2>1, <3>1 DEF new
    <3>3. call'.text \in Texts[call'.of]
      BY <2>1
    <3> QED BY <1>1, <1>7, <2>1, <2>3, <3>1, <3>2, <3>3 DEF ReportInv
  <2>7. CallInv'
    <3>1. before' # NULL
      BY <1>3, <2>1, NowLemma
    <3> QED BY <1>1, <1>7, <2>1, <2>2, <2>6, <3>1 DEF CallInv
  <2>8. Simulated
    BY <1>1, <1>7, <2>1, <2>2, StutterBegin DEF Simulated
  <2> QED BY <2>5, <2>7, <2>8 DEF CInv
<1> QED BY <1>2, <1>6, <1>7

(* What CInv says in the middle of it. *)
LEMMA ReportLemma ==
  ASSUME CInv, call.step \in {"cache", "fopen", "fwrite", "rename"}, call.of # "request"
  PROVE  /\ Typed /\ up /\ call # Idle /\ call \in Callings
         /\ call.who \in Users /\ conn[call.who] # Offline
         /\ call.of \in {"nick_name", "bio"} /\ ReportInv
         /\ before # NULL /\ before \in Snapshot /\ Seen = before
         /\ tmp \in [Users -> Profile] \cup {NULL}
<1>1. call # Idle
  BY IdleLemma
<1>2. /\ Typed /\ call \in Callings /\ before # NULL /\ before \in Snapshot
      /\ up /\ call.who \in Users /\ conn[call.who] # Offline
      /\ tmp \in [Users -> Profile] \cup {NULL}
  BY <1>1 DEF CInv, CallTypes, CallInv
<1>3. call.of \in {"nick_name", "bio"} /\ ReportInv
  BY <1>1 DEF CInv, CallInv, OnlineInv, StartInv, StopInv, SetInv
<1> QED BY <1>1, <1>2, <1>3, SeenBefore

(* ... and in the middle of friend_request_cb.                              *)
LEMMA RequestLemma ==
  ASSUME CInv, call.of = "request"
  PROVE  /\ Typed /\ up /\ call # Idle /\ call \in Callings /\ RequestInv
         /\ before # NULL /\ before \in Snapshot /\ Seen = before
         /\ tmp \in [Users -> Profile] \cup {NULL}
<1>1. call # Idle
  BY IdleLemma
<1>2. /\ Typed /\ up /\ call \in Callings /\ RequestInv
      /\ before # NULL /\ before \in Snapshot
      /\ tmp \in [Users -> Profile] \cup {NULL}
  BY <1>1 DEF CInv, CallTypes, CallInv
<1> QED BY <1>1, <1>2, SeenBefore

LEMMA SnapshotLemma ==
  ASSUME before \in Snapshot
  PROVE  /\ before.conn \in [Users -> Conns \cup {Offline}]
         /\ before.profile \in [Users -> Profile]
         /\ before.mgr \in MgrType /\ before.db \in Rows
         /\ before.consent \in Consents /\ before.acked_signature \in Acked
BY DEF Snapshot, Rows, Consents, Acked

(* A step to the next call of the same callback.                            *)
LEMMA GotoLemma ==
  ASSUME call \in Callings, NEW step \in Steps, step # "wait",
         call' = [call EXCEPT !.step = step]
  PROVE  /\ call' \in Callings /\ call'.step = step /\ call'.of = call.of
         /\ call'.who = call.who /\ call'.text = call.text
         /\ call'.member = call.member /\ call'.answers = call.answers
         /\ call' # Idle /\ Idle' = Idle
<1>1. /\ call' \in Callings /\ call'.step = step /\ call'.of = call.of
      /\ call'.who = call.who /\ call'.text = call.text
      /\ call'.member = call.member /\ call'.answers = call.answers
  BY DEF Callings
<1> QED BY <1>1, IdleLemma DEF Idle, Calling

(* The cache, fopen and fwrite: the callback goes on.                       *)
LEMMA ReportGoesOn ==
  ASSUME CInv, CacheReported \/ Fopen \/ Fwrite, call.of # "request"
  PROVE  CInv' /\ Simulated
<1>1. PICK step \in {"fopen", "fwrite", "rename"} :
        /\ call' = [call EXCEPT !.step = step]
        /\ step = "rename" => tmp' = profile
  BY DEF CacheReported, Fopen, Fwrite, Goto
<1>2. /\ call.step \in {"cache", "fopen", "fwrite", "rename"}
      /\ before' = before
      /\ UNCHANGED <<up, conn, profile, saved, avatar, db, now, out,
                     consent, acked_signature>>
      /\ mgr' = IF call.step = "cache" THEN SetField(mgr, call.who, call.of, call.text)
                                       ELSE mgr
      /\ tmp' \in {tmp, NULL, profile}
  <2>1. CASE CacheReported
    BY <2>1 DEF CacheReported, Goto, history
  <2>2. CASE Fopen
    BY <2>2 DEF Fopen, Goto, vars
  <2>3. CASE Fwrite
    BY <2>3 DEF Fwrite, Goto, vars
  <2> QED BY <2>1, <2>2, <2>3
<1>3. /\ Typed /\ up /\ call # Idle /\ call \in Callings
      /\ call.who \in Users /\ conn[call.who] # Offline
      /\ call.of \in {"nick_name", "bio"} /\ ReportInv
      /\ before # NULL /\ before \in Snapshot
      /\ tmp \in [Users -> Profile] \cup {NULL}
  BY <1>2, ReportLemma
<1>4. /\ call' \in Callings /\ call'.step = step /\ call'.of = call.of
      /\ call'.who = call.who /\ call'.text = call.text
      /\ call' # Idle /\ Idle' = Idle
  BY <1>1, <1>3, GotoLemma DEF Steps
<1>5. Sound(mgr')
  <2>1. call.text \in Texts[call.of]
    BY <1>3 DEF ReportInv
  <2> QED BY <1>2, <1>3, <2>1, TypeFacts, SetterLemma, PkLemma
<1>6. Typed'
  BY <1>2, <1>3, <1>5, TypeFacts, AliveTypes
<1>7. CallTypes'
  BY <1>2, <1>3, <1>4, <1>6, TypeFacts DEF CallTypes
<1>8. ReportInv'
  <2>1. mgr' = SetField(before.mgr, call.who, call.of, call.text)
    BY <1>2, <1>3 DEF ReportInv
  <2> QED BY <1>1, <1>2, <1>3, <1>4, <2>1 DEF ReportInv
<1>9. CallInv'
  BY <1>2, <1>3, <1>4, <1>8 DEF CallInv
<1>10. Simulated
  BY <1>2, <1>3, <1>4, StutterInside DEF Simulated
<1> QED BY <1>7, <1>9, <1>10 DEF CInv

LEMMA RenameLemma ==
  ASSUME CInv, Rename, call.of # "request"
  PROVE  CInv' /\ Simulated
<1> DEFINE p     == call.who
           field == call.of
           v     == call.text
           new   == UpdateColumn(before.db, p, field, v, now)
<1>1. /\ call.step = "rename" /\ End
      /\ \/ saved' = tmp /\ tmp' = NULL
         \/ "rename" \in Faults /\ UNCHANGED <<saved, tmp>>
      /\ profile' = With(profile, p, field, v)
      /\ out' = NoMessage
      /\ UNCHANGED <<up, conn, avatar, mgr, db, now, consent, acked_signature>>
  BY DEF Rename, Stored, With, history
<1>2. /\ Typed /\ up /\ p \in Users /\ conn[p] # Offline
      /\ field \in {"nick_name", "bio"} /\ ReportInv
      /\ before \in Snapshot /\ Seen = before
      /\ tmp \in [Users -> Profile] \cup {NULL}
  BY <1>1, ReportLemma
<1>3. /\ v \in Texts[field] /\ tmp = profile
      /\ conn = before.conn /\ consent = before.consent
      /\ acked_signature = before.acked_signature
      /\ mgr = SetField(before.mgr, p, field, v)
      /\ profile = IF NameStoredFirst THEN With(before.profile, p, field, v)
                                      ELSE before.profile
  BY <1>1, <1>2 DEF ReportInv
<1>4. PICK r \in Execute(before.db, new) : r.up /\ db = r.table
  BY <1>2 DEF ReportInv
<1>5. /\ profile' = With(before.profile, p, field, v)
      /\ profile' \in [Users -> Profile]
  BY <1>1, <1>2, <1>3, SnapshotLemma, WithLemma
<1>6. CInv'
  <2>1. saved' \in [Users -> Profile] /\ tmp' \in [Users -> Profile] \cup {NULL}
    BY <1>1, <1>2, <1>3, TypeFacts
  <2>2. out' \in Messages
    BY <1>1, NoMessageLemma DEF Messages
  <2>3. Typed'
    BY <1>1, <1>2, <1>5, <2>1, <2>2, TypeFacts, AliveTypes
  <2> QED BY <1>1, <2>1, <2>3, EndTypes
<1>7. Atomic!FriendReports(p, field, v)
  <2>1. r \in Atomic!Execute(Seen.db, Atomic!UpdateColumn(Seen.db, p, field, v, now))
    BY <1>2, <1>4, SameStatements
  <2>2. Seen'.mgr = Atomic!SetField(Seen.mgr, p, field, v)
    BY <1>1, <1>2, <1>3, EndSeen, SameCache
  <2>3. Seen'.profile = [Seen.profile EXCEPT ![p] = [@ EXCEPT ![field] = v]]
    BY <1>1, <1>2, <1>5, EndSeen DEF With
  <2>4. \/ saved' = IF NameStoredFirst THEN Seen'.profile ELSE Seen.profile
        \/ "rename" \in Faults /\ UNCHANGED saved
    BY <1>1, <1>2, <1>3, <1>5, EndSeen
  <2>5. Atomic!Save([Seen.profile EXCEPT ![p] = [@ EXCEPT ![field] = v]])
    BY <2>3, <2>4 DEF Atomic!Save
  <2>6. /\ UNCHANGED <<up, avatar, now>> /\ Seen'.conn = Seen.conn
        /\ Seen'.consent = Seen.consent /\ Seen'.acked_signature = Seen.acked_signature
        /\ Seen'.db = r.table /\ out' = Atomic!NoMessage
    BY <1>1, <1>2, <1>3, <1>4, EndSeen, SameConstants
  <2>7. Seen.conn[p] # Atomic!Offline
    BY <1>2, <1>3, SameConstants
  <2> HIDE DEF new, p, field, v
  <2> QED BY <1>2, <1>4, <2>1, <2>2, <2>5, <2>6, <2>7
          DEF Atomic!FriendReports, Atomic!history
<1> QED BY <1>2, <1>3, <1>6, <1>7, SameConstants DEF Simulated, Atomic!Next, Atomic!Callback

-----------------------------------------------------------------------------
(* friend_request_cb                                                        *)
LEMMA RequestAddedLemma ==
  ASSUME CInv, RequestAdded
  PROVE  CInv' /\ Simulated
<1>1. /\ up /\ call = Idle
      /\ Begin(Calling("request", "fopen", NULL, Empty, NULL))
      /\ UNCHANGED <<up, conn, profile, saved, avatar, mgr, db, now, out,
                     consent, acked_signature>>
  BY DEF RequestAdded, vars
<1>2. Typed
  BY DEF CInv, CallTypes
<1>3. /\ call' \in Callings /\ call'.of = "request" /\ call'.step = "fopen"
      /\ before' = Now /\ tmp' = tmp
  <2>1. Empty \in UNION {TokIds, Names, Bios, Signatures, {Empty}}
    OBVIOUS
  <2> QED BY <1>1, <2>1, CallingLemma DEF Begin, Steps
<1>4. call' # Idle /\ Idle' = Idle
  BY <1>3, IdleLemma DEF Idle, Calling
<1>5. Typed'
  BY <1>1, <1>2, TypeFacts, AliveTypes
<1>6. CallTypes'
  BY <1>2, <1>3, <1>5, NowLemma DEF CInv, CallTypes
<1>7. RequestInv'
  <2>1. /\ before'.conn = conn /\ before'.profile = profile /\ before'.mgr = mgr
        /\ before'.db = db /\ before'.consent = consent
        /\ before'.acked_signature = acked_signature
    BY <1>3, NowLemma
  <2> QED BY <1>1, <1>3, <2>1 DEF RequestInv
<1>8. CallInv'
  <2>1. before' # NULL
    BY <1>2, <1>3, NowLemma
  <2> QED BY <1>1, <1>3, <1>4, <1>7, <2>1 DEF CallInv
<1>9. Simulated
  BY <1>1, <1>3, <1>4, StutterBegin DEF Simulated
<1> QED BY <1>6, <1>8, <1>9 DEF CInv

(* fopen and fwrite: the callback goes on.                                  *)
LEMMA RequestGoesOn ==
  ASSUME CInv, CacheReported \/ Fopen \/ Fwrite, call.of = "request"
  PROVE  CInv' /\ Simulated
<1>1. /\ Typed /\ up /\ call # Idle /\ call \in Callings /\ RequestInv
      /\ before # NULL /\ before \in Snapshot
      /\ tmp \in [Users -> Profile] \cup {NULL}
  BY RequestLemma
<1>2. PICK step \in {"fwrite", "rename"} :
        /\ call' = [call EXCEPT !.step = step]
        /\ step = "rename" => tmp' = profile
  BY <1>1 DEF CacheReported, Fopen, Fwrite, Goto, RequestInv
<1>3. /\ before' = before /\ tmp' \in {NULL, profile}
      /\ UNCHANGED <<up, conn, profile, saved, avatar, mgr, db, now, out,
                     consent, acked_signature>>
  BY <1>1 DEF CacheReported, Fopen, Fwrite, Goto, RequestInv, vars
<1>4. /\ call' \in Callings /\ call'.step = step /\ call'.of = "request"
      /\ call' # Idle /\ Idle' = Idle
  BY <1>1, <1>2, GotoLemma DEF Steps
<1>5. Typed'
  BY <1>1, <1>3, TypeFacts, AliveTypes
<1>6. CallTypes'
  BY <1>1, <1>3, <1>4, <1>5, TypeFacts DEF CallTypes
<1>7. RequestInv'
  BY <1>1, <1>2, <1>3, <1>4 DEF RequestInv
<1>8. CallInv'
  BY <1>1, <1>3, <1>4, <1>7 DEF CallInv
<1>9. Simulated
  BY <1>1, <1>3, <1>4, StutterInside DEF Simulated
<1> QED BY <1>6, <1>8, <1>9 DEF CInv

LEMMA RequestRename ==
  ASSUME CInv, Rename, call.of = "request"
  PROVE  CInv' /\ Simulated
<1>1. /\ call.step = "rename" /\ End
      /\ \/ saved' = tmp /\ tmp' = NULL
         \/ "rename" \in Faults /\ UNCHANGED <<saved, tmp>>
      /\ out' = NoMessage
      /\ UNCHANGED <<up, conn, profile, avatar, mgr, db, now, consent, acked_signature>>
  BY DEF Rename, history
<1>2. /\ Typed /\ up /\ RequestInv /\ Seen = before
      /\ tmp \in [Users -> Profile] \cup {NULL}
  BY RequestLemma
<1>3. /\ tmp = profile /\ conn = before.conn /\ profile = before.profile
      /\ mgr = before.mgr /\ db = before.db
      /\ consent = before.consent /\ acked_signature = before.acked_signature
  BY <1>1, <1>2 DEF RequestInv
<1>4. CInv'
  <2>1. saved' \in [Users -> Profile] /\ tmp' \in [Users -> Profile] \cup {NULL}
    BY <1>1, <1>2, <1>3, TypeFacts
  <2>2. out' \in Messages
    BY <1>1, NoMessageLemma DEF Messages
  <2>3. Typed'
    BY <1>1, <1>2, <2>1, <2>2, TypeFacts, AliveTypes
  <2> QED BY <1>1, <2>1, <2>3, EndTypes
<1>5. Atomic!FriendRequest
  <2>1. /\ Seen'.conn = Seen.conn /\ Seen'.profile = Seen.profile
        /\ Seen'.mgr = Seen.mgr /\ Seen'.db = Seen.db
        /\ Seen'.consent = Seen.consent /\ Seen'.acked_signature = Seen.acked_signature
    BY <1>1, <1>2, <1>3, EndSeen
  <2>2. Atomic!Save(Seen.profile)
    BY <1>1, <1>2, <1>3, <2>1 DEF Atomic!Save
  <2> QED BY <1>1, <1>2, <2>1, <2>2, SameConstants DEF Atomic!FriendRequest, Atomic!history
<1> QED BY <1>4, <1>5 DEF Simulated, Atomic!Next

LEMMA RequestKilled ==
  ASSUME CInv, Kill, call.of = "request"
  PROVE  CInv' /\ Simulated
<1>1. Dies(db) /\ UNCHANGED <<now, consent, acked_signature>>
  BY DEF Kill, history
<1>2. Typed /\ up /\ RequestInv /\ Seen = before
  BY RequestLemma
<1>3. CInv'
  BY <1>1, <1>2, TypeFacts, DiesLemma
<1>4. /\ db = before.db
      /\ consent = before.consent /\ acked_signature = before.acked_signature
  BY <1>2 DEF RequestInv
<1> QED BY <1>1, <1>2, <1>3, <1>4, CrashSimulated

-----------------------------------------------------------------------------
(* cmd_start                                                                *)
LEMMA ConsentLemma ==
  ASSUME NEW f \in Consents, NEW a \in Acked, NEW p \in Users,
         NEW state \in {"none", "on", "stopping", "off"},
         NEW text \in Signatures \cup {Empty}
  PROVE  /\ [f EXCEPT ![p] = state] \in Consents
         /\ [a EXCEPT ![p] = text] \in Acked
BY DEF Consents, Acked

LEMMA StartReplaceLemma ==
  ASSUME CInv, NEW p \in Users, NEW tok_id \in TokIds, StartReplace(p, tok_id)
  PROVE  CInv' /\ Simulated
<1> DEFINE new == ReplaceRow(db, p, tok_id, GetName(p), GetStatusMessage(p), now)
<1>1. /\ up /\ call = Idle /\ conn[p] # Offline /\ now' = now
      /\ consent' = [consent EXCEPT ![p] = "on"]
      /\ acked_signature' = [acked_signature EXCEPT ![p] = Empty]
  BY DEF StartReplace, Ready
<1>2. PICK r \in Execute(db, new) :
        \/ ~r.up /\ Dies(r.table)
        \/ /\ r.up
           /\ db' = r.table
           /\ Begin(Calling("start", "register", p, tok_id, NULL))
           /\ UNCHANGED <<up, conn, profile, saved, avatar, mgr, out>>
  BY DEF StartReplace
<1>3. Typed
  BY DEF CInv, CallTypes
<1>4. r.table \in Rows
  <2>1. GetName(p) \in Names \cup {Empty} /\ GetStatusMessage(p) \in Bios \cup {Empty}
    BY <1>3, TypeFacts DEF GetName, GetStatusMessage, Profile
  <2>2. new \in Rows
    BY <1>3, <2>1, TypeFacts, ReplaceRowInRows
  <2> HIDE DEF new
  <2> QED BY <1>3, <2>2, TypeFacts, ExecuteLemma
<1>5. r \in Atomic!Execute(Seen.db,
              Atomic!ReplaceRow(Seen.db, p, tok_id, Atomic!GetName(p),
                                Atomic!GetStatusMessage(p), now))
  BY <1>1, SeenNow, SameStatements
     DEF GetName, GetStatusMessage, Atomic!GetName, Atomic!GetStatusMessage
<1>6. consent' \in Consents /\ acked_signature' \in Acked
  BY <1>1, <1>3, TypeFacts, ConsentLemma
<1> HIDE DEF new
<1>7. CASE ~r.up /\ Dies(r.table)
  <2>1. CInv'
    BY <1>1, <1>4, <1>6, <1>7, DiesLemma
  <2>2. Atomic!Start(p, tok_id)
    <3>1. Atomic!Die(r.table)
      BY <1>7, DiesAtomic
    <3>2. /\ Seen'.consent = [Seen.consent EXCEPT ![p] = "on"]
          /\ Seen'.acked_signature = [Seen.acked_signature EXCEPT ![p] = Atomic!Empty]
      BY <1>1, <1>7, SeenNow, DiesSeen, SameConstants
    <3>3. Seen.conn[p] # Atomic!Offline
      BY <1>1, SeenNow, SameConstants
    <3> QED BY <1>1, <1>5, <1>7, <3>1, <3>2, <3>3 DEF Atomic!Start
  <2> QED BY <2>1, <2>2 DEF Simulated, Atomic!Next, Atomic!Callback, Atomic!Command
<1>8. CASE /\ r.up
           /\ db' = r.table
           /\ Begin(Calling("start", "register", p, tok_id, NULL))
           /\ UNCHANGED <<up, conn, profile, saved, avatar, mgr, out>>
  <2>1. /\ call' \in Callings /\ call'.of = "start" /\ call'.step = "register"
        /\ call'.who = p /\ call'.text = tok_id
        /\ before' = Now /\ tmp' = tmp
    <3>1. tok_id \in UNION {TokIds, Names, Bios, Signatures, {Empty}}
      OBVIOUS
    <3> QED BY <1>8, <3>1, CallingLemma DEF Begin, Steps
  <2>2. call' # Idle /\ Idle' = Idle
    BY <2>1, IdleLemma DEF Idle, Calling
  <2>3. Typed'
    BY <1>1, <1>3, <1>4, <1>6, <1>8, TypeFacts, AliveTypes
  <2>4. CallTypes'
    BY <1>3, <2>1, <2>3, NowLemma DEF CInv, CallTypes
  <2>5. StartInv'
    <3>1. /\ before'.conn = conn /\ before'.profile = profile /\ before'.mgr = mgr
          /\ before'.db = db /\ before'.consent = consent
          /\ before'.acked_signature = acked_signature
      BY <2>1, NowLemma
    <3>2. r \in Execute(before'.db,
                        ReplaceRow(before'.db, call'.who, call'.text,
                                   before'.profile[call'.who].nick_name,
                                   before'.profile[call'.who].bio, now'))
      BY <1>1, <2>1, <3>1 DEF new, GetName, GetStatusMessage
    <3> QED BY <1>1, <1>8, <2>1, <3>1, <3>2 DEF StartInv
  <2>6. CallInv'
    <3>1. before' # NULL
      BY <1>3, <2>1, NowLemma
    <3> QED BY <1>1, <1>8, <2>1, <2>2, <2>5, <3>1 DEF CallInv
  <2>7. Simulated
    BY <1>1, <1>8, <2>1, <2>2, StutterBegin DEF Simulated
  <2> QED BY <2>4, <2>6, <2>7 DEF CInv
<1> QED BY <1>2, <1>7, <1>8

(* What CInv says in the middle of a command. *)
LEMMA CommandLemma ==
  ASSUME CInv, call.step \in {"register", "statement", "answer"}
  PROVE  /\ Typed /\ up /\ call # Idle /\ call \in Callings
         /\ call.who \in Users /\ conn[call.who] # Offline
         /\ \/ call.of = "start" /\ StartInv
            \/ call.of = "stop" /\ StopInv
            \/ call.of = "set" /\ SetInv
         /\ before # NULL /\ before \in Snapshot /\ Seen = before
         /\ tmp \in [Users -> Profile] \cup {NULL}
<1>1. call # Idle
  BY IdleLemma
<1>2. \/ call.of = "start" /\ StartInv
      \/ call.of = "stop" /\ StopInv
      \/ call.of = "set" /\ SetInv
  BY <1>1 DEF CInv, CallInv, OnlineInv, RequestInv, ReportInv
<1>3. /\ Typed /\ call \in Callings /\ before # NULL /\ before \in Snapshot
      /\ up /\ call.who \in Users /\ conn[call.who] # Offline
      /\ tmp \in [Users -> Profile] \cup {NULL}
  BY <1>1, <1>2 DEF CInv, CallTypes, CallInv
<1> QED BY <1>1, <1>2, <1>3, SeenBefore

LEMMA StartRegisterLemma ==
  ASSUME CInv, StartRegister
  PROVE  CInv' /\ Simulated
<1> DEFINE p == call.who
<1>1. /\ call.step = "register"
      /\ call' = [call EXCEPT !.step = "answer", !.answers = TRUE] /\ before' = before
      /\ UNCHANGED <<up, conn, profile, saved, avatar, db, now, out,
                     consent, acked_signature, tmp>>
  BY DEF StartRegister, history
<1>2. /\ Typed /\ up /\ call # Idle /\ call \in Callings
      /\ p \in Users /\ conn[p] # Offline
      /\ call.of = "start" /\ StartInv /\ call.text \in TokIds
      /\ before # NULL /\ before \in Snapshot
      /\ mgr = before.mgr /\ profile = before.profile
  BY <1>1, CommandLemma DEF StopInv, SetInv, StartInv
<1>3. PICK m \in Allocatable(mgr) :
        mgr' = Registered(mgr, m, p, call.text, profile)
  BY DEF StartRegister, Registered, GetName, GetStatusMessage
<1>4. /\ call' \in Callings /\ call'.of = "start" /\ call'.step = "answer"
      /\ call'.who = p /\ call'.text = call.text /\ call'.answers = TRUE
  BY <1>1, <1>2 DEF Callings, Steps
<1>5. call' # Idle /\ Idle' = Idle
  BY <1>4, IdleLemma DEF Idle, Calling
<1>6. Sound(mgr')
  BY <1>2, <1>3, RegisterLemma DEF Registered, GetName, GetStatusMessage
<1>7. Typed'
  BY <1>1, <1>2, <1>6, TypeFacts, AliveTypes
<1>8. CallTypes'
  BY <1>1, <1>2, <1>4, <1>7 DEF CInv, CallTypes
<1>9. StartInv'
  BY <1>1, <1>2, <1>3, <1>4 DEF StartInv
<1>10. CallInv'
  BY <1>1, <1>2, <1>4, <1>5, <1>9 DEF CallInv
<1>11. Simulated
  BY <1>1, <1>2, <1>5, StutterInside DEF Simulated
<1> QED BY <1>8, <1>10, <1>11 DEF CInv

-----------------------------------------------------------------------------
(* cmd_stop and cmd_set: the cache, then the statement.                     *)
Stopping(f, p) == [f EXCEPT ![p] = IF @ = "on" THEN "stopping" ELSE @]

LEMMA WithdrawnLemma ==
  ASSUME NEW p
  PROVE  /\ Withdrawn(p, FALSE) <=> consent' = Stopping(consent, p)
         /\ Withdrawn(p, TRUE) <=> consent' = [consent EXCEPT ![p] = "off"]
         /\ Atomic!Withdrawn(p, FALSE) <=> Seen'.consent = Stopping(Seen.consent, p)
         /\ Atomic!Withdrawn(p, TRUE) <=>
              Seen'.consent = [Seen.consent EXCEPT ![p] = "off"]
BY DEF Withdrawn, Atomic!Withdrawn, Stopping

LEMMA StoppingLemma ==
  ASSUME NEW f \in Consents, NEW p \in Users
  PROVE  Stopping(f, p) \in Consents
BY DEF Consents, Stopping

LEMMA StopCacheLemma ==
  ASSUME CInv, NEW p \in Users, StopCache(p)
  PROVE  CInv' /\ Simulated
<1>1. /\ up /\ call = Idle /\ conn[p] # Offline
      /\ mgr' = DelMember(mgr, p)
      /\ Begin(Calling("stop", "statement", p, Empty, NULL))
      /\ UNCHANGED <<up, conn, profile, saved, avatar, db, now, out,
                     consent, acked_signature>>
  BY DEF StopCache, Ready, history
<1>2. Typed
  BY DEF CInv, CallTypes
<1>3. /\ call' \in Callings /\ call'.of = "stop" /\ call'.step = "statement"
      /\ call'.who = p /\ before' = Now /\ tmp' = tmp
  <2>1. Empty \in UNION {TokIds, Names, Bios, Signatures, {Empty}}
    OBVIOUS
  <2> QED BY <1>1, <2>1, CallingLemma DEF Begin, Steps
<1>4. call' # Idle /\ Idle' = Idle
  BY <1>3, IdleLemma DEF Idle, Calling
<1>5. Sound(mgr')
  BY <1>1, <1>2, TypeFacts, DelMemberLemma, PkLemma
<1>6. Typed'
  BY <1>1, <1>2, <1>5, TypeFacts, AliveTypes
<1>7. CallTypes'
  BY <1>2, <1>3, <1>6, NowLemma DEF CInv, CallTypes
<1>8. StopInv'
  <2>1. /\ before'.conn = conn /\ before'.profile = profile /\ before'.mgr = mgr
        /\ before'.db = db /\ before'.consent = consent
        /\ before'.acked_signature = acked_signature
    BY <1>3, NowLemma
  <2> QED BY <1>1, <1>3, <2>1 DEF StopInv
<1>9. CallInv'
  <2>1. before' # NULL
    BY <1>2, <1>3, NowLemma
  <2> QED BY <1>1, <1>3, <1>4, <1>8, <2>1 DEF CallInv
<1>10. Simulated
  BY <1>1, <1>3, <1>4, StutterBegin DEF Simulated
<1> QED BY <1>7, <1>9, <1>10 DEF CInv

LEMMA SetCacheLemma ==
  ASSUME CInv, NEW p \in Users, NEW signature \in Signatures, SetCache(p, signature)
  PROVE  CInv' /\ Simulated
<1>1. /\ up /\ call = Idle /\ conn[p] # Offline
      /\ mgr' = SetField(mgr, p, "signature", signature)
      /\ Begin(Calling("set", "statement", p, signature, NULL))
      /\ UNCHANGED <<up, conn, profile, saved, avatar, db, now, out,
                     consent, acked_signature>>
  BY DEF SetCache, Ready, history
<1>2. Typed
  BY DEF CInv, CallTypes
<1>3. /\ call' \in Callings /\ call'.of = "set" /\ call'.step = "statement"
      /\ call'.who = p /\ call'.text = signature /\ before' = Now /\ tmp' = tmp
  <2>1. signature \in UNION {TokIds, Names, Bios, Signatures, {Empty}}
    OBVIOUS
  <2> QED BY <1>1, <2>1, CallingLemma DEF Begin, Steps
<1>4. call' # Idle /\ Idle' = Idle
  BY <1>3, IdleLemma DEF Idle, Calling
<1>5. Sound(mgr')
  <2>1. signature \in Texts["signature"]
    BY DEF Texts
  <2> QED BY <1>1, <1>2, <2>1, TypeFacts, SetterLemma, PkLemma
<1>6. Typed'
  BY <1>1, <1>2, <1>5, TypeFacts, AliveTypes
<1>7. CallTypes'
  BY <1>2, <1>3, <1>6, NowLemma DEF CInv, CallTypes
<1>8. SetInv'
  <2>1. /\ before'.conn = conn /\ before'.profile = profile /\ before'.mgr = mgr
        /\ before'.db = db /\ before'.consent = consent
        /\ before'.acked_signature = acked_signature
    BY <1>3, NowLemma
  <2> QED BY <1>1, <1>3, <2>1 DEF SetInv
<1>9. CallInv'
  <2>1. before' # NULL
    BY <1>2, <1>3, NowLemma
  <2> QED BY <1>1, <1>3, <1>4, <1>8, <2>1 DEF CallInv
<1>10. Simulated
  BY <1>1, <1>3, <1>4, StutterBegin DEF Simulated
<1> QED BY <1>7, <1>9, <1>10 DEF CInv

(* The statement of cmd_stop. *)
LEMMA StopStatementLemma ==
  ASSUME CInv, CommandStatement, call.of = "stop"
  PROVE  CInv' /\ Simulated
<1> DEFINE p   == call.who
           new == DeleteRow(db, p)
<1>1. /\ call.step = "statement" /\ now' = now
      /\ acked_signature' = [acked_signature EXCEPT ![p] = Empty]
      /\ consent' = Stopping(consent, p)
  BY WithdrawnLemma DEF CommandStatement
<1>2. PICK r \in Execute(db, new) :
        \/ ~r.up /\ Dies(r.table)
        \/ /\ r.up
           /\ db' = r.table
           /\ call' = [call EXCEPT !.step = "answer", !.answers = Answered(r)]
           /\ UNCHANGED <<up, conn, profile, saved, avatar, mgr, out, tmp, before>>
  BY DEF CommandStatement
<1>3. /\ Typed /\ up /\ call # Idle /\ call \in Callings
      /\ p \in Users /\ conn[p] # Offline
      /\ before # NULL /\ before \in Snapshot /\ Seen = before
      /\ conn = before.conn /\ profile = before.profile
      /\ mgr = DelMember(before.mgr, p)
      /\ db = before.db /\ consent = before.consent
      /\ acked_signature = before.acked_signature
  BY <1>1, CommandLemma DEF StopInv
<1>4. r.table \in Rows
  <2>1. new \in Rows
    BY <1>3, TypeFacts, RowsLemma DEF DeleteRow
  <2> HIDE DEF new
  <2> QED BY <1>3, <2>1, TypeFacts, ExecuteLemma
<1>5. consent' \in Consents /\ acked_signature' \in Acked
  BY <1>1, <1>3, TypeFacts, ConsentLemma, StoppingLemma
<1> HIDE DEF p, new
<1>6. CASE ~r.up /\ Dies(r.table)
  <2>1. CInv'
    BY <1>1, <1>4, <1>5, <1>6, DiesLemma
  <2>2. r \in Atomic!Execute(Seen.db, Atomic!DeleteRow(Seen.db, p))
    BY <1>2, <1>3, SameStatements DEF new
  <2>3. Atomic!Die(r.table)
    BY <1>6, DiesAtomic
  <2>4. Atomic!Withdrawn(p, FALSE)
    BY <1>1, <1>3, <1>6, DiesSeen, WithdrawnLemma DEF p
  <2>5. Seen'.acked_signature = [Seen.acked_signature EXCEPT ![p] = Atomic!Empty]
    BY <1>1, <1>3, <1>6, DiesSeen, SameConstants DEF p
  <2>6. Atomic!Stop(p)
    BY <1>1, <1>3, <1>6, <2>2, <2>3, <2>4, <2>5, SameConstants DEF Atomic!Stop
  <2> QED BY <1>3, <2>1, <2>6 DEF Simulated, Atomic!Next, Atomic!Callback, Atomic!Command
<1>7. CASE /\ r.up
           /\ db' = r.table
           /\ call' = [call EXCEPT !.step = "answer", !.answers = Answered(r)]
           /\ UNCHANGED <<up, conn, profile, saved, avatar, mgr, out, tmp, before>>
  <2>1. /\ call' \in Callings /\ call'.of = "stop" /\ call'.step = "answer"
        /\ call'.who = p /\ call'.answers = Answered(r)
    <3>1. Answered(r) \in BOOLEAN
      BY DEF Answered
    <3> QED BY <1>3, <1>7, <3>1 DEF Callings, Steps, p
  <2>2. call' # Idle /\ Idle' = Idle
    BY <2>1, IdleLemma DEF Idle, Calling
  <2>3. Typed'
    BY <1>1, <1>3, <1>4, <1>5, <1>7, TypeFacts, AliveTypes
  <2>4. CallTypes'
    BY <1>3, <1>7, <2>1, <2>3 DEF CInv, CallTypes
  <2>5. StopInv'
    <3>1. StatementDone(DeleteRow(before.db, call.who))'
      BY <1>1, <1>2, <1>3, <1>7, <2>1 DEF StatementDone, p, new
    <3> QED BY <1>1, <1>3, <1>7, <2>1, <3>1 DEF StopInv, Stopping, p
  <2>6. CallInv'
    BY <1>1, <1>3, <1>7, <2>1, <2>2, <2>5 DEF CallInv
  <2>7. Simulated
    BY <1>1, <1>3, <1>7, <2>2, StutterInside DEF Simulated
  <2> QED BY <2>4, <2>6, <2>7 DEF CInv
<1> QED BY <1>2, <1>6, <1>7

(* The statement of cmd_set. *)
LEMMA SetStatementLemma ==
  ASSUME CInv, CommandStatement, call.of # "stop"
  PROVE  CInv' /\ Simulated
<1> DEFINE p   == call.who
           v   == call.text
           new == UpdateColumn(db, p, "signature", v, now)
<1>1. /\ call.step = "statement" /\ now' = now
      /\ acked_signature' = [acked_signature EXCEPT ![p] = Empty]
      /\ consent' = consent
  BY DEF CommandStatement
<1>2. PICK r \in Execute(db, new) :
        \/ ~r.up /\ Dies(r.table)
        \/ /\ r.up
           /\ db' = r.table
           /\ call' = [call EXCEPT !.step = "answer", !.answers = Answered(r)]
           /\ UNCHANGED <<up, conn, profile, saved, avatar, mgr, out, tmp, before>>
  BY DEF CommandStatement
<1>3. /\ Typed /\ up /\ call # Idle /\ call \in Callings /\ call.of = "set"
      /\ p \in Users /\ conn[p] # Offline /\ v \in Signatures
      /\ before # NULL /\ before \in Snapshot /\ Seen = before
      /\ conn = before.conn /\ profile = before.profile
      /\ mgr = SetField(before.mgr, p, "signature", v)
      /\ db = before.db /\ consent = before.consent
      /\ acked_signature = before.acked_signature
  BY <1>1, CommandLemma DEF SetInv, StartInv
<1>4. r.table \in Rows
  <2>1. new \in Rows
    <3>1. v \in Texts["signature"]
      BY <1>3 DEF Texts
    <3> QED BY <1>3, <3>1, TypeFacts, UpdateColumnInRows
  <2> HIDE DEF new
  <2> QED BY <1>3, <2>1, TypeFacts, ExecuteLemma
<1>5. consent' \in Consents /\ acked_signature' \in Acked
  BY <1>1, <1>3, TypeFacts, ConsentLemma
<1> HIDE DEF p, v, new
<1>6. CASE ~r.up /\ Dies(r.table)
  <2>1. CInv'
    BY <1>1, <1>4, <1>5, <1>6, DiesLemma
  <2>2. r \in Atomic!Execute(Seen.db, Atomic!UpdateColumn(Seen.db, p, "signature", v, now))
    BY <1>2, <1>3, SameStatements DEF new
  <2>3. Atomic!Die(r.table)
    BY <1>6, DiesAtomic
  <2>4. Seen'.acked_signature = [Seen.acked_signature EXCEPT ![p] = Atomic!Empty]
    BY <1>1, <1>3, <1>6, DiesSeen, SameConstants DEF p
  <2>5. UNCHANGED now /\ Seen'.consent = Seen.consent
    BY <1>1, <1>3, <1>6, DiesSeen
  <2>6. Atomic!Set(p, v)
    BY <1>3, <1>6, <2>2, <2>3, <2>4, <2>5, SameConstants DEF Atomic!Set
  <2> QED BY <1>3, <2>1, <2>6 DEF Simulated, Atomic!Next, Atomic!Callback, Atomic!Command
<1>7. CASE /\ r.up
           /\ db' = r.table
           /\ call' = [call EXCEPT !.step = "answer", !.answers = Answered(r)]
           /\ UNCHANGED <<up, conn, profile, saved, avatar, mgr, out, tmp, before>>
  <2>1. /\ call' \in Callings /\ call'.of = "set" /\ call'.step = "answer"
        /\ call'.who = p /\ call'.text = v /\ call'.answers = Answered(r)
    <3>1. Answered(r) \in BOOLEAN
      BY DEF Answered
    <3> QED BY <1>3, <1>7, <3>1 DEF Callings, Steps, p, v
  <2>2. call' # Idle /\ Idle' = Idle
    BY <2>1, IdleLemma DEF Idle, Calling
  <2>3. Typed'
    BY <1>1, <1>3, <1>4, <1>5, <1>7, TypeFacts, AliveTypes
  <2>4. CallTypes'
    BY <1>3, <1>7, <2>1, <2>3 DEF CInv, CallTypes
  <2>5. SetInv'
    <3>1. StatementDone(UpdateColumn(before.db, call.who, "signature", call.text, now))'
      BY <1>1, <1>2, <1>3, <1>7, <2>1 DEF StatementDone, p, v, new
    <3> QED BY <1>1, <1>3, <1>7, <2>1, <3>1 DEF SetInv, p, v
  <2>6. CallInv'
    BY <1>1, <1>3, <1>7, <2>1, <2>2, <2>5 DEF CallInv
  <2>7. Simulated
    BY <1>1, <1>3, <1>7, <2>2, StutterInside DEF Simulated
  <2> QED BY <2>4, <2>6, <2>7 DEF CInv
<1> QED BY <1>2, <1>6, <1>7

-----------------------------------------------------------------------------
(* process_cmd: the answer, which ends the command.                         *)
LEMMA AckedLemma ==
  ASSUME NEW a \in Acked, NEW p \in Users
  PROVE  /\ [a EXCEPT ![p] = @] = a
         /\ \A text, other : [[a EXCEPT ![p] = other] EXCEPT ![p] = text] = [a EXCEPT ![p] = text]
         /\ \A text : [[a EXCEPT ![p] = text] EXCEPT ![p] = @] = [a EXCEPT ![p] = text]
BY DEF Acked

LEMMA StartAnswerLemma ==
  ASSUME CInv, Answer, call.of = "start"
  PROVE  CInv' /\ Simulated
<1> DEFINE p      == call.who
           tok_id == call.text
<1>1. /\ call.step = "answer" /\ End
      /\ call.answers = TRUE => Reply(p, "start", Blank) /\ consent' = consent
      /\ acked_signature' = [acked_signature EXCEPT ![p] = @]
      /\ UNCHANGED <<up, conn, profile, saved, avatar, mgr, db, now, tmp>>
  BY DEF Answer, Answers
<1>2. /\ Typed /\ up /\ p \in Users /\ conn[p] # Offline /\ StartInv
      /\ before \in Snapshot /\ Seen = before
      /\ tmp \in [Users -> Profile] \cup {NULL}
  BY <1>1, CommandLemma
<1>3. /\ tok_id \in TokIds /\ call.answers = TRUE
      /\ conn = before.conn /\ profile = before.profile
      /\ consent = [before.consent EXCEPT ![p] = "on"]
      /\ acked_signature = [before.acked_signature EXCEPT ![p] = Empty]
  BY <1>1, <1>2 DEF StartInv
<1>4. PICK r \in Execute(before.db,
                         ReplaceRow(before.db, p, tok_id, before.profile[p].nick_name,
                                    before.profile[p].bio, now)) :
        r.up /\ db = r.table
  BY <1>2 DEF StartInv
<1>5. PICK m \in Allocatable(before.mgr) :
        mgr = Registered(before.mgr, m, p, tok_id, before.profile)
  BY <1>1, <1>2 DEF StartInv
<1>6. acked_signature' = acked_signature
  BY <1>1, <1>2, TypeFacts, AckedLemma
<1>7. CInv'
  <2>1. out' \in Messages
    BY <1>1, <1>2, <1>3, ReplyLemma, BlankLemma DEF Messages, Descs
  <2>2. Typed'
    BY <1>1, <1>2, <1>3, <1>6, <2>1, TypeFacts, AliveTypes
  <2> QED BY <1>1, <1>2, <2>2, EndTypes
<1> HIDE DEF p, tok_id
<1>8. Atomic!Start(p, tok_id)
  <2>1. r \in Atomic!Execute(Seen.db,
                Atomic!ReplaceRow(Seen.db, p, tok_id, Atomic!GetName(p),
                                  Atomic!GetStatusMessage(p), now))
    BY <1>2, <1>4, SameStatements DEF Atomic!GetName, Atomic!GetStatusMessage
  <2>2. /\ m \in Atomic!Allocatable(Seen.mgr)
        /\ Seen'.mgr =
             Atomic!AddMember(Atomic!Fill(Atomic!Allocate(Seen.mgr, m), m,
                                [Atomic!Allocate(Seen.mgr, m).member[m] EXCEPT
                                   !.pk = p, !.tok_id = tok_id,
                                   !.nick_name = Atomic!GetName(p),
                                   !.bio = Atomic!GetStatusMessage(p)]), m)
    BY <1>1, <1>2, <1>5, EndSeen, SameAllocate
       DEF Registered, Atomic!GetName, Atomic!GetStatusMessage
  <2>3. Atomic!Reply(p, "start", Atomic!Blank)
    BY <1>1, <1>3, SameReply, SameConstants DEF p
  <2>4. /\ UNCHANGED <<up, saved, avatar, now>>
        /\ Seen'.db = r.table /\ Seen'.conn = Seen.conn /\ Seen'.profile = Seen.profile
        /\ Seen'.consent = [Seen.consent EXCEPT ![p] = "on"]
        /\ Seen'.acked_signature = [Seen.acked_signature EXCEPT ![p] = Atomic!Empty]
    BY <1>1, <1>2, <1>3, <1>4, <1>6, EndSeen, SameConstants
  <2>5. Seen.conn[p] # Atomic!Offline
    BY <1>2, <1>3, SameConstants
  <2> QED BY <1>2, <1>4, <2>1, <2>2, <2>3, <2>4, <2>5 DEF Atomic!Start
<1> QED BY <1>2, <1>3, <1>7, <1>8
        DEF Simulated, Atomic!Next, Atomic!Callback, Atomic!Command

LEMMA StopAnswerLemma ==
  ASSUME CInv, Answer, call.of = "stop"
  PROVE  CInv' /\ Simulated
<1> DEFINE p == call.who
<1>1. /\ call.step = "answer" /\ End
      /\ IF call.answers THEN Reply(p, "stop", Blank) ELSE out' = NoMessage
      /\ IF call.answers THEN Withdrawn(p, TRUE) ELSE consent' = consent
      /\ acked_signature' = [acked_signature EXCEPT ![p] = @]
      /\ UNCHANGED <<up, conn, profile, saved, avatar, mgr, db, now, tmp>>
  BY DEF Answer, Answers
<1>2. /\ Typed /\ up /\ p \in Users /\ conn[p] # Offline /\ StopInv
      /\ before \in Snapshot /\ Seen = before
      /\ tmp \in [Users -> Profile] \cup {NULL}
  BY <1>1, CommandLemma
<1>3. /\ conn = before.conn /\ profile = before.profile
      /\ mgr = DelMember(before.mgr, p)
      /\ consent = Stopping(before.consent, p)
      /\ acked_signature = [before.acked_signature EXCEPT ![p] = Empty]
  BY <1>1, <1>2 DEF StopInv, StatementDone, Stopping
<1>4. PICK r \in Execute(before.db, DeleteRow(before.db, p)) :
        r.up /\ db = r.table /\ call.answers = Answered(r)
  BY <1>1, <1>2 DEF StopInv, StatementDone
<1>5. acked_signature' = acked_signature
  BY <1>1, <1>2, TypeFacts, AckedLemma
<1>6. consent' = IF call.answers THEN [before.consent EXCEPT ![p] = "off"]
                                 ELSE Stopping(before.consent, p)
  <2>1. [Stopping(before.consent, p) EXCEPT ![p] = "off"] = [before.consent EXCEPT ![p] = "off"]
    BY <1>2, SnapshotLemma DEF Stopping, Consents
  <2> QED BY <1>1, <1>3, <2>1, WithdrawnLemma
<1>7. CInv'
  <2>1. out' \in Messages
    BY <1>1, <1>2, ReplyLemma, NoMessageLemma, BlankLemma DEF Messages, Descs
  <2>2. consent' \in Consents
    BY <1>2, <1>6, SnapshotLemma, StoppingLemma, ConsentLemma
  <2>3. Typed'
    BY <1>1, <1>2, <1>5, <2>1, <2>2, TypeFacts, AliveTypes
  <2> QED BY <1>1, <1>2, <2>3, EndTypes
<1> HIDE DEF p
<1>8. Atomic!Stop(p)
  <2>1. r \in Atomic!Execute(Seen.db, Atomic!DeleteRow(Seen.db, p))
    BY <1>2, <1>4, SameStatements
  <2>2. Seen'.mgr = Atomic!DelMember(Seen.mgr, p)
    BY <1>1, <1>2, <1>3, EndSeen, SameCache
  <2>3. IF Atomic!Answered(r) THEN Atomic!Reply(p, "stop", Atomic!Blank)
                              ELSE out' = Atomic!NoMessage
    BY <1>1, <1>4, SameReply, SameConstants, SameStatements DEF p
  <2>4. Atomic!Withdrawn(p, Atomic!Answered(r))
    <3>1. CASE Answered(r)
      BY <1>1, <1>2, <1>4, <1>6, <3>1, EndSeen, SameStatements DEF Atomic!Withdrawn
    <3>2. CASE ~Answered(r)
      BY <1>1, <1>2, <1>4, <1>6, <3>2, EndSeen, SameStatements
         DEF Atomic!Withdrawn, Stopping
    <3> QED BY <3>1, <3>2
  <2>5. /\ UNCHANGED <<up, saved, avatar, now>>
        /\ Seen'.db = r.table /\ Seen'.conn = Seen.conn /\ Seen'.profile = Seen.profile
        /\ Seen'.acked_signature = [Seen.acked_signature EXCEPT ![p] = Atomic!Empty]
    BY <1>1, <1>2, <1>3, <1>4, <1>5, EndSeen, SameConstants
  <2>6. Seen.conn[p] # Atomic!Offline
    BY <1>2, <1>3, SameConstants
  <2> QED BY <1>2, <1>4, <2>1, <2>2, <2>3, <2>4, <2>5, <2>6 DEF Atomic!Stop
<1> QED BY <1>2, <1>7, <1>8 DEF Simulated, Atomic!Next, Atomic!Callback, Atomic!Command

LEMMA SetAnswerLemma ==
  ASSUME CInv, Answer, call.of = "set"
  PROVE  CInv' /\ Simulated
<1> DEFINE p == call.who
           v == call.text
<1>1. /\ call.step = "answer" /\ End
      /\ IF call.answers THEN Reply(p, "set", Blank) ELSE out' = NoMessage
      /\ consent' = consent
      /\ call.answers => acked_signature' = [acked_signature EXCEPT ![p] = v]
      /\ ~call.answers => acked_signature' = [acked_signature EXCEPT ![p] = @]
      /\ UNCHANGED <<up, conn, profile, saved, avatar, mgr, db, now, tmp>>
  BY DEF Answer, Answers
<1>2. /\ Typed /\ up /\ p \in Users /\ conn[p] # Offline /\ SetInv
      /\ before \in Snapshot /\ Seen = before
      /\ tmp \in [Users -> Profile] \cup {NULL}
  BY <1>1, CommandLemma
<1>3. /\ v \in Signatures
      /\ conn = before.conn /\ profile = before.profile /\ consent = before.consent
      /\ mgr = SetField(before.mgr, p, "signature", v)
      /\ acked_signature = [before.acked_signature EXCEPT ![p] = Empty]
  BY <1>1, <1>2 DEF SetInv, StatementDone
<1>4. PICK r \in Execute(before.db, UpdateColumn(before.db, p, "signature", v, now)) :
        r.up /\ db = r.table /\ call.answers = Answered(r)
  BY <1>1, <1>2 DEF SetInv, StatementDone
<1>5. acked_signature' = [before.acked_signature EXCEPT ![p] =
                            IF call.answers THEN v ELSE Empty]
  BY <1>1, <1>2, <1>3, SnapshotLemma, AckedLemma
<1>6. CInv'
  <2>1. out' \in Messages
    BY <1>1, <1>2, ReplyLemma, NoMessageLemma, BlankLemma DEF Messages, Descs
  <2>2. acked_signature' \in Acked
    BY <1>2, <1>3, <1>5, SnapshotLemma, ConsentLemma
  <2>3. Typed'
    BY <1>1, <1>2, <2>1, <2>2, TypeFacts, AliveTypes
  <2> QED BY <1>1, <1>2, <2>3, EndTypes
<1> HIDE DEF p, v
<1>7. Atomic!Set(p, v)
  <2>1. r \in Atomic!Execute(Seen.db, Atomic!UpdateColumn(Seen.db, p, "signature", v, now))
    BY <1>2, <1>4, SameStatements
  <2>2. Seen'.mgr = Atomic!SetField(Seen.mgr, p, "signature", v)
    BY <1>1, <1>2, <1>3, EndSeen, SameCache
  <2>3. IF Atomic!Answered(r) THEN Atomic!Reply(p, "set", Atomic!Blank)
                              ELSE out' = Atomic!NoMessage
    BY <1>1, <1>4, SameReply, SameConstants, SameStatements DEF p
  <2>4. Seen'.acked_signature = [Seen.acked_signature EXCEPT ![p] =
                                   IF Atomic!Answered(r) THEN v ELSE Atomic!Empty]
    BY <1>1, <1>2, <1>4, <1>5, EndSeen, SameConstants, SameStatements
  <2>5. /\ UNCHANGED <<up, saved, avatar, now>>
        /\ Seen'.db = r.table /\ Seen'.conn = Seen.conn /\ Seen'.profile = Seen.profile
        /\ Seen'.consent = Seen.consent
    BY <1>1, <1>2, <1>3, <1>4, EndSeen
  <2>6. Seen.conn[p] # Atomic!Offline
    BY <1>2, <1>3, SameConstants
  <2> QED BY <1>2, <1>4, <2>1, <2>2, <2>3, <2>4, <2>5, <2>6 DEF Atomic!Set
<1> QED BY <1>2, <1>3, <1>6, <1>7 DEF Simulated, Atomic!Next, Atomic!Callback, Atomic!Command

-----------------------------------------------------------------------------
(* The process killed between two steps: the callback is the one that died  *)
(* in its statement, with the outcome it has had, or has not begun.         *)
LEMMA KillLemma ==
  ASSUME CInv, Kill, call.of # "request"
  PROVE  CInv' /\ Simulated
<1> DEFINE p == call.who
           v == call.text
<1>1. /\ call # Idle /\ Dies(db)
      /\ UNCHANGED <<now, consent, acked_signature>>
  BY DEF Kill, history
<1>2. /\ Typed /\ up /\ p \in Users /\ conn[p] # Offline /\ Seen = before
      /\ \/ call.of = "online" /\ OnlineInv
         \/ call.of \in {"nick_name", "bio"} /\ ReportInv
         \/ call.of = "start" /\ StartInv
         \/ call.of = "stop" /\ StopInv
         \/ call.of = "set" /\ SetInv
  BY <1>1, SeenBefore DEF CInv, CallTypes, CallInv
<1>3. CInv'
  BY <1>1, <1>2, TypeFacts, DiesLemma
<1>4. Atomic!Die(db)
  BY <1>1, DiesAtomic
<1>5. /\ Seen'.consent = consent /\ Seen'.acked_signature = acked_signature
  BY <1>1, DiesSeen
<1>6. CASE call.of = "online" /\ OnlineInv
  <2>1. /\ db = before.db
        /\ consent = before.consent /\ acked_signature = before.acked_signature
    BY <1>6 DEF OnlineInv
  <2>2. Simulated
    BY <1>1, <1>2, <2>1, CrashSimulated
  <2> QED BY <1>3, <2>2
<1>7. CASE call.of \in {"nick_name", "bio"} /\ ReportInv
  <2> DEFINE field == call.of
  <2>1. /\ v \in Texts[field] /\ conn = before.conn
        /\ consent = before.consent /\ acked_signature = before.acked_signature
    BY <1>7 DEF ReportInv
  <2>2. \E r \in Execute(before.db, UpdateColumn(before.db, p, field, v, now)) : db = r.table
    BY <1>7 DEF ReportInv
  <2> HIDE DEF p, v, field
  <2>3. PICK d \in Execute(before.db, UpdateColumn(before.db, p, field, v, now)) :
          ~d.up /\ d.table = db
    BY <2>2, DeathOutcomes
  <2>4. d \in Atomic!Execute(Seen.db, Atomic!UpdateColumn(Seen.db, p, field, v, now))
    BY <1>2, <2>3, SameStatements
  <2>5. Atomic!FriendReports(p, field, v)
    BY <1>1, <1>2, <1>4, <1>5, <2>1, <2>3, <2>4, SameConstants
       DEF Atomic!FriendReports, Atomic!history
  <2> QED BY <1>2, <1>3, <1>7, <2>1, <2>5, SameConstants
          DEF Simulated, Atomic!Next, Atomic!Callback, field
<1>8. CASE call.of = "start" /\ StartInv
  <2>1. /\ v \in TokIds /\ conn = before.conn
        /\ consent = [before.consent EXCEPT ![p] = "on"]
        /\ acked_signature = [before.acked_signature EXCEPT ![p] = Empty]
    BY <1>8 DEF StartInv
  <2> DEFINE new == ReplaceRow(before.db, p, v, before.profile[p].nick_name,
                               before.profile[p].bio, now)
  <2>2. \E r \in Execute(before.db, new) : db = r.table
    BY <1>8 DEF StartInv
  <2> HIDE DEF p, v, new
  <2>3. PICK d \in Execute(before.db, new) : ~d.up /\ d.table = db
    BY <2>2, DeathOutcomes
  <2>4. d \in Atomic!Execute(Seen.db,
                Atomic!ReplaceRow(Seen.db, p, v, Atomic!GetName(p),
                                  Atomic!GetStatusMessage(p), now))
    BY <1>2, <2>3, SameStatements DEF new, Atomic!GetName, Atomic!GetStatusMessage
  <2>5. Atomic!Start(p, v)
    BY <1>1, <1>2, <1>4, <1>5, <2>1, <2>3, <2>4, SameConstants DEF Atomic!Start
  <2> QED BY <1>2, <1>3, <2>1, <2>5
          DEF Simulated, Atomic!Next, Atomic!Callback, Atomic!Command
<1>9. CASE call.of = "stop" /\ StopInv
  <2>1. conn = before.conn
    BY <1>9 DEF StopInv
  <2>2. CASE call.step = "statement"
    BY <1>1, <1>2, <1>9, <2>2, CrashSimulated, <1>3 DEF StopInv
  <2>3. CASE call.step = "answer"
    <3>1. /\ consent = Stopping(before.consent, p)
          /\ acked_signature = [before.acked_signature EXCEPT ![p] = Empty]
      BY <1>9, <2>3 DEF StopInv, StatementDone, Stopping
    <3>2. \E r \in Execute(before.db, DeleteRow(before.db, p)) : db = r.table
      BY <1>9, <2>3 DEF StopInv, StatementDone
    <3> HIDE DEF p
    <3>3. PICK d \in Execute(before.db, DeleteRow(before.db, p)) : ~d.up /\ d.table = db
      BY <3>2, DeathOutcomes
    <3>4. d \in Atomic!Execute(Seen.db, Atomic!DeleteRow(Seen.db, p))
      BY <1>2, <3>3, SameStatements
    <3>5. Atomic!Withdrawn(p, FALSE)
      BY <1>2, <1>5, <3>1, WithdrawnLemma
    <3>6. Atomic!Stop(p)
      BY <1>1, <1>2, <1>4, <1>5, <2>1, <3>1, <3>3, <3>4, <3>5, SameConstants
         DEF Atomic!Stop
    <3> QED BY <1>2, <1>3, <3>6
            DEF Simulated, Atomic!Next, Atomic!Callback, Atomic!Command
  <2> QED BY <1>9, <2>2, <2>3 DEF StopInv
<1>10. CASE call.of = "set" /\ SetInv
  <2>1. v \in Signatures /\ conn = before.conn /\ consent = before.consent
    BY <1>10 DEF SetInv
  <2>2. CASE call.step = "statement"
    BY <1>1, <1>2, <1>10, <2>2, CrashSimulated, <1>3 DEF SetInv
  <2>3. CASE call.step = "answer"
    <3> DEFINE new == UpdateColumn(before.db, p, "signature", v, now)
    <3>1. acked_signature = [before.acked_signature EXCEPT ![p] = Empty]
      BY <1>10, <2>3 DEF SetInv, StatementDone
    <3>2. \E r \in Execute(before.db, new) : db = r.table
      BY <1>10, <2>3 DEF SetInv, StatementDone
    <3> HIDE DEF p, v, new
    <3>3. PICK d \in Execute(before.db, new) : ~d.up /\ d.table = db
      BY <3>2, DeathOutcomes
    <3>4. d \in Atomic!Execute(Seen.db, Atomic!UpdateColumn(Seen.db, p, "signature", v, now))
      BY <1>2, <3>3, SameStatements DEF new
    <3>5. Atomic!Set(p, v)
      BY <1>1, <1>2, <1>4, <1>5, <2>1, <3>1, <3>3, <3>4, SameConstants DEF Atomic!Set
    <3> QED BY <1>2, <1>3, <2>1, <3>5
            DEF Simulated, Atomic!Next, Atomic!Callback, Atomic!Command
  <2> QED BY <1>10, <2>2, <2>3 DEF SetInv
<1> QED BY <1>2, <1>3, <1>6, <1>7, <1>8, <1>9, <1>10

-----------------------------------------------------------------------------
(* The callbacks Assisant has whole.                                        *)
LEMMA WholeSeen ==
  ASSUME call = Idle, UNCHANGED <<call, before>>
  PROVE  /\ Seen'.conn = conn' /\ Seen'.profile = profile' /\ Seen'.mgr = mgr'
         /\ Seen'.db = db' /\ Seen'.consent = consent'
         /\ Seen'.acked_signature = acked_signature'
<1>1. call' = Idle /\ Idle' = Idle
  BY DEF Idle, Calling
<1>2. Seen' = Now'
  BY <1>1 DEF Seen
<1> QED BY <1>2 DEF Now

LEMMA WholeTypes ==
  ASSUME CInv, Typed', call = Idle, UNCHANGED <<call, tmp, before>>
  PROVE  CInv'
<1>1. call' = Idle /\ before' = NULL /\ Idle' = Idle
  BY DEF Idle, Calling, CInv, CallInv
<1>2. CallTypes'
  BY <1>1 DEF CInv, CallTypes
<1> QED BY <1>1, <1>2 DEF CInv, CallInv

(* The process itself and the clock.                                        *)
LEMMA ProcessLemma ==
  ASSUME CInv, call = Idle, UNCHANGED <<call, tmp, before>>,
         Crash \/ Restart \/ Tick
  PROVE  CInv' /\ Simulated
<1>1. Typed
  BY DEF CInv, CallTypes
<1>2. CASE Crash
  <2>1. up /\ Die(db) /\ UNCHANGED <<now, consent, acked_signature>>
    BY <1>2 DEF Crash, history
  <2>2. DeadTypes' /\ db' = db
    BY <1>1, <2>1, TypeFacts, DieLemma
  <2>3. TypeOK'
    BY <1>1, <2>1, <2>2, TypeFacts DEF DeadTypes, TypeOK, Sound, Rows, Consents, Acked
  <2>4. Typed'
    BY <2>2, <2>3 DEF DeadTypes, Typed
  <2>5. Atomic!Crash
    BY <2>1, SeenNow, WholeSeen, SameConstants
       DEF Atomic!Crash, Atomic!Die, Atomic!history, Die
  <2> QED BY <2>4, <2>5, WholeTypes DEF Simulated, Atomic!Next
<1>3. CASE Restart
  <2>1. Typed'
    BY <1>1, <1>3 DEF Typed, TypeOK, Sound, Restart, history
  <2>2. Atomic!Restart
    BY <1>3, SeenNow, WholeSeen DEF Restart, history, Atomic!Restart, Atomic!history
  <2> QED BY <2>1, <2>2, WholeTypes DEF Simulated, Atomic!Next
<1>4. CASE Tick
  <2>1. now' \in 0 .. MaxTime
    BY <1>1, <1>4, TypeFacts DEF Tick
  <2>2. Typed'
    BY <1>1, <1>4, <2>1 DEF Typed, TypeOK, Sound, Tick, history
  <2>3. Atomic!Tick
    BY <1>4, SeenNow, WholeSeen DEF Tick, history, Atomic!Tick, Atomic!history
  <2> QED BY <2>2, <2>3, WholeTypes DEF Simulated, Atomic!Next
<1> QED BY <1>2, <1>3, <1>4

LEMMA OfflineLemma ==
  ASSUME CInv, call = Idle, UNCHANGED <<call, tmp, before>>,
         NEW p \in Users, FriendOffline(p)
  PROVE  CInv' /\ Simulated
<1>1. Typed
  BY DEF CInv, CallTypes
<1>2. /\ up /\ conn[p] # Offline
      /\ conn' = [conn EXCEPT ![p] = Offline]
      /\ mgr' = DelMember(mgr, p) /\ out' = NoMessage
      /\ UNCHANGED <<up, profile, saved, avatar, db, now, consent, acked_signature>>
  BY DEF FriendOffline, history
<1>3. Sound(mgr') /\ out' \in Messages
  BY <1>1, <1>2, TypeFacts, DelMemberLemma, PkLemma, NoMessageLemma DEF Messages
<1>4. conn' \in [Users -> Conns \cup {Offline}]
  BY <1>1, <1>2, TypeFacts
<1>5. Typed'
  BY <1>1, <1>2, <1>3, <1>4, TypeFacts, AliveTypes
<1>6. Atomic!FriendOffline(p)
  BY <1>2, SeenNow, WholeSeen, SameConstants, SameCache
     DEF Atomic!FriendOffline, Atomic!history
<1> QED BY <1>5, <1>6, WholeTypes DEF Simulated, Atomic!Next, Atomic!Callback

(* A callback that only answers.                                            *)
LEMMA OnlyAnswers ==
  ASSUME CInv, call = Idle, UNCHANGED <<call, tmp, before>>,
         up, NEW p \in Users, NEW desc \in Descs, NEW about \in Cards,
         Reply(p, desc, about),
         UNCHANGED <<up, conn, profile, saved, avatar, mgr, db, now, history>>
  PROVE  /\ CInv'
         /\ Atomic!Reply(p, desc, about)
         /\ UNCHANGED <<up, Seen.conn, Seen.profile, saved, avatar, Seen.mgr, Seen.db,
                        now, Atomic!history>>
<1>1. Typed /\ UNCHANGED <<consent, acked_signature>>
  BY DEF CInv, CallTypes, history
<1>2. out' \in Messages
  BY ReplyLemma DEF Messages
<1>3. Typed'
  BY <1>1, <1>2, TypeFacts, AliveTypes
<1>4. UNCHANGED <<up, Seen.conn, Seen.profile, saved, avatar, Seen.mgr, Seen.db,
                  now, Atomic!history>>
  BY <1>1, SeenNow, WholeSeen DEF Atomic!history
<1> QED BY <1>3, <1>4, WholeTypes, SameReply

LEMMA ReadOnlyLemma ==
  ASSUME CInv, call = Idle, UNCHANGED <<call, tmp, before>>,
         NEW p \in Users, Get(p) \/ Info(p) \/ FixedText(p)
  PROVE  CInv' /\ Simulated
<1>1. /\ up /\ conn[p] # Offline
      /\ UNCHANGED <<up, conn, profile, saved, avatar, mgr, db, now, history>>
  BY DEF Get, Info, FixedText
<1>2. Typed
  BY DEF CInv, CallTypes
<1>3. Seen.conn[p] # Atomic!Offline
  BY <1>1, SeenNow, SameConstants
<1>4. CASE Get(p)
  <2>1. CASE \E card \in RandomMember(mgr, p) : Reply(p, "get", card)
    <3>1. PICK card \in RandomMember(mgr, p) : Reply(p, "get", card)
      BY <2>1
    <3>2. card \in Cards
      BY <1>2, FindMemberLemma DEF RandomMember
    <3>3. /\ CInv' /\ Atomic!Reply(p, "get", card)
          /\ UNCHANGED <<up, Seen.conn, Seen.profile, saved, avatar, Seen.mgr, Seen.db,
                         now, Atomic!history>>
      BY <1>1, <3>1, <3>2, OnlyAnswers DEF Descs
    <3>4. card \in Atomic!RandomMember(Seen.mgr, p)
      BY <3>1, SeenNow, SameCache
    <3>5. Atomic!Get(p)
      BY <1>1, <1>3, <3>3, <3>4 DEF Atomic!Get
    <3> QED BY <3>3, <3>5 DEF Simulated, Atomic!Next, Atomic!Callback, Atomic!Command
  <2>2. CASE RandomMember(mgr, p) = {} /\ Reply(p, "get_none", Blank)
    <3>1. /\ CInv' /\ Atomic!Reply(p, "get_none", Blank)
          /\ UNCHANGED <<up, Seen.conn, Seen.profile, saved, avatar, Seen.mgr, Seen.db,
                         now, Atomic!history>>
      BY <1>1, <2>2, OnlyAnswers, BlankLemma DEF Descs
    <3>2. Atomic!RandomMember(Seen.mgr, p) = {}
      BY <2>2, SeenNow, SameCache
    <3>3. Atomic!Get(p)
      BY <1>1, <1>3, <3>1, <3>2, SameConstants DEF Atomic!Get
    <3> QED BY <3>1, <3>3 DEF Simulated, Atomic!Next, Atomic!Callback, Atomic!Command
  <2> QED BY <1>4, <2>1, <2>2 DEF Get
<1>5. CASE Info(p)
  <2>1. InfoCard(p) \in Cards /\ Reply(p, "info", InfoCard(p))
    BY <1>2, <1>5, InfoCardLemma DEF Info
  <2>2. Atomic!InfoCard(p) = InfoCard(p)
    BY SeenNow, SameCache, SameConstants
       DEF InfoCard, Atomic!InfoCard, GetName, Atomic!GetName, GetStatusMessage,
           Atomic!GetStatusMessage, Card, Atomic!Card
  <2>3. /\ CInv' /\ Atomic!Reply(p, "info", InfoCard(p))
        /\ UNCHANGED <<up, Seen.conn, Seen.profile, saved, avatar, Seen.mgr, Seen.db,
                       now, Atomic!history>>
    BY <1>1, <2>1, OnlyAnswers DEF Descs
  <2>4. Atomic!Info(p)
    BY <1>1, <1>3, <2>2, <2>3 DEF Atomic!Info
  <2> QED BY <2>3, <2>4 DEF Simulated, Atomic!Next, Atomic!Callback, Atomic!Command
<1>6. CASE FixedText(p)
  <2>1. Reply(p, "text", Blank)
    BY <1>6 DEF FixedText
  <2>2. /\ CInv' /\ Atomic!Reply(p, "text", Blank)
        /\ UNCHANGED <<up, Seen.conn, Seen.profile, saved, avatar, Seen.mgr, Seen.db,
                       now, Atomic!history>>
    BY <1>1, <2>1, OnlyAnswers, BlankLemma DEF Descs
  <2>3. Atomic!FixedText(p)
    BY <1>1, <1>3, <2>2, SameConstants DEF Atomic!FixedText
  <2> QED BY <2>2, <2>3 DEF Simulated, Atomic!Next, Atomic!Callback, Atomic!Command
<1> QED BY <1>4, <1>5, <1>6

-----------------------------------------------------------------------------
LEMMA CallInitLemma == CallInit => CInv /\ Atomic!Init
<1> SUFFICES ASSUME CallInit PROVE CInv /\ Atomic!Init
  OBVIOUS
<1>1. Init /\ call = Idle /\ tmp = NULL /\ before = NULL
  BY DEF CallInit
<1>2. Typed
  BY <1>1, InitLemma, TypedLemma
<1>3. CInv
  BY <1>1, <1>2, IdleLemma DEF CInv, CallTypes, CallInv
<1>4. Atomic!Init
  BY <1>1, SeenNow, SameConstants DEF Init, Atomic!Init
<1> QED BY <1>3, <1>4

(* A step keeps the invariant and is a step of Assisant or none.            *)
LEMMA CallStepLemma == CInv /\ [CallNext]_callVars => CInv' /\ Simulated
<1> SUFFICES ASSUME CInv, [CallNext]_callVars PROVE CInv' /\ Simulated
  OBVIOUS
<1>1. CASE Kill
  BY <1>1, KillLemma, RequestKilled
<1>2. CASE Whole
  <2>1. call = Idle /\ UNCHANGED <<call, tmp, before>>
    BY <1>2 DEF Whole
  <2>2. CASE Crash \/ Restart \/ Tick
    BY <2>1, <2>2, ProcessLemma
  <2>3. CASE \E p \in Users : FriendOffline(p)
    BY <2>1, <2>3, OfflineLemma
  <2>4. CASE \E p \in Users : Get(p) \/ Info(p) \/ FixedText(p)
    BY <2>1, <2>4, ReadOnlyLemma
  <2> QED BY <1>2, <2>2, <2>3, <2>4 DEF Whole
<1>3. CASE Continues
  <2>1. CASE AddFound
    BY <2>1, AddFoundLemma
  <2>2. CASE OfferAvatar
    BY <2>2, OfferAvatarLemma
  <2>3. CASE CacheReported \/ Fopen \/ Fwrite
    BY <2>3, ReportGoesOn, RequestGoesOn
  <2>4. CASE Rename
    BY <2>4, RenameLemma, RequestRename
  <2>5. CASE StartRegister
    BY <2>5, StartRegisterLemma
  <2>6. CASE CommandStatement
    BY <2>6, StopStatementLemma, SetStatementLemma
  <2>7. CASE Answer
    <3>1. call.of \in {"start", "stop", "set"}
      BY <2>7, CommandLemma DEF Answer
    <3> QED BY <2>7, <3>1, StartAnswerLemma, StopAnswerLemma, SetAnswerLemma
  <2> QED BY <1>3, <2>1, <2>2, <2>3, <2>4, <2>5, <2>6, <2>7 DEF Continues
<1>4. ASSUME NEW p \in Users, Begins(p)
      PROVE  CInv' /\ Simulated
  <2>1. CASE \E c \in Conns : FindFound(p, c)
    BY <2>1, FindFoundLemma
  <2>2. CASE \E field \in {"nick_name", "bio"} :
               \E v \in Texts[field] : UpdateReported(p, field, v)
    BY <2>2, UpdateReportedLemma
  <2>3. CASE \E t \in TokIds : StartReplace(p, t)
    BY <2>3, StartReplaceLemma
  <2>4. CASE StopCache(p)
    BY <2>4, StopCacheLemma
  <2>5. CASE \E s \in Signatures : SetCache(p, s)
    BY <2>5, SetCacheLemma
  <2> QED BY <1>4, <2>1, <2>2, <2>3, <2>4, <2>5 DEF Begins
<1>5. CASE UNCHANGED callVars
  <2>1. /\ UNCHANGED <<up, conn, profile, saved, avatar, mgr, db, now, out,
                       consent, acked_signature, call, tmp, before>>
    BY <1>5 DEF callVars, vars
  <2>2. CallTypes'
    BY <2>1 DEF CInv, CallTypes, Typed, TypeOK, Sound
  <2>3. Idle' = Idle
    BY DEF Idle, Calling
  <2>4. /\ OnlineInv => OnlineInv'
        /\ RequestInv => RequestInv'
        /\ ReportInv => ReportInv'
        /\ StartInv => StartInv'
        /\ StopInv => StopInv'
        /\ SetInv => SetInv'
    BY <2>1 DEF OnlineInv, Handed, RequestInv, ReportInv, StartInv, StopInv, SetInv, StatementDone
  <2>5. CallInv'
    BY <2>1, <2>3, <2>4 DEF CInv, CallInv
  <2>6. Seen' = Seen
    BY <2>1, <2>3 DEF Seen, Now
  <2>7. Simulated
    BY <2>1, <2>6, Stutter DEF Simulated
  <2> QED BY <2>2, <2>5, <2>7 DEF CInv
<1>6. CASE RequestAdded
  BY <1>6, RequestAddedLemma
<1> QED BY <1>1, <1>2, <1>3, <1>4, <1>5, <1>6 DEF CallNext

(* What is known of every place a callback can be in, for any constants.    *)
THEOREM CallInvariance == CallSpec => []CInv
<1>1. CInv /\ [CallNext]_callVars => CInv'
  BY CallStepLemma
<1> QED BY CallInitLemma, <1>1, PTL DEF CallSpec

(* Between any two steps of a callback every variable has its type, the     *)
(* friend is connected, and the file about to be renamed over the savedata  *)
(* file holds what toxcore holds.                                           *)
THEOREM CallTypeCorrect == CallSpec => []CallTypeOK
<1>1. CInv => CallTypeOK
  <2> SUFFICES ASSUME CInv PROVE CallTypeOK
    OBVIOUS
  <2>1. /\ TypeOK /\ call \in Callings
        /\ tmp \in [Users -> Profile] \cup {NULL}
        /\ before \in Snapshot \cup {NULL}
        /\ before = NULL <=> call = Idle
        /\ call # Idle => up /\ (call.of = "request" \/ conn[call.who] # Offline)
    BY DEF CInv, CallTypes, Typed, CallInv
  <2>2. call.step = "rename" => tmp = profile
    BY ReportLemma, RequestLemma DEF ReportInv, RequestInv
  <2> QED BY <2>1, <2>2 DEF CallTypeOK, Callings
<1> QED BY CallInvariance, <1>1, PTL

(* Every callback is one step of Assisant, however many steps it takes and  *)
(* wherever the process is killed in it.                                    *)
THEOREM CallbacksImplementAssisant == CallSpec => ImplementsAssisant
<1>1. CInv /\ [CallNext]_callVars => [Atomic!Next]_(Atomic!vars)
  BY CallStepLemma DEF Simulated
<1>2. CallInit => Atomic!Init
  BY CallInitLemma
<1> QED BY CallInvariance, <1>1, <1>2, PTL DEF CallSpec, ImplementsAssisant, Atomic!Spec
=============================================================================
