--------------------------- MODULE DirectoryProofs ---------------------------
(***************************************************************************)
(* What a friend may rely on: the bot keeps the promises of Directory, as   *)
(* long as it may die at any place but no statement, query or message fails *)
(* (OnlyDeaths); the names and bios of the table go stale by deaths only,   *)
(* one or two at a time (NoneLost); and under every fault a callback        *)
(* touches no other friend. Proved for any sets of friends, names, texts    *)
(* and Member objects and any pool size.                                    *)
(*                                                                         *)
(* To the inductive invariant of AssisantProofs are added the properties    *)
(* that need OnlyDeaths. A step is either one the process survives, and     *)
(* then Effect says what a callback does to its friend and OthersKept that  *)
(* it does nothing to the others, or a death, and then cache and            *)
(* connections are gone.                                                    *)
(***************************************************************************)
EXTENDS MCAssisant, AssisantProofs

USE AssisantAssumption, MemberModelAssumption, MemberMgrAssumption

-----------------------------------------------------------------------------
(* The cache: which objects an operation leaks. Leaked is Unowned, seen     *)
(* from the heap.                                                           *)
LEMMA LeakedLemma ==
  ASSUME NEW s, NEW m
  PROVE  m \in Leaked(s) <=> Unowned(s, m)
BY DEF Leaked, Unowned

(* allocate, the setters and add_member in a row, as find_friend's caller   *)
(* and cmd_start have them: the card is listed under its pk, unless that is *)
(* listed already, and then nothing is leaked.                              *)
LEMMA AddCardLemma ==
  ASSUME NEW s, Sound(s), NEW m \in Allocatable(s), NEW card \in Cards
  PROVE  LET t == AddMember(Fill(Allocate(s, m), m, card), m)
         IN  /\ Sound(t)
             /\ DOMAIN t.online_member = DOMAIN s.online_member \cup {card.pk}
             /\ \A k \in DOMAIN s.online_member : FindMember(t, k) = FindMember(s, k)
             /\ ~Online(s, card.pk) =>
                  FindMember(t, card.pk) = card /\ Leaked(t) \subseteq Leaked(s)
<1> DEFINE a == Allocate(s, m)
           f == Fill(a, m, card)
           t == AddMember(f, m)
           q == s.free_list
<1>1. /\ m \in Members /\ Sound(a) /\ Unowned(a, m)
      /\ a.online_member = s.online_member
      /\ \A k \in DOMAIN s.online_member : FindMember(a, k) = FindMember(s, k)
  BY AllocateLemma
<1>2. card.pk \in Keys
  BY DEF Cards
<1>3. /\ Sound(f) /\ Unowned(f, m) /\ f.online_member = a.online_member
      /\ f.member[m] = card
      /\ \A k \in DOMAIN s.online_member : FindMember(f, k) = FindMember(s, k)
  <2> HIDE DEF a
  <2> QED BY <1>1, FillLemma
<1>4. /\ Sound(t)
      /\ DOMAIN t.online_member = DOMAIN s.online_member \cup {card.pk}
      /\ \A k \in DOMAIN s.online_member : FindMember(t, k) = FindMember(s, k)
      /\ ~Online(s, card.pk) => FindMember(t, card.pk) = card
  <2> HIDE DEF a, f
  <2> QED BY <1>1, <1>2, <1>3, AddMemberLemma DEF Online
<1>5. ASSUME ~Online(s, card.pk), NEW x, Unowned(t, x)
      PROVE  Unowned(s, x)
  <2>1. /\ s \in MgrType /\ q \in Seq(Members)
        /\ s.online_member \in [DOMAIN s.online_member -> Members]
        /\ q # << >> => Len(q) \in 1 .. Len(q)
    BY EmptySeq DEF Sound, MgrType
  <2>2. /\ t.live = s.live \cup {m}
        /\ t.free_list = SubSeq(q, 1, Len(q) - 1)
        /\ t.online_member = Insert(s.online_member, card.pk, m)
    <3>1. a = [s EXCEPT !.free_list = SubSeq(@, 1, Len(@) - 1),
                        !.live = @ \cup {m}, !.member[m] = Blank]
      BY DEF Allocate
    <3>2. /\ a.live = s.live \cup {m} /\ a.free_list = SubSeq(q, 1, Len(q) - 1)
          /\ a \in MgrType
      BY <1>1, <2>1, <3>1 DEF MgrType, Sound
    <3> HIDE DEF a
    <3>3. f.live = a.live /\ f.free_list = a.free_list /\ f \in MgrType
      BY <1>3, <3>2 DEF Fill, MgrType, Sound
    <3> HIDE DEF f
    <3>4. /\ t.live = f.live /\ t.free_list = f.free_list
          /\ t.online_member = Insert(f.online_member, card.pk, m)
      BY <1>3, <3>3 DEF AddMember, MgrType
    <3> QED BY <1>1, <1>3, <3>2, <3>3, <3>4
  <2>3. /\ Len(SubSeq(q, 1, Len(q) - 1)) = IF q = << >> THEN 0 ELSE Len(q) - 1
        /\ \A i \in 1 .. Len(SubSeq(q, 1, Len(q) - 1)) :
             SubSeq(q, 1, Len(q) - 1)[i] = q[i]
    BY <2>1, PopLemma
  <2>4. q # << >> => m = q[Len(q)]
    BY DEF Allocatable
  <2>5. /\ x # m
        /\ \A k \in DOMAIN s.online_member : s.online_member[k] # x
    BY <1>5, <2>2 DEF Unowned, Insert, Online
  <2>6. x \in s.live
    BY <1>5, <2>2, <2>5 DEF Unowned
  <2> DEFINE r == SubSeq(q, 1, Len(q) - 1)
  <2>7. \A i \in 1 .. Len(r) : r[i] # x
    BY <1>5, <2>2 DEF Unowned
  <2>8. Len(q) \in Nat
    BY <2>1
  <2> HIDE DEF r, q
  <2>9. ASSUME NEW i \in 1 .. Len(q)
        PROVE  q[i] # x
    <3>1. CASE i = Len(q)
      <4>1. q # << >>
        BY <2>8, <2>9, EmptySeq
      <4> QED BY <2>4, <2>5, <3>1, <4>1
    <3>2. CASE i # Len(q)
      <4>1. q # << >>
        BY <2>8, <2>9, EmptySeq
      <4>2. i \in 1 .. Len(r)
        BY <2>3, <2>8, <2>9, <3>2, <4>1 DEF r
      <4> QED BY <2>3, <2>7, <4>2 DEF r
    <3> QED BY <3>1, <3>2
  <2> QED BY <2>5, <2>6, <2>9 DEF Unowned, q
<1>6. ~Online(s, card.pk) => Leaked(t) \subseteq Leaked(s)
  <2> HIDE DEF t
  <2> QED BY <1>5, LeakedLemma
<1> QED BY <1>4, <1>6

(* del_member leaks nothing: the object goes to the pool or is deleted.     *)
LEMMA DelMemberLeaks ==
  ASSUME NEW s, Sound(s), NEW pk
  PROVE  Leaked(DelMember(s, pk)) \subseteq Leaked(s)
<1>1. CASE ~Online(s, pk)
  BY <1>1 DEF DelMember
<1>2. CASE Online(s, pk)
  <2> DEFINE m == s.online_member[pk]
             e == EraseMember(s, pk)
             t == Deallcate(e, m)
             q == s.free_list
  <2>1. DelMember(s, pk) = t
    BY <1>2 DEF DelMember
  <2>2. s \in MgrType /\ q \in Seq(Members) /\ Len(q) \in Nat /\ m \in Members
    BY <1>2, EmptySeq, EraseLemma DEF Sound, MgrType
  <2>3. /\ e \in MgrType /\ e.live = s.live /\ e.free_list = q
        /\ e.online_member = Erase(s.online_member, pk)
    <3>1. e \in MgrType
      BY <1>2, EraseLemma DEF Sound
    <3> QED BY <2>2, <3>1 DEF EraseMember, MgrType
  <2> HIDE DEF e
  <2>4. ASSUME NEW x, Unowned(t, x)
        PROVE  Unowned(s, x)
    <3>1. CASE MAX_POOL_SIZE < Len(q)
      <4>1. /\ t.live = s.live \ {m} /\ t.free_list = q
            /\ t.online_member = Erase(s.online_member, pk)
        BY <2>3, <3>1 DEF Deallcate, MgrType
      <4> HIDE DEF t, q
      <4>2. x \in s.live /\ x # m
        BY <2>4, <4>1 DEF Unowned
      <4>3. \A i \in 1 .. Len(q) : q[i] # x
        BY <2>4, <4>1 DEF Unowned
      <4>4. \A k \in DOMAIN s.online_member : s.online_member[k] # x
        BY <2>4, <4>1, <4>2 DEF Unowned, Erase
      <4> QED BY <4>2, <4>3, <4>4 DEF Unowned, q
    <3>2. CASE ~(MAX_POOL_SIZE < Len(q))
      <4>1. /\ t.live = s.live /\ t.free_list = Append(q, m)
            /\ t.online_member = Erase(s.online_member, pk)
        BY <2>3, <3>2 DEF Deallcate, MgrType
      <4> HIDE DEF t, q
      <4>2. /\ Len(Append(q, m)) = Len(q) + 1
            /\ \A i \in 1 .. Len(q) : Append(q, m)[i] = q[i]
            /\ Append(q, m)[Len(q) + 1] = m
        BY <2>2, AppendProperties
      <4>3. x \in s.live
        BY <2>4, <4>1 DEF Unowned
      <4>4. \A i \in 1 .. Len(q) + 1 : Append(q, m)[i] # x
        BY <2>4, <4>1, <4>2 DEF Unowned
      <4>5. x # m /\ \A i \in 1 .. Len(q) : q[i] # x
        BY <2>2, <4>2, <4>4
      <4>6. \A k \in DOMAIN s.online_member : s.online_member[k] # x
        BY <2>4, <4>1, <4>5 DEF Unowned, Erase
      <4> QED BY <4>3, <4>5, <4>6 DEF Unowned, q
    <3> QED BY <3>1, <3>2
  <2> HIDE DEF t
  <2> QED BY <2>1, <2>4, LeakedLemma
<1> QED BY <1>1, <1>2

(* The setters leak nothing.                                                *)
LEMMA SetterLeaks ==
  ASSUME NEW s, Sound(s), NEW pk \in Keys,
         NEW field \in {"nick_name", "bio", "signature"}, NEW v \in Texts[field]
  PROVE  Leaked(SetField(s, pk, field, v)) = Leaked(s)
BY SetterLemma DEF Leaked

-----------------------------------------------------------------------------
(* No callback touches another friend, under any fault.                     *)
OthersKept(p) ==
  \A q \in Users \ {p} :
    /\ Online(mgr', q) <=> Online(mgr, q)
    /\ Online(mgr, q) => FindMember(mgr', q) = FindMember(mgr, q)
    /\ q \in DOMAIN db' <=> q \in DOMAIN db
    /\ q \in DOMAIN db => db'[q] = db[q]

(* A statement that leaves the rows of all but p alone.                     *)
LEMMA OtherRowsLemma ==
  ASSUME IInv, NEW p \in Users, NEW newDb,
         \A q \in Users \ {p} :
           /\ q \in DOMAIN newDb <=> q \in DOMAIN db
           /\ q \in DOMAIN db => newDb[q] = db[q],
         NEW r \in Execute(db, newDb), db' = r.table
  PROVE  \A q \in Users \ {p} :
           /\ q \in DOMAIN db' <=> q \in DOMAIN db
           /\ q \in DOMAIN db => db'[q] = db[q]
<1>1. db' \in {db, newDb}
  BY ExecuteLemma
<1> QED BY <1>1

LEMMA OthersOnline ==
  ASSUME IInv, NEW p \in Users, NEW c \in Conns, FriendOnline(p, c), up'
  PROVE  OthersKept(p)
<1>1. PICK r \in FindFriend(db, mgr, p) :
        \/ ~r.up /\ Die(db)
        \/ /\ mgr' = IF r.member = NULL THEN r.mgr ELSE AddMember(r.mgr, r.member)
           /\ db' = db
  BY DEF FriendOnline
<1>2. /\ mgr' = IF r.member = NULL THEN r.mgr ELSE AddMember(r.mgr, r.member)
      /\ db' = db
  BY <1>1 DEF Die
<1>3. CASE r.member = NULL /\ r.mgr = mgr
  BY <1>2, <1>3 DEF OthersKept
<1>4. CASE /\ r.member \in Members
           /\ Sound(r.mgr)
           /\ Unowned(r.mgr, r.member)
           /\ r.mgr.online_member = mgr.online_member
           /\ r.mgr.member[r.member].pk \in {p, Empty}
           /\ \A k \in DOMAIN mgr.online_member :
                FindMember(r.mgr, k) = FindMember(mgr, k)
  <2>1. mgr' = AddMember(r.mgr, r.member)
    BY <1>2, <1>4
  <2>2. r.mgr.member[r.member].pk \in Keys
    BY <1>4 DEF Keys
  <2>3. /\ DOMAIN mgr'.online_member =
             DOMAIN mgr.online_member \cup {r.mgr.member[r.member].pk}
        /\ \A k \in DOMAIN mgr.online_member :
             FindMember(mgr', k) = FindMember(mgr, k)
    BY <1>4, <2>1, <2>2, AddMemberLemma
  <2> QED BY <1>2, <1>4, <2>3 DEF OthersKept, Online
<1> QED BY <1>3, <1>4, TypedLemma, FindFriendLemma

LEMMA OthersReport ==
  ASSUME IInv, NEW p \in Users, NEW field \in {"nick_name", "bio", "signature"},
         NEW v \in Texts[field],
         NEW r \in Execute(db, UpdateColumn(db, p, field, v, now)),
         db' = r.table, mgr' = SetField(mgr, p, field, v)
  PROVE  OthersKept(p)
<1>1. \A q \in Users \ {p} :
        /\ q \in DOMAIN db' <=> q \in DOMAIN db
        /\ q \in DOMAIN db => db'[q] = db[q]
  <2> DEFINE newDb == UpdateColumn(db, p, field, v, now)
  <2>1. \A q \in Users \ {p} :
          /\ q \in DOMAIN newDb <=> q \in DOMAIN db
          /\ q \in DOMAIN db => newDb[q] = db[q]
    BY DEF UpdateColumn, IInv, TypeOK
  <2> HIDE DEF newDb
  <2> QED BY <2>1, OtherRowsLemma DEF newDb
<1>2. /\ mgr'.online_member = mgr.online_member
      /\ \A k \in DOMAIN mgr.online_member \ {p} :
           FindMember(mgr', k) = FindMember(mgr, k)
  BY SoundLemma, SetterLemma, PkLemma
<1> QED BY <1>1, <1>2 DEF OthersKept, Online

(* The card a /start makes, and how cmd_start makes it from a new object.   *)
StartCard(p, tok_id) == Card(p, tok_id, GetName(p), GetStatusMessage(p), Empty)

FilledCard(p, tok_id, m) ==
  [Allocate(mgr, m).member[m] EXCEPT
     !.pk = p, !.tok_id = tok_id,
     !.nick_name = GetName(p), !.bio = GetStatusMessage(p)]

LEMMA StartCardLemma ==
  ASSUME IInv, NEW p \in Users, NEW tok_id \in TokIds
  PROVE  /\ StartCard(p, tok_id) \in Cards
         /\ StartCard(p, tok_id).pk = p
         /\ \A m \in Allocatable(mgr) :
              FilledCard(p, tok_id, m) = StartCard(p, tok_id)
<1>1. profile[p] \in Profile
  BY DEF IInv, TypeOK
<1>2. ASSUME NEW m \in Allocatable(mgr)
      PROVE  FilledCard(p, tok_id, m) = StartCard(p, tok_id)
  <2> DEFINE new == Allocate(mgr, m).member[m]
  <2>1. new = Blank
    BY SoundLemma, AllocateLemma
  <2> HIDE DEF new
  <2>2. FilledCard(p, tok_id, m) =
          [new EXCEPT !.pk = p, !.tok_id = tok_id,
                      !.nick_name = GetName(p), !.bio = GetStatusMessage(p)]
    BY DEF FilledCard, new
  <2> QED BY <2>1, <2>2 DEF StartCard, Card, Blank
<1> QED BY <1>1, <1>2, PkLemma
        DEF StartCard, Card, Cards, Profile, GetName, GetStatusMessage

(* /start, with its row and its card named.                                 *)
LEMMA StartStep ==
  ASSUME IInv, NEW p \in Users, NEW tok_id \in TokIds, Start(p, tok_id)
  PROVE  /\ up
         /\ \E r \in Execute(db, ReplaceRow(db, p, tok_id, GetName(p),
                                            GetStatusMessage(p), now)) :
              \/ ~r.up /\ Die(r.table)
              \/ /\ r.up
                 /\ db' = r.table
                 /\ \E m \in Allocatable(mgr) :
                      mgr' = AddMember(Fill(Allocate(mgr, m), m,
                                            StartCard(p, tok_id)), m)
                 /\ Reply(p, "start", Blank)
                 /\ UNCHANGED <<up, conn, profile, saved, avatar>>
<1>1. /\ up
      /\ \E r \in Execute(db, ReplaceRow(db, p, tok_id, GetName(p),
                                         GetStatusMessage(p), now)) :
           \/ ~r.up /\ Die(r.table)
           \/ /\ r.up
              /\ db' = r.table
              /\ \E m \in Allocatable(mgr) :
                   mgr' = AddMember(Fill(Allocate(mgr, m), m,
                                         FilledCard(p, tok_id, m)), m)
              /\ Reply(p, "start", Blank)
              /\ UNCHANGED <<up, conn, profile, saved, avatar>>
  BY Zenon DEF Start, FilledCard
<1> QED BY <1>1, StartCardLemma

LEMMA OthersStart ==
  ASSUME IInv, NEW p \in Users, NEW tok_id \in TokIds, Start(p, tok_id), up'
  PROVE  OthersKept(p)
<1> DEFINE newDb == ReplaceRow(db, p, tok_id, GetName(p), GetStatusMessage(p), now)
           card  == StartCard(p, tok_id)
<1>1. PICK r \in Execute(db, newDb) :
        /\ db' = r.table
        /\ \E m \in Allocatable(mgr) :
             mgr' = AddMember(Fill(Allocate(mgr, m), m, card), m)
  BY StartStep DEF Die
<1>2. \A q \in Users \ {p} :
        /\ q \in DOMAIN newDb <=> q \in DOMAIN db
        /\ q \in DOMAIN db => newDb[q] = db[q]
  BY DEF ReplaceRow, Put
<1> HIDE DEF newDb
<1>3. \A q \in Users \ {p} :
        /\ q \in DOMAIN db' <=> q \in DOMAIN db
        /\ q \in DOMAIN db => db'[q] = db[q]
  BY <1>1, <1>2, OtherRowsLemma
<1>4. PICK m \in Allocatable(mgr) :
        mgr' = AddMember(Fill(Allocate(mgr, m), m, card), m)
  BY <1>1
<1>5. card \in Cards /\ card.pk = p
  BY <1>4, StartCardLemma
<1> HIDE DEF card
<1>6. /\ DOMAIN mgr'.online_member = DOMAIN mgr.online_member \cup {p}
      /\ \A k \in DOMAIN mgr.online_member : FindMember(mgr', k) = FindMember(mgr, k)
  BY <1>4, <1>5, SoundLemma, AddCardLemma
<1> QED BY <1>3, <1>6 DEF OthersKept, Online

LEMMA OthersStop ==
  ASSUME IInv, NEW p \in Users, Stop(p), up'
  PROVE  OthersKept(p)
<1> DEFINE newDb == DeleteRow(db, p)
<1>1. PICK r \in Execute(db, newDb) : db' = r.table /\ mgr' = DelMember(mgr, p)
  BY DEF Stop, Die
<1>2. \A q \in Users \ {p} :
        /\ q \in DOMAIN newDb <=> q \in DOMAIN db
        /\ q \in DOMAIN db => newDb[q] = db[q]
  BY DEF DeleteRow, Erase
<1> HIDE DEF newDb
<1>3. \A q \in Users \ {p} :
        /\ q \in DOMAIN db' <=> q \in DOMAIN db
        /\ q \in DOMAIN db => db'[q] = db[q]
  BY <1>1, <1>2, OtherRowsLemma
<1>4. /\ DOMAIN mgr'.online_member = DOMAIN mgr.online_member \ {p}
      /\ \A k \in DOMAIN mgr.online_member \ {p} :
           FindMember(mgr', k) = FindMember(mgr, k)
  BY <1>1, SoundLemma, PkLemma, DelMemberLemma
<1> QED BY <1>3, <1>4 DEF OthersKept, Online

LEMMA OthersLemma ==
  ASSUME IInv, NEW p \in Users, Callback(p), up'
  PROVE  OthersKept(p)
<1>1. CASE \E c \in Conns : FriendOnline(p, c)
  BY <1>1, OthersOnline
<1>2. CASE FriendOffline(p)
  <2>1. mgr' = DelMember(mgr, p) /\ db' = db
    BY <1>2 DEF FriendOffline
  <2>2. /\ DOMAIN mgr'.online_member = DOMAIN mgr.online_member \ {p}
        /\ \A k \in DOMAIN mgr.online_member \ {p} :
             FindMember(mgr', k) = FindMember(mgr, k)
    BY <2>1, SoundLemma, PkLemma, DelMemberLemma
  <2> QED BY <2>1, <2>2 DEF OthersKept, Online
<1>3. CASE \E field \in {"nick_name", "bio"} :
             \E v \in Texts[field] : FriendReports(p, field, v)
  <2>1. PICK field \in {"nick_name", "bio"} :
          \E v \in Texts[field] : FriendReports(p, field, v)
    BY <1>3
  <2>2. PICK v \in Texts[field] : FriendReports(p, field, v)
    BY <2>1
  <2>3. PICK r \in Execute(db, UpdateColumn(db, p, field, v, now)) :
          db' = r.table /\ mgr' = SetField(mgr, p, field, v)
    BY <2>2 DEF FriendReports, Die
  <2> QED BY <2>3, OthersReport
<1>4. CASE \E t \in TokIds : Start(p, t)
  BY <1>4, OthersStart
<1>5. CASE Stop(p)
  BY <1>5, OthersStop
<1>6. CASE \E s \in Signatures : Set(p, s)
  <2>1. PICK s \in Signatures : Set(p, s)
    BY <1>6
  <2>2. s \in Texts["signature"]
    BY DEF Texts
  <2>3. PICK r \in Execute(db, UpdateColumn(db, p, "signature", s, now)) :
          db' = r.table /\ mgr' = SetField(mgr, p, "signature", s)
    BY <2>1 DEF Set, Die
  <2> QED BY <2>2, <2>3, OthersReport
<1>7. CASE Get(p) \/ Info(p) \/ FixedText(p)
  BY <1>7 DEF Get, Info, FixedText, OthersKept
<1> QED BY <1>1, <1>2, <1>3, <1>4, <1>5, <1>6, <1>7 DEF Callback, Command

(* No callback changes the row, or the cached card, of more than one        *)
(* friend, under every fault.                                               *)
THEOREM OneAtATime == Spec => OneFriendAtATime
<1>1. IInv /\ [Next]_vars =>
        [up' => \A p, q \in Users : Changed(p) /\ Changed(q) => p = q]_vars
  <2> SUFFICES ASSUME IInv, Next, up'
               PROVE  \A p, q \in Users : Changed(p) /\ Changed(q) => p = q
    OBVIOUS
  <2>1. CASE \E p \in Users : Callback(p)
    <3>1. PICK p \in Users : Callback(p)
      BY <2>1
    <3>2. OthersKept(p)
      BY <3>1, OthersLemma
    <3>3. \A q \in Users \ {p} : ~Changed(q)
      BY <3>2 DEF OthersKept, Changed, CardOf, RowOf, Online
    <3> QED BY <3>3
  <2>2. CASE Crash
    BY <2>2 DEF Crash, Die
  <2>3. CASE Restart \/ Tick \/ FriendRequest
    <3>1. \A q : ~Changed(q)
      BY <2>3 DEF Restart, Tick, FriendRequest, Changed, CardOf, RowOf, Online, FindMember
    <3> QED BY <3>1
  <2> QED BY <2>1, <2>2, <2>3 DEF Next
<1> QED BY <1>1, Invariance, PTL DEF Spec, OneFriendAtATime

-----------------------------------------------------------------------------
(* A step of the process is one it survives or a death.                     *)
LEMMA DeathStep ==
  ASSUME Next, ~up'
  PROVE  \E table : Die(table)
<1>1. ASSUME NEW p \in Users, Callback(p)
      PROVE  \E table : Die(table)
  <2>1. CASE \E c \in Conns : FriendOnline(p, c)
    BY <2>1 DEF FriendOnline
  <2>2. CASE FriendOffline(p) \/ Get(p) \/ Info(p) \/ FixedText(p)
    BY <2>2 DEF FriendOffline, Get, Info, FixedText
  <2>3. CASE \E field \in {"nick_name", "bio"} :
               \E v \in Texts[field] : FriendReports(p, field, v)
    BY <2>3 DEF FriendReports
  <2>4. CASE \E t \in TokIds : Start(p, t)
    BY <2>4 DEF Start
  <2>5. CASE Stop(p)
    BY <2>5 DEF Stop
  <2>6. CASE \E s \in Signatures : Set(p, s)
    BY <2>6 DEF Set
  <2> QED BY <1>1, <2>1, <2>2, <2>3, <2>4, <2>5, <2>6 DEF Callback, Command
<1>2. CASE Crash
  BY <1>2 DEF Crash
<1>3. CASE Restart \/ Tick \/ FriendRequest
  BY <1>3 DEF Restart, Tick, FriendRequest
<1> QED BY <1>1, <1>2, <1>3 DEF Next

-----------------------------------------------------------------------------
(* The process may die at any place of a callback and rename() fail; no     *)
(* statement, query or message does.                                        *)
OnlyDeaths == Faults \subseteq {"connect", "kill", "rename"}

(* The two ways a process dies.                                             *)
LEMMA FailedDies ==
  ASSUME NEW kind, NEW table, NEW d \in Failed(kind, table, {FALSE})
  PROVE  d.up = FALSE
<1>1. d \in {[up |-> a, table |-> table, ret |-> 0] : a \in {FALSE}}
  BY DEF Failed
<1>2. d = [up |-> FALSE, table |-> table, ret |-> 0]
  BY <1>1
<1> QED BY <1>2, Zenon

LEMMA FoundNothingDies ==
  ASSUME NEW s, NEW d \in FoundNothing(s, {FALSE})
  PROVE  d.up = FALSE
<1>1. d = Found(FALSE, NULL, s)
  BY DEF FoundNothing
<1> QED BY <1>1, Zenon DEF Found

(* Then a statement the process survives does what it says, and             *)
(* find_friend reads the whole row.                                         *)
LEMMA CleanExecute ==
  ASSUME OnlyDeaths, NEW old, NEW new, NEW r \in Execute(old, new), r.up
  PROVE  r = [up |-> TRUE, table |-> new, ret |-> IF new = old THEN 0 ELSE 1]
<1>1. /\ Failed("prepare", old, BOOLEAN) = {}
      /\ Failed("execute", old, {TRUE}) = {}
      /\ Failed("lost", new, {TRUE}) = {}
  BY DEF Failed, OnlyDeaths
<1>2. r \notin Failed("connect", old, {FALSE}) /\ r \notin Failed("kill", new, {FALSE})
  BY FailedDies
<1> QED BY <1>1, <1>2 DEF Execute

LEMMA CleanFindFriend ==
  ASSUME OnlyDeaths, NEW p, NEW r \in FindFriend(db, mgr, p), r.up
  PROVE  /\ p \notin DOMAIN db => r.member = NULL /\ r.mgr = mgr
         /\ p \in DOMAIN db => \E m \in Allocatable(mgr) :
              r.member = m /\ r.mgr = Fill(Allocate(mgr, m), m, CardOfRow(p))
<1>1. r \notin FoundNothing(mgr, {FALSE})
  BY FoundNothingDies
<1>2. r \in IF p \in DOMAIN db THEN FoundRow(db, mgr, p, 5) ELSE FoundNothing(mgr, {TRUE})
  BY <1>1 DEF FindFriend, ColumnsRead, OnlyDeaths
<1>3. CASE p \in DOMAIN db
  <2>1. r \in FoundRow(db, mgr, p, 5)
    BY <1>2, <1>3
  <2>2. PICK m \in Allocatable(mgr) :
          r = Found(TRUE, m, Fill(Allocate(mgr, m), m, Loaded(p, db[p], 5)))
    BY <2>1 DEF FoundRow
  <2>3. Loaded(p, db[p], 5) = CardOfRow(p)
    BY DEF Loaded, CardOfRow
  <2>4. r.member = m /\ r.mgr = Fill(Allocate(mgr, m), m, CardOfRow(p))
    BY <2>2, <2>3, Zenon DEF Found
  <2> QED BY <1>3, <2>4
<1>4. CASE p \notin DOMAIN db
  <2>1. r \in FoundNothing(mgr, {TRUE})
    BY <1>2, <1>4
  <2>2. r = Found(TRUE, NULL, mgr)
    BY <2>1 DEF FoundNothing
  <2>3. r.member = NULL /\ r.mgr = mgr
    BY <2>2, Zenon DEF Found
  <2> QED BY <1>4, <2>3
<1> QED BY <1>3, <1>4

(* The properties, friend by friend. *)
OnlyFriends == DOMAIN mgr.online_member \subseteq Users
Listed(p) == Online(mgr, p) <=> p \in DOMAIN db /\ conn[p] # Offline
AckShown(p) ==
  acked_signature[p] # Empty /\ Online(mgr, p) =>
    FindMember(mgr, p).signature = acked_signature[p]

(* The inductive invariant under OnlyDeaths. *)
CleanInv ==
  /\ IInv
  /\ OnlyFriends
  /\ \A p \in Users : Listed(p) /\ AckShown(p)

(* What a callback for p does to p, and to what is not a friend's. *)
Effect(p) ==
  /\ OnlyFriends'
  /\ Listed(p)'
  /\ AckShown(p)'
  /\ \A q \in Users \ {p} :
       conn'[q] = conn[q] /\ acked_signature'[q] = acked_signature[q]
  /\ Exact(p) => \/ Exact(p)'
                 \/ Online(mgr, p) /\ out' = Message(p, "start", Blank)
  /\ \/ Leaked(mgr') \subseteq Leaked(mgr)
     \/ /\ Online(mgr, p)
        /\ \/ out' = Message(p, "start", Blank)
           \/ conn[p] # Offline /\ conn'[p] \notin {Offline, conn[p]}

(* A row read by find_friend makes a card.                                  *)
LEMMA CardOfRowLemma ==
  ASSUME IInv, NEW p \in Users, p \in DOMAIN db
  PROVE  CardOfRow(p) \in Cards /\ CardOfRow(p).pk = p
<1>1. db[p] \in Records
  BY DEF IInv, TypeOK
<1> QED BY <1>1, PkLemma DEF CardOfRow, Card, Cards, Records

(* A friend comes online: the card shown is that of the row.                *)
LEMMA OnlineEffect ==
  ASSUME OnlyDeaths, CleanInv, NEW p \in Users, NEW c \in Conns,
         FriendOnline(p, c), up'
  PROVE  Effect(p)
<1>1. PICK r \in FindFriend(db, mgr, p) :
        \/ ~r.up /\ Die(db)
        \/ /\ r.up
           /\ conn' = [conn EXCEPT ![p] = c]
           /\ mgr' = IF r.member = NULL THEN r.mgr ELSE AddMember(r.mgr, r.member)
           /\ SendAvatar(p)
           /\ UNCHANGED <<up, profile, saved, db>>
  BY DEF FriendOnline
<1>2. /\ r.up /\ conn' = [conn EXCEPT ![p] = c]
      /\ mgr' = IF r.member = NULL THEN r.mgr ELSE AddMember(r.mgr, r.member)
      /\ UNCHANGED <<db, acked_signature>>
  BY <1>1 DEF FriendOnline, history, Die
<1>3. /\ IInv /\ Sound(mgr) /\ OnlyFriends /\ Listed(p) /\ AckShown(p)
      /\ conn[p] # c
  BY SoundLemma DEF CleanInv, FriendOnline
<1>4. /\ conn'[p] = c /\ c # Offline
      /\ \A q \in Users \ {p} : conn'[q] = conn[q]
  BY <1>2, <1>3 DEF IInv, TypeOK
<1>5. CASE p \notin DOMAIN db
  <2>1. mgr' = mgr
    BY <1>2, <1>5, CleanFindFriend
  <2> QED BY <1>2, <1>3, <1>4, <1>5, <2>1
          DEF Effect, OnlyFriends, Listed, AckShown, Exact, Online
<1>6. CASE p \in DOMAIN db
  <2>1. PICK m \in Allocatable(mgr) :
          r.member = m /\ r.mgr = Fill(Allocate(mgr, m), m, CardOfRow(p))
    BY <1>2, <1>6, CleanFindFriend
  <2>2. m \in Members
    BY <1>3, AllocateLemma
  <2>3. mgr' = AddMember(Fill(Allocate(mgr, m), m, CardOfRow(p)), m)
    BY <1>2, <2>1, <2>2
  <2>4. CardOfRow(p) \in Cards /\ CardOfRow(p).pk = p
    BY <1>3, <1>6, CardOfRowLemma
  <2> DEFINE card == CardOfRow(p)
  <2> HIDE DEF card
  <2>5. /\ DOMAIN mgr'.online_member = DOMAIN mgr.online_member \cup {p}
        /\ \A k \in DOMAIN mgr.online_member : FindMember(mgr', k) = FindMember(mgr, k)
        /\ ~Online(mgr, p) =>
             FindMember(mgr', p) = card /\ Leaked(mgr') \subseteq Leaked(mgr)
    BY <1>3, <2>3, <2>4, AddCardLemma DEF card
  <2>6. OnlyFriends' /\ Listed(p)'
    BY <1>2, <1>3, <1>4, <1>6, <2>5 DEF OnlyFriends, Listed, Online
  <2>7. card' = card
    BY <1>2 DEF card, CardOfRow
  <2>8. Exact(p) => Exact(p)'
    BY <1>2, <1>6, <2>5, <2>7 DEF Exact, Online, card
  <2>9. acked_signature[p] # Empty => card.signature = acked_signature[p]
    BY <1>3 DEF IInv, AckedSignatureKept, card, CardOfRow, Card
  <2>10. AckShown(p)'
    BY <1>2, <1>3, <2>5, <2>9 DEF AckShown, Online
  <2>11. \/ Leaked(mgr') \subseteq Leaked(mgr)
         \/ Online(mgr, p) /\ conn[p] # Offline
    BY <1>3, <2>5 DEF Listed
  <2> QED BY <1>2, <1>3, <1>4, <2>6, <2>8, <2>10, <2>11 DEF Effect
<1> QED BY <1>5, <1>6

LEMMA OfflineEffect ==
  ASSUME CleanInv, NEW p \in Users, FriendOffline(p)
  PROVE  Effect(p)
<1>1. /\ conn' = [conn EXCEPT ![p] = Offline]
      /\ mgr' = DelMember(mgr, p)
      /\ UNCHANGED <<db, acked_signature>>
  BY DEF FriendOffline, history
<1>2. IInv /\ Sound(mgr) /\ OnlyFriends
  BY SoundLemma DEF CleanInv
<1>3. conn'[p] = Offline /\ \A q \in Users \ {p} : conn'[q] = conn[q]
  BY <1>1, <1>2 DEF IInv, TypeOK
<1>4. DOMAIN mgr'.online_member = DOMAIN mgr.online_member \ {p}
  BY <1>1, <1>2, PkLemma, DelMemberLemma
<1>5. Leaked(mgr') \subseteq Leaked(mgr)
  BY <1>1, <1>2, DelMemberLeaks
<1>6. OnlyFriends' /\ Listed(p)' /\ AckShown(p)' /\ Exact(p)'
  BY <1>2, <1>3, <1>4 DEF OnlyFriends, Listed, AckShown, Exact, Online
<1> QED BY <1>1, <1>3, <1>5, <1>6 DEF Effect

(* A text changed in the row and in the cached card alike. *)
ColumnEffect(p, field, v) ==
  /\ OnlyFriends' /\ Listed(p)'
  /\ Exact(p) => Exact(p)'
  /\ Leaked(mgr') \subseteq Leaked(mgr)
  /\ Online(mgr, p)' <=> Online(mgr, p)
  /\ Online(mgr, p) =>
       FindMember(mgr', p) = [FindMember(mgr, p) EXCEPT ![field] = v]
  /\ FindMember(mgr, p) \in Cards \/ ~Online(mgr, p)
  /\ p \in DOMAIN db' <=> p \in DOMAIN db
  /\ p \in DOMAIN db =>
       /\ db[p] \in Records
       /\ db'[p] = [db[p] EXCEPT ![field] = v, !.update_time = now]

(* The statement and the setter are such a change.                          *)
LEMMA ColumnLemma ==
  ASSUME CleanInv, NEW p \in Users, NEW field \in {"nick_name", "bio", "signature"},
         NEW v \in Texts[field],
         db' = UpdateColumn(db, p, field, v, now),
         mgr' = SetField(mgr, p, field, v), UNCHANGED conn
  PROVE  ColumnEffect(p, field, v)
<1>1. IInv /\ Sound(mgr) /\ OnlyFriends /\ Listed(p) /\ p \in Keys
  BY SoundLemma, PkLemma DEF CleanInv
<1>2. /\ mgr'.online_member = mgr.online_member
      /\ Online(mgr, p) =>
           FindMember(mgr', p) = [FindMember(mgr, p) EXCEPT ![field] = v]
  BY <1>1, SetterLemma
<1>3. /\ p \in DOMAIN db' <=> p \in DOMAIN db
      /\ p \in DOMAIN db =>
           /\ db[p] \in Records
           /\ db'[p] = [db[p] EXCEPT ![field] = v, !.update_time = now]
  <2> DEFINE row == [db[p] EXCEPT ![field] = v, !.update_time = now]
  <2>1. db' = IF p \in DOMAIN db THEN [db EXCEPT ![p] = row] ELSE db
    BY Zenon DEF UpdateColumn
  <2> HIDE DEF row
  <2>2. p \in DOMAIN db => p \in DOMAIN db' /\ db'[p] = row
    BY <1>1, <2>1 DEF IInv, TypeOK
  <2>3. p \in DOMAIN db => db[p] \in Records
    BY <1>1 DEF IInv, TypeOK
  <2> QED BY <2>1, <2>2, <2>3 DEF row
<1>4. OnlyFriends' /\ Listed(p)'
  BY <1>1, <1>2, <1>3 DEF OnlyFriends, Listed, Online
<1>5. Leaked(mgr') \subseteq Leaked(mgr)
  BY <1>1, SetterLeaks
<1>6. Online(mgr, p) => FindMember(mgr, p) \in Cards
  BY <1>1, TypedLemma, FindMemberLemma DEF Online
<1>7. ASSUME Exact(p), Online(mgr, p)'
      PROVE  p \in DOMAIN db' /\ FindMember(mgr', p) = CardOfRow(p)'
  <2>1. Online(mgr, p)
    BY <1>2, <1>7 DEF Online
  <2>2. p \in DOMAIN db /\ FindMember(mgr, p) = CardOfRow(p)
    BY <1>7, <2>1 DEF Exact
  <2> DEFINE row == db[p]
  <2>3. row \in Records
    BY <1>3, <2>2
  <2>4. CASE field = "nick_name"
    <3>1. row' = [row EXCEPT !.nick_name = v, !.update_time = now]
      BY <1>3, <2>2, <2>4 DEF row
    <3>2. FindMember(mgr', p) = [Card(p, row.tok_id, row.nick_name, row.bio,
                                      row.signature) EXCEPT !.nick_name = v]
      BY <1>2, <2>1, <2>2, <2>4 DEF CardOfRow, row
    <3>3. CardOfRow(p)' = Card(p, row'.tok_id, row'.nick_name, row'.bio, row'.signature)
      BY DEF CardOfRow, row
    <3> HIDE DEF row
    <3> QED BY <1>3, <2>2, <2>3, <3>1, <3>2, <3>3 DEF Card, Records
  <2>5. CASE field = "bio"
    <3>1. row' = [row EXCEPT !.bio = v, !.update_time = now]
      BY <1>3, <2>2, <2>5 DEF row
    <3>2. FindMember(mgr', p) = [Card(p, row.tok_id, row.nick_name, row.bio,
                                      row.signature) EXCEPT !.bio = v]
      BY <1>2, <2>1, <2>2, <2>5 DEF CardOfRow, row
    <3>3. CardOfRow(p)' = Card(p, row'.tok_id, row'.nick_name, row'.bio, row'.signature)
      BY DEF CardOfRow, row
    <3> HIDE DEF row
    <3> QED BY <1>3, <2>2, <2>3, <3>1, <3>2, <3>3 DEF Card, Records
  <2>6. CASE field = "signature"
    <3>1. row' = [row EXCEPT !.signature = v, !.update_time = now]
      BY <1>3, <2>2, <2>6 DEF row
    <3>2. FindMember(mgr', p) = [Card(p, row.tok_id, row.nick_name, row.bio,
                                      row.signature) EXCEPT !.signature = v]
      BY <1>2, <2>1, <2>2, <2>6 DEF CardOfRow, row
    <3>3. CardOfRow(p)' = Card(p, row'.tok_id, row'.nick_name, row'.bio, row'.signature)
      BY DEF CardOfRow, row
    <3> HIDE DEF row
    <3> QED BY <1>3, <2>2, <2>3, <3>1, <3>2, <3>3 DEF Card, Records
  <2> QED BY <2>4, <2>5, <2>6
<1>8. Exact(p) => Exact(p)'
  BY <1>7 DEF Exact
<1> QED BY <1>2, <1>3, <1>4, <1>5, <1>6, <1>8 DEF Online, ColumnEffect

LEMMA ReportsEffect ==
  ASSUME OnlyDeaths, CleanInv, NEW p \in Users, NEW field \in {"nick_name", "bio"},
         NEW v \in Texts[field], FriendReports(p, field, v), up'
  PROVE  Effect(p)
<1> DEFINE newDb == UpdateColumn(db, p, field, v, now)
<1>1. PICK r \in Execute(db, newDb) :
        \/ ~r.up /\ Die(r.table)
        \/ /\ r.up
           /\ db' = r.table
           /\ mgr' = SetField(mgr, p, field, v)
           /\ UNCHANGED conn
  BY DEF FriendReports
<1>2. /\ r.up /\ UNCHANGED <<conn, acked_signature>>
      /\ db' = r.table
      /\ mgr' = SetField(mgr, p, field, v)
  BY <1>1 DEF FriendReports, history, Die
<1>3. r.table = newDb
  <2> HIDE DEF newDb
  <2>1. r = [up |-> TRUE, table |-> newDb, ret |-> IF newDb = db THEN 0 ELSE 1]
    BY <1>2, CleanExecute
  <2> QED BY <2>1, Zenon
<1>4. ColumnEffect(p, field, v)
  <2>1. field \in {"nick_name", "bio", "signature"}
    OBVIOUS
  <2> QED BY <1>2, <1>3, <2>1, ColumnLemma
<1>5. AckShown(p)'
  <2>1. Online(mgr, p) => FindMember(mgr', p).signature = FindMember(mgr, p).signature
    BY <1>4 DEF ColumnEffect, Cards
  <2> QED BY <1>2, <1>4, <2>1 DEF CleanInv, AckShown, ColumnEffect
<1> QED BY <1>2, <1>4, <1>5 DEF Effect, ColumnEffect

LEMMA SetEffect ==
  ASSUME OnlyDeaths, CleanInv, NEW p \in Users, NEW s \in Signatures, Set(p, s), up'
  PROVE  Effect(p)
<1> DEFINE newDb == UpdateColumn(db, p, "signature", s, now)
<1>1. PICK r \in Execute(db, newDb) :
        \/ ~r.up /\ Die(r.table)
        \/ /\ r.up
           /\ db' = r.table
           /\ mgr' = SetField(mgr, p, "signature", s)
           /\ acked_signature' = [acked_signature EXCEPT ![p] =
                                    IF Answered(r) THEN s ELSE Empty]
           /\ UNCHANGED conn
  BY DEF Set
<1>2. r.up /\ r.table = newDb
  <2>1. r.up
    BY <1>1 DEF Die
  <2> HIDE DEF newDb
  <2>2. r = [up |-> TRUE, table |-> newDb, ret |-> IF newDb = db THEN 0 ELSE 1]
    BY <2>1, CleanExecute
  <2>3. r.table = newDb
    BY <2>2, Zenon
  <2> QED BY <2>1, <2>3
<1>3. /\ UNCHANGED conn
      /\ db' = newDb
      /\ mgr' = SetField(mgr, p, "signature", s)
      /\ acked_signature' = [acked_signature EXCEPT ![p] =
                               IF Answered(r) THEN s ELSE Empty]
  BY <1>1, <1>2 DEF Set
<1>4. s \in Texts["signature"]
  BY DEF Texts
<1>5. ColumnEffect(p, "signature", s)
  BY <1>3, <1>4, ColumnLemma
<1> HIDE DEF newDb
<1>6. /\ acked_signature'[p] \in {s, Empty}
      /\ \A q \in Users \ {p} : acked_signature'[q] = acked_signature[q]
  BY <1>3 DEF CleanInv, IInv, TypeOK
<1>7. AckShown(p)'
  <2>1. Online(mgr, p) => FindMember(mgr', p).signature = s
    BY <1>5 DEF ColumnEffect, Cards
  <2> QED BY <1>5, <1>6, <2>1 DEF AckShown, ColumnEffect
<1> QED BY <1>3, <1>5, <1>6, <1>7 DEF Effect, ColumnEffect

(* A friend who was not listed is, with the card of the new row.            *)
LEMMA StartEffect ==
  ASSUME OnlyDeaths, CleanInv, NEW p \in Users, NEW tok_id \in TokIds,
         Start(p, tok_id), up'
  PROVE  Effect(p)
<1> DEFINE row   == Record(tok_id, GetName(p), GetStatusMessage(p), Empty, now, now)
           newDb == ReplaceRow(db, p, tok_id, GetName(p), GetStatusMessage(p), now)
           card  == StartCard(p, tok_id)
<1>1. /\ IInv /\ Sound(mgr) /\ OnlyFriends /\ Listed(p) /\ conn[p] # Offline
      /\ acked_signature' = [acked_signature EXCEPT ![p] = Empty]
  BY SoundLemma DEF CleanInv, Start
<1> HIDE DEF newDb
<1>2. PICK r \in Execute(db, newDb) :
        \/ ~r.up /\ Die(r.table)
        \/ /\ r.up
           /\ db' = r.table
           /\ \E m \in Allocatable(mgr) :
                mgr' = AddMember(Fill(Allocate(mgr, m), m, card), m)
           /\ Reply(p, "start", Blank)
           /\ UNCHANGED <<up, conn, profile, saved, avatar>>
  BY <1>1, StartStep DEF newDb
<1>3. r.up /\ r.table = newDb
  <2>1. r.up
    BY <1>2 DEF Die
  <2>2. r = [up |-> TRUE, table |-> newDb, ret |-> IF newDb = db THEN 0 ELSE 1]
    BY <2>1, CleanExecute
  <2>3. r.table = newDb
    BY <2>2, Zenon
  <2> QED BY <2>1, <2>3
<1>4. /\ UNCHANGED <<conn, profile>>
      /\ db' = newDb
      /\ out' = Message(p, "start", Blank)
  BY <1>1, <1>2, <1>3 DEF Reply, OnlyDeaths
<1>5. PICK m \in Allocatable(mgr) :
        mgr' = AddMember(Fill(Allocate(mgr, m), m, card), m)
  BY <1>2, <1>3
<1>6. card \in Cards /\ card.pk = p
  BY <1>1, StartCardLemma
<1>7. p \in DOMAIN db' /\ db'[p] = row
  BY <1>4 DEF newDb, ReplaceRow, Put
<1>8. CardOfRow(p)' = card
  BY <1>7 DEF CardOfRow, Card, StartCard, Record
<1> HIDE DEF card, row
<1>9. /\ DOMAIN mgr'.online_member = DOMAIN mgr.online_member \cup {p}
      /\ ~Online(mgr, p) =>
           FindMember(mgr', p) = card /\ Leaked(mgr') \subseteq Leaked(mgr)
  BY <1>1, <1>5, <1>6, AddCardLemma
<1>10. OnlyFriends' /\ Listed(p)'
  BY <1>1, <1>4, <1>7, <1>9 DEF OnlyFriends, Listed, Online
<1>11. /\ acked_signature'[p] = Empty
       /\ \A q \in Users \ {p} : acked_signature'[q] = acked_signature[q]
  BY <1>1 DEF IInv, TypeOK
<1>12. AckShown(p)'
  BY <1>11 DEF AckShown
<1>13. ~Online(mgr, p) => Exact(p)'
  BY <1>7, <1>8, <1>9 DEF Exact
<1> QED BY <1>4, <1>9, <1>10, <1>11, <1>12, <1>13 DEF Effect

LEMMA StopEffect ==
  ASSUME OnlyDeaths, CleanInv, NEW p \in Users, Stop(p), up'
  PROVE  Effect(p)
<1> DEFINE newDb == DeleteRow(db, p)
<1>1. PICK r \in Execute(db, newDb) :
        \/ ~r.up /\ Die(r.table)
        \/ /\ r.up
           /\ db' = r.table
           /\ mgr' = DelMember(mgr, p)
           /\ UNCHANGED conn
  BY DEF Stop
<1>2. r.up /\ r.table = newDb
  <2>1. r.up
    BY <1>1 DEF Die
  <2> HIDE DEF newDb
  <2>2. r = [up |-> TRUE, table |-> newDb, ret |-> IF newDb = db THEN 0 ELSE 1]
    BY <2>1, CleanExecute
  <2>3. r.table = newDb
    BY <2>2, Zenon
  <2> QED BY <2>1, <2>3
<1>3. /\ UNCHANGED conn
      /\ db' = newDb
      /\ mgr' = DelMember(mgr, p)
      /\ acked_signature' = [acked_signature EXCEPT ![p] = Empty]
  BY <1>1, <1>2 DEF Stop
<1>4. IInv /\ Sound(mgr) /\ OnlyFriends
  BY SoundLemma DEF CleanInv
<1>5. p \notin DOMAIN db'
  BY <1>3 DEF DeleteRow, Erase
<1> HIDE DEF newDb
<1>6. DOMAIN mgr'.online_member = DOMAIN mgr.online_member \ {p}
  BY <1>3, <1>4, PkLemma, DelMemberLemma
<1>7. Leaked(mgr') \subseteq Leaked(mgr)
  BY <1>3, <1>4, DelMemberLeaks
<1>8. OnlyFriends' /\ Listed(p)' /\ AckShown(p)' /\ Exact(p)'
  BY <1>4, <1>5, <1>6 DEF OnlyFriends, Listed, AckShown, Exact, Online
<1>9. \A q \in Users \ {p} : acked_signature'[q] = acked_signature[q]
  BY <1>3, <1>4 DEF IInv, TypeOK
<1> QED BY <1>3, <1>7, <1>8, <1>9 DEF Effect

LEMMA EffectLemma ==
  ASSUME OnlyDeaths, CleanInv, NEW p \in Users, Callback(p), up'
  PROVE  Effect(p)
<1>1. CASE \E c \in Conns : FriendOnline(p, c)
  BY <1>1, OnlineEffect
<1>2. CASE FriendOffline(p)
  BY <1>2, OfflineEffect
<1>3. CASE \E field \in {"nick_name", "bio"} :
             \E v \in Texts[field] : FriendReports(p, field, v)
  BY <1>3, ReportsEffect
<1>4. CASE \E t \in TokIds : Start(p, t)
  BY <1>4, StartEffect
<1>5. CASE Stop(p)
  BY <1>5, StopEffect
<1>6. CASE \E s \in Signatures : Set(p, s)
  BY <1>6, SetEffect
<1>7. CASE Get(p) \/ Info(p) \/ FixedText(p)
  <2>1. UNCHANGED <<conn, mgr, db, acked_signature>>
    BY <1>7 DEF Get, Info, FixedText, history
  <2> QED BY <2>1 DEF CleanInv, Effect, OnlyFriends, Listed, AckShown, Exact,
                      Online, FindMember, CardOfRow
<1> QED BY <1>1, <1>2, <1>3, <1>4, <1>5, <1>6, <1>7 DEF Callback, Command

-----------------------------------------------------------------------------
LEMMA CleanInit == Init => CleanInv
<1> SUFFICES ASSUME Init PROVE CleanInv
  OBVIOUS
<1>1. IInv
  BY InitLemma
<1>2. DOMAIN mgr.online_member = {}
  BY InitMgrLemma DEF Init
<1>3. OnlyFriends /\ \A p \in Users : AckShown(p)
  BY <1>2 DEF OnlyFriends, AckShown, Online
<1>4. \A p \in Users : Listed(p)
  BY <1>2 DEF Init, Listed, Online
<1> QED BY <1>1, <1>3, <1>4 DEF CleanInv

(* A death, wherever it is, forgets the cache and the connections alike.    *)
LEMMA CleanDeath ==
  ASSUME CleanInv, Next, ~up'
  PROVE  CleanInv' /\ DOMAIN mgr'.online_member = {} /\ Leaked(mgr') = {}
<1>1. mgr' = InitMgr /\ conn' = [p \in Users |-> Offline]
  BY DeathStep DEF Die
<1>2. DOMAIN mgr'.online_member = {} /\ Leaked(mgr') = {}
  BY <1>1, InitMgrLemma DEF Leaked, InitMgr
<1>3. OnlyFriends' /\ \A p \in Users : Listed(p)' /\ AckShown(p)'
  BY <1>1, <1>2 DEF OnlyFriends, Listed, AckShown, Online
<1>4. IInv'
  BY StepLemma DEF CleanInv
<1> QED BY <1>2, <1>3, <1>4 DEF CleanInv

LEMMA CleanCallback ==
  ASSUME OnlyDeaths, CleanInv, NEW p \in Users, Callback(p), up'
  PROVE  CleanInv'
<1>1. IInv' /\ Effect(p) /\ OthersKept(p)
  BY StepLemma, EffectLemma, OthersLemma DEF CleanInv, Next
<1>2. ASSUME NEW q \in Users \ {p}
      PROVE  Listed(q)' /\ AckShown(q)'
  <2>1. Listed(q) /\ AckShown(q)
    BY DEF CleanInv
  <2>2. /\ conn'[q] = conn[q] /\ acked_signature'[q] = acked_signature[q]
        /\ Online(mgr', q) <=> Online(mgr, q)
        /\ Online(mgr, q) => FindMember(mgr', q) = FindMember(mgr, q)
        /\ q \in DOMAIN db' <=> q \in DOMAIN db
    BY <1>1 DEF Effect, OthersKept
  <2> QED BY <2>1, <2>2 DEF Listed, AckShown
<1> QED BY <1>1, <1>2 DEF CleanInv, Effect

LEMMA CleanStep ==
  ASSUME OnlyDeaths, CleanInv, [Next]_vars
  PROVE  CleanInv'
<1>1. CASE Next /\ ~up'
  BY <1>1, CleanDeath
<1>2. CASE (\E p \in Users : Callback(p)) /\ up'
  BY <1>2, CleanCallback
<1>3. CASE Restart \/ Tick \/ FriendRequest \/ UNCHANGED vars
  <2>1. UNCHANGED <<conn, mgr, db, acked_signature>>
    BY <1>3 DEF Restart, Tick, FriendRequest, vars, history
  <2>2. IInv'
    BY StepLemma DEF CleanInv
  <2> QED BY <2>1, <2>2 DEF CleanInv, OnlyFriends, Listed, AckShown, Online, FindMember
<1>4. CASE Crash
  BY <1>4, CleanDeath DEF Next, Crash, Die
<1> QED BY <1>1, <1>2, <1>3, <1>4 DEF Next

(* The strengthened invariant is inductive under OnlyDeaths.                *)
THEOREM CleanInvariance == OnlyDeaths /\ Spec => []CleanInv
<1> SUFFICES ASSUME OnlyDeaths PROVE Spec => []CleanInv
  OBVIOUS
<1>1. CleanInv /\ [Next]_vars => CleanInv'
  BY CleanStep
<1> QED BY <1>1, CleanInit, PTL DEF Spec

(* A friend is listed exactly when connected and registered.                *)
THEOREM ListedThoseWhoAre == OnlyDeaths /\ Spec => []ListedExactly
<1>1. CleanInv => ListedExactly
  BY DEF CleanInv, IInv, TypeOK, OnlyFriends, Listed, ListedExactly, Online
<1> QED BY <1>1, CleanInvariance, PTL

(* A listed friend is shown with the text whose /set was answered "Done!".  *)
THEOREM SignatureShown == OnlyDeaths /\ Spec => []AckedSignatureShown
<1>1. CleanInv => AckedSignatureShown
  BY DEF CleanInv, AckShown, AckedSignatureShown
<1> QED BY <1>1, CleanInvariance, PTL

-----------------------------------------------------------------------------
(* What the names and bios of the table are. A statement that returns was   *)
(* run, and rename() succeeds.                                              *)
NoneLost == Faults \cap {"prepare", "execute", "rename"} = {}

TextFields == {"nick_name", "bio"}

(* Then a statement the process survives was applied.                       *)
LEMMA AppliedLemma ==
  ASSUME NoneLost, NEW old, NEW new, NEW r \in Execute(old, new), r.up
  PROVE  r.table = new
<1>1. /\ Failed("prepare", old, BOOLEAN) = {}
      /\ Failed("execute", old, {TRUE}) = {}
  BY DEF Failed, NoneLost
<1>2. r \notin Failed("connect", old, {FALSE}) /\ r \notin Failed("kill", new, {FALSE})
  BY FailedDies
<1>3. CASE r \in Failed("lost", new, {TRUE})
  <2>1. r \in {[up |-> a, table |-> new, ret |-> 0] : a \in {TRUE}}
    BY <1>3 DEF Failed
  <2>2. r = [up |-> TRUE, table |-> new, ret |-> 0]
    BY <2>1
  <2> QED BY <2>2, Zenon
<1>4. CASE r = [up |-> TRUE, table |-> new, ret |-> IF new = old THEN 0 ELSE 1]
  BY <1>4, Zenon
<1> QED BY <1>1, <1>2, <1>3, <1>4 DEF Execute

(* What a report makes of the names and bios toxcore holds.                 *)
Reported(p, field, v) == [profile EXCEPT ![p] = [@ EXCEPT ![field] = v]]

LEMMA ReportedLemma ==
  ASSUME IInv, NEW p \in Users, NEW field \in TextFields, NEW v \in Texts[field],
         profile' = Reported(p, field, v)
  PROVE  /\ profile'[p][field] = v
         /\ \A q \in Users, g \in TextFields :
              <<q, g>> # <<p, field>> => profile'[q][g] = profile[q][g]
<1>1. profile \in [Users -> Profile]
  BY DEF IInv, TypeOK
<1>2. profile'[p] = [profile[p] EXCEPT ![field] = v]
  BY <1>1 DEF Reported
<1>3. \A q \in Users \ {p} : profile'[q] = profile[q]
  BY <1>1 DEF Reported
<1>4. /\ profile'[p][field] = v
      /\ \A g \in TextFields \ {field} : profile'[p][g] = profile[p][g]
  BY <1>1, <1>2 DEF Profile, TextFields
<1> QED BY <1>3, <1>4

(* ... and of those in the table, if the statement was run.                 *)
LEMMA ReportedRows ==
  ASSUME IInv, NEW p \in Users, NEW field \in {"nick_name", "bio", "signature"},
         NEW v \in Texts[field], db' = UpdateColumn(db, p, field, v, now)
  PROVE  /\ DOMAIN db' = DOMAIN db
         /\ p \in DOMAIN db => db'[p][field] = v
         /\ \A q \in DOMAIN db, g \in TextFields :
              <<q, g>> # <<p, field>> => db'[q][g] = db[q][g]
<1>1. db \in Rows
  BY DEF IInv, TypeOK, Rows
<1>2. CASE p \notin DOMAIN db
  BY <1>2 DEF UpdateColumn
<1>3. CASE p \in DOMAIN db
  <2>1. db[p] \in Records
    BY <1>1, <1>3 DEF Rows
  <2>2. DOMAIN db' = DOMAIN db /\ \A q \in DOMAIN db \ {p} : db'[q] = db[q]
    BY <1>3 DEF UpdateColumn
  <2>3. db'[p] = [db[p] EXCEPT ![field] = v, !.update_time = now]
    BY <1>1, <1>3 DEF UpdateColumn, Rows
  <2>4. /\ db'[p][field] = v
        /\ \A g \in TextFields \ {field} : db'[p][g] = db[p][g]
    BY <2>1, <2>3 DEF Records, TextFields
  <2> QED BY <2>2, <2>4
<1> QED BY <1>2, <1>3

(* A callback the process survives parts no row from toxcore.               *)
KeepsFresh ==
  \A q \in Users, g \in TextFields :
    Stale(q, g)' => Stale(q, g) /\ UNCHANGED <<db[q][g], profile[q][g]>>

LEMMA FreshLemma ==
  ASSUME NoneLost, IInv, NEW p \in Users, Callback(p), up'
  PROVE  KeepsFresh
<1>1. OthersKept(p)
  BY OthersLemma
<1>2. ASSUME UNCHANGED profile, \A g \in TextFields : Stale(p, g)' =>
               Stale(p, g) /\ db'[p][g] = db[p][g]
      PROVE  KeepsFresh
  <2>1. \A q \in Users \ {p} : /\ q \in DOMAIN db' <=> q \in DOMAIN db
                               /\ q \in DOMAIN db => db'[q] = db[q]
    BY <1>1 DEF OthersKept
  <2>2. ASSUME NEW q \in Users, NEW g \in TextFields, Stale(q, g)'
        PROVE  Stale(q, g) /\ UNCHANGED <<db[q][g], profile[q][g]>>
    <3>1. CASE q = p
      BY <1>2, <2>2, <3>1
    <3>2. CASE q # p
      <4>1. q \in DOMAIN db /\ db'[q] = db[q]
        BY <2>1, <2>2, <3>2 DEF Stale
      <4>2. profile'[q] = profile[q]
        BY <1>2
      <4> QED BY <2>2, <4>1, <4>2 DEF Stale
    <3> QED BY <3>1, <3>2
  <2> QED BY <2>2 DEF KeepsFresh
<1>3. CASE UNCHANGED <<profile, db>>
  BY <1>3 DEF KeepsFresh, Stale
<1>4. CASE \E c \in Conns : FriendOnline(p, c)
  BY <1>3, <1>4 DEF FriendOnline, Die
<1>5. CASE FriendOffline(p) \/ Get(p) \/ Info(p) \/ FixedText(p)
  BY <1>3, <1>5 DEF FriendOffline, Get, Info, FixedText
<1>6. ASSUME NEW field \in TextFields, NEW v \in Texts[field], FriendReports(p, field, v)
      PROVE  KeepsFresh
  <2> DEFINE newDb == UpdateColumn(db, p, field, v, now)
  <2>1. PICK r \in Execute(db, newDb) :
          r.up /\ db' = r.table /\ Save(Reported(p, field, v))
    BY <1>6 DEF FriendReports, Die, Reported
  <2>2. db' = newDb
    <3> HIDE DEF newDb
    <3> QED BY <2>1, AppliedLemma
  <2>3. /\ DOMAIN db' = DOMAIN db
        /\ p \in DOMAIN db => db'[p][field] = v
        /\ \A q \in DOMAIN db, g \in TextFields :
             <<q, g>> # <<p, field>> => db'[q][g] = db[q][g]
    BY <2>2, ReportedRows DEF TextFields
  <2>4. /\ profile'[p][field] = v
        /\ \A q \in Users, g \in TextFields :
             <<q, g>> # <<p, field>> => profile'[q][g] = profile[q][g]
    <3>1. profile' = Reported(p, field, v)
      BY <2>1 DEF Save
    <3> QED BY <3>1, ReportedLemma
  <2>5. ASSUME NEW q \in Users, NEW g \in TextFields, Stale(q, g)'
        PROVE  Stale(q, g) /\ UNCHANGED <<db[q][g], profile[q][g]>>
    <3>1. <<q, g>> # <<p, field>>
      BY <2>3, <2>4, <2>5 DEF Stale
    <3> QED BY <2>3, <2>4, <2>5, <3>1 DEF Stale
  <2> QED BY <2>5 DEF KeepsFresh
<1>7. ASSUME NEW t \in TokIds, Start(p, t)
      PROVE  KeepsFresh
  <2> DEFINE newDb == ReplaceRow(db, p, t, GetName(p), GetStatusMessage(p), now)
  <2>1. PICK r \in Execute(db, newDb) : r.up /\ db' = r.table /\ UNCHANGED profile
    BY <1>7 DEF Start, Die
  <2>2. db' = newDb
    <3> HIDE DEF newDb
    <3> QED BY <2>1, AppliedLemma
  <2>3. db'[p] = Record(t, profile[p].nick_name, profile[p].bio, Empty, now, now)
    BY <2>2 DEF ReplaceRow, Put, GetName, GetStatusMessage
  <2>4. \A g \in TextFields : db'[p][g] = profile'[p][g]
    BY <2>1, <2>3 DEF Record, TextFields
  <2> QED BY <1>2, <2>1, <2>4 DEF Stale
<1>8. CASE Stop(p)
  <2>1. PICK r \in Execute(db, DeleteRow(db, p)) : r.up /\ db' = r.table /\ UNCHANGED profile
    BY <1>8 DEF Stop, Die
  <2>2. p \notin DOMAIN db'
    BY <2>1, AppliedLemma DEF DeleteRow, Erase
  <2> QED BY <1>2, <2>1, <2>2 DEF Stale
<1>9. ASSUME NEW s \in Signatures, Set(p, s)
      PROVE  KeepsFresh
  <2> DEFINE newDb == UpdateColumn(db, p, "signature", s, now)
  <2>1. PICK r \in Execute(db, newDb) : r.up /\ db' = r.table /\ UNCHANGED profile
    BY <1>9 DEF Set, Die
  <2>2. db' = newDb
    <3> HIDE DEF newDb
    <3> QED BY <2>1, AppliedLemma
  <2>3. /\ DOMAIN db' = DOMAIN db
        /\ \A q \in DOMAIN db, g \in TextFields :
             <<q, g>> # <<p, "signature">> => db'[q][g] = db[q][g]
    BY <2>2, ReportedRows DEF Texts
  <2> QED BY <1>2, <2>1, <2>3 DEF Stale, TextFields
<1> QED BY <1>4, <1>5, <1>6, <1>7, <1>8, <1>9 DEF Callback, Command, TextFields

(* A death makes stale what the file did not have, and at most one text     *)
(* that the statement of the callback wrote.                                *)
Lost(q, g) == NewlyStale(q, g) => Unsaved(q, g)

LEMMA LostLemma ==
  ASSUME IInv, Next, ~up'
  PROVE  \/ \A q \in Users, g \in TextFields : Lost(q, g)
         \/ \E p \in Users, field \in TextFields :
              /\ db' # db
              /\ \A q \in Users, g \in TextFields : <<q, g>> = <<p, field>> \/ Lost(q, g)
<1>1. profile' = saved
  BY DeathStep DEF Die
<1>2. ASSUME NEW q \in Users, NEW g \in TextFields,
             q \in DOMAIN db' =>
               \/ q \in DOMAIN db /\ db'[q][g] = db[q][g]
               \/ db'[q][g] = profile[q][g]
      PROVE  Lost(q, g)
  BY <1>1, <1>2 DEF Lost, NewlyStale, Stale, Unsaved
<1>3. CASE UNCHANGED db
  BY <1>2, <1>3
<1>4. ASSUME NEW p \in Users, Callback(p), ~(UNCHANGED db)
      PROVE  \/ \A q \in Users, g \in TextFields : Lost(q, g)
             \/ \E field \in TextFields : \A q \in Users, g \in TextFields :
                  <<q, g>> = <<p, field>> \/ Lost(q, g)
  <2>1. CASE \E c \in Conns : FriendOnline(p, c)
    BY <1>4, <2>1 DEF FriendOnline, Die
  <2>2. CASE FriendOffline(p) \/ Get(p) \/ Info(p) \/ FixedText(p)
    BY <1>4, <2>2 DEF FriendOffline, Get, Info, FixedText
  <2>3. ASSUME NEW field \in TextFields, NEW v \in Texts[field], FriendReports(p, field, v)
        PROVE  \A q \in Users, g \in TextFields : <<q, g>> = <<p, field>> \/ Lost(q, g)
    <3> DEFINE newDb == UpdateColumn(db, p, field, v, now)
    <3>1. \E r \in Execute(db, newDb) : db' = r.table
      BY <2>3 DEF FriendReports, Die
    <3> HIDE DEF newDb
    <3>2. db' = newDb
      BY <1>4, <3>1, ExecuteLemma
    <3>3. /\ DOMAIN db' = DOMAIN db
          /\ \A q \in DOMAIN db, g \in TextFields :
               <<q, g>> # <<p, field>> => db'[q][g] = db[q][g]
      BY <3>2, ReportedRows DEF TextFields, newDb
    <3> QED BY <1>2, <3>3
  <2>4. ASSUME NEW t \in TokIds, Start(p, t)
        PROVE  \A q \in Users, g \in TextFields : Lost(q, g)
    <3> DEFINE newDb == ReplaceRow(db, p, t, GetName(p), GetStatusMessage(p), now)
    <3>1. \E r \in Execute(db, newDb) : db' = r.table
      BY <2>4 DEF Start, Die
    <3> HIDE DEF newDb
    <3>2. db' = newDb
      BY <1>4, <3>1, ExecuteLemma
    <3>3. /\ db'[p] = Record(t, profile[p].nick_name, profile[p].bio, Empty, now, now)
          /\ \A q \in DOMAIN db' \ {p} : q \in DOMAIN db /\ db'[q] = db[q]
      BY <3>2 DEF ReplaceRow, Put, GetName, GetStatusMessage, newDb
    <3>4. \A g \in TextFields : db'[p][g] = profile[p][g]
      BY <3>3 DEF Record, TextFields
    <3> QED BY <1>2, <3>3, <3>4
  <2>5. CASE Stop(p)
    <3> DEFINE newDb == DeleteRow(db, p)
    <3>1. \E r \in Execute(db, newDb) : db' = r.table
      BY <2>5 DEF Stop, Die
    <3> HIDE DEF newDb
    <3>2. db' = newDb
      BY <1>4, <3>1, ExecuteLemma
    <3>3. \A q \in DOMAIN db' : q \in DOMAIN db /\ db'[q] = db[q]
      BY <3>2 DEF DeleteRow, Erase, newDb
    <3> QED BY <1>2, <3>3
  <2>6. ASSUME NEW s \in Signatures, Set(p, s)
        PROVE  \A q \in Users, g \in TextFields : Lost(q, g)
    <3> DEFINE newDb == UpdateColumn(db, p, "signature", s, now)
    <3>1. \E r \in Execute(db, newDb) : db' = r.table
      BY <2>6 DEF Set, Die
    <3> HIDE DEF newDb
    <3>2. db' = newDb
      BY <1>4, <3>1, ExecuteLemma
    <3>3. /\ DOMAIN db' = DOMAIN db
          /\ \A q \in DOMAIN db, g \in TextFields :
               <<q, g>> # <<p, "signature">> => db'[q][g] = db[q][g]
      BY <3>2, ReportedRows DEF Texts, newDb
    <3> QED BY <1>2, <3>3 DEF TextFields
  <2> QED BY <1>4, <2>1, <2>2, <2>3, <2>4, <2>5, <2>6 DEF Callback, Command, TextFields
<1>5. CASE Crash \/ Restart \/ Tick \/ FriendRequest
  BY <1>3, <1>5 DEF Crash, Die, Restart, Tick, FriendRequest
<1> QED BY <1>3, <1>4, <1>5 DEF Next

(* The savedata file stays at most one text behind toxcore.                 *)
LEMMA SavedStep ==
  ASSUME NoneLost, IInv, SavedOneBehind, [Next]_vars
  PROVE  SavedOneBehind'
<1>1. CASE UNCHANGED <<saved, profile>>
  BY <1>1 DEF SavedOneBehind, Unsaved
<1>2. CASE saved' = profile'
  BY <1>2 DEF SavedOneBehind, Unsaved
<1>3. CASE Next /\ ~up'
  BY <1>2, <1>3, DeathStep DEF Die
<1>4. ASSUME NEW p \in Users, NEW field \in TextFields, NEW v \in Texts[field],
             FriendReports(p, field, v), up'
      PROVE  SavedOneBehind'
  <2>1. Save([profile EXCEPT ![p] = [@ EXCEPT ![field] = v]])
    BY <1>4 DEF FriendReports, Die
  <2>2. \A q \in Users, g \in TextFields :
          <<q, g>> # <<p, field>> => profile'[q][g] = profile[q][g]
    BY <2>1, ReportedLemma DEF Save
  <2>3. saved' \in {profile, profile'}
    BY <2>1 DEF Save, NoneLost
  <2>4. \A q \in Users, g \in TextFields : Unsaved(q, g)' => <<q, g>> = <<p, field>>
    BY <2>2, <2>3 DEF Unsaved
  <2> QED BY <2>4 DEF SavedOneBehind, TextFields
<1>5. CASE FriendRequest
  BY <1>2, <1>5 DEF FriendRequest, Save, NoneLost
<1>6. CASE Restart \/ Tick \/ UNCHANGED vars
  BY <1>1, <1>2, <1>6 DEF Restart, Tick, vars
<1>7. ASSUME NEW p \in Users, Callback(p), up'
      PROVE  SavedOneBehind'
  <2>1. CASE \E c \in Conns : FriendOnline(p, c)
    BY <1>1, <1>7, <2>1 DEF FriendOnline, Die
  <2>2. CASE FriendOffline(p) \/ Get(p) \/ Info(p) \/ FixedText(p)
    BY <1>1, <2>2 DEF FriendOffline, Get, Info, FixedText
  <2>3. CASE \E field \in {"nick_name", "bio"} :
               \E v \in Texts[field] : FriendReports(p, field, v)
    BY <1>4, <1>7, <2>3 DEF TextFields
  <2>4. CASE \E t \in TokIds : Start(p, t)
    BY <1>1, <1>7, <2>4 DEF Start, Die
  <2>5. CASE Stop(p)
    BY <1>1, <1>7, <2>5 DEF Stop, Die
  <2>6. CASE \E s \in Signatures : Set(p, s)
    BY <1>1, <1>7, <2>6 DEF Set, Die
  <2> QED BY <1>7, <2>1, <2>2, <2>3, <2>4, <2>5, <2>6 DEF Callback, Command
<1>8. CASE Crash
  BY <1>3, <1>8 DEF Next, Crash, Die
<1> QED BY <1>3, <1>5, <1>6, <1>7, <1>8 DEF Next

(* The savedata file is at most one name or bio behind toxcore, whether     *)
(* toxcore stores a text before it reports it or after.                     *)
THEOREM SavedBehindByOne == NoneLost /\ Spec => []SavedOneBehind
<1> SUFFICES ASSUME NoneLost PROVE Spec => []SavedOneBehind
  OBVIOUS
<1>1. Init => SavedOneBehind
  BY DEF Init, SavedOneBehind, Unsaved
<1>2. IInv /\ SavedOneBehind /\ [Next]_vars => SavedOneBehind'
  BY SavedStep
<1> QED BY <1>1, <1>2, Invariance, PTL DEF Spec

(* The names and bios of the table go stale by deaths only: one by a death  *)
(* between callbacks, at most two by one inside a callback.                 *)
THEOREM RowsStaleByDeath == NoneLost /\ Spec => RowsGoStaleByDeath
<1> SUFFICES ASSUME NoneLost PROVE Spec => RowsGoStaleByDeath
  OBVIOUS
<1> DEFINE Few == /\ up' =>
                       \A p \in Users, f \in {"nick_name", "bio"} :
                         Stale(p, f)' =>
                           Stale(p, f) /\ UNCHANGED <<db[p][f], profile[p][f]>>
                  /\ ~up' =>
                       \A p, q, r \in Users : \A f, g, h \in {"nick_name", "bio"} :
                         NewlyStale(p, f) /\ NewlyStale(q, g) /\ NewlyStale(r, h) =>
                           \/ <<p, f>> = <<q, g>>
                           \/ db' # db /\ <<r, h>> \in {<<p, f>>, <<q, g>>}
<1>1. IInv /\ SavedOneBehind /\ [Next]_vars => [Few]_vars
  <2> SUFFICES ASSUME IInv, SavedOneBehind, Next PROVE Few
    OBVIOUS
  <2>1. CASE up'
    <3>1. CASE \E p \in Users : Callback(p)
      BY <2>1, <3>1, FreshLemma DEF KeepsFresh, TextFields
    <3>2. CASE Crash \/ Restart \/ Tick \/ FriendRequest
      BY <2>1, <3>2 DEF Crash, Die, Restart, Tick, FriendRequest, Save, Stale
    <3> QED BY <2>1, <3>1, <3>2 DEF Next
  <2>2. CASE ~up'
    <3> SUFFICES ASSUME NEW p \in Users, NEW q \in Users, NEW r \in Users,
                        NEW f \in TextFields, NEW g \in TextFields, NEW h \in TextFields,
                        NewlyStale(p, f), NewlyStale(q, g), NewlyStale(r, h)
                 PROVE  \/ <<p, f>> = <<q, g>>
                        \/ db' # db /\ <<r, h>> \in {<<p, f>>, <<q, g>>}
      BY <2>2 DEF TextFields
    <3>1. \A x, y \in Users : \A a, b \in TextFields :
            Unsaved(x, a) /\ Unsaved(y, b) => <<x, a>> = <<y, b>>
      BY DEF SavedOneBehind, TextFields
    <3>2. CASE \A x \in Users, a \in TextFields : Lost(x, a)
      BY <3>1, <3>2 DEF Lost
    <3>3. ASSUME NEW z \in Users, NEW field \in TextFields, db' # db,
                 \A x \in Users, a \in TextFields : <<x, a>> = <<z, field>> \/ Lost(x, a)
          PROVE  \/ <<p, f>> = <<q, g>>
                 \/ db' # db /\ <<r, h>> \in {<<p, f>>, <<q, g>>}
      <4>1. /\ <<p, f>> = <<z, field>> \/ Unsaved(p, f)
            /\ <<q, g>> = <<z, field>> \/ Unsaved(q, g)
            /\ <<r, h>> = <<z, field>> \/ Unsaved(r, h)
        BY <3>3 DEF Lost
      <4> QED BY <3>1, <3>3, <4>1
    <3> QED BY <2>2, <3>2, <3>3, LostLemma
  <2> QED BY <2>1, <2>2
<1> QED BY <1>1, Invariance, SavedBehindByOne, PTL DEF Spec, RowsGoStaleByDeath

-----------------------------------------------------------------------------
(* Every cached card stays that of its row, but for a /start of a friend    *)
(* who is listed.                                                           *)
THEOREM ExactStaysExact == OnlyDeaths /\ Spec => CacheStaysExact
<1> SUFFICES ASSUME OnlyDeaths PROVE Spec => CacheStaysExact
  OBVIOUS
<1>1. CleanInv /\ [Next]_vars =>
        [\A p \in Users :
           Exact(p) => \/ Exact(p)'
                       \/ Online(mgr, p) /\ out' = Message(p, "start", Blank)]_vars
  <2> SUFFICES ASSUME CleanInv, Next, NEW p \in Users, Exact(p)
               PROVE  \/ Exact(p)'
                      \/ Online(mgr, p) /\ out' = Message(p, "start", Blank)
    OBVIOUS
  <2>1. CASE Callback(p) /\ up'
    BY <2>1, EffectLemma DEF Effect
  <2>2. ASSUME NEW q \in Users \ {p}, Callback(q), up'
        PROVE  Exact(p)'
    <3>1. OthersKept(q)
      BY <2>2, OthersLemma DEF CleanInv
    <3>2. /\ Online(mgr', p) <=> Online(mgr, p)
          /\ Online(mgr, p) => FindMember(mgr', p) = FindMember(mgr, p)
          /\ p \in DOMAIN db' <=> p \in DOMAIN db
          /\ p \in DOMAIN db => db'[p] = db[p]
      BY <3>1 DEF OthersKept
    <3> QED BY <3>2 DEF Exact, CardOfRow
  <2>3. CASE ~up' \/ Crash
    <3>1. DOMAIN mgr'.online_member = {}
      BY <2>3, CleanDeath DEF Crash, Die
    <3> QED BY <3>1 DEF Exact, Online
  <2>4. CASE Restart \/ Tick \/ FriendRequest
    BY <2>4 DEF Restart, Tick, FriendRequest, Exact, Online, FindMember, CardOfRow
  <2> QED BY <2>1, <2>2, <2>3, <2>4 DEF Next
<1> QED BY <1>1, CleanInvariance, PTL DEF Spec, CacheStaysExact

(* A Member object is lost to pool and map only when add_member finds the   *)
(* friend listed already.                                                   *)
THEOREM LeaksOnlyByReadding == OnlyDeaths /\ Spec => OnlyReaddingLeaks
<1> SUFFICES ASSUME OnlyDeaths PROVE Spec => OnlyReaddingLeaks
  OBVIOUS
<1>1. CleanInv /\ [Next]_vars =>
        [\/ Leaked(mgr') \subseteq Leaked(mgr)
         \/ \E p \in Users :
              /\ Online(mgr, p)
              /\ \/ out' = Message(p, "start", Blank)
                 \/ conn[p] # Offline /\ conn'[p] \notin {Offline, conn[p]}]_vars
  <2> SUFFICES ASSUME CleanInv, Next, ~(Leaked(mgr') \subseteq Leaked(mgr))
               PROVE  \E p \in Users :
                        /\ Online(mgr, p)
                        /\ \/ out' = Message(p, "start", Blank)
                           \/ conn[p] # Offline /\ conn'[p] \notin {Offline, conn[p]}
    OBVIOUS
  <2>1. CASE (\E p \in Users : Callback(p)) /\ up'
    BY <2>1, EffectLemma DEF Effect
  <2>2. CASE ~up' \/ Crash
    BY <2>2, CleanDeath DEF Crash, Die
  <2>3. CASE Restart \/ Tick \/ FriendRequest
    BY <2>3 DEF Restart, Tick, FriendRequest
  <2> QED BY <2>1, <2>2, <2>3 DEF Next
<1> QED BY <1>1, CleanInvariance, PTL DEF Spec, OnlyReaddingLeaks

-----------------------------------------------------------------------------
(* Directory: the recommendation that a message is. *)
ToldBy(message) ==
  CASE message.desc = "get"      -> [to |-> message.to, who |-> message.about.pk]
    [] message.desc = "get_none" -> [to |-> message.to, who |-> NULL]
    [] OTHER                     -> [to |-> NULL, who |-> NULL]

Present == {p \in Users : conn[p] # Offline}

LEMMA ToldLemma ==
  /\ ToldBy(NoMessage) = Directory!Nothing
  /\ \A p, about : \A desc \in Descs \ {"get", "get_none"} :
       ToldBy(Message(p, desc, about)) = Directory!Nothing
  /\ \A p, about : ToldBy(Message(p, "get", about)) = [to |-> p, who |-> about.pk]
  /\ \A p, about : ToldBy(Message(p, "get_none", about)) = [to |-> p, who |-> NULL]
BY DEF ToldBy, NoMessage, Message, Directory!Nothing

(* A callback of Assisant is this action of Directory.                      *)
LEMMA ArriveLemma ==
  ASSUME CleanInv, NEW p \in Users, NEW c \in Conns, FriendOnline(p, c), up'
  PROVE  Directory!Arrive(p)
<1>1. PICK r \in FindFriend(db, mgr, p) :
        \/ ~r.up /\ Die(db)
        \/ /\ conn' = [conn EXCEPT ![p] = c]
           /\ SendAvatar(p)
           /\ db' = db
  BY DEF FriendOnline
<1>2. conn' = [conn EXCEPT ![p] = c] /\ SendAvatar(p) /\ db' = db
  BY <1>1 DEF Die
<1>3. Present' = Present \cup {p}
  BY <1>2 DEF CleanInv, IInv, TypeOK, Present
<1>4. ToldBy(out') = Directory!Nothing
  <2>1. out' = Message(p, "avatar", Blank) \/ out' = NoMessage
    BY <1>2 DEF SendAvatar
  <2>2. "avatar" \in Descs \ {"get", "get_none"}
    BY DEF Descs
  <2> QED BY <2>1, <2>2, ToldLemma
<1> QED BY <1>2, <1>3, <1>4 DEF Directory!Arrive, Present, ToldBy

LEMMA LeaveLemma ==
  ASSUME CleanInv, NEW p \in Users, FriendOffline(p)
  PROVE  Directory!Leave(p)
<1>1. conn' = [conn EXCEPT ![p] = Offline] /\ db' = db /\ out' = NoMessage
  BY DEF FriendOffline
<1>2. Present' = Present \ {p}
  BY <1>1 DEF CleanInv, IInv, TypeOK, Present
<1>3. ToldBy(out') = Directory!Nothing
  BY <1>1, ToldLemma
<1> QED BY <1>1, <1>2, <1>3 DEF Directory!Leave, Present, ToldBy

(* A callback that recommends nobody and changes neither the set of rows    *)
(* nor a connection.                                                        *)
LEMMA OtherLemma ==
  ASSUME DOMAIN db' = DOMAIN db, UNCHANGED conn, ToldBy(out') = Directory!Nothing
  PROVE  Directory!Other
<1>1. Present' = Present
  BY DEF Present
<1> QED BY <1>1 DEF Directory!Other, Present, ToldBy

LEMMA ReportsLemma ==
  ASSUME CleanInv, NEW p \in Users, NEW field \in {"nick_name", "bio"},
         NEW v \in Texts[field], FriendReports(p, field, v), up'
  PROVE  Directory!Other
<1> DEFINE newDb == UpdateColumn(db, p, field, v, now)
<1>1. PICK r \in Execute(db, newDb) :
        \/ ~r.up /\ Die(r.table)
        \/ r.up /\ db' = r.table /\ out' = NoMessage /\ UNCHANGED conn
  BY DEF FriendReports
<1>2. DOMAIN newDb = DOMAIN db
  BY DEF UpdateColumn
<1> HIDE DEF newDb
<1>3. r.up /\ DOMAIN r.table = DOMAIN db
  BY <1>1, <1>2, ExecuteLemma DEF Die
<1> QED BY <1>1, <1>2, <1>3, OtherLemma, ToldLemma

LEMMA SetIsOther ==
  ASSUME CleanInv, NEW p \in Users, NEW s \in Signatures, Set(p, s), up'
  PROVE  Directory!Other
<1> DEFINE newDb == UpdateColumn(db, p, "signature", s, now)
<1>1. PICK r \in Execute(db, newDb) :
        \/ ~r.up /\ Die(r.table)
        \/ /\ r.up
           /\ db' = r.table
           /\ IF Answered(r) THEN Reply(p, "set", Blank) ELSE out' = NoMessage
           /\ UNCHANGED conn
  BY DEF Set
<1>2. DOMAIN newDb = DOMAIN db
  BY DEF UpdateColumn
<1> HIDE DEF newDb
<1>3. r.up /\ DOMAIN r.table = DOMAIN db
  BY <1>1, <1>2, ExecuteLemma DEF Die
<1>4. out' = Message(p, "set", Blank) \/ out' = NoMessage
  BY <1>1, <1>3 DEF Reply
<1>5. "set" \in Descs \ {"get", "get_none"}
  BY DEF Descs
<1> QED BY <1>1, <1>2, <1>3, <1>4, <1>5, OtherLemma, ToldLemma

LEMMA AuthorizeLemma ==
  ASSUME OnlyDeaths, CleanInv, NEW p \in Users, NEW tok_id \in TokIds,
         Start(p, tok_id), up'
  PROVE  Directory!Authorize(p)
<1> DEFINE newDb == ReplaceRow(db, p, tok_id, GetName(p), GetStatusMessage(p), now)
<1>1. PICK r \in Execute(db, newDb) :
        \/ ~r.up /\ Die(r.table)
        \/ r.up /\ db' = r.table /\ Reply(p, "start", Blank) /\ UNCHANGED conn
  BY StartStep DEF CleanInv
<1>2. DOMAIN newDb = DOMAIN db \cup {p}
  BY DEF ReplaceRow, Put
<1> HIDE DEF newDb
<1>3. r.up /\ r.table = newDb
  <2>1. r.up
    BY <1>1 DEF Die
  <2>2. r = [up |-> TRUE, table |-> newDb, ret |-> IF newDb = db THEN 0 ELSE 1]
    BY <2>1, CleanExecute
  <2>3. r.table = newDb
    BY <2>2, Zenon
  <2> QED BY <2>1, <2>3
<1>4. ToldBy(out') = Directory!Nothing
  <2>1. "start" \in Descs \ {"get", "get_none"}
    BY DEF Descs
  <2> QED BY <1>1, <1>3, <2>1, ToldLemma DEF Reply
<1>5. p \in Present /\ Present' = Present
  BY <1>1, <1>3 DEF Start, Present
<1> QED BY <1>1, <1>2, <1>3, <1>4, <1>5 DEF Directory!Authorize, Present, ToldBy

LEMMA WithdrawLemma ==
  ASSUME OnlyDeaths, CleanInv, NEW p \in Users, Stop(p), up'
  PROVE  Directory!Withdraw(p)
<1> DEFINE newDb == DeleteRow(db, p)
<1>1. PICK r \in Execute(db, newDb) :
        \/ ~r.up /\ Die(r.table)
        \/ /\ r.up
           /\ db' = r.table
           /\ IF Answered(r) THEN Reply(p, "stop", Blank) ELSE out' = NoMessage
           /\ UNCHANGED conn
  BY DEF Stop
<1>2. DOMAIN newDb = DOMAIN db \ {p}
  BY DEF DeleteRow, Erase
<1> HIDE DEF newDb
<1>3. r.up /\ r.table = newDb
  <2>1. r.up
    BY <1>1 DEF Die
  <2>2. r = [up |-> TRUE, table |-> newDb, ret |-> IF newDb = db THEN 0 ELSE 1]
    BY <2>1, CleanExecute
  <2>3. r.table = newDb
    BY <2>2, Zenon
  <2> QED BY <2>1, <2>3
<1>4. ToldBy(out') = Directory!Nothing
  <2>1. "stop" \in Descs \ {"get", "get_none"}
    BY DEF Descs
  <2> QED BY <1>1, <1>3, <2>1, ToldLemma DEF Reply
<1>5. p \in Present /\ Present' = Present
  BY <1>1, <1>3 DEF Stop, Present
<1> QED BY <1>1, <1>2, <1>3, <1>4, <1>5 DEF Directory!Withdraw, Present, ToldBy

(* Those random_member may return are those authorized and present.         *)
LEMMA RecommendLemma ==
  ASSUME OnlyDeaths, CleanInv, NEW p \in Users, Get(p)
  PROVE  \/ \E q \in Users : Directory!Recommend(p, q)
         \/ Directory!RecommendNobody(p)
<1>1. /\ conn[p] # Offline /\ UNCHANGED <<conn, db>>
      /\ \/ \E card \in RandomMember(mgr, p) : Reply(p, "get", card)
         \/ RandomMember(mgr, p) = {} /\ Reply(p, "get_none", Blank)
  BY DEF Get
<1>2. DOMAIN mgr.online_member \ {p} = (DOMAIN db \cap Present) \ {p}
  BY DEF CleanInv, IInv, TypeOK, OnlyFriends, Listed, Online, Present
<1>3. p \in Present /\ Present' = Present /\ DOMAIN db' = DOMAIN db
  BY <1>1 DEF Present
<1>4. CASE \E card \in RandomMember(mgr, p) : Reply(p, "get", card)
  <2>1. PICK q \in DOMAIN mgr.online_member \ {p} : Reply(p, "get", FindMember(mgr, q))
    BY <1>4 DEF RandomMember
  <2>2. FindMember(mgr, q).pk = q /\ q \in Users
    BY DEF CleanInv, IInv, PoolOwnership, OwnedOnce, FindMember, OnlyFriends
  <2>3. ToldBy(out') = [to |-> p, who |-> q]
    BY <2>1, <2>2, ToldLemma DEF Reply, OnlyDeaths
  <2>4. Directory!Recommend(p, q)
    BY <1>2, <1>3, <2>1, <2>3
       DEF Directory!Recommend, Directory!Candidates, Present, ToldBy
  <2> QED BY <2>2, <2>4
<1>5. CASE RandomMember(mgr, p) = {} /\ Reply(p, "get_none", Blank)
  <2>1. (DOMAIN db \cap Present) \ {p} = {}
    BY <1>2, <1>5 DEF RandomMember
  <2>2. ToldBy(out') = [to |-> p, who |-> NULL]
    BY <1>5, ToldLemma DEF Reply, OnlyDeaths
  <2>3. Directory!RecommendNobody(p)
    BY <1>3, <2>1, <2>2
       DEF Directory!RecommendNobody, Directory!Candidates, Present, ToldBy
  <2> QED BY <2>3
<1> QED BY <1>1, <1>4, <1>5

(* /info and the fixed texts. *)
LEMMA AnswerIsOther ==
  ASSUME OnlyDeaths, NEW p \in Users, Info(p) \/ FixedText(p)
  PROVE  Directory!Other
<1>1. UNCHANGED <<conn, db>>
  BY DEF Info, FixedText
<1>2. \/ out' = Message(p, "info", InfoCard(p))
      \/ out' = Message(p, "text", Blank)
  BY DEF Info, FixedText, Reply, OnlyDeaths
<1>3. {"info", "text"} \subseteq Descs \ {"get", "get_none"}
  BY DEF Descs
<1> QED BY <1>1, <1>2, <1>3, OtherLemma, ToldLemma

(* A death: of those authorized, all but the friend whose command it cut    *)
(* short are as they were.                                                  *)
LEMMA DeathIsAllLeave ==
  ASSUME CleanInv, Next, ~up'
  PROVE  Directory!AllLeave
<1>1. out' = NoMessage /\ conn' = [p \in Users |-> Offline]
  BY DeathStep DEF Die
<1>2. Present' = {} /\ ToldBy(out') = Directory!Nothing
  BY <1>1, ToldLemma DEF Present
<1>3. DOMAIN db' = DOMAIN db
        \/ \E p \in Present : DOMAIN db' \in {DOMAIN db \cup {p}, DOMAIN db \ {p}}
  <2>1. ASSUME NEW p \in Users, NEW t \in TokIds, Start(p, t)
        PROVE  p \in Present /\ DOMAIN db' \in {DOMAIN db, DOMAIN db \cup {p}}
    <3> DEFINE newDb == ReplaceRow(db, p, t, GetName(p), GetStatusMessage(p), now)
    <3>1. conn[p] # Offline /\ \E r \in Execute(db, newDb) : db' = r.table
      BY <2>1 DEF Start, Die
    <3>2. DOMAIN newDb = DOMAIN db \cup {p}
      BY DEF ReplaceRow, Put
    <3> HIDE DEF newDb
    <3>3. db' \in {db, newDb}
      BY <3>1, ExecuteLemma
    <3> QED BY <3>1, <3>2, <3>3 DEF Present
  <2>2. ASSUME NEW p \in Users, Stop(p)
        PROVE  p \in Present /\ DOMAIN db' \in {DOMAIN db, DOMAIN db \ {p}}
    <3> DEFINE newDb == DeleteRow(db, p)
    <3>1. conn[p] # Offline /\ \E r \in Execute(db, newDb) : db' = r.table
      BY <2>2 DEF Stop, Die
    <3>2. DOMAIN newDb = DOMAIN db \ {p}
      BY DEF DeleteRow, Erase
    <3> HIDE DEF newDb
    <3>3. db' \in {db, newDb}
      BY <3>1, ExecuteLemma
    <3> QED BY <3>1, <3>2, <3>3 DEF Present
  <2>3. ASSUME NEW p \in Users, NEW field, NEW v,
               \E r \in Execute(db, UpdateColumn(db, p, field, v, now)) : db' = r.table
        PROVE  DOMAIN db' = DOMAIN db
    <3>1. db' \in {db, UpdateColumn(db, p, field, v, now)}
      BY <2>3, ExecuteLemma
    <3> QED BY <3>1 DEF UpdateColumn
  <2>4. ASSUME NEW p \in Users, Callback(p)
        PROVE  \/ DOMAIN db' = DOMAIN db
               \/ \E q \in Present : DOMAIN db' \in {DOMAIN db \cup {q}, DOMAIN db \ {q}}
    <3>1. CASE \E c \in Conns : FriendOnline(p, c)
      BY <3>1 DEF FriendOnline, Die
    <3>2. CASE FriendOffline(p) \/ Get(p) \/ Info(p) \/ FixedText(p)
      BY <3>2 DEF FriendOffline, Get, Info, FixedText
    <3>3. CASE \E field \in {"nick_name", "bio"} :
                 \E v \in Texts[field] : FriendReports(p, field, v)
      BY <3>3, <2>3 DEF FriendReports, Die
    <3>4. CASE \E t \in TokIds : Start(p, t)
      BY <3>4, <2>1
    <3>5. CASE Stop(p)
      BY <3>5, <2>2
    <3>6. CASE \E s \in Signatures : Set(p, s)
      BY <3>6, <2>3 DEF Set, Die
    <3> QED BY <2>4, <3>1, <3>2, <3>3, <3>4, <3>5, <3>6 DEF Callback, Command
  <2>5. CASE Crash \/ Restart \/ Tick \/ FriendRequest
    BY <2>5 DEF Crash, Die, Restart, Tick, FriendRequest
  <2> QED BY <2>4, <2>5 DEF Next
<1> QED BY <1>2, <1>3 DEF Directory!AllLeave, Present, ToldBy

LEMMA DirectoryInit == Init => Directory!Init
<1> SUFFICES ASSUME Init PROVE Directory!Init
  OBVIOUS
<1>1. DOMAIN db = {} /\ Present = {}
  BY DEF Init, Present
<1>2. ToldBy(out) = Directory!Nothing
  BY ToldLemma DEF Init
<1> QED BY <1>1, <1>2 DEF Directory!Init, Present, ToldBy

LEMMA DirectoryStep ==
  ASSUME OnlyDeaths, CleanInv, [Next]_vars
  PROVE  [Directory!Next]_(Directory!vars)
<1>1. ASSUME NEW p \in Users, Callback(p), up'
      PROVE  Directory!Next
  <2>1. CASE \E c \in Conns : FriendOnline(p, c)
    BY <1>1, <2>1, ArriveLemma DEF Directory!Next
  <2>2. CASE FriendOffline(p)
    BY <2>2, LeaveLemma DEF Directory!Next
  <2>3. CASE \E field \in {"nick_name", "bio"} :
               \E v \in Texts[field] : FriendReports(p, field, v)
    BY <1>1, <2>3, ReportsLemma DEF Directory!Next
  <2>4. CASE \E t \in TokIds : Start(p, t)
    BY <1>1, <2>4, AuthorizeLemma DEF Directory!Next
  <2>5. CASE Stop(p)
    BY <1>1, <2>5, WithdrawLemma DEF Directory!Next
  <2>6. CASE \E s \in Signatures : Set(p, s)
    BY <1>1, <2>6, SetIsOther DEF Directory!Next
  <2>7. CASE Get(p)
    BY <2>7, RecommendLemma DEF Directory!Next
  <2>8. CASE Info(p) \/ FixedText(p)
    BY <2>8, AnswerIsOther DEF Directory!Next
  <2> QED BY <1>1, <2>1, <2>2, <2>3, <2>4, <2>5, <2>6, <2>7, <2>8
          DEF Callback, Command
<1>2. CASE Next /\ ~up'
  BY <1>2, DeathIsAllLeave DEF Directory!Next
<1>3. CASE FriendRequest
  BY <1>3, OtherLemma, ToldLemma DEF FriendRequest, Directory!Next
<1>4. CASE Restart \/ Tick \/ UNCHANGED vars
  <2>1. UNCHANGED <<conn, db, out>>
    BY <1>4 DEF Restart, Tick, vars
  <2>2. UNCHANGED <<DOMAIN db, Present, ToldBy(out)>>
    BY <2>1 DEF Present, ToldBy
  <2>3. UNCHANGED Directory!vars
    BY <2>2 DEF Directory!vars, Present, ToldBy
  <2> QED BY <2>3
<1>5. CASE Crash
  BY <1>2, <1>5 DEF Next, Crash, Die
<1> QED BY <1>1, <1>2, <1>3, <1>4, <1>5 DEF Next

(* The bot keeps the promises of Directory.                                 *)
THEOREM KeepsThePromise == OnlyDeaths /\ Spec => ImplementsDirectory
<1> SUFFICES ASSUME OnlyDeaths PROVE Spec => Directory!Spec
  BY DEF ImplementsDirectory
<1>1. CleanInv /\ [Next]_vars => [Directory!Next]_(Directory!vars)
  BY DirectoryStep
<1> QED BY <1>1, DirectoryInit, CleanInvariance, PTL DEF Spec, Directory!Spec
=============================================================================
