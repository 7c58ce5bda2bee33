--------------------------- MODULE AssisantProofs ---------------------------
(***************************************************************************)
(* The invariants of Assisant that hold under every fault, proved for any   *)
(* sets of friends, names, texts and Member objects, any pool size and any  *)
(* set of Faults.                                                           *)
(*                                                                         *)
(* First what every operation of MemberMgr does to the ownership of Member  *)
(* objects, for any number of objects and any sets of pk's and field        *)
(* values; then the statements of MemberModel, and one lemma per action.    *)
(*                                                                         *)
(* The inductive invariant is the conjunction of the properties themselves: *)
(* types, ownership of Member objects, the pool's bound, and what consent   *)
(* and an acknowledged signature say of the cache and the table.            *)
(***************************************************************************)
EXTENDS Assisant, SequenceTheorems, TLAPS

(* m has been allocated and handed to nobody yet. *)
Unowned(s, m) ==
  /\ m \in s.live
  /\ \A k \in DOMAIN s.online_member : s.online_member[k] # m
  /\ \A i \in 1 .. Len(s.free_list) : s.free_list[i] # m

(* The invariant of the cache and its pool. *)
Sound(s) ==
  /\ s \in MgrType
  /\ OwnedOnce(s)
  /\ Len(s.free_list) <= MAX_POOL_SIZE + 1

(* A cleared Member is one, and its pk is that of no friend.                *)
LEMMA BlankLemma == Blank \in Cards /\ Blank.pk = Empty
BY DEF Blank, Card, Cards, Keys

-----------------------------------------------------------------------------
(* The pool without its back is a sequence of the same objects. *)
LEMMA PopLemma ==
  ASSUME NEW q \in Seq(Members)
  PROVE  /\ SubSeq(q, 1, Len(q) - 1) \in Seq(Members)
         /\ Len(SubSeq(q, 1, Len(q) - 1)) = IF q = << >> THEN 0 ELSE Len(q) - 1
         /\ \A i \in 1 .. Len(SubSeq(q, 1, Len(q) - 1)) :
              i \in 1 .. Len(q) - 1 /\ SubSeq(q, 1, Len(q) - 1)[i] = q[i]
<1>1. CASE q = << >>
  <2>1. SubSeq(q, 1, Len(q) - 1) = << >>
    BY <1>1, SubSeqEmpty
  <2> QED BY <1>1, <2>1
<1>2. CASE q # << >>
  <2> DEFINE n == Len(q) - 1
  <2>1. n \in Nat
    BY <1>2, EmptySeq
  <2>2. \A i \in 1 .. n : q[i] \in Members
    BY <2>1
  <2> HIDE DEF n
  <2>3. /\ SubSeq(q, 1, n) \in Seq(Members)
        /\ Len(SubSeq(q, 1, n)) = IF 1 <= n THEN n - 1 + 1 ELSE 0
        /\ \A i \in 1 .. n - 1 + 1 : SubSeq(q, 1, n)[i] = q[1 + i - 1]
    BY <2>1, <2>2, SubSeqProperties
  <2>4. Len(SubSeq(q, 1, n)) = n
    BY <2>1, <2>3
  <2>5. \A i \in 1 .. n : SubSeq(q, 1, n)[i] = q[i]
    BY <2>1, <2>3
  <2> QED BY <1>2, <2>3, <2>4, <2>5 DEF n
<1> QED BY <1>1, <1>2

(* allocate() hands out an object nobody else has, blank, and leaves the    *)
(* map alone (MemberMgr::allocate, lock_queue::allocate).                   *)
LEMMA AllocateLemma ==
  ASSUME NEW s, Sound(s), NEW m \in Allocatable(s)
  PROVE  /\ m \in Members
         /\ Sound(Allocate(s, m))
         /\ Unowned(Allocate(s, m), m)
         /\ Allocate(s, m).online_member = s.online_member
         /\ Allocate(s, m).member[m] = Blank
         /\ \A k \in DOMAIN s.online_member :
              FindMember(Allocate(s, m), k) = FindMember(s, k)
<1> DEFINE t == Allocate(s, m)
           q == s.free_list
           r == SubSeq(q, 1, Len(q) - 1)
<1>1. /\ s \in MgrType
      /\ q \in Seq(Members)
      /\ Len(q) \in Nat
      /\ q # << >> => Len(q) \in 1 .. Len(q) /\ q[Len(q)] \in Members
  BY EmptySeq DEF Sound, MgrType
<1>2. m \in Members
  BY <1>1 DEF Allocatable, MgrType
<1>3. /\ r \in Seq(Members)
      /\ Len(r) = IF q = << >> THEN 0 ELSE Len(q) - 1
      /\ \A i \in 1 .. Len(r) : i \in 1 .. Len(q) - 1 /\ r[i] = q[i]
  <2> HIDE DEF q
  <2> QED BY <1>1, PopLemma
<1>4. /\ t.free_list = r
      /\ t.online_member = s.online_member
      /\ t.live = s.live \cup {m}
      /\ t.member = [s.member EXCEPT ![m] = Blank]
      /\ t \in MgrType
  <2> HIDE DEF r
  <2> QED BY <1>1, <1>2, <1>3, BlankLemma DEF Allocate, MgrType, r
<1>5. \A k \in DOMAIN s.online_member : s.online_member[k] # m
  BY <1>1 DEF Allocatable, Sound, OwnedOnce
<1>6. \A i \in 1 .. Len(r) : r[i] # m
  <2>1. CASE q = << >>
    BY <1>3, <2>1
  <2>2. CASE q # << >>
    <3>1. m = q[Len(q)]
      BY <2>2 DEF Allocatable
    <3>2. \A i, j \in 1 .. Len(q) : q[i] = q[j] => i = j
      BY DEF Sound, OwnedOnce
    <3> HIDE DEF q, r
    <3> QED BY <1>1, <1>3, <2>2, <3>1, <3>2
  <2> QED BY <2>1, <2>2
<1>7. Unowned(t, m)
  BY <1>4, <1>5, <1>6 DEF Unowned
<1>8. /\ t.member[m] = Blank
      /\ \A k \in DOMAIN s.online_member : FindMember(t, k) = FindMember(s, k)
  <2>1. \A k \in DOMAIN s.online_member : s.online_member[k] \in Members
    BY <1>1 DEF MgrType
  <2> HIDE DEF t
  <2> QED BY <1>1, <1>2, <1>4, <1>5, <2>1 DEF FindMember, MgrType
<1>9. OwnedOnce(t) /\ Len(r) <= MAX_POOL_SIZE + 1
  <2>1. /\ \A i, j \in 1 .. Len(q) : q[i] = q[j] => i = j
        /\ \A i \in 1 .. Len(q) : q[i] \in s.live
        /\ \A k \in DOMAIN s.online_member :
             /\ s.online_member[k] \in s.live
             /\ FindMember(s, k).pk = k
             /\ \A i \in 1 .. Len(q) : q[i] # s.online_member[k]
        /\ Len(q) <= MAX_POOL_SIZE + 1
    BY DEF Sound, OwnedOnce, FindMember
  <2>2. \A i \in 1 .. Len(r) : i \in 1 .. Len(q) /\ r[i] = q[i]
    <3> HIDE DEF q, r
    <3> QED BY <1>1, <1>3
  <2>3. Len(r) <= Len(q)
    <3> HIDE DEF q, r
    <3> QED BY <1>1, <1>3, EmptySeq
  <2> HIDE DEF q, r, t
  <2>4. Len(r) <= MAX_POOL_SIZE + 1
    BY <1>1, <1>3, <2>1, <2>3, MemberMgrAssumption
  <2>5. \A k \in DOMAIN t.online_member : FindMember(t, k).pk = k
    BY <1>4, <1>8, <2>1
  <2> QED BY <1>4, <2>1, <2>2, <2>4, <2>5 DEF OwnedOnce, FindMember
<1> QED BY <1>2, <1>4, <1>7, <1>8, <1>9 DEF Sound

(* Filling in an object nobody has yet disturbs nobody.                     *)
LEMMA FillLemma ==
  ASSUME NEW s, Sound(s), NEW m \in Members,
         Unowned(s, m), NEW card \in Cards
  PROVE  /\ Sound(Fill(s, m, card))
         /\ Unowned(Fill(s, m, card), m)
         /\ Fill(s, m, card).online_member = s.online_member
         /\ Fill(s, m, card).member[m] = card
         /\ \A k \in DOMAIN s.online_member :
              FindMember(Fill(s, m, card), k) = FindMember(s, k)
<1> DEFINE t == Fill(s, m, card)
<1>1. s \in MgrType
  BY DEF Sound
<1>2. /\ t.free_list = s.free_list
      /\ t.online_member = s.online_member
      /\ t.live = s.live
      /\ t.member = [s.member EXCEPT ![m] = card]
      /\ t \in MgrType
  BY <1>1 DEF Fill, MgrType
<1>3. \A k \in DOMAIN s.online_member :
        s.online_member[k] \in Members /\ s.online_member[k] # m
  BY <1>1 DEF MgrType, Unowned
<1> HIDE DEF t
<1>4. /\ t.member[m] = card
      /\ \A k \in DOMAIN s.online_member : FindMember(t, k) = FindMember(s, k)
  BY <1>1, <1>2, <1>3 DEF MgrType, FindMember
<1>5. Unowned(t, m)
  BY <1>2 DEF Unowned
<1>6. OwnedOnce(t)
  BY <1>2, <1>4 DEF Sound, OwnedOnce, FindMember
<1> QED BY <1>2, <1>4, <1>5, <1>6 DEF Sound, t

-----------------------------------------------------------------------------
(* add_member of an object nobody has yet: the map gets at most one new key *)
(* and every key it had keeps its member.                                   *)
LEMMA AddMemberLemma ==
  ASSUME NEW s, Sound(s), NEW m \in Members,
         Unowned(s, m), s.member[m].pk \in Keys
  PROVE  /\ Sound(AddMember(s, m))
         /\ DOMAIN AddMember(s, m).online_member =
              DOMAIN s.online_member \cup {s.member[m].pk}
         /\ \A k \in DOMAIN s.online_member :
              FindMember(AddMember(s, m), k) = FindMember(s, k)
         /\ ~Online(s, s.member[m].pk) =>
              FindMember(AddMember(s, m), s.member[m].pk) = s.member[m]
<1> DEFINE t  == AddMember(s, m)
           pk == s.member[m].pk
           f  == s.online_member
           g  == Insert(f, pk, m)
<1>1. s \in MgrType /\ f \in [DOMAIN f -> Members] /\ DOMAIN f \in SUBSET Keys
  BY DEF Sound, MgrType
<1>2. /\ DOMAIN g = DOMAIN f \cup {pk}
      /\ \A k \in DOMAIN f : g[k] = f[k]
      /\ pk \notin DOMAIN f => g[pk] = m
      /\ g \in [DOMAIN f \cup {pk} -> Members]
  <2> HIDE DEF f, pk
  <2> QED BY <1>1 DEF Insert
<1>3. /\ t.free_list = s.free_list
      /\ t.online_member = g
      /\ t.live = s.live
      /\ t.member = s.member
      /\ t \in MgrType
  <2>1. g \in UNION {[D -> Members] : D \in SUBSET Keys}
    <3> HIDE DEF f, g, pk
    <3>1. DOMAIN f \cup {pk} \in SUBSET Keys
      BY <1>1 DEF pk
    <3> QED BY <1>2, <3>1
  <2> HIDE DEF g
  <2> QED BY <1>1, <2>1 DEF AddMember, MgrType, g
<1>4. OwnedOnce(t)
  <2>1. /\ m \in s.live
        /\ \A i \in 1 .. Len(s.free_list) : s.free_list[i] # m
    BY DEF Unowned
  <2>2. /\ \A i, j \in 1 .. Len(s.free_list) :
             s.free_list[i] = s.free_list[j] => i = j
        /\ \A i \in 1 .. Len(s.free_list) : s.free_list[i] \in s.live
        /\ \A k \in DOMAIN f :
             /\ f[k] \in s.live
             /\ s.member[f[k]].pk = k
             /\ \A i \in 1 .. Len(s.free_list) : s.free_list[i] # f[k]
    BY DEF Sound, OwnedOnce
  <2>3. \A k \in DOMAIN g :
          /\ g[k] \in s.live
          /\ s.member[g[k]].pk = k
          /\ \A i \in 1 .. Len(s.free_list) : s.free_list[i] # g[k]
    <3> SUFFICES ASSUME NEW k \in DOMAIN g
                 PROVE  /\ g[k] \in s.live
                        /\ s.member[g[k]].pk = k
                        /\ \A i \in 1 .. Len(s.free_list) : s.free_list[i] # g[k]
      OBVIOUS
    <3>1. CASE k \in DOMAIN f
      <4> HIDE DEF f, g
      <4> QED BY <1>2, <2>2, <3>1
    <3>2. CASE k = pk /\ k \notin DOMAIN f
      <4>1. g[k] = m
        BY <1>2, <3>2
      <4> QED BY <2>1, <3>2, <4>1
    <3> QED BY <1>2, <3>1, <3>2
  <2> HIDE DEF t, f, g
  <2> QED BY <1>3, <2>2, <2>3 DEF OwnedOnce
<1> HIDE DEF t, f, g, pk
<1>5. \A k \in DOMAIN f : FindMember(t, k) = FindMember(s, k)
  BY <1>2, <1>3 DEF FindMember, f
<1>6. ~Online(s, pk) => FindMember(t, pk) = s.member[m]
  BY <1>2, <1>3 DEF FindMember, Online, f
<1>7. Sound(t)
  BY <1>3, <1>4 DEF Sound
<1> QED BY <1>2, <1>3, <1>5, <1>6, <1>7 DEF t, f, pk

(* deallcate of an object nobody has: it joins the pool, unless the pool is *)
(* full, and the map is left alone.                                         *)
LEMMA DeallcateLemma ==
  ASSUME NEW s, Sound(s), NEW m \in Members,
         Unowned(s, m)
  PROVE  /\ Sound(Deallcate(s, m))
         /\ Deallcate(s, m).online_member = s.online_member
         /\ \A k \in DOMAIN s.online_member :
              FindMember(Deallcate(s, m), k) = FindMember(s, k)
<1> DEFINE t == Deallcate(s, m)
           q == s.free_list
<1>1. s \in MgrType /\ q \in Seq(Members) /\ Len(q) \in Nat
  BY EmptySeq DEF Sound, MgrType
<1>2. \A k \in DOMAIN s.online_member :
        s.online_member[k] \in Members /\ s.online_member[k] # m
  BY <1>1 DEF MgrType, Unowned
<1>3. CASE MAX_POOL_SIZE < Len(q)
  <2>1. /\ t.free_list = q
        /\ t.online_member = s.online_member
        /\ t.live = s.live \ {m}
        /\ t.member = [s.member EXCEPT ![m] = Blank]
        /\ t \in MgrType
    BY <1>1, <1>3, BlankLemma DEF Deallcate, MgrType
  <2> HIDE DEF t
  <2>2. \A k \in DOMAIN s.online_member : FindMember(t, k) = FindMember(s, k)
    BY <1>1, <1>2, <2>1 DEF FindMember, MgrType
  <2>3. OwnedOnce(t)
    BY <1>2, <2>1, <2>2 DEF Sound, OwnedOnce, FindMember, Unowned
  <2> QED BY <2>1, <2>2, <2>3 DEF Sound, t
<1>4. CASE ~(MAX_POOL_SIZE < Len(q))
  <2> DEFINE r == Append(q, m)
  <2>1. /\ r \in Seq(Members)
        /\ Len(r) = Len(q) + 1
        /\ \A i \in 1 .. Len(q) : r[i] = q[i]
        /\ r[Len(q) + 1] = m
    <3> HIDE DEF q
    <3> QED BY <1>1, AppendProperties
  <2>2. \A i \in 1 .. Len(r) : i = Len(q) + 1 \/ i \in 1 .. Len(q)
    <3> HIDE DEF q, r
    <3> QED BY <1>1, <2>1
  <2> HIDE DEF r
  <2>3. /\ t.free_list = r
        /\ t.online_member = s.online_member
        /\ t.live = s.live
        /\ t.member = s.member
        /\ t \in MgrType
    BY <1>1, <1>4, <2>1 DEF Deallcate, MgrType, r
  <2>4. /\ \A i, j \in 1 .. Len(q) : q[i] = q[j] => i = j
        /\ \A i \in 1 .. Len(q) : q[i] # m /\ q[i] \in s.live
        /\ m \in s.live
        /\ \A k \in DOMAIN s.online_member :
             /\ s.online_member[k] \in s.live
             /\ s.member[s.online_member[k]].pk = k
             /\ \A i \in 1 .. Len(q) : q[i] # s.online_member[k]
    BY DEF Sound, OwnedOnce, Unowned
  <2> HIDE DEF q, t
  <2>5. \A i, j \in 1 .. Len(r) : r[i] = r[j] => i = j
    BY <1>1, <2>1, <2>2, <2>4
  <2>6. \A i \in 1 .. Len(r) : r[i] \in s.live
    BY <2>1, <2>2, <2>4
  <2>7. \A k \in DOMAIN s.online_member : \A i \in 1 .. Len(r) :
          r[i] # s.online_member[k]
    BY <1>2, <2>1, <2>2, <2>4
  <2>8. OwnedOnce(t)
    BY <2>3, <2>4, <2>5, <2>6, <2>7 DEF OwnedOnce
  <2>9. Len(r) <= MAX_POOL_SIZE + 1
    BY <1>1, <1>4, <2>1, MemberMgrAssumption
  <2> QED BY <2>3, <2>8, <2>9 DEF Sound, FindMember, t
<1> QED BY <1>3, <1>4

(* Taking pk's entry out of the map leaves its object to nobody else.       *)
LEMMA EraseLemma ==
  ASSUME NEW s, Sound(s), NEW pk, Online(s, pk)
  PROVE  /\ Sound(EraseMember(s, pk))
         /\ Unowned(EraseMember(s, pk), s.online_member[pk])
         /\ s.online_member[pk] \in Members
         /\ DOMAIN EraseMember(s, pk).online_member = DOMAIN s.online_member \ {pk}
         /\ \A k \in DOMAIN s.online_member \ {pk} :
              FindMember(EraseMember(s, pk), k) = FindMember(s, k)
<1> DEFINE f == s.online_member
           g == Erase(f, pk)
           e == EraseMember(s, pk)
<1>1. s \in MgrType /\ f \in [DOMAIN f -> Members] /\ DOMAIN f \in SUBSET Keys
  BY DEF Sound, MgrType
<1>2. /\ DOMAIN g = DOMAIN f \ {pk}
      /\ \A k \in DOMAIN g : g[k] = f[k]
      /\ g \in [DOMAIN f \ {pk} -> Members]
  <2> HIDE DEF f
  <2> QED BY <1>1 DEF Erase
<1>3. /\ e.free_list = s.free_list
      /\ e.online_member = g
      /\ e.live = s.live
      /\ e.member = s.member
      /\ e \in MgrType
  <2>1. g \in UNION {[D -> Members] : D \in SUBSET Keys}
    <3> HIDE DEF f, g
    <3>1. DOMAIN f \ {pk} \in SUBSET Keys
      BY <1>1
    <3> QED BY <1>2, <3>1
  <2> HIDE DEF g
  <2> QED BY <1>1, <2>1 DEF EraseMember, MgrType, g
<1>4. /\ \A i, j \in 1 .. Len(s.free_list) :
           s.free_list[i] = s.free_list[j] => i = j
      /\ \A i \in 1 .. Len(s.free_list) : s.free_list[i] \in s.live
      /\ \A k \in DOMAIN f :
           /\ f[k] \in s.live
           /\ s.member[f[k]].pk = k
           /\ \A i \in 1 .. Len(s.free_list) : s.free_list[i] # f[k]
  BY DEF Sound, OwnedOnce
<1>5. pk \in DOMAIN f
  BY DEF Online
<1> HIDE DEF e, f, g
<1>6. OwnedOnce(e)
  BY <1>2, <1>3, <1>4 DEF OwnedOnce
<1>7. \A k \in DOMAIN g : g[k] # f[pk]
  BY <1>2, <1>4, <1>5
<1>8. Unowned(e, f[pk])
  BY <1>3, <1>4, <1>5, <1>7 DEF Unowned
<1>9. \A k \in DOMAIN g : FindMember(e, k) = FindMember(s, k)
  BY <1>2, <1>3 DEF FindMember, f
<1>10. Sound(e)
  BY <1>3, <1>6 DEF Sound
<1> QED BY <1>1, <1>2, <1>3, <1>5, <1>8, <1>9, <1>10 DEF e, f

(* del_member: pk's entry goes, the others keep theirs.                     *)
LEMMA DelMemberLemma ==
  ASSUME NEW s, Sound(s), NEW pk \in Keys
  PROVE  /\ Sound(DelMember(s, pk))
         /\ DOMAIN DelMember(s, pk).online_member = DOMAIN s.online_member \ {pk}
         /\ \A k \in DOMAIN s.online_member \ {pk} :
              FindMember(DelMember(s, pk), k) = FindMember(s, k)
<1>1. CASE Online(s, pk)
  <2> DEFINE e == EraseMember(s, pk)
             m == s.online_member[pk]
  <2>1. DelMember(s, pk) = Deallcate(e, m)
    BY <1>1 DEF DelMember
  <2>2. /\ Sound(e)
        /\ Unowned(e, m)
        /\ m \in Members
        /\ DOMAIN e.online_member = DOMAIN s.online_member \ {pk}
        /\ \A k \in DOMAIN s.online_member \ {pk} : FindMember(e, k) = FindMember(s, k)
    BY <1>1, EraseLemma
  <2> HIDE DEF e, m
  <2>3. /\ Sound(Deallcate(e, m))
        /\ Deallcate(e, m).online_member = e.online_member
        /\ \A k \in DOMAIN e.online_member :
             FindMember(Deallcate(e, m), k) = FindMember(e, k)
    BY <2>2, DeallcateLemma
  <2> QED BY <2>1, <2>2, <2>3
<1>2. CASE ~Online(s, pk)
  BY <1>2 DEF DelMember, Online
<1> QED BY <1>1, <1>2

(* pk's cached member with its fields replaced. *)
WithCard(s, pk, card) == [s EXCEPT !.member[s.online_member[pk]] = card]

(* Changing fields other than pk of pk's member: the others keep theirs.    *)
LEMMA UpdateMemberLemma ==
  ASSUME NEW s, Sound(s), NEW pk, Online(s, pk),
         NEW card \in Cards, card.pk = pk
  PROVE  /\ Sound(WithCard(s, pk, card))
         /\ WithCard(s, pk, card).online_member = s.online_member
         /\ FindMember(WithCard(s, pk, card), pk) = card
         /\ \A k \in DOMAIN s.online_member \ {pk} :
              FindMember(WithCard(s, pk, card), k) = FindMember(s, k)
<1> DEFINE f == s.online_member
           t == WithCard(s, pk, card)
<1>1. /\ s \in MgrType
      /\ pk \in DOMAIN f
      /\ \A k \in DOMAIN f : f[k] \in Members
  BY DEF Sound, MgrType, Online
<1>2. /\ t.free_list = s.free_list
      /\ t.online_member = f
      /\ t.live = s.live
      /\ t.member = [s.member EXCEPT ![f[pk]] = card]
      /\ t \in MgrType
  BY <1>1 DEF WithCard, MgrType
<1> HIDE DEF t
<1>3. /\ \A i, j \in 1 .. Len(s.free_list) :
           s.free_list[i] = s.free_list[j] => i = j
      /\ \A i \in 1 .. Len(s.free_list) : s.free_list[i] \in s.live
      /\ \A k \in DOMAIN f :
           /\ f[k] \in s.live
           /\ s.member[f[k]].pk = k
           /\ \A i \in 1 .. Len(s.free_list) : s.free_list[i] # f[k]
  BY DEF Sound, OwnedOnce
<1>4. s.member \in [Members -> Cards]
  BY <1>1 DEF MgrType
<1>5. \A k \in DOMAIN f : t.member[f[k]] = IF k = pk THEN card ELSE s.member[f[k]]
  <2> HIDE DEF f
  <2> QED BY <1>1, <1>2, <1>3, <1>4
<1>6. OwnedOnce(t)
  <2> HIDE DEF f
  <2> QED BY <1>2, <1>3, <1>5 DEF OwnedOnce
<1> QED BY <1>1, <1>2, <1>5, <1>6 DEF Sound, FindMember, t

(* The setters on the cached member: they change the one field of the one   *)
(* member.                                                                  *)
LEMMA SetterLemma ==
  ASSUME NEW s, Sound(s), NEW pk \in Keys,
         NEW field \in {"nick_name", "bio", "signature"}, NEW v \in Texts[field]
  PROVE  /\ Sound(SetField(s, pk, field, v))
         /\ SetField(s, pk, field, v).online_member = s.online_member
         /\ SetField(s, pk, field, v).live = s.live
         /\ SetField(s, pk, field, v).free_list = s.free_list
         /\ \A k \in DOMAIN s.online_member \ {pk} :
              FindMember(SetField(s, pk, field, v), k) = FindMember(s, k)
         /\ Online(s, pk) =>
              FindMember(SetField(s, pk, field, v), pk) =
                [FindMember(s, pk) EXCEPT ![field] = v]
<1>1. CASE ~Online(s, pk)
  BY <1>1 DEF SetField
<1>2. CASE Online(s, pk)
  <2> DEFINE m    == s.online_member[pk]
             c    == s.member[m]
             card == [c EXCEPT ![field] = v]
             t    == WithCard(s, pk, card)
  <2>1. /\ s \in MgrType
        /\ m \in Members
        /\ c \in Cards
        /\ c.pk = pk
    BY <1>2 DEF Sound, MgrType, OwnedOnce, Online
  <2>2. card \in Cards /\ card.pk = pk
    <3> HIDE DEF c
    <3> QED BY <2>1 DEF Cards, Texts
  <2>3. SetField(s, pk, field, v) = t
    BY <1>2, <2>1 DEF SetField, WithCard, MgrType
  <2>4. t.live = s.live /\ t.free_list = s.free_list
    BY <2>1 DEF WithCard, MgrType
  <2>5. card = [FindMember(s, pk) EXCEPT ![field] = v]
    BY DEF FindMember
  <2> HIDE DEF card
  <2>6. /\ Sound(t) /\ t.online_member = s.online_member
        /\ FindMember(t, pk) = card
        /\ \A k \in DOMAIN s.online_member \ {pk} : FindMember(t, k) = FindMember(s, k)
    BY <1>2, <2>2, UpdateMemberLemma
  <2> HIDE DEF t
  <2> QED BY <1>2, <2>3, <2>4, <2>5, <2>6
<1> QED BY <1>1, <1>2

(* The empty cache and the empty pool.                                      *)
LEMMA InitMgrLemma ==
  Sound(InitMgr) /\ DOMAIN InitMgr.online_member = {}
<1>1. [k \in {} |-> NULL] \in UNION {[D -> Members] : D \in SUBSET Keys}
  <2>1. [k \in {} |-> NULL] \in [{} -> Members] /\ {} \in SUBSET Keys
    OBVIOUS
  <2> QED BY <2>1
<1>2. << >> \in Seq(Members) /\ Len(<< >>) = 0
  BY EmptySeq
<1>3. InitMgr \in MgrType
  BY <1>1, <1>2, BlankLemma DEF InitMgr, MgrType
<1> QED BY <1>2, <1>3, MemberMgrAssumption DEF InitMgr, Sound, OwnedOnce

-----------------------------------------------------------------------------
(* The bot. *)
Rows == UNION {[D -> Records] : D \in SUBSET Users}

IInv ==
  /\ TypeOK
  /\ PoolOwnership
  /\ PoolBounded
  /\ ListedAreConnected
  /\ AckedStopHonoured
  /\ AckedSignatureKept

USE AssisantAssumption, MemberModelAssumption, MemberMgrAssumption

-----------------------------------------------------------------------------
(* A friend's pk is a key. *)
LEMMA PkLemma == \A p \in Users : p \in Keys
BY DEF Keys

(* The parts of the invariant about mgr are what its operations preserve.   *)
LEMMA SoundLemma ==
  IInv => Sound(mgr)
BY DEF IInv, TypeOK, PoolOwnership, PoolBounded, Sound

(* What the lemmas about one call need of the state.                        *)
Typed == TypeOK /\ Sound(mgr)

LEMMA TypedLemma == IInv => Typed
BY SoundLemma DEF IInv, Typed

(* Every statement takes a table to a table.                                *)
LEMMA RowsLemma ==
  ASSUME NEW table \in Rows, NEW p \in Users
  PROVE  /\ \A row \in Records : Put(table, p, row) \in Rows
         /\ Erase(table, p) \in Rows
         /\ \A t \in [DOMAIN table -> Records] : t \in Rows
<1>1. table \in [DOMAIN table -> Records] /\ DOMAIN table \in SUBSET Users
  BY DEF Rows
<1>2. ASSUME NEW row \in Records
      PROVE  Put(table, p, row) \in Rows
  <2>1. Put(table, p, row) \in [DOMAIN table \cup {p} -> Records]
    BY <1>1, <1>2 DEF Put
  <2>2. DOMAIN table \cup {p} \in SUBSET Users
    BY <1>1
  <2> QED BY <2>1, <2>2 DEF Rows
<1>3. Erase(table, p) \in Rows
  <2>1. Erase(table, p) \in [DOMAIN table \ {p} -> Records]
    BY <1>1 DEF Erase
  <2>2. DOMAIN table \ {p} \in SUBSET Users
    BY <1>1
  <2> QED BY <2>1, <2>2 DEF Rows
<1>4. \A t \in [DOMAIN table -> Records] : t \in Rows
  BY <1>1 DEF Rows
<1> QED BY <1>2, <1>3, <1>4

LEMMA ReplaceRowInRows ==
  ASSUME NEW table \in Rows, NEW p \in Users, NEW tok_id \in TokIds,
         NEW name \in Names \cup {Empty}, NEW bio \in Bios \cup {Empty},
         NEW time \in 0 .. MaxTime
  PROVE  ReplaceRow(table, p, tok_id, name, bio, time) \in Rows
<1>1. Record(tok_id, name, bio, Empty, time, time) \in Records
  BY DEF Record, Records
<1> QED BY <1>1, RowsLemma DEF ReplaceRow

LEMMA UpdateColumnInRows ==
  ASSUME NEW table \in Rows, NEW p \in Users,
         NEW column \in {"nick_name", "bio", "signature"}, NEW v \in Texts[column],
         NEW time \in 0 .. MaxTime
  PROVE  UpdateColumn(table, p, column, v, time) \in Rows
<1> DEFINE row == [table[p] EXCEPT ![column] = v, !.update_time = time]
<1>1. table \in [DOMAIN table -> Records]
  BY DEF Rows
<1>2. ASSUME p \in DOMAIN table
      PROVE  row \in Records
  <2>1. table[p] \in Records
    BY <1>1, <1>2
  <2>2. CASE column = "nick_name"
    BY <2>1, <2>2 DEF Records, Texts
  <2>3. CASE column = "bio"
    BY <2>1, <2>3 DEF Records, Texts
  <2>4. CASE column = "signature"
    BY <2>1, <2>4 DEF Records, Texts
  <2> QED BY <2>2, <2>3, <2>4
<1> HIDE DEF row
<1>3. UpdateColumn(table, p, column, v, time) \in [DOMAIN table -> Records]
  BY <1>1, <1>2 DEF UpdateColumn, row
<1> QED BY <1>3, RowsLemma

(* A statement leaves the old or the new table; a changed row is reported   *)
(* only when the new table is there and differs.                            *)
LEMMA ExecuteLemma ==
  ASSUME NEW old, NEW new, NEW r \in Execute(old, new)
  PROVE  /\ r.up \in BOOLEAN
         /\ r.table \in {old, new}
         /\ r.up /\ r.ret > 0 => r.table = new /\ new # old
<1>1. ASSUME NEW kind, NEW table, NEW alive, NEW f \in Failed(kind, table, alive)
      PROVE  \E a \in alive : f = [up |-> a, table |-> table, ret |-> 0]
  BY DEF Failed
<1>2. \/ r = [up |-> TRUE, table |-> new, ret |-> IF new = old THEN 0 ELSE 1]
      \/ \E a \in BOOLEAN, t \in {old, new} : r = [up |-> a, table |-> t, ret |-> 0]
  <2>1. \/ r = [up |-> TRUE, table |-> new, ret |-> IF new = old THEN 0 ELSE 1]
        \/ r \in Failed("connect", old, {FALSE})
        \/ r \in Failed("prepare", old, BOOLEAN)
        \/ r \in Failed("execute", old, {TRUE})
        \/ r \in Failed("lost", new, {TRUE})
        \/ r \in Failed("kill", new, {FALSE})
    BY DEF Execute
  <2>2. ASSUME NEW k, NEW t \in {old, new}, NEW alive \in SUBSET BOOLEAN,
               r \in Failed(k, t, alive)
        PROVE  \E a \in BOOLEAN, u \in {old, new} :
                 r = [up |-> a, table |-> u, ret |-> 0]
    <3>1. PICK a \in alive : r = [up |-> a, table |-> t, ret |-> 0]
      BY <1>1, <2>2
    <3> QED BY <3>1
  <2>3. /\ {TRUE} \in SUBSET BOOLEAN /\ {FALSE} \in SUBSET BOOLEAN
        /\ BOOLEAN \in SUBSET BOOLEAN
    OBVIOUS
  <2> QED BY <2>1, <2>2, <2>3, Zenon
<1>3. CASE r = [up |-> TRUE, table |-> new, ret |-> IF new = old THEN 0 ELSE 1]
  <2>1. r.up = TRUE /\ r.table = new /\ r.ret = IF new = old THEN 0 ELSE 1
    BY <1>3
  <2>2. r.ret > 0 => new # old
    BY <2>1
  <2>3. r.up \in BOOLEAN
    BY <2>1, Zenon
  <2> QED BY <2>1, <2>2, <2>3, Zenon
<1>4. CASE \E a \in BOOLEAN, t \in {old, new} : r = [up |-> a, table |-> t, ret |-> 0]
  <2>1. r.up \in BOOLEAN /\ r.table \in {old, new} /\ r.ret = 0
    BY <1>4
  <2> QED BY <2>1
<1> QED BY <1>2, <1>3, <1>4

(* What find_friend hands out is NULL, or an object of friend p (of nobody, *)
(* when reading even the pk failed) that no one else has; the map, and what *)
(* it lists, are the same.                                                  *)
LEMMA FindFriendLemma ==
  ASSUME Typed, NEW p \in Users, NEW r \in FindFriend(db, mgr, p)
  PROVE  /\ r.up \in BOOLEAN
         /\ \/ r.member = NULL /\ r.mgr = mgr
            \/ /\ p \in DOMAIN db
               /\ r.member \in Members
               /\ Sound(r.mgr)
               /\ Unowned(r.mgr, r.member)
               /\ r.mgr.online_member = mgr.online_member
               /\ r.mgr.member[r.member].pk \in {p, Empty}
               /\ \A k \in DOMAIN mgr.online_member :
                    FindMember(r.mgr, k) = FindMember(mgr, k)
<1>1. ASSUME NEW alive \in SUBSET BOOLEAN, r \in FoundNothing(mgr, alive)
      PROVE  r.member = NULL /\ r.mgr = mgr /\ r.up \in BOOLEAN
  <2>1. PICK a \in alive : r = Found(a, NULL, mgr)
    BY <1>1 DEF FoundNothing
  <2> QED BY <2>1 DEF Found
<1>2. ASSUME p \in DOMAIN db, NEW n \in 0 .. 5, r \in FoundRow(db, mgr, p, n)
      PROVE  /\ r.up \in BOOLEAN
             /\ r.member \in Members
             /\ Sound(r.mgr)
             /\ Unowned(r.mgr, r.member)
             /\ r.mgr.online_member = mgr.online_member
             /\ r.mgr.member[r.member].pk \in {p, Empty}
             /\ \A k \in DOMAIN mgr.online_member :
                  FindMember(r.mgr, k) = FindMember(mgr, k)
  <2>1. PICK m \in Allocatable(mgr) :
          r = Found(TRUE, m, Fill(Allocate(mgr, m), m, Loaded(p, db[p], n)))
    BY <1>2 DEF FoundRow
  <2> DEFINE card == Loaded(p, db[p], n)
             a    == Allocate(mgr, m)
  <2>2. card \in Cards /\ card.pk \in {p, Empty}
    <3>1. db[p] \in Records
      BY <1>2 DEF Typed, TypeOK
    <3> QED BY <3>1 DEF Loaded, Card, Cards, Keys, Records
  <2>3. m \in Members /\ Sound(a) /\ Unowned(a, m)
        /\ a.online_member = mgr.online_member
        /\ \A k \in DOMAIN mgr.online_member : FindMember(a, k) = FindMember(mgr, k)
    BY BlankLemma, AllocateLemma DEF Typed
  <2> HIDE DEF a, card
  <2>4. /\ Sound(Fill(a, m, card))
        /\ Unowned(Fill(a, m, card), m)
        /\ Fill(a, m, card).online_member = a.online_member
        /\ Fill(a, m, card).member[m] = card
        /\ \A k \in DOMAIN a.online_member :
             FindMember(Fill(a, m, card), k) = FindMember(a, k)
    BY <2>2, <2>3, FillLemma
  <2>5. r.up = TRUE /\ r.member = m /\ r.mgr = Fill(a, m, card)
    BY <2>1 DEF Found, a, card
  <2> QED BY <2>2, <2>3, <2>4, <2>5
<1>3. \/ p \in DOMAIN db /\ \E n \in 0 .. 5 : r \in FoundRow(db, mgr, p, n)
      \/ \E alive \in SUBSET BOOLEAN : r \in FoundNothing(mgr, alive)
  <2>1. \/ p \in DOMAIN db /\ r \in UNION {FoundRow(db, mgr, p, n) : n \in ColumnsRead}
        \/ r \in FoundNothing(mgr, {TRUE})
        \/ r \in FoundNothing(mgr, BOOLEAN)
        \/ r \in FoundNothing(mgr, {FALSE})
    BY DEF FindFriend
  <2>2. ColumnsRead \subseteq 0 .. 5
    BY DEF ColumnsRead
  <2>3. /\ {TRUE} \in SUBSET BOOLEAN /\ {FALSE} \in SUBSET BOOLEAN
        /\ BOOLEAN \in SUBSET BOOLEAN
    OBVIOUS
  <2> QED BY <2>1, <2>2, <2>3
<1> QED BY <1>1, <1>2, <1>3

-----------------------------------------------------------------------------
(* What a dead process leaves behind has the types and owns nothing.        *)
DeadTypes ==
  /\ up = FALSE
  /\ conn = [p \in Users |-> Offline]
  /\ profile \in [Users -> Profile]
  /\ saved \in [Users -> Profile]
  /\ avatar \in BOOLEAN
  /\ mgr = InitMgr
  /\ Sound(mgr)
  /\ DOMAIN mgr.online_member = {}
  /\ out \in [to : Users \cup {NULL}, desc : Descs, about : Cards]

LEMMA DieLemma ==
  ASSUME Typed, NEW table \in Rows, Die(table)
  PROVE  DeadTypes' /\ db' = table
<1>1. NoMessage \in [to : Users \cup {NULL}, desc : Descs, about : Cards]
  BY BlankLemma DEF NoMessage, Message, Descs
<1>2. Sound(InitMgr) /\ DOMAIN InitMgr.online_member = {}
  BY BlankLemma, InitMgrLemma
<1> QED BY <1>1, <1>2 DEF Typed, TypeOK, Die, DeadTypes

(* After a death, the invariant is what consent and the acknowledged        *)
(* signatures say of the table.                                             *)
LEMMA DeadLemma ==
  ASSUME DeadTypes', db' \in Rows, now' \in 0 .. MaxTime,
         consent' \in [Users -> {"none", "on", "stopping", "off"}],
         acked_signature' \in [Users -> Signatures \cup {Empty}],
         \A p \in Users : p \in DOMAIN db' => consent'[p] \in {"on", "stopping"},
         AckedSignatureKept'
  PROVE  IInv'
<1>1. TypeOK'
  BY DEF DeadTypes, TypeOK, Sound, Rows
<1>2. PoolOwnership' /\ PoolBounded'
  BY DEF DeadTypes, PoolOwnership, PoolBounded, Sound
<1>3. ListedAreConnected' /\ AckedStopHonoured'
  BY DEF DeadTypes, ListedAreConnected, AckedStopHonoured, Online
<1> QED BY <1>1, <1>2, <1>3 DEF IInv

(* The same for a step the process survives.                                *)
LEMMA AliveLemma ==
  ASSUME IInv, up', UNCHANGED <<up, now>>,
         conn' \in [Users -> Conns \cup {Offline}],
         profile' \in [Users -> Profile],
         saved' \in [Users -> Profile],
         avatar' \in BOOLEAN,
         Sound(mgr'),
         db' \in Rows,
         out' \in [to : Users \cup {NULL}, desc : Descs, about : Cards],
         consent' \in [Users -> {"none", "on", "stopping", "off"}],
         acked_signature' \in [Users -> Signatures \cup {Empty}],
         \A p \in Users : p \in DOMAIN mgr'.online_member =>
           conn'[p] # Offline /\ consent'[p] \in {"on", "stopping"},
         \A p \in Users : p \in DOMAIN db' => consent'[p] \in {"on", "stopping"},
         AckedSignatureKept'
  PROVE  IInv'
<1>1. TypeOK'
  BY DEF IInv, TypeOK, Sound, Rows
<1>2. PoolOwnership' /\ PoolBounded'
  BY DEF PoolOwnership, PoolBounded, Sound
<1>3. ListedAreConnected' /\ AckedStopHonoured'
  BY DEF ListedAreConnected, AckedStopHonoured, Online
<1> QED BY <1>1, <1>2, <1>3 DEF IInv

(* A reply about a Member's fields, sent or refused, is a message.          *)
LEMMA ReplyLemma ==
  ASSUME NEW p \in Users, NEW desc \in Descs, NEW about \in Cards,
         Reply(p, desc, about)
  PROVE  out' \in [to : Users \cup {NULL}, desc : Descs, about : Cards]
BY BlankLemma DEF Reply, Message, NoMessage, Descs

(* The same for a callback that sends nothing.                              *)
LEMMA NoMessageLemma ==
  NoMessage \in [to : Users \cup {NULL}, desc : Descs, about : Cards]
BY BlankLemma DEF Message, NoMessage, Descs

-----------------------------------------------------------------------------
LEMMA InitLemma == Init => IInv
<1> SUFFICES ASSUME Init PROVE IInv
  OBVIOUS
<1>1. Sound(InitMgr) /\ DOMAIN InitMgr.online_member = {}
  BY BlankLemma, InitMgrLemma
<1>2. [p \in {} |-> NULL] \in Rows
  <2>1. [p \in {} |-> NULL] \in [{} -> Records] /\ {} \in SUBSET Users
    OBVIOUS
  <2> QED BY <2>1 DEF Rows
<1>3. TypeOK
  <2>1. up \in BOOLEAN /\ avatar \in BOOLEAN /\ up
    BY Zenon DEF Init
  <2>2. /\ conn \in [Users -> Conns \cup {Offline}]
        /\ profile \in [Users -> Profile]
        /\ saved \in [Users -> Profile]
    BY DEF Init, Profile
  <2>3. mgr \in MgrType /\ db \in Rows
    BY <1>1, <1>2 DEF Init, Sound, MgrType
  <2>4. out \in [to : Users \cup {NULL}, desc : Descs, about : Cards]
    BY NoMessageLemma, Zenon DEF Init
  <2>5. /\ now \in 0 .. MaxTime
        /\ consent \in [Users -> {"none", "on", "stopping", "off"}]
        /\ acked_signature \in [Users -> Signatures \cup {Empty}]
    BY DEF Init
  <2> QED BY <2>1, <2>2, <2>3, <2>4, <2>5 DEF TypeOK, Rows
<1>4. PoolOwnership /\ PoolBounded
  BY <1>1 DEF Init, PoolOwnership, PoolBounded, Sound
<1>5. ListedAreConnected /\ AckedStopHonoured /\ AckedSignatureKept
  BY <1>1 DEF Init, ListedAreConnected, AckedStopHonoured, AckedSignatureKept, Online
<1> QED BY <1>3, <1>4, <1>5 DEF IInv

LEMMA CrashLemma == ASSUME IInv, Crash PROVE IInv'
<1>1. db \in Rows /\ Die(db)
  BY DEF IInv, TypeOK, Rows, Crash
<1>2. DeadTypes' /\ db' = db
  BY <1>1, TypedLemma, DieLemma
<1>3. UNCHANGED <<now, consent, acked_signature>>
  BY DEF Crash, history
<1>4. AckedSignatureKept'
  BY <1>2, <1>3 DEF IInv, AckedSignatureKept
<1>5. \A p \in Users : p \in DOMAIN db' => consent'[p] \in {"on", "stopping"}
  BY <1>2, <1>3 DEF IInv, AckedStopHonoured
<1> QED BY <1>1, <1>2, <1>3, <1>4, <1>5, DeadLemma DEF IInv, TypeOK

LEMMA RestartLemma == ASSUME IInv, Restart PROVE IInv'
<1>1. TypeOK'
  BY DEF IInv, TypeOK, Restart, history
<1>2. PoolOwnership' /\ PoolBounded'
  BY DEF IInv, PoolOwnership, PoolBounded, Restart
<1>3. ListedAreConnected' /\ AckedStopHonoured' /\ AckedSignatureKept'
  BY DEF IInv, ListedAreConnected, AckedStopHonoured, AckedSignatureKept,
         Restart, history
<1> QED BY <1>1, <1>2, <1>3 DEF IInv

LEMMA TickLemma == ASSUME IInv, Tick PROVE IInv'
<1>1. now' \in 0 .. MaxTime
  BY DEF IInv, TypeOK, Tick
<1>2. TypeOK'
  BY <1>1 DEF IInv, TypeOK, Tick, history
<1>3. PoolOwnership' /\ PoolBounded'
  BY DEF IInv, PoolOwnership, PoolBounded, Tick
<1>4. ListedAreConnected' /\ AckedStopHonoured' /\ AckedSignatureKept'
  BY DEF IInv, ListedAreConnected, AckedStopHonoured, AckedSignatureKept,
         Tick, history
<1> QED BY <1>2, <1>3, <1>4 DEF IInv

-----------------------------------------------------------------------------
LEMMA FriendOnlineLemma ==
  ASSUME IInv, NEW p \in Users, NEW c \in Conns, FriendOnline(p, c)
  PROVE  IInv'
<1>1. PICK r \in FindFriend(db, mgr, p) :
        \/ ~r.up /\ Die(db)
        \/ /\ r.up
           /\ conn' = [conn EXCEPT ![p] = c]
           /\ mgr' = IF r.member = NULL THEN r.mgr ELSE AddMember(r.mgr, r.member)
           /\ SendAvatar(p)
           /\ UNCHANGED <<up, profile, saved, db>>
  BY DEF FriendOnline
<1>2. up /\ UNCHANGED <<now, consent, acked_signature>>
  BY DEF FriendOnline, history
<1>3. db \in Rows /\ TypeOK
  BY DEF IInv, TypeOK, Rows
<1>4. CASE ~r.up /\ Die(db)
  <2>1. DeadTypes' /\ db' = db
    BY <1>3, <1>4, TypedLemma, DieLemma
  <2>2. AckedSignatureKept'
    BY <1>2, <2>1 DEF IInv, AckedSignatureKept
  <2>3. \A q \in Users : q \in DOMAIN db' => consent'[q] \in {"on", "stopping"}
    BY <1>2, <2>1 DEF IInv, AckedStopHonoured
  <2> QED BY <1>2, <1>3, <2>1, <2>2, <2>3, DeadLemma DEF TypeOK
<1>5. CASE /\ conn' = [conn EXCEPT ![p] = c]
           /\ mgr' = IF r.member = NULL THEN r.mgr ELSE AddMember(r.mgr, r.member)
           /\ SendAvatar(p)
           /\ UNCHANGED <<up, profile, saved, db>>
  <2>1. /\ Sound(mgr')
        /\ DOMAIN mgr'.online_member \ {Empty} \subseteq
             DOMAIN mgr.online_member \cup ({p} \cap DOMAIN db)
    <3>1. CASE r.member = NULL /\ r.mgr = mgr
      BY <1>5, <3>1, SoundLemma
    <3>2. CASE /\ p \in DOMAIN db
               /\ r.member \in Members
               /\ Sound(r.mgr)
               /\ Unowned(r.mgr, r.member)
               /\ r.mgr.online_member = mgr.online_member
               /\ r.mgr.member[r.member].pk \in {p, Empty}
      <4>1. mgr' = AddMember(r.mgr, r.member)
        BY <1>5, <3>2
      <4>2. r.mgr.member[r.member].pk \in Keys
        BY <3>2 DEF Keys
      <4>3. /\ Sound(mgr')
            /\ DOMAIN mgr'.online_member =
                 DOMAIN mgr.online_member \cup {r.mgr.member[r.member].pk}
        BY <3>2, <4>1, <4>2, AddMemberLemma
      <4> QED BY <3>2, <4>3
    <3> QED BY <3>1, <3>2, TypedLemma, FindFriendLemma
  <2>2. /\ conn' \in [Users -> Conns \cup {Offline}]
        /\ conn'[p] # Offline
        /\ \A q \in Users : conn[q] # Offline => conn'[q] # Offline
    BY <1>3, <1>5 DEF TypeOK
  <2>3. /\ avatar' \in BOOLEAN
        /\ out' \in [to : Users \cup {NULL}, desc : Descs, about : Cards]
    <3>1. avatar' \in BOOLEAN
      BY <1>5 DEF SendAvatar
    <3>2. out' = Message(p, "avatar", Blank) \/ out' = NoMessage
      BY <1>5 DEF SendAvatar
    <3> QED BY <3>1, <3>2, BlankLemma, NoMessageLemma DEF Message, Descs
  <2>4. \A q \in Users : q \in DOMAIN mgr'.online_member =>
          conn'[q] # Offline /\ consent'[q] \in {"on", "stopping"}
    BY <1>2, <2>1, <2>2 DEF IInv, ListedAreConnected, AckedStopHonoured, Online
  <2>5. \A q \in Users : q \in DOMAIN db' => consent'[q] \in {"on", "stopping"}
    BY <1>2, <1>5 DEF IInv, AckedStopHonoured
  <2>6. AckedSignatureKept'
    BY <1>2, <1>5 DEF IInv, AckedSignatureKept
  <2>7. UNCHANGED <<up, profile, saved, db>> /\ up'
    BY <1>2, <1>5
  <2> QED BY <1>2, <1>3, <2>1, <2>2, <2>3, <2>4, <2>5, <2>6, <2>7, AliveLemma
          DEF TypeOK
<1> QED BY <1>1, <1>4, <1>5

LEMMA FriendOfflineLemma ==
  ASSUME IInv, NEW p \in Users, FriendOffline(p)
  PROVE  IInv'
<1>1. /\ up /\ conn' = [conn EXCEPT ![p] = Offline]
      /\ mgr' = DelMember(mgr, p)
      /\ out' = NoMessage
      /\ UNCHANGED <<up, profile, saved, avatar, db, now, consent, acked_signature>>
  BY DEF FriendOffline, history
<1>2. TypeOK /\ db \in Rows
  BY DEF IInv, TypeOK, Rows
<1>3. /\ Sound(mgr')
      /\ DOMAIN mgr'.online_member = DOMAIN mgr.online_member \ {p}
  <2>1. Sound(mgr) /\ Blank \in Cards /\ p \in Keys
    BY SoundLemma, BlankLemma, PkLemma
  <2>2. /\ Sound(DelMember(mgr, p))
        /\ DOMAIN DelMember(mgr, p).online_member = DOMAIN mgr.online_member \ {p}
    BY <2>1, DelMemberLemma
  <2> QED BY <1>1, <2>2
<1>4. /\ conn' \in [Users -> Conns \cup {Offline}]
      /\ \A q \in Users \ {p} : conn'[q] = conn[q]
  BY <1>1, <1>2 DEF TypeOK
<1>5. \A q \in Users : q \in DOMAIN mgr'.online_member =>
        conn'[q] # Offline /\ consent'[q] \in {"on", "stopping"}
  BY <1>1, <1>3, <1>4 DEF IInv, ListedAreConnected, AckedStopHonoured, Online
<1>6. \A q \in Users : q \in DOMAIN db' => consent'[q] \in {"on", "stopping"}
  BY <1>1 DEF IInv, AckedStopHonoured
<1>7. AckedSignatureKept'
  BY <1>1 DEF IInv, AckedSignatureKept
<1> QED BY <1>1, <1>2, <1>3, <1>4, <1>5, <1>6, <1>7, NoMessageLemma, AliveLemma
        DEF TypeOK

(* friend_name_cb and friend_status_message_cb change no key of the cache   *)
(* and no row's signature.                                                  *)
LEMMA FriendReportsLemma ==
  ASSUME IInv, NEW p \in Users, NEW field \in {"nick_name", "bio"},
         NEW v \in Texts[field], FriendReports(p, field, v)
  PROVE  IInv'
<1> DEFINE newDb  == UpdateColumn(db, p, field, v, now)
           newMgr == SetField(mgr, p, field, v)
           new    == [profile EXCEPT ![p] = [@ EXCEPT ![field] = v]]
<1>1. TypeOK /\ db \in Rows /\ now \in 0 .. MaxTime
  BY DEF IInv, TypeOK, Rows
<1>2. newDb \in Rows
  BY <1>1, UpdateColumnInRows
<1>3. /\ DOMAIN newDb = DOMAIN db
      /\ \A q \in DOMAIN db : newDb[q].signature = db[q].signature
  BY <1>1 DEF UpdateColumn, Rows, Records
<1>4. Sound(newMgr) /\ newMgr.online_member = mgr.online_member
  BY SoundLemma, SetterLemma, PkLemma
<1>5. new \in [Users -> Profile]
  <2>1. [profile[p] EXCEPT ![field] = v] \in Profile
    BY <1>1 DEF TypeOK, Profile, Texts
  <2> QED BY <1>1, <2>1 DEF TypeOK
<1> HIDE DEF newDb, newMgr, new
<1>6. PICK r \in Execute(db, newDb) :
        \/ ~r.up /\ Die(r.table)
        \/ /\ r.up
           /\ db' = r.table
           /\ mgr' = newMgr
           /\ Save(new)
           /\ out' = NoMessage
           /\ UNCHANGED <<up, conn, avatar>>
  BY DEF FriendReports, newDb, newMgr, new
<1>7. up /\ UNCHANGED <<now, consent, acked_signature>>
  BY DEF FriendReports, history
<1>8. r.table \in Rows /\ DOMAIN r.table = DOMAIN db
      /\ \A q \in DOMAIN db : r.table[q].signature = db[q].signature
  BY <1>1, <1>2, <1>3, ExecuteLemma
<1>9. ASSUME db' = r.table
      PROVE  /\ AckedSignatureKept'
             /\ \A q \in Users : q \in DOMAIN db' => consent'[q] \in {"on", "stopping"}
  <2>1. AckedSignatureKept'
    BY <1>7, <1>8, <1>9 DEF IInv, AckedSignatureKept
  <2>2. \A q \in Users : q \in DOMAIN db' => consent'[q] \in {"on", "stopping"}
    BY <1>7, <1>8, <1>9 DEF IInv, AckedStopHonoured
  <2> QED BY <2>1, <2>2
<1>10. CASE ~r.up /\ Die(r.table)
  <2>1. DeadTypes' /\ db' = r.table
    BY <1>8, <1>10, TypedLemma, DieLemma
  <2> QED BY <1>1, <1>7, <1>8, <1>9, <2>1, DeadLemma DEF TypeOK
<1>11. CASE /\ db' = r.table
            /\ mgr' = newMgr
            /\ Save(new)
            /\ out' = NoMessage
            /\ UNCHANGED <<up, conn, avatar>>
  <2>1. profile' \in [Users -> Profile] /\ saved' \in [Users -> Profile]
    BY <1>1, <1>5, <1>11 DEF TypeOK, Save
  <2>2. \A q \in Users : q \in DOMAIN mgr'.online_member =>
          conn'[q] # Offline /\ consent'[q] \in {"on", "stopping"}
    BY <1>4, <1>7, <1>11 DEF IInv, ListedAreConnected, AckedStopHonoured, Online
  <2>3. out' \in [to : Users \cup {NULL}, desc : Descs, about : Cards]
    BY <1>11, NoMessageLemma
  <2>4. up' /\ UNCHANGED <<up, now, conn, avatar, consent, acked_signature>>
    BY <1>7, <1>11
  <2> QED BY <1>1, <1>4, <1>8, <1>9, <1>11, <2>1, <2>2, <2>3, <2>4, AliveLemma
          DEF TypeOK
<1> QED BY <1>6, <1>10, <1>11

-----------------------------------------------------------------------------
(* The card /start makes of what toxcore holds goes into the cache.         *)
LEMMA RegisterLemma ==
  ASSUME Typed, NEW p \in Users, NEW tok_id \in TokIds, NEW m \in Allocatable(mgr)
  PROVE  LET card == [Allocate(mgr, m).member[m] EXCEPT
                        !.pk = p, !.tok_id = tok_id,
                        !.nick_name = GetName(p), !.bio = GetStatusMessage(p)]
             new  == AddMember(Fill(Allocate(mgr, m), m, card), m)
         IN  Sound(new) /\ DOMAIN new.online_member = DOMAIN mgr.online_member \cup {p}
<1> DEFINE name == GetName(p)
           bio  == GetStatusMessage(p)
           a    == Allocate(mgr, m)
           card == [a.member[m] EXCEPT
                      !.pk = p, !.tok_id = tok_id, !.nick_name = name, !.bio = bio]
           f    == Fill(a, m, card)
<1>1. p \in Keys /\ name \in Names \cup {Empty} /\ bio \in Bios \cup {Empty}
  BY PkLemma DEF Typed, TypeOK, Profile, GetName, GetStatusMessage
<1>2. /\ m \in Members /\ Sound(a) /\ Unowned(a, m)
      /\ a.online_member = mgr.online_member /\ a.member[m] = Blank
  BY AllocateLemma DEF Typed
<1>3. card \in Cards /\ card.pk = p
  <2> HIDE DEF name, bio, a
  <2>1. card = [Blank EXCEPT !.pk = p, !.tok_id = tok_id,
                             !.nick_name = name, !.bio = bio]
    BY <1>2
  <2> QED BY <1>1, <2>1 DEF Blank, Card, Cards
<1> HIDE DEF a, card
<1>4. Sound(f) /\ Unowned(f, m) /\ f.online_member = a.online_member
      /\ f.member[m] = card
  BY <1>2, <1>3, FillLemma
<1> HIDE DEF f
<1>5. Sound(AddMember(f, m))
      /\ DOMAIN AddMember(f, m).online_member = DOMAIN f.online_member \cup {p}
  BY <1>1, <1>2, <1>3, <1>4, AddMemberLemma
<1> QED BY <1>2, <1>4, <1>5 DEF a, f, card, name, bio

(* /start adds at most its sender to the cache and to the table.            *)
LEMMA StartLemma ==
  ASSUME IInv, NEW p \in Users, NEW tok_id \in TokIds, Start(p, tok_id)
  PROVE  IInv'
<1> DEFINE name  == GetName(p)
           bio   == GetStatusMessage(p)
           newDb == ReplaceRow(db, p, tok_id, name, bio, now)
           card(m) == [Allocate(mgr, m).member[m] EXCEPT
                         !.pk = p, !.tok_id = tok_id, !.nick_name = name, !.bio = bio]
<1>1. /\ TypeOK /\ db \in Rows /\ now \in 0 .. MaxTime /\ p \in Keys
      /\ name \in Names \cup {Empty} /\ bio \in Bios \cup {Empty}
  BY PkLemma DEF IInv, TypeOK, Rows, Profile, GetName, GetStatusMessage
<1>2. newDb \in Rows
  <2> HIDE DEF name, bio
  <2> QED BY <1>1, ReplaceRowInRows
<1>3. DOMAIN newDb = DOMAIN db \cup {p} /\ \A q \in DOMAIN db \ {p} : newDb[q] = db[q]
  BY DEF ReplaceRow, Put
<1>4. ASSUME NEW m \in Allocatable(mgr)
      PROVE  LET new == AddMember(Fill(Allocate(mgr, m), m, card(m)), m)
             IN  Sound(new) /\ DOMAIN new.online_member = DOMAIN mgr.online_member \cup {p}
  BY TypedLemma, RegisterLemma
<1> HIDE DEF name, bio, newDb, card
<1>5. PICK r \in Execute(db, newDb) :
        \/ ~r.up /\ Die(r.table)
        \/ /\ r.up
           /\ db' = r.table
           /\ \E m \in Allocatable(mgr) :
                mgr' = AddMember(Fill(Allocate(mgr, m), m, card(m)), m)
           /\ Reply(p, "start", Blank)
           /\ UNCHANGED <<up, conn, profile, saved, avatar>>
  BY DEF Start, name, bio, newDb, card
<1>6. /\ up /\ conn[p] # Offline /\ UNCHANGED now
      /\ consent' = [consent EXCEPT ![p] = "on"]
      /\ acked_signature' = [acked_signature EXCEPT ![p] = Empty]
  BY DEF Start
<1>7. /\ consent' \in [Users -> {"none", "on", "stopping", "off"}]
      /\ consent'[p] = "on"
      /\ \A q \in Users \ {p} : consent'[q] = consent[q]
      /\ acked_signature' \in [Users -> Signatures \cup {Empty}]
      /\ acked_signature'[p] = Empty
      /\ \A q \in Users \ {p} : acked_signature'[q] = acked_signature[q]
  BY <1>1, <1>6 DEF TypeOK
<1>8. /\ r.table \in Rows
      /\ DOMAIN r.table \subseteq DOMAIN db \cup {p}
      /\ \A q \in DOMAIN db \ {p} : q \in DOMAIN r.table /\ r.table[q] = db[q]
  BY <1>1, <1>2, <1>3, ExecuteLemma
<1>9. ASSUME db' = r.table
      PROVE  /\ AckedSignatureKept'
             /\ \A q \in Users : q \in DOMAIN db' => consent'[q] \in {"on", "stopping"}
  <2>1. AckedSignatureKept'
    BY <1>7, <1>8, <1>9 DEF IInv, AckedSignatureKept
  <2>2. \A q \in Users : q \in DOMAIN db' => consent'[q] \in {"on", "stopping"}
    BY <1>7, <1>8, <1>9 DEF IInv, AckedStopHonoured
  <2> QED BY <2>1, <2>2
<1>10. CASE ~r.up /\ Die(r.table)
  <2>1. DeadTypes' /\ db' = r.table
    BY <1>8, <1>10, TypedLemma, DieLemma
  <2> QED BY <1>1, <1>6, <1>7, <1>8, <1>9, <2>1, DeadLemma
<1>11. CASE /\ db' = r.table
            /\ \E m \in Allocatable(mgr) :
                 mgr' = AddMember(Fill(Allocate(mgr, m), m, card(m)), m)
            /\ Reply(p, "start", Blank)
            /\ UNCHANGED <<up, conn, profile, saved, avatar>>
  <2>1. Sound(mgr') /\ DOMAIN mgr'.online_member = DOMAIN mgr.online_member \cup {p}
    BY <1>4, <1>11
  <2>2. out' \in [to : Users \cup {NULL}, desc : Descs, about : Cards]
    BY <1>11, BlankLemma, ReplyLemma DEF Descs
  <2>3. \A q \in Users : q \in DOMAIN mgr'.online_member =>
          conn'[q] # Offline /\ consent'[q] \in {"on", "stopping"}
    BY <1>6, <1>7, <1>11, <2>1
       DEF IInv, ListedAreConnected, AckedStopHonoured, Online
  <2>4. up' /\ UNCHANGED <<up, now, conn, profile, saved, avatar>>
    BY <1>6, <1>11
  <2> QED BY <1>1, <1>7, <1>8, <1>9, <1>11, <2>1, <2>2, <2>3, <2>4, AliveLemma
          DEF TypeOK
<1> QED BY <1>5, <1>10, <1>11

(* An answered /stop has deleted the row and the cached member; one that is *)
(* not answered leaves the consent as it may be.                            *)
LEMMA StopLemma ==
  ASSUME IInv, NEW p \in Users, Stop(p)
  PROVE  IInv'
<1> DEFINE newDb == DeleteRow(db, p)
<1>1. TypeOK /\ db \in Rows /\ now \in 0 .. MaxTime /\ p \in Keys
  BY PkLemma DEF IInv, TypeOK, Rows
<1>2. /\ newDb \in Rows
      /\ DOMAIN newDb = DOMAIN db \ {p}
      /\ \A q \in DOMAIN db \ {p} : newDb[q] = db[q]
  BY <1>1, RowsLemma DEF DeleteRow, Erase
<1> HIDE DEF newDb
<1>3. PICK r \in Execute(db, newDb) :
        \/ ~r.up /\ Die(r.table) /\ Withdrawn(p, FALSE)
        \/ /\ r.up
           /\ db' = r.table
           /\ mgr' = DelMember(mgr, p)
           /\ IF r.ret > 0 THEN Reply(p, "stop", Blank) ELSE out' = NoMessage
           /\ Withdrawn(p, r.ret > 0)
           /\ UNCHANGED <<up, conn, profile, saved, avatar>>
  BY DEF Stop, newDb, Answered
<1>4. /\ up /\ UNCHANGED now
      /\ acked_signature' = [acked_signature EXCEPT ![p] = Empty]
  BY DEF Stop
<1>5. /\ acked_signature' \in [Users -> Signatures \cup {Empty}]
      /\ acked_signature'[p] = Empty
      /\ \A q \in Users \ {p} : acked_signature'[q] = acked_signature[q]
  BY <1>1, <1>4 DEF TypeOK
<1>6. /\ r.table \in Rows
      /\ DOMAIN r.table \subseteq DOMAIN db
      /\ \A q \in DOMAIN db \ {p} : q \in DOMAIN r.table /\ r.table[q] = db[q]
      /\ r.up /\ r.ret > 0 => p \notin DOMAIN r.table
  BY <1>1, <1>2, ExecuteLemma
<1>7. db' = r.table
  BY <1>3, <1>6, TypedLemma, DieLemma
<1>8. AckedSignatureKept'
  BY <1>5, <1>6, <1>7 DEF IInv, AckedSignatureKept
<1>9. ASSUME NEW answered \in BOOLEAN, Withdrawn(p, answered)
      PROVE  /\ consent' \in [Users -> {"none", "on", "stopping", "off"}]
             /\ \A q \in Users \ {p} : consent'[q] = consent[q]
             /\ ~answered /\ consent[p] \in {"on", "stopping"} =>
                  consent'[p] \in {"on", "stopping"}
  <2>1. consent \in [Users -> {"none", "on", "stopping", "off"}]
    BY <1>1 DEF TypeOK
  <2>2. CASE answered
    <3>1. consent' = [consent EXCEPT ![p] = "off"]
      BY <1>9, <2>2 DEF Withdrawn
    <3> QED BY <2>1, <2>2, <3>1
  <2>3. CASE ~answered
    <3>1. consent' = [consent EXCEPT ![p] = IF @ = "on" THEN "stopping" ELSE @]
      BY <1>9, <2>3 DEF Withdrawn
    <3> QED BY <2>1, <2>3, <3>1
  <2> QED BY <2>2, <2>3
<1>10. CASE ~r.up /\ Die(r.table) /\ Withdrawn(p, FALSE)
  <2>1. DeadTypes' /\ db' = r.table
    BY <1>6, <1>10, TypedLemma, DieLemma
  <2>2. \A q \in Users : q \in DOMAIN db' => consent'[q] \in {"on", "stopping"}
    BY <1>6, <1>7, <1>9, <1>10 DEF IInv, AckedStopHonoured
  <2>3. consent' \in [Users -> {"none", "on", "stopping", "off"}]
    BY <1>9, <1>10
  <2> QED BY <1>1, <1>4, <1>5, <1>6, <1>8, <2>1, <2>2, <2>3, DeadLemma
<1>11. CASE /\ r.up
            /\ mgr' = DelMember(mgr, p)
            /\ IF r.ret > 0 THEN Reply(p, "stop", Blank) ELSE out' = NoMessage
            /\ Withdrawn(p, r.ret > 0)
            /\ UNCHANGED <<up, conn, profile, saved, avatar>>
  <2>1. Sound(mgr') /\ DOMAIN mgr'.online_member = DOMAIN mgr.online_member \ {p}
    BY <1>1, <1>11, SoundLemma, DelMemberLemma
  <2>2. out' \in [to : Users \cup {NULL}, desc : Descs, about : Cards]
    BY <1>11, BlankLemma, ReplyLemma, NoMessageLemma DEF Descs
  <2>3. /\ consent' \in [Users -> {"none", "on", "stopping", "off"}]
        /\ \A q \in Users \ {p} : consent'[q] = consent[q]
        /\ p \in DOMAIN r.table => consent'[p] \in {"on", "stopping"}
    <3>1. (r.ret > 0) \in BOOLEAN
      OBVIOUS
    <3>2. /\ consent' \in [Users -> {"none", "on", "stopping", "off"}]
          /\ \A q \in Users \ {p} : consent'[q] = consent[q]
          /\ ~(r.ret > 0) /\ consent[p] \in {"on", "stopping"} =>
               consent'[p] \in {"on", "stopping"}
      BY <1>9, <1>11, <3>1
    <3> QED BY <1>6, <1>11, <3>2 DEF IInv, AckedStopHonoured
  <2>4. \A q \in Users : q \in DOMAIN mgr'.online_member =>
          conn'[q] # Offline /\ consent'[q] \in {"on", "stopping"}
    BY <1>11, <2>1, <2>3 DEF IInv, ListedAreConnected, AckedStopHonoured, Online
  <2>5. \A q \in Users : q \in DOMAIN db' => consent'[q] \in {"on", "stopping"}
    BY <1>6, <1>7, <2>3 DEF IInv, AckedStopHonoured
  <2>6. up' /\ UNCHANGED <<up, now, conn, profile, saved, avatar>>
    BY <1>4, <1>11
  <2> QED BY <1>1, <1>5, <1>6, <1>7, <1>8, <2>1, <2>2, <2>3, <2>4, <2>5, <2>6,
             AliveLemma DEF TypeOK
<1> QED BY <1>3, <1>10, <1>11

(* A /set answered "Done!" has changed the row; no key is touched.          *)
LEMMA SetLemma ==
  ASSUME IInv, NEW p \in Users, NEW signature \in Signatures, Set(p, signature)
  PROVE  IInv'
<1> DEFINE newDb  == UpdateColumn(db, p, "signature", signature, now)
           newMgr == SetField(mgr, p, "signature", signature)
<1>1. TypeOK /\ db \in Rows /\ now \in 0 .. MaxTime /\ p \in Keys
  BY PkLemma DEF IInv, TypeOK, Rows
<1>2. /\ newDb \in Rows
      /\ DOMAIN newDb = DOMAIN db
      /\ \A q \in DOMAIN db \ {p} : newDb[q] = db[q]
      /\ newDb # db => p \in DOMAIN db /\ newDb[p].signature = signature
  <2>1. newDb \in Rows
    <3>1. signature \in Texts["signature"]
      BY DEF Texts
    <3> HIDE DEF newDb
    <3> QED BY <1>1, <3>1, UpdateColumnInRows DEF newDb
  <2>2. /\ DOMAIN newDb = DOMAIN db
        /\ \A q \in DOMAIN db \ {p} : newDb[q] = db[q]
    BY <1>1 DEF UpdateColumn, Rows
  <2>3. ASSUME p \in DOMAIN db
        PROVE  newDb[p].signature = signature
    <3>1. db \in [DOMAIN db -> Records] /\ db[p] \in Records
      BY <1>1, <2>3 DEF Rows
    <3>2. newDb[p] = [db[p] EXCEPT !["signature"] = signature, !.update_time = now]
      BY <2>3, <3>1 DEF UpdateColumn
    <3> HIDE DEF newDb
    <3> QED BY <3>1, <3>2 DEF Records
  <2>4. p \notin DOMAIN db => newDb = db
    BY DEF UpdateColumn
  <2> HIDE DEF newDb
  <2> QED BY <2>1, <2>2, <2>3, <2>4
<1>3. Sound(newMgr) /\ newMgr.online_member = mgr.online_member
  BY <1>1, SoundLemma, SetterLemma DEF Texts
<1> HIDE DEF newDb, newMgr
<1>4. PICK r \in Execute(db, newDb) :
        \/ /\ ~r.up
           /\ Die(r.table)
           /\ acked_signature' = [acked_signature EXCEPT ![p] = Empty]
        \/ /\ r.up
           /\ db' = r.table
           /\ mgr' = newMgr
           /\ IF r.ret > 0 THEN Reply(p, "set", Blank) ELSE out' = NoMessage
           /\ acked_signature' = [acked_signature EXCEPT ![p] =
                                    IF r.ret > 0 THEN signature ELSE Empty]
           /\ UNCHANGED <<up, conn, profile, saved, avatar>>
  BY DEF Set, newDb, newMgr, Answered
<1>5. up /\ UNCHANGED <<now, consent>>
  BY DEF Set
<1>6. /\ r.table \in Rows
      /\ DOMAIN r.table = DOMAIN db
      /\ \A q \in DOMAIN db \ {p} : r.table[q] = db[q]
      /\ r.up /\ r.ret > 0 => p \in DOMAIN r.table /\ r.table[p].signature = signature
  BY <1>1, <1>2, ExecuteLemma
<1>7. db' = r.table
  BY <1>4, <1>6, TypedLemma, DieLemma
<1>8. \A q \in Users : q \in DOMAIN db' => consent'[q] \in {"on", "stopping"}
  BY <1>5, <1>6, <1>7 DEF IInv, AckedStopHonoured
<1>9. CASE /\ ~r.up
           /\ Die(r.table)
           /\ acked_signature' = [acked_signature EXCEPT ![p] = Empty]
  <2>1. DeadTypes'
    BY <1>6, <1>9, TypedLemma, DieLemma
  <2>2. /\ acked_signature' \in [Users -> Signatures \cup {Empty}]
        /\ acked_signature'[p] = Empty
        /\ \A q \in Users \ {p} : acked_signature'[q] = acked_signature[q]
    BY <1>1, <1>9 DEF TypeOK
  <2>3. AckedSignatureKept'
    BY <1>6, <1>7, <2>2 DEF IInv, AckedSignatureKept
  <2> QED BY <1>1, <1>5, <1>6, <1>7, <1>8, <2>1, <2>2, <2>3, DeadLemma DEF TypeOK
<1>10. CASE /\ r.up
            /\ mgr' = newMgr
            /\ IF r.ret > 0 THEN Reply(p, "set", Blank) ELSE out' = NoMessage
            /\ acked_signature' = [acked_signature EXCEPT ![p] =
                                     IF r.ret > 0 THEN signature ELSE Empty]
            /\ UNCHANGED <<up, conn, profile, saved, avatar>>
  <2>1. out' \in [to : Users \cup {NULL}, desc : Descs, about : Cards]
    BY <1>10, BlankLemma, ReplyLemma, NoMessageLemma DEF Descs
  <2>2. /\ acked_signature' \in [Users -> Signatures \cup {Empty}]
        /\ acked_signature'[p] = IF r.ret > 0 THEN signature ELSE Empty
        /\ \A q \in Users \ {p} : acked_signature'[q] = acked_signature[q]
    BY <1>1, <1>10 DEF TypeOK
  <2>3. AckedSignatureKept'
    BY <1>6, <1>7, <1>10, <2>2 DEF IInv, AckedSignatureKept
  <2>4. \A q \in Users : q \in DOMAIN mgr'.online_member =>
          conn'[q] # Offline /\ consent'[q] \in {"on", "stopping"}
    BY <1>3, <1>5, <1>10 DEF IInv, ListedAreConnected, AckedStopHonoured, Online
  <2>5. up' /\ UNCHANGED <<up, now, conn, profile, saved, avatar, consent>>
    BY <1>5, <1>10
  <2> QED BY <1>1, <1>3, <1>6, <1>7, <1>8, <1>10, <2>1, <2>2, <2>3, <2>4, <2>5,
             AliveLemma DEF TypeOK
<1> QED BY <1>4, <1>9, <1>10

(* Commands that only answer.                                               *)
LEMMA AnswerLemma ==
  ASSUME IInv, up, NEW p \in Users, NEW desc \in Descs, NEW about \in Cards,
         Reply(p, desc, about),
         UNCHANGED <<up, conn, profile, saved, avatar, mgr, db, now, history>>
  PROVE  IInv'
<1>1. TypeOK'
  BY ReplyLemma DEF IInv, TypeOK, history
<1>2. PoolOwnership' /\ PoolBounded'
  BY DEF IInv, PoolOwnership, PoolBounded
<1>3. ListedAreConnected' /\ AckedStopHonoured' /\ AckedSignatureKept'
  BY DEF IInv, ListedAreConnected, AckedStopHonoured, AckedSignatureKept, history
<1> QED BY <1>1, <1>2, <1>3 DEF IInv

(* Every cached member has the fields of one.                               *)
LEMMA FindMemberLemma ==
  ASSUME Typed
  PROVE  \A k \in DOMAIN mgr.online_member : FindMember(mgr, k) \in Cards
BY DEF Typed, TypeOK, MgrType, FindMember

LEMMA GetLemma ==
  ASSUME IInv, NEW p \in Users, Get(p)
  PROVE  IInv'
<1>1. /\ up
      /\ UNCHANGED <<up, conn, profile, saved, avatar, mgr, db, now, history>>
  BY DEF Get
<1>2. CASE \E card \in RandomMember(mgr, p) : Reply(p, "get", card)
  <2>1. PICK card \in RandomMember(mgr, p) : Reply(p, "get", card)
    BY <1>2
  <2>2. card \in Cards
    BY TypedLemma, FindMemberLemma DEF RandomMember
  <2>3. "get" \in Descs
    BY DEF Descs
  <2> QED BY <1>1, <2>1, <2>2, <2>3, AnswerLemma
<1>3. CASE Reply(p, "get_none", Blank)
  <2>1. "get_none" \in Descs
    BY DEF Descs
  <2> QED BY <1>1, <1>3, <2>1, BlankLemma, AnswerLemma
<1> QED BY <1>2, <1>3 DEF Get

LEMMA InfoCardLemma ==
  ASSUME Typed, NEW p \in Users
  PROVE  InfoCard(p) \in Cards
<1>1. CASE Online(mgr, p)
  <2>1. FindMember(mgr, p) \in Cards
    BY <1>1, FindMemberLemma DEF Online
  <2>2. [FindMember(mgr, p) EXCEPT !.pk = p, !.tok_id = Empty] \in Cards
    BY <2>1, PkLemma DEF Cards
  <2> QED BY <1>1, <2>2 DEF InfoCard
<1>2. CASE ~Online(mgr, p)
  <2>1. profile[p] \in Profile
    BY DEF Typed, TypeOK
  <2> QED BY <1>2, <2>1, PkLemma
          DEF InfoCard, Card, Cards, Profile, GetName, GetStatusMessage
<1> QED BY <1>1, <1>2

LEMMA InfoLemma ==
  ASSUME IInv, NEW p \in Users, Info(p)
  PROVE  IInv'
<1>1. InfoCard(p) \in Cards
  BY TypedLemma, InfoCardLemma
<1>2. "info" \in Descs
  BY DEF Descs
<1> QED BY <1>1, <1>2, AnswerLemma DEF Info

LEMMA FixedTextLemma ==
  ASSUME IInv, NEW p \in Users, FixedText(p)
  PROVE  IInv'
<1>1. "text" \in Descs
  BY DEF Descs
<1> QED BY <1>1, BlankLemma, AnswerLemma DEF FixedText

(* friend_request_cb writes the savedata file, and nothing else here.       *)
LEMMA FriendRequestLemma == ASSUME IInv, FriendRequest PROVE IInv'
<1>1. /\ out' = NoMessage
      /\ UNCHANGED <<up, conn, profile, avatar, mgr, db, now, consent, acked_signature>>
      /\ saved' \in {saved, profile}
  BY DEF FriendRequest, Save, history
<1>2. TypeOK'
  BY <1>1, NoMessageLemma DEF IInv, TypeOK
<1>3. PoolOwnership' /\ PoolBounded'
  BY <1>1 DEF IInv, PoolOwnership, PoolBounded
<1>4. ListedAreConnected' /\ AckedStopHonoured' /\ AckedSignatureKept'
  BY <1>1 DEF IInv, ListedAreConnected, AckedStopHonoured, AckedSignatureKept
<1> QED BY <1>2, <1>3, <1>4 DEF IInv

-----------------------------------------------------------------------------
LEMMA StepLemma == IInv /\ [Next]_vars => IInv'
<1> SUFFICES ASSUME IInv, [Next]_vars PROVE IInv'
  OBVIOUS
<1>1. CASE Crash
  BY <1>1, CrashLemma
<1>2. CASE Restart
  BY <1>2, RestartLemma
<1>3. CASE Tick
  BY <1>3, TickLemma
<1>4. ASSUME NEW p \in Users, Callback(p)
      PROVE  IInv'
  <2>1. CASE \E c \in Conns : FriendOnline(p, c)
    BY <2>1, FriendOnlineLemma
  <2>2. CASE FriendOffline(p)
    BY <2>2, FriendOfflineLemma
  <2>3. CASE \E field \in {"nick_name", "bio"} :
               \E v \in Texts[field] : FriendReports(p, field, v)
    BY <2>3, FriendReportsLemma
  <2>4. CASE Command(p)
    <3>1. CASE \E t \in TokIds : Start(p, t)
      BY <3>1, StartLemma
    <3>2. CASE Stop(p)
      BY <3>2, StopLemma
    <3>3. CASE \E s \in Signatures : Set(p, s)
      BY <3>3, SetLemma
    <3>4. CASE Get(p)
      BY <3>4, GetLemma
    <3>5. CASE Info(p)
      BY <3>5, InfoLemma
    <3>6. CASE FixedText(p)
      BY <3>6, FixedTextLemma
    <3> QED BY <2>4, <3>1, <3>2, <3>3, <3>4, <3>5, <3>6 DEF Command
  <2> QED BY <1>4, <2>1, <2>2, <2>3, <2>4 DEF Callback
<1>5. CASE FriendRequest
  BY <1>5, FriendRequestLemma
<1>6. CASE UNCHANGED vars
  <2>1. TypeOK'
    BY <1>6 DEF IInv, TypeOK, vars
  <2>2. PoolOwnership' /\ PoolBounded'
    BY <1>6 DEF IInv, PoolOwnership, PoolBounded, vars
  <2>3. ListedAreConnected' /\ AckedStopHonoured' /\ AckedSignatureKept'
    BY <1>6 DEF IInv, ListedAreConnected, AckedStopHonoured, AckedSignatureKept, vars
  <2> QED BY <2>1, <2>2, <2>3 DEF IInv
<1> QED BY <1>1, <1>2, <1>3, <1>4, <1>5, <1>6 DEF Next

(* The conjunction of the properties is inductive, whatever the constants.  *)
THEOREM Invariance == Spec => []IInv
BY InitLemma, StepLemma, PTL DEF Spec

(* Every variable keeps its type, under every fault.                        *)
THEOREM TypeCorrect == Spec => []TypeOK
<1>1. IInv => TypeOK
  BY DEF IInv
<1> QED BY <1>1, Invariance, PTL

(* Every Member object has one owner: no friend is ever shown under         *)
(* another's key because an object was recycled too early.                  *)
THEOREM OneOwner == Spec => []PoolOwnership
<1>1. IInv => PoolOwnership
  BY DEF IInv
<1> QED BY <1>1, Invariance, PTL

(* The pool never holds more than MAX_POOL_SIZE + 1 objects.                *)
THEOREM PoolLimit == Spec => []PoolBounded
<1>1. IInv => PoolBounded
  BY DEF IInv
<1> QED BY <1>1, Invariance, PTL

(* Only friends who are connected are recommended, under every fault.       *)
THEOREM OnlyConnectedListed == Spec => []ListedAreConnected
<1>1. IInv => ListedAreConnected
  BY DEF IInv
<1> QED BY <1>1, Invariance, PTL

(* After an answered /stop the friend is in neither the cache nor the table *)
(* until the next /start, under every fault and crash.                      *)
THEOREM StopHonoured == Spec => []AckedStopHonoured
<1>1. IInv => AckedStopHonoured
  BY DEF IInv
<1> QED BY <1>1, Invariance, PTL

(* The text of a /set answered "Done!" is in the table until the friend's   *)
(* next /start, /stop or /set, under every fault and crash.                 *)
THEOREM SignatureKept == Spec => []AckedSignatureKept
<1>1. IInv => AckedSignatureKept
  BY DEF IInv
<1> QED BY <1>1, Invariance, PTL
=============================================================================
