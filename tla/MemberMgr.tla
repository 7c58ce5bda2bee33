------------------------------ MODULE MemberMgr ------------------------------
(***************************************************************************)
(* The cache of online members (MemberMgr.cpp, Member.cpp) and the object   *)
(* pool it draws Member objects from (lock_queue<Member>, LockedQueue.h).   *)
(*                                                                         *)
(* The component is one record, held in a variable by the specification     *)
(* that uses it:                                                            *)
(*    online_member  the std::map from pk to Member*                        *)
(*    free_list      the pool's list, its back at the end of the sequence   *)
(*    member         the fields of every Member object, by its address      *)
(*    live           the addresses new'd and not yet deleted                *)
(* Every operation is an operator from such a record to the next one, so    *)
(* that a handler that calls several of them in a row is one expression.    *)
(* An address that is live, not in the pool and not in the map is leaked.   *)
(*                                                                         *)
(* recommand_times_ is set to 0 and never read; it is left out.             *)
(***************************************************************************)
EXTENDS Naturals, Sequences

CONSTANTS
  Users,         \* pk's of the bot's friends
  TokIds,        \* non-empty parameters of /start
  Names, Bios,   \* what friends call themselves and say of themselves
  Signatures,    \* non-empty parameters of /set
  Members,       \* the addresses `new Member()` can return; bounds the heap
  NULL,          \* nullptr
  MAX_POOL_SIZE  \* Member::MAX_POOL_SIZE, 1024 in the code

Empty == ""   \* the empty std::string

ASSUME MemberMgrAssumption ==
  /\ NULL \notin Members
  /\ NULL \notin Users
  /\ Empty \notin Users
  /\ Empty \notin Signatures
  /\ MAX_POOL_SIZE \in Nat

(* The fields of a Member. *)
Card(pk, tok_id, nick_name, bio, signature) ==
  [pk |-> pk, tok_id |-> tok_id, nick_name |-> nick_name,
   bio |-> bio, signature |-> signature]

(* Member::clear(): what a new or recycled object holds. *)
Blank == Card(Empty, Empty, Empty, Empty, Empty)

(* The keys of the map. Empty is one of them: see FindFriend.               *)
Keys == Users \cup {Empty}

Cards ==
  [pk : Keys, tok_id : TokIds \cup {Empty}, nick_name : Names \cup {Empty},
   bio : Bios \cup {Empty}, signature : Signatures \cup {Empty}]

MgrType ==
  [online_member : UNION {[D -> Members] : D \in SUBSET Keys},
   free_list     : Seq(Members),
   member        : [Members -> Cards],
   live          : SUBSET Members]

(* The state at process start. *)
InitMgr ==
  [online_member |-> [k \in {} |-> NULL],
   free_list     |-> << >>,
   member        |-> [m \in Members |-> Blank],
   live          |-> {}]

-----------------------------------------------------------------------------
(* std::map::insert: an existing entry is left alone. *)
Insert(f, k, v) == [x \in DOMAIN f \cup {k} |-> IF x \in DOMAIN f THEN f[x] ELSE v]

(* std::map::operator[] and assignment: an existing entry is replaced. *)
Put(f, k, v) == [x \in DOMAIN f \cup {k} |-> IF x = k THEN v ELSE f[x]]

Erase(f, k) == [x \in DOMAIN f \ {k} |-> f[x]]

-----------------------------------------------------------------------------
(* What allocate() may return: the back of the pool, or a new object. *)
Allocatable(s) ==
  IF s.free_list = << >> THEN Members \ s.live
                         ELSE {s.free_list[Len(s.free_list)]}

(* Mutant: the back of the pool is returned but not popped. *)
AllocateNoPop(s, m) == [s EXCEPT !.live = @ \cup {m}, !.member[m] = Blank]

(* Mutant: allocate() without _reset(). *)
AllocateNoReset(s, m) ==
  [s EXCEPT !.free_list = SubSeq(@, 1, Len(@) - 1), !.live = @ \cup {m}]

(* MemberMgr::allocate() returning m: lock_queue::allocate() and _reset(). *)
Allocate(s, m) ==
  [s EXCEPT !.free_list = SubSeq(@, 1, Len(@) - 1),
            !.live      = @ \cup {m},
            !.member[m] = Blank]

(* Mutant: the pool takes every object, whatever its size. *)
DeallcateUnbounded(s, m) == [s EXCEPT !.free_list = Append(@, m)]

(* lock_queue::deallcate(): into the pool, or deleted when the pool holds   *)
(* more than MAX_POOL_SIZE objects. The contents of a deleted object are    *)
(* nothing; they are normalised to Blank.                                   *)
Deallcate(s, m) ==
  IF MAX_POOL_SIZE < Len(s.free_list)
    THEN [s EXCEPT !.live = @ \ {m}, !.member[m] = Blank]
    ELSE [s EXCEPT !.free_list = Append(@, m)]

-----------------------------------------------------------------------------
(* MemberMgr::add_member(): an entry the pk already has is kept, and the    *)
(* object handed in is then owned by nobody.                                *)
AddMember(s, m) ==
  [s EXCEPT !.online_member = Insert(@, s.member[m].pk, m)]

Online(s, pk) == pk \in DOMAIN s.online_member

(* find_member(), where Online(s, pk). *)
FindMember(s, pk) == s.member[s.online_member[pk]]

(* Mutant: the object goes back to the pool and stays in the map. *)
DelMemberKeepEntry(s, pk) ==
  IF Online(s, pk) THEN Deallcate(s, s.online_member[pk]) ELSE s

(* online_member.erase(pk) *)
EraseMember(s, pk) == [s EXCEPT !.online_member = Erase(@, pk)]

(* Mutant: the entry is erased and the object is not given back. *)
DelMemberNoFree(s, pk) == EraseMember(s, pk)

DelMember(s, pk) ==
  IF Online(s, pk)
    THEN Deallcate(EraseMember(s, pk), s.online_member[pk]) ELSE s

(* Mutant: the asking member is not taken out of the copy. *)
RandomMemberSelf(s, pk) == {FindMember(s, k) : k \in DOMAIN s.online_member}

(* The members random_member() may return; none means nullptr. *)
RandomMember(s, pk) == {FindMember(s, k) : k \in DOMAIN s.online_member \ {pk}}

-----------------------------------------------------------------------------
(* The texts a friend may change one by one, by the name of the field. *)
Texts == [nick_name |-> Names, bio |-> Bios, signature |-> Signatures]

(* Mutant: only the database gets the new text. *)
SetFieldNowhere(s, pk, field, v) == s

(* find_member() and the setter of field, when there is a cached member. *)
SetField(s, pk, field, v) ==
  IF Online(s, pk)
    THEN [s EXCEPT !.member[s.online_member[pk]] = [@ EXCEPT ![field] = v]] ELSE s

(* A freshly allocated member filled in field by field. *)
Fill(s, m, card) == [s EXCEPT !.member[m] = card]

-----------------------------------------------------------------------------
(* Every Member object has one owner. The pool holds an object once; the    *)
(* map holds it under one key, that of its own pk; no object is in both;    *)
(* everything owned is live. A recycled object that was still reachable     *)
(* from the map would show one member's card under another member's key.    *)
OwnedOnce(s) ==
  /\ \A i, j \in 1 .. Len(s.free_list) :
       s.free_list[i] = s.free_list[j] => i = j
  /\ \A k \in DOMAIN s.online_member :
       /\ s.online_member[k] \in s.live
       /\ s.member[s.online_member[k]].pk = k
       /\ \A i \in 1 .. Len(s.free_list) : s.free_list[i] # s.online_member[k]
  /\ \A i \in 1 .. Len(s.free_list) : s.free_list[i] \in s.live
=============================================================================
