---------------------------- MODULE AvatarProofs ----------------------------
(***************************************************************************)
(* The avatar, for any users and images, any size of a chunk and any number *)
(* of open transfers.                                                       *)
(*                                                                         *)
(* Why no transfer mixes two images: as long as an offer of some bytes is   *)
(* open the image in memory is the one it was made with, because an image   *)
(* in memory that has bytes is never read again. What the invariant has to  *)
(* say besides is that an offer of nothing never comes to a chunk.          *)
(***************************************************************************)
EXTENDS Avatar, TLAPS

USE AvatarAssumption

Transfers ==
  [to : Users, nr : Numbers, hash : Images \cup {Garbage}, size : Nat,
   position : Nat, sent : SUBSET (Images \cup {Garbage}), refused : BOOLEAN]

(* An offer of some bytes is of the image in memory. *)
Held(t) ==
  /\ t \in Transfers
  /\ t.position <= t.size
  /\ t.size > 0 => avatar_data = t.hash /\ avatar_data_size = t.size
  /\ t.size = 0 => t.sent = {}

(* What SentAsOffered and NothingRefused say of one transfer. *)
Whole(t) == t.sent \subseteq {t.hash} /\ t.refused = FALSE

Memory ==
  /\ file \in Images \cup {NULL}
  /\ avatar_data \in Images \cup {Garbage, NULL}
  /\ avatar_data_size \in Nat
  /\ SizeIsOfBuffer

IInv == Memory /\ \A t \in transfers : Held(t) /\ Whole(t)

-----------------------------------------------------------------------------
(* Whatever Load does, the memory is sound after it, and an image that has  *)
(* bytes is left alone.                                                     *)
LEMMA LoadLemma ==
  ASSUME Memory, Load, file' = file
  PROVE  /\ Memory'
         /\ avatar_data # NULL /\ avatar_data_size > 0 =>
              UNCHANGED <<avatar_data, avatar_data_size>>
<1>1. CASE avatar_data = NULL \/ avatar_data_size = 0
  <2>1. PICK r \in GetData : avatar_data' = r[1] /\ avatar_data_size' = r[2]
    BY <1>1 DEF Load, Read
  <2>2. CASE r = <<NULL, avatar_data_size>>
    BY <1>1, <2>1, <2>2 DEF Memory, SizeIsOfBuffer
  <2>3. CASE file # NULL /\ \E i \in {file, Garbage} : r = <<i, Size[file]>>
    BY <1>1, <2>1, <2>3 DEF Memory, SizeIsOfBuffer
  <2> QED BY <2>1, <2>2, <2>3 DEF GetData
<1>2. CASE ~(avatar_data = NULL \/ avatar_data_size = 0)
  BY <1>2 DEF Load, Memory, SizeIsOfBuffer
<1> QED BY <1>1, <1>2

(* So the offers that are open stay what they are.                          *)
LEMMA HeldLemma ==
  ASSUME IInv, Load, NEW t \in transfers
  PROVE  /\ Held(t)'
         /\ t.size > 0 => UNCHANGED <<avatar_data, avatar_data_size>>
<1>1. /\ t \in Transfers /\ t.size \in Nat /\ t.hash # NULL
      /\ t.size > 0 => avatar_data = t.hash /\ avatar_data_size = t.size
      /\ avatar_data_size \in Nat
  BY DEF IInv, Held, Transfers, Memory
<1>2. t.size > 0 => UNCHANGED <<avatar_data, avatar_data_size>>
  BY <1>1 DEF Load
<1> QED BY <1>1, <1>2 DEF IInv, Held

LEMMA ConnectLemma ==
  ASSUME IInv, NEW p \in Users, Connect(p)
  PROVE  IInv'
<1>1. Load /\ file' = file
  BY DEF Connect
<1>2. Memory'
  BY <1>1, LoadLemma DEF IInv
<1>3. \A t \in transfers : Held(t)' /\ Whole(t)
  BY <1>1, HeldLemma DEF IInv
<1>4. CASE UNCHANGED transfers
  BY <1>2, <1>3, <1>4 DEF IInv, Held, Whole
<1>5. CASE ~UNCHANGED transfers
  <2>1. avatar_data' # NULL
    BY <1>5 DEF Connect, Offers
  <2>2. PICK n \in Numbers :
          transfers' = transfers \cup
            {Transfer(p, n, avatar_data', avatar_data_size', 0, {}, FALSE)}
    BY <1>5 DEF Connect, FreeNumbers
  <2>3. PICK t : t = Transfer(p, n, avatar_data', avatar_data_size', 0, {}, FALSE)
    OBVIOUS
  <2>4. /\ avatar_data' \in Images \cup {Garbage} /\ avatar_data_size' \in Nat
        /\ t.position = 0 /\ t.sent = {} /\ t.refused = FALSE
        /\ t.hash = avatar_data' /\ t.size = avatar_data_size'
    BY <1>2, <2>1, <2>3 DEF Transfer, Memory
  <2>5. t \in Transfers
    <3>1. {} \in SUBSET (Images \cup {Garbage}) /\ 0 \in Nat /\ FALSE \in BOOLEAN
      OBVIOUS
    <3> QED BY <2>3, <2>4, <3>1 DEF Transfer, Transfers
  <2>6. Held(t)' /\ Whole(t)
    BY <2>4, <2>5 DEF Held, Whole
  <2>7. transfers' = transfers \cup {t}
    BY <2>2, <2>3
  <2> QED BY <1>2, <1>3, <2>6, <2>7 DEF IInv, Held, Whole
<1> QED BY <1>4, <1>5

(* Every chunk toxcore asks for is in the buffer.                           *)
LEMMA ChunkRequestLemma ==
  ASSUME IInv, NEW t \in transfers, ChunkRequest(t)
  PROVE  IInv'
<1>1. Load /\ file' = file /\ Length(t) > 0
  BY DEF ChunkRequest
<1>2. Memory'
  BY <1>1, LoadLemma DEF IInv
<1>3. \A u \in transfers : Held(u)' /\ Whole(u)
  BY <1>1, HeldLemma DEF IInv
<1>4. /\ t \in Transfers /\ t.size \in Nat /\ t.position \in Nat
      /\ t.position <= t.size /\ t.sent \subseteq {t.hash} /\ t.refused = FALSE
  BY DEF IInv, Held, Whole, Transfers
<1>5. /\ Length(t) \in Nat /\ t.position + Length(t) <= t.size
      /\ t.size > 0
  BY <1>1, <1>4 DEF Length
<1>6. avatar_data' = t.hash /\ avatar_data_size' = t.size
  BY <1>1, <1>5, HeldLemma DEF Held
<1>7. ~TooLong(t)
  BY <1>4, <1>5, <1>6 DEF TooLong
<1>8. PICK u \in {[Asked(t) EXCEPT !.sent = @ \cup {avatar_data'}], Asked(t)} :
        transfers' = (transfers \ {t}) \cup {u}
  BY <1>7 DEF ChunkRequest, Replace
<1>9. /\ u \in Transfers /\ u.position = t.position + Length(t)
      /\ u.size = t.size /\ u.hash = t.hash /\ u.refused = FALSE
      /\ u.sent \subseteq {t.hash}
  <2>1. /\ Asked(t) \in Transfers /\ Asked(t).position = t.position + Length(t)
        /\ Asked(t).size = t.size /\ Asked(t).hash = t.hash
        /\ Asked(t).refused = t.refused /\ Asked(t).sent = t.sent
    BY <1>4, <1>5 DEF Asked, Transfers
  <2>2. CASE u = Asked(t)
    BY <1>4, <2>1, <2>2
  <2>3. CASE u = [Asked(t) EXCEPT !.sent = @ \cup {avatar_data'}]
    <3>1. t.hash \in Images \cup {Garbage} /\ t.sent \subseteq Images \cup {Garbage}
      BY <1>4 DEF Transfers
    <3> HIDE DEF Asked
    <3> QED BY <1>4, <1>6, <2>1, <2>3, <3>1 DEF Transfers
  <2> QED BY <2>2, <2>3
<1>10. Held(u)' /\ Whole(u)
  BY <1>5, <1>6, <1>9 DEF Held, Whole
<1> QED BY <1>2, <1>3, <1>8, <1>10 DEF IInv, Held, Whole

-----------------------------------------------------------------------------
LEMMA InitLemma == Init => IInv
BY DEF Init, IInv, Memory, SizeIsOfBuffer

LEMMA StepLemma == IInv /\ [Next]_vars => IInv'
<1> SUFFICES ASSUME IInv, [Next]_vars PROVE IInv'
  OBVIOUS
<1>1. CASE ReplaceFile
  BY <1>1 DEF ReplaceFile, IInv, Memory, SizeIsOfBuffer, Held, Whole
<1>2. ASSUME NEW p \in Users, Connect(p)
      PROVE  IInv'
  BY <1>2, ConnectLemma
<1>3. ASSUME NEW p \in Users, Disconnect(p)
      PROVE  IInv'
  BY <1>3 DEF Disconnect, IInv, Memory, SizeIsOfBuffer, Held, Whole
<1>4. ASSUME NEW t \in transfers, ChunkRequest(t)
      PROVE  IInv'
  BY <1>4, ChunkRequestLemma
<1>5. ASSUME NEW t \in transfers, ChunkRequestEnd(t)
      PROVE  IInv'
  BY <1>5 DEF ChunkRequestEnd, IInv, Memory, SizeIsOfBuffer, Held, Whole
<1>6. CASE UNCHANGED vars
  BY <1>6 DEF vars, IInv, Memory, SizeIsOfBuffer, Held, Whole
<1> QED BY <1>1, <1>2, <1>3, <1>4, <1>5, <1>6 DEF Next, Serve

LEMMA Invariance == Spec => []IInv
BY InitLemma, StepLemma, PTL DEF Spec

(* Every variable keeps its type, and no transfer is served past its end.   *)
THEOREM TypeCorrect == Spec => []TypeOK
<1>1. IInv => TypeOK
  BY DEF IInv, Memory, Held, Transfers, TypeOK
<1> QED BY <1>1, Invariance, PTL

(* The size get_data reports is that of the buffer it leaves.               *)
THEOREM BufferHasSize == Spec => []SizeIsOfBuffer
<1>1. IInv => SizeIsOfBuffer
  BY DEF IInv, Memory
<1> QED BY <1>1, Invariance, PTL

(* The bytes a friend is sent are those of the image it was offered.        *)
THEOREM OneImagePerTransfer == Spec => []SentAsOffered
<1>1. IInv => SentAsOffered
  BY DEF IInv, Whole, SentAsOffered
<1> QED BY <1>1, Invariance, PTL

(* The bot refuses no chunk toxcore asks for.                               *)
THEOREM EveryChunkInBuffer == Spec => []NothingRefused
<1>1. IInv => NothingRefused
  BY DEF IInv, Whole, NothingRefused
<1> QED BY <1>1, Invariance, PTL
=============================================================================
