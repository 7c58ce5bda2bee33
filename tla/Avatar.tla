------------------------------- MODULE Avatar -------------------------------
(***************************************************************************)
(* The bot's avatar: read from its file by get_data, kept in avatar_data,   *)
(* offered to every friend that connects and sent chunk by chunk            *)
(* (tox_friend_connection_status_callback and file_chunk_request_cb,        *)
(* Assisant.cpp).                                                           *)
(*                                                                         *)
(* The file can be replaced at any time. An image is a model value with a   *)
(* size; a buffer that fread could not fill holds the image Garbage. The    *)
(* transfer itself is toxcore's: it asks for the chunks in order, the last  *)
(* one the rest, then once with length 0; it asks again for nothing.        *)
(***************************************************************************)
EXTENDS Integers, FiniteSets

CONSTANTS
  Users,
  Images, Garbage, NULL,
  Size,           \* image -> size of the file, 0 for some
  Chunk,          \* the size toxcore's chunks have
  MaxTransfers,   \* how many offers to one friend toxcore keeps open
  SendFails       \* tox_file_send and tox_file_send_chunk may fail

ASSUME AvatarAssumption ==
  /\ {NULL, Garbage} \cap Images = {} /\ NULL # Garbage
  /\ Size \in [Images -> Nat]
  /\ Chunk \in Nat \ {0} /\ MaxTransfers \in Nat /\ SendFails \in BOOLEAN

VARIABLES
  file,               \* the image in the avatar file, or NULL
  avatar_data,        \* the image in memory, or NULL
  avatar_data_size,
  transfers           \* the offers toxcore is serving

vars == <<file, avatar_data, avatar_data_size, transfers>>

(* An offer: the image hashed for it and the size given with it; the next   *)
(* position toxcore asks for. History: the images that chunks were sent of, *)
(* and whether the bot refused one.                                         *)
Transfer(to, nr, hash, size, position, sent, refused) ==
  [to |-> to, nr |-> nr, hash |-> hash, size |-> size, position |-> position,
   sent |-> sent, refused |-> refused]

Init ==
  /\ file \in Images \cup {NULL}
  /\ avatar_data = NULL /\ avatar_data_size = 0
  /\ transfers = {}

-----------------------------------------------------------------------------
(* Mutant: the size is set although there is no memory for the image. *)
GetDataSizeFirst ==
  {<<NULL, avatar_data_size>>} \cup
    (IF file = NULL THEN {} ELSE {<<i, Size[file]>> : i \in {file, Garbage, NULL}})

(* What get_data may leave in avatar_data and avatar_data_size: nothing,    *)
(* when the file does not open or malloc fails, the size then unchanged.    *)
GetData ==
  {<<NULL, avatar_data_size>>} \cup
    (IF file = NULL THEN {} ELSE {<<i, Size[file]>> : i \in {file, Garbage}})

Read == \E r \in GetData : avatar_data' = r[1] /\ avatar_data_size' = r[2]

(* Mutant: the image is read again whenever it is used. *)
LoadAlways ==
  \/ Read /\ avatar_data' # NULL
  \/ UNCHANGED <<avatar_data, avatar_data_size>>

Load ==
  IF avatar_data = NULL \/ avatar_data_size = 0
    THEN Read ELSE UNCHANGED <<avatar_data, avatar_data_size>>

OffersTo(p) == {t \in transfers : t.to = p}
Numbers == 1 .. MaxTransfers
FreeNumbers(p) == {n \in Numbers : \A t \in OffersTo(p) : t.nr # n}

(* Mutant: the image is offered whether there is one or not. *)
OffersAlways(data) == TRUE

Offers(data) == data # NULL

(* tox_friend_connection_status_callback, friend online. An offer may be    *)
(* open already: the connection went from TCP to UDP.                       *)
Connect(p) ==
  /\ Load
  /\ \/ /\ Offers(avatar_data')
        /\ \E n \in FreeNumbers(p) :
             transfers' = transfers \cup
               {Transfer(p, n, avatar_data', avatar_data_size', 0, {}, FALSE)}
     \/ ~Offers(avatar_data') /\ UNCHANGED transfers
     \/ (SendFails \/ FreeNumbers(p) = {}) /\ UNCHANGED transfers
  /\ UNCHANGED file

(* toxcore drops the offers to a friend that goes. *)
Disconnect(p) ==
  /\ OffersTo(p) # {}
  /\ transfers' = transfers \ OffersTo(p)
  /\ UNCHANGED <<file, avatar_data, avatar_data_size>>

(* The avatar file is replaced, or removed. *)
ReplaceFile ==
  /\ file' \in (Images \cup {NULL}) \ {file}
  /\ UNCHANGED <<avatar_data, avatar_data_size, transfers>>

-----------------------------------------------------------------------------
Length(t) == IF t.size - t.position < Chunk THEN t.size - t.position ELSE Chunk

Replace(t, u) == transfers' = (transfers \ {t}) \cup {u}

(* file_chunk_request_cb with length 0: toxcore has sent everything. *)
ChunkRequestEnd(t) ==
  /\ Length(t) = 0
  /\ transfers' = transfers \ {t}
  /\ UNCHANGED <<file, avatar_data, avatar_data_size>>

(* Mutant: >= for >, which the comment on the line asks about. *)
TooLongOrEqual(t) == t.position + Length(t) >= avatar_data_size'

TooLong(t) == t.position + Length(t) > avatar_data_size'

Asked(t) == [t EXCEPT !.position = @ + Length(t)]

(* file_chunk_request_cb: the chunk is sent, or refused by toxcore or by    *)
(* the bot, in which cases nobody sends it later.                           *)
ChunkRequest(t) ==
  /\ Length(t) > 0
  /\ Load
  /\ \/ ~TooLong(t) /\ Replace(t, [Asked(t) EXCEPT !.sent = @ \cup {avatar_data'}])
     \/ ~TooLong(t) /\ SendFails /\ Replace(t, Asked(t))
     \/ TooLong(t) /\ Replace(t, [Asked(t) EXCEPT !.refused = TRUE])
  /\ UNCHANGED file

Serve(t) == ChunkRequest(t) \/ ChunkRequestEnd(t)

Next ==
  \/ ReplaceFile
  \/ \E p \in Users : Connect(p) \/ Disconnect(p)
  \/ \E t \in transfers : Serve(t)

Spec == Init /\ [][Next]_vars

-----------------------------------------------------------------------------
TypeOK ==
  /\ file \in Images \cup {NULL}
  /\ avatar_data \in Images \cup {Garbage, NULL}
  /\ avatar_data_size \in Nat
  /\ \A t \in transfers :
       /\ t.to \in Users /\ t.nr \in Numbers
       /\ t.hash \in Images \cup {Garbage}
       /\ t.size \in Nat /\ t.position \in 0 .. t.size
       /\ t.sent \subseteq Images \cup {Garbage} /\ t.refused \in BOOLEAN

(* memcpy never reads past the buffer or from nullptr: without a buffer the *)
(* size is 0, and a buffer of an image has the size of the image. The two   *)
(* are set apart, one by get_data's result and one by its out parameter.    *)
SizeIsOfBuffer ==
  /\ avatar_data = NULL => avatar_data_size = 0
  /\ avatar_data \in Images => avatar_data_size = Size[avatar_data]

(* Whatever happens to the file while a friend fetches the avatar, and      *)
(* however many fetch it, the bytes sent are those of the image whose hash  *)
(* was offered: the friend never puts two images together.                  *)
SentAsOffered == \A t \in transfers : t.sent \subseteq {t.hash}

(* No chunk toxcore asks for is refused as too long: the size offered never *)
(* exceeds the buffer, and a friend misses a chunk only when toxcore cannot *)
(* queue it.                                                                *)
NothingRefused == \A t \in transfers : ~t.refused
=============================================================================
