----------------------------- MODULE MemberModel -----------------------------
(***************************************************************************)
(* Table t_tokme_member and the statements MemberModel.cpp runs on it.      *)
(*                                                                         *)
(* A table is a function from the pk's that have a row (pk is a UNIQUE KEY) *)
(* to the row. The database outlives the process. MySQL is outside the      *)
(* repository: its statements are modelled as the code uses them, its       *)
(* affected-row count as the default of Connector/C++, which counts the     *)
(* rows a statement changes.                                                *)
(*                                                                         *)
(* A call can go wrong at each point of its try block. Faults says which of *)
(* these the environment may inject:                                        *)
(*   connect  DBConn::allocate() returned nullptr; it is dereferenced       *)
(*   prepare  prepareStatement threw: the catch block deletes pstmt (and,   *)
(*            in find_friend, res), never initialised. What that does is    *)
(*            undefined: the process dies or it goes on                     *)
(*   execute  the statement threw and was not applied                       *)
(*   lost     the statement threw after the server had applied it           *)
(*   kill     the process was killed after the statement was applied        *)
(*   fetch    reading a column of the row found threw                       *)
(* close() throwing after the statement is the same as success: ret and the *)
(* member have been set. "send" is the refusal of tox_friend_send_message,  *)
(* "rename" that of renaming the savedata file into place.                  *)
(***************************************************************************)
EXTENDS MemberMgr

CONSTANTS
  Faults    \* the faults the environment may inject

FaultKinds ==
  {"connect", "prepare", "execute", "lost", "kill", "fetch", "send", "rename"}

ASSUME MemberModelAssumption == Faults \subseteq FaultKinds

(* A row of t_tokme_member, without its pk. *)
Record(tok_id, nick_name, bio, signature, create_time, update_time) ==
  [tok_id |-> tok_id, nick_name |-> nick_name, bio |-> bio,
   signature |-> signature,
   create_time |-> create_time, update_time |-> update_time]

(* add_friend: REPLACE INTO deletes the old row; the columns the statement  *)
(* does not name (signature) take their default.                            *)
ReplaceRow(table, pk, tok_id, nick_name, bio, time) ==
  Put(table, pk, Record(tok_id, nick_name, bio, Empty, time, time))

(* del_friend *)
DeleteRow(table, pk) == Erase(table, pk)

(* Mutant: the text is bound to no column. *)
UpdateTimeOnly(table, pk, column, v, time) ==
  IF pk \in DOMAIN table
    THEN [table EXCEPT ![pk] = [@ EXCEPT !.update_time = time]] ELSE table

(* update_friend_signature, update_friend_bio, update_friend_name: the same  *)
(* statement but for the column.                                            *)
UpdateColumn(table, pk, column, v, time) ==
  IF pk \in DOMAIN table
    THEN [table EXCEPT ![pk] = [@ EXCEPT ![column] = v, !.update_time = time]]
    ELSE table

-----------------------------------------------------------------------------
(* Calls that fail: the process lives on for each alive, ret is 0. *)
Failed(kind, table, alive) ==
  IF kind \in Faults
    THEN {[up |-> a, table |-> table, ret |-> 0] : a \in alive} ELSE {}

(* The outcomes of a statement that takes the table from old to new; ret is *)
(* what executeUpdate() returned.                                           *)
Execute(old, new) ==
  {[up |-> TRUE, table |-> new, ret |-> IF new = old THEN 0 ELSE 1]}
    \cup Failed("connect", old, {FALSE})
    \cup Failed("prepare", old, BOOLEAN)
    \cup Failed("execute", old, {TRUE})
    \cup Failed("lost", new, {TRUE})
    \cup Failed("kill", new, {FALSE})

-----------------------------------------------------------------------------
(* The member as find_friend leaves it after reading n of the columns, in   *)
(* the order pk, tok_id, bio, signature, nick_name.                         *)
Loaded(pk, row, n) ==
  Card(IF n >= 1 THEN pk ELSE Empty,
       IF n >= 2 THEN row.tok_id ELSE Empty,
       IF n >= 5 THEN row.nick_name ELSE Empty,
       IF n >= 3 THEN row.bio ELSE Empty,
       IF n >= 4 THEN row.signature ELSE Empty)

Found(up, member, s) == [up |-> up, member |-> member, mgr |-> s]

(* A row was found, and n of its columns could be read. *)
FoundRow(table, s, pk, n) ==
  {Found(TRUE, m, Fill(Allocate(s, m), m, Loaded(pk, table[pk], n))) :
     m \in Allocatable(s)}

FoundNothing(s, alive) == {Found(a, NULL, s) : a \in alive}

(* Mutant: the signature column is not read. *)
FindFriendNoSignature(table, s, pk) ==
  IF pk \in DOMAIN table THEN FoundRow(table, s, pk, 3) ELSE FoundNothing(s, {TRUE})

(* Mutant: every call allocates, whether there is a row or not. *)
FindFriendAlways(table, s, pk) ==
  {Found(TRUE, m, Fill(Allocate(s, m), m, Card(pk, Empty, Empty, Empty, Empty))) :
     m \in Allocatable(s)}

(* The number of columns find_friend may read before one throws. *)
ColumnsRead == IF "fetch" \in Faults THEN 0 .. 5 ELSE {5}

(* The outcomes of find_friend: whether the process survives, the Member    *)
(* returned or NULL, and the pool the Member was allocated from.            *)
FindFriend(table, s, pk) ==
  (IF pk \in DOMAIN table
     THEN UNION {FoundRow(table, s, pk, n) : n \in ColumnsRead}
     ELSE FoundNothing(s, {TRUE}))
    \cup (IF Faults \cap {"prepare", "execute", "lost"} # {}
            THEN FoundNothing(s, BOOLEAN) ELSE {})
    \cup (IF "connect" \in Faults THEN FoundNothing(s, {FALSE}) ELSE {})
=============================================================================
