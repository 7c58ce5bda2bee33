------------------------------- MODULE DBConn -------------------------------
(***************************************************************************)
(* The connection pool (DBConn.cpp) and a call of MemberModel.cpp taken     *)
(* apart: allocate, prepare, execute, fetch, close and release, with the    *)
(* exceptions each of them can throw, the catch block, and the process      *)
(* killed between any two of them. MemberModel has such a call as one step  *)
(* with the outcomes Execute and FindFriend; here it is shown that there    *)
(* are no others.                                                           *)
(*                                                                         *)
(* The connector is outside the repository. A connection whose server went  *)
(* away says so in isClosed(). Tables are told apart only as changed or     *)
(* not: old and new.                                                        *)
(***************************************************************************)
EXTENDS MemberModel, SequencesExt, FiniteSets

CONSTANTS
  Connections,   \* the addresses of sql::Connection's; bounds the heap
  max_conn,      \* the setting of that name, 50 in config.ini
  MaxUndeleted   \* bounds the count of undeleted

ASSUME DBConnAssumption ==
  NULL \notin Connections /\ max_conn \in Nat /\ MaxUndeleted \in Nat

VARIABLES
  pc,          \* where the call is, "idle" between calls, "down" after a death
  call,        \* "update": one of the statements with a count; "find"
  free_list,   \* the pool's list
  live,        \* the connections created and not deleted
  closed,      \* those of them that are closed
  undeleted,   \* how many Statements that set up a connection were never deleted
  connection, pstmt, res, ret,   \* the local variables of the call
  old, table,  \* the table before the call and now
  new,         \* what the statement makes of it
  columns      \* find_friend: the columns read, or -1 when no row was found

conns == <<free_list, live, closed, undeleted>>
locals == <<connection, pstmt, res, ret, columns>>
tables == <<old, table, new>>
vars == <<pc, call, conns, locals, tables>>

(* What a pointer to a statement or a result set is. *)
Pointer == {"uninitialized", "alive", "deleted", "deleted twice"}

Init ==
  /\ pc = "idle" /\ call = "update"
  /\ free_list = << >> /\ live = {} /\ closed = {} /\ undeleted = 0
  /\ connection = NULL /\ pstmt = "deleted" /\ res = "deleted" /\ ret = 0
  /\ old = "old" /\ table = "old" /\ new = "old"
  /\ columns = -1

-----------------------------------------------------------------------------
OneMore(n) == IF n < MaxUndeleted THEN n + 1 ELSE n

(* _create_connection: nullptr when connecting, or setting it up, throws. A *)
(* connection that is valid is set up with a Statement that nothing deletes, *)
(* not even when the set-up throws.                                         *)
Create(others) ==
  /\ \/ \E c \in Connections \ others :
          connection' = c /\ live' = others \cup {c}
     \/ "connect" \in Faults /\ connection' = NULL /\ live' = others
  /\ closed' = closed \cap others
  /\ undeleted' \in {undeleted, OneMore(undeleted)}

(* Mutant: the back of the list is not popped. *)
AllocatePeek ==
  IF free_list = << >> THEN Create(live) /\ UNCHANGED free_list
  ELSE connection' = Last(free_list) /\ UNCHANGED conns

(* DBConn::allocate *)
AllocateConn ==
  IF free_list = << >> THEN Create(live) /\ UNCHANGED free_list
  ELSE /\ free_list' = Front(free_list)
       /\ IF Last(free_list) \in closed
            THEN Create(live \ {Last(free_list)})
            ELSE connection' = Last(free_list) /\ UNCHANGED <<live, closed, undeleted>>

(* Mutant: the connection is not given back. *)
ReleaseNothing == UNCHANGED conns

(* DBConn::release; _destroy deletes the connection unless close() throws.  *)
Release ==
  /\ IF Len(free_list) > max_conn
       THEN /\ live' \in {live \ {connection}, live}
            /\ closed' = closed \cap live' /\ UNCHANGED free_list
       ELSE free_list' = Append(free_list, connection) /\ UNCHANGED <<live, closed>>
  /\ UNCHANGED undeleted

-----------------------------------------------------------------------------
(* A call begins. Deleting a statement needs no other state of the call.    *)
Call ==
  /\ pc = "idle"
  /\ call' \in {"update", "find"}
  /\ old' = table
  /\ new' \in IF call' = "find" THEN {table} ELSE {"old", "new"}
  /\ AllocateConn
  /\ pc' = "prepare"
  /\ pstmt' = "uninitialized" /\ res' = "uninitialized"
  /\ ret' = 0 /\ columns' = -1
  /\ UNCHANGED table

Goto(label) == pc' = label /\ UNCHANGED <<call, old, new>>

(* A call that dies returns nothing. *)
Die == /\ Goto("down") /\ ret' = 0
       /\ UNCHANGED <<conns, connection, pstmt, res, columns>>

(* prepareStatement, through a pointer nobody checked. *)
Prepare ==
  /\ pc = "prepare"
  /\ IF connection = NULL THEN Die
     ELSE /\ \/ Goto("execute") /\ pstmt' = "alive"
             \/ "prepare" \in Faults /\ Goto("catch") /\ UNCHANGED pstmt
          /\ UNCHANGED <<conns, connection, res, ret, columns>>
  /\ UNCHANGED table

(* Mutant: a row that is as it was counts, too. *)
AffectedRows == 1

(* What executeUpdate returns. *)
Affected == IF new = old THEN 0 ELSE 1

(* executeUpdate *)
ExecuteUpdate ==
  /\ pc = "execute" /\ call = "update"
  /\ \/ Goto("close") /\ table' = new /\ ret' = Affected
     \/ "execute" \in Faults /\ Goto("catch") /\ UNCHANGED <<table, ret>>
     \/ "lost" \in Faults /\ Goto("catch") /\ table' = new /\ UNCHANGED ret
  /\ UNCHANGED <<conns, connection, pstmt, res, columns>>

(* executeQuery. The table holds a row for the pk in one of its two states. *)
ExecuteQuery ==
  /\ pc = "execute" /\ call = "find"
  /\ \/ /\ res' = "alive"
        /\ IF table = "new" THEN Goto("fetch") /\ columns' = 0
                            ELSE Goto("close") /\ UNCHANGED columns
     \/ /\ Faults \cap {"execute", "lost"} # {} /\ Goto("catch")
        /\ UNCHANGED <<res, columns>>
  /\ UNCHANGED <<conns, connection, pstmt, ret, table>>

(* Mutant: a column is read that the query does not select. *)
SelectedOneMore == 6

(* The columns find_friend reads. *)
Selected == 5

(* getString of the next column. *)
Fetch ==
  /\ pc = "fetch"
  /\ \/ /\ columns < Selected /\ columns' = columns + 1
        /\ Goto(IF columns' = Selected THEN "close" ELSE "fetch")
     \/ "fetch" \in Faults /\ Goto("catch") /\ UNCHANGED columns
  /\ UNCHANGED <<conns, connection, pstmt, res, ret, table>>

-----------------------------------------------------------------------------
(* delete, of a pointer that may be deleted already. *)
Delete(pointer) == IF pointer = "deleted" THEN "deleted twice" ELSE "deleted"

(* Mutant: the statement is deleted before close(), which may throw. *)
PstmtDeleted == Delete(pstmt)

(* The statement when close() throws. *)
PstmtThrown == pstmt

(* The end of the try block: close() may throw, which the catch block       *)
(* handles; nothing after it does.                                          *)
Close ==
  /\ pc = "close"
  /\ \/ /\ Goto("idle") /\ Release
        /\ pstmt' = Delete(pstmt)
        /\ res' = IF call = "find" THEN Delete(res) ELSE res
     \/ Goto("catch") /\ pstmt' = PstmtThrown /\ UNCHANGED <<conns, res>>
  /\ UNCHANGED <<connection, ret, columns, table>>

(* The pointers the catch block of the call deletes. *)
Deleted == IF call = "find" THEN {pstmt, res} ELSE {pstmt}

(* The catch block. Deleting a pointer that was never initialised is        *)
(* undefined: the process dies, or goes on.                                 *)
Catch ==
  /\ pc = "catch"
  /\ \/ "uninitialized" \in Deleted /\ Die
     \/ /\ Goto("idle") /\ Release
        /\ pstmt' = Delete(pstmt)
        /\ res' = IF call = "find" THEN Delete(res) ELSE res
        /\ UNCHANGED <<connection, ret, columns>>
  /\ UNCHANGED table

-----------------------------------------------------------------------------
(* The server goes away: a connection in the pool is closed. *)
Lose ==
  /\ pc = "idle"
  /\ \E c \in Range(free_list) \ closed : closed' = closed \cup {c}
  /\ UNCHANGED <<pc, call, free_list, live, undeleted, locals, tables>>

Kill == pc \notin {"idle", "down"} /\ Die /\ UNCHANGED table

(* A new process has an empty pool. *)
Restart ==
  /\ pc = "down"
  /\ pc' = "idle"
  /\ free_list' = << >> /\ live' = {} /\ closed' = {} /\ undeleted' = 0
  /\ connection' = NULL /\ pstmt' = "deleted" /\ res' = "deleted"
  /\ ret' = 0 /\ columns' = -1
  /\ call' = "update" /\ old' = table /\ new' = table /\ UNCHANGED table

Next ==
  \/ Call \/ Prepare \/ ExecuteUpdate \/ ExecuteQuery \/ Fetch \/ Close \/ Catch
  \/ Lose \/ Kill \/ Restart

Spec == Init /\ [][Next]_vars

-----------------------------------------------------------------------------
TypeOK ==
  /\ pc \in {"idle", "prepare", "execute", "fetch", "close", "catch", "down"}
  /\ call \in {"update", "find"}
  /\ free_list \in Seq(Connections)
  /\ live \subseteq Connections /\ closed \subseteq live
  /\ undeleted \in 0 .. MaxUndeleted
  /\ connection \in Connections \cup {NULL}
  /\ {pstmt, res} \subseteq Pointer
  /\ ret \in {0, 1} /\ columns \in -1 .. 5
  /\ {old, table, new} \subseteq {"old", "new"}

(* The program never has more than one connection open: calls do not nest,  *)
(* every call gives back what it took, and a closed one is deleted before   *)
(* another is made. max_conn is never reached.                              *)
OneConnection == Cardinality(live) <= 1 /\ Len(free_list) <= 1

(* Between calls no connection is lost: whichever step of the last one      *)
(* threw, what is open is in the pool.                                      *)
ConnectionsReturned == pc = "idle" => live = Range(free_list)

(* A statement or result set that a call made, its pstmt or res, is deleted *)
(* once, on every path through the try and the catch block. The Statement   *)
(* that sets up a connection is none of these: it is never deleted.         *)
DeletedOnce ==
  /\ "deleted twice" \notin {pstmt, res}
  /\ pc = "idle" => "alive" \notin {pstmt, res}

(* Taken as a whole, a call that changes the table has the outcomes Execute *)
(* has in MemberModel, or the process died as in Assisant's Crash.          *)
UpdateIsAtomic ==
  call = "update" /\ pc \in {"idle", "down"} =>
    [up |-> pc = "idle", table |-> table, ret |-> ret] \in
       Execute(old, new) \cup {[up |-> FALSE, table |-> old, ret |-> 0]}

(* So has find_friend those of FindFriend: the row a friend may have, and   *)
(* the member as far as its columns were read.                              *)
FindIsAtomic ==
  call = "find" /\ pc \in {"idle", "down"} =>
    \A p \in Users, m \in Members, t \in TokIds, s \in Signatures :
      LET row   == Record(t, Empty, Empty, s, 0, 0)
          rows  == [k \in IF table = "new" THEN {p} ELSE {} |-> row]
          found == IF pc = "down" \/ columns = -1
                     THEN Found(pc = "idle", NULL, InitMgr)
                     ELSE Found(TRUE, m, Fill(Allocate(InitMgr, m), m,
                                              Loaded(p, row, columns)))
      IN found \in FindFriend(rows, InitMgr, p) \cup {Found(FALSE, NULL, InitMgr)}
=============================================================================
