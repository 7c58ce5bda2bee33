---------------------------- MODULE DBConnProofs ----------------------------
(***************************************************************************)
(* The connection pool and a database call taken apart, for any set of      *)
(* connections, any max_conn and any faults. The inductive invariant says   *)
(* where the connection is, what the pointers of the call are and what the  *)
(* call has done so far, each by the place the call has reached.            *)
(***************************************************************************)
EXTENDS DBConn, SequenceTheorems, FiniteSetTheorems, TLAPS

USE MemberMgrAssumption, MemberModelAssumption, DBConnAssumption

(* The call has taken what connection there is out of the pool. *)
Borrowed ==
  /\ free_list = << >>
  /\ live = IF connection = NULL THEN {} ELSE {connection}

(* The connection there is, if any, is in the pool. *)
Pooled ==
  \/ live = {} /\ free_list = << >>
  \/ \E c \in Connections : live = {c} /\ free_list = <<c>>

ConnectionInv ==
  /\ IF pc = "idle" THEN Pooled ELSE Borrowed
  /\ pc \in {"execute", "fetch", "close", "catch"} => connection # NULL

(* What the try block has made, the end of it or the catch block deletes.   *)
PointerInv ==
  /\ "deleted twice" \notin {pstmt, res}
  /\ pc = "idle" => pstmt = "deleted" /\ res \in {"deleted", "uninitialized"}
  /\ pc = "prepare" => pstmt = "uninitialized"
  /\ pc \in {"execute", "fetch", "close"} => pstmt = "alive"
  /\ pc \in {"prepare", "execute"} => res = "uninitialized"
  /\ pc = "fetch" => call = "find" /\ res = "alive"
  /\ pc = "close" => res = IF call = "find" THEN "alive" ELSE "uninitialized"
  /\ pc = "catch" => /\ {pstmt, res} \subseteq {"uninitialized", "alive"}
                     /\ call = "update" => res = "uninitialized"

Outcome == [up |-> TRUE, table |-> table, ret |-> ret]

(* What a statement with a count has done to the table. *)
UpdateInv ==
  call = "update" =>
    /\ table \in {old, new}
    /\ pc \in {"prepare", "execute"} => table = old
    /\ pc \in {"prepare", "execute", "down"} => ret = 0
    /\ pc = "close" => table = new /\ ret = IF new = old THEN 0 ELSE 1
    /\ pc \in {"catch", "idle"} => Outcome \in Execute(old, new)

Throws == Faults \cap {"prepare", "execute", "lost"} # {}

(* How far find_friend has come in the row, if there is one. *)
FindInv ==
  call = "find" =>
    /\ pc \in {"prepare", "execute"} => columns = -1
    /\ pc = "fetch" => columns \in 0 .. 4 /\ table = "new"
    /\ pc = "close" => \/ columns = -1 /\ table # "new"
                       \/ columns = 5 /\ table = "new"
    /\ pc \in {"catch", "idle"} => \/ columns = -1 /\ (table # "new" \/ Throws)
                                   \/ columns \in ColumnsRead /\ table = "new"

IInv == TypeOK /\ ConnectionInv /\ PointerInv /\ UpdateInv /\ FindInv

-----------------------------------------------------------------------------
(* A pool of one connection.                                                *)
LEMMA OneLemma ==
  ASSUME NEW c
  PROVE  /\ Len(<<c>>) = 1 /\ Last(<<c>>) = c /\ Front(<<c>>) = << >>
         /\ Append(<< >>, c) = <<c>> /\ <<c>> # << >> /\ Range(<<c>>) = {c}
<1>1. Len(<<c>>) = 1 /\ <<c>>[1] = c /\ <<c>> # << >>
  OBVIOUS
<1>2. Last(<<c>>) = c
  BY <1>1 DEF Last
<1>3. Front(<<c>>) = << >>
  <2>1. Front(<<c>>) = SubSeq(<<c>>, 1, 0)
    BY <1>1 DEF Front
  <2> QED BY <2>1, SubSeqEmpty
<1>4. Append(<< >>, c) = <<c>>
  OBVIOUS
<1>5. Range(<<c>>) = {c}
  BY <1>1 DEF Range
<1> QED BY <1>1, <1>2, <1>3, <1>4, <1>5

LEMMA TypeLemma ==
  << >> \in Seq(Connections) /\ -1 \in -1 .. 5 /\ 0 \in 0 .. MaxUndeleted
OBVIOUS

(* allocate() leaves no connection behind in the pool.                      *)
LEMMA AllocateConnLemma ==
  ASSUME TypeOK, Pooled, AllocateConn
  PROVE  /\ Borrowed'
         /\ free_list' \in Seq(Connections)
         /\ live' \subseteq Connections /\ closed' \subseteq live'
         /\ undeleted' \in 0 .. MaxUndeleted
         /\ connection' \in Connections \cup {NULL}
<1> USE DEF Create, Borrowed
<1>0. undeleted \in 0 .. MaxUndeleted /\ OneMore(undeleted) \in 0 .. MaxUndeleted
  BY DEF TypeOK, OneMore
<1>1. CASE free_list = << >>
  <2>1. live = {} /\ closed = {}
    BY <1>1, OneLemma DEF Pooled, TypeOK
  <2> QED BY <1>0, <1>1, <2>1 DEF AllocateConn, TypeOK
<1>2. CASE free_list # << >>
  <2>1. PICK c \in Connections : live = {c} /\ free_list = <<c>>
    BY <1>2 DEF Pooled
  <2>2. /\ free_list' = << >>
        /\ IF c \in closed
             THEN Create(live \ {c})
             ELSE connection' = c /\ UNCHANGED <<live, closed, undeleted>>
    BY <1>2, <2>1, OneLemma DEF AllocateConn
  <2>3. live \ {c} = {} /\ closed \subseteq {c}
    BY <2>1 DEF TypeOK
  <2> QED BY <1>0, <2>1, <2>2, <2>3 DEF TypeOK
<1> QED BY <1>1, <1>2

(* release() gives the one connection back, max_conn being no less than 0.  *)
LEMMA ReleaseLemma ==
  ASSUME TypeOK, Borrowed, connection # NULL, Release
  PROVE  /\ Pooled'
         /\ free_list' \in Seq(Connections)
         /\ live' = live /\ closed' = closed /\ undeleted' = undeleted
<1>1. ~(Len(free_list) > max_conn)
  BY DEF Borrowed
<1>2. free_list' = <<connection>> /\ live' = live /\ closed' = closed
      /\ undeleted' = undeleted
  BY <1>1, OneLemma DEF Release, Borrowed
<1>3. connection \in Connections
  BY DEF TypeOK
<1>4. <<connection>> \in Seq(Connections)
  BY <1>3
<1> QED BY <1>2, <1>3, <1>4 DEF Pooled, Borrowed

(* Deleting what is not deleted deletes it.                                 *)
LEMMA DeleteLemma ==
  \A pointer : pointer # "deleted" => Delete(pointer) = "deleted"
BY DEF Delete

-----------------------------------------------------------------------------
LEMMA CallLemma ==
  ASSUME IInv, Call
  PROVE  IInv'
<1>1. TypeOK /\ Pooled
  BY DEF IInv, ConnectionInv, Call
<1>2. /\ Borrowed'
      /\ free_list' \in Seq(Connections)
      /\ live' \subseteq Connections /\ closed' \subseteq live'
      /\ undeleted' \in 0 .. MaxUndeleted
      /\ connection' \in Connections \cup {NULL}
  BY <1>1, AllocateConnLemma DEF Call
<1>3. TypeOK'
  <2>1. {old', table', new'} \subseteq {"old", "new"} /\ call' \in {"update", "find"}
    BY <1>1 DEF Call, TypeOK
  <2>2. {pstmt', res'} \subseteq Pointer /\ pc' = "prepare" /\ ret' = 0 /\ columns' = -1
    BY DEF Call, Pointer
  <2> QED BY <1>2, <2>1, <2>2, TypeLemma DEF TypeOK
<1>4. ConnectionInv'
  BY <1>2 DEF Call, ConnectionInv
<1>5. PointerInv'
  BY DEF Call, PointerInv
<1>6. UpdateInv' /\ FindInv'
  BY DEF Call, UpdateInv, FindInv
<1> QED BY <1>3, <1>4, <1>5, <1>6 DEF IInv

LEMMA DieLemma ==
  ASSUME IInv, pc # "idle", Die, table' = table
  PROVE  IInv'
<1> USE DEF Die, Goto, conns
<1>1. TypeOK'
  BY DEF IInv, TypeOK, Pointer
<1>2. ConnectionInv'
  BY DEF IInv, ConnectionInv, Borrowed
<1>3. PointerInv'
  BY DEF IInv, PointerInv
<1>4. UpdateInv' /\ FindInv'
  BY DEF IInv, UpdateInv, FindInv
<1> QED BY <1>1, <1>2, <1>3, <1>4 DEF IInv

LEMMA PrepareLemma ==
  ASSUME IInv, Prepare
  PROVE  IInv'
<1>1. CASE connection = NULL
  BY <1>1, DieLemma DEF Prepare
<1>2. CASE connection # NULL
  <2> USE <1>2 DEF Prepare, Goto, conns
  <2>1. TypeOK'
    BY DEF IInv, TypeOK, Pointer
  <2>2. ConnectionInv'
    BY DEF IInv, ConnectionInv, Borrowed
  <2>3. PointerInv'
    BY DEF IInv, PointerInv
  <2>4. UpdateInv'
    <3>1. "prepare" \in Faults => [up |-> TRUE, table |-> old, ret |-> 0] \in Execute(old, new)
      BY DEF Execute, Failed
    <3> QED BY <3>1 DEF IInv, UpdateInv, Outcome
  <2>5. FindInv'
    BY DEF IInv, FindInv, Throws
  <2> QED BY <2>1, <2>2, <2>3, <2>4, <2>5 DEF IInv
<1> QED BY <1>1, <1>2

LEMMA ExecuteUpdateLemma ==
  ASSUME IInv, ExecuteUpdate
  PROVE  IInv'
<1> USE DEF ExecuteUpdate, Goto, conns, Affected
<1>1. TypeOK'
  BY DEF IInv, TypeOK
<1>2. ConnectionInv'
  BY DEF IInv, ConnectionInv, Borrowed
<1>3. PointerInv'
  BY DEF IInv, PointerInv
<1>4. UpdateInv'
  <2>1. /\ "execute" \in Faults =>
             [up |-> TRUE, table |-> old, ret |-> 0] \in Execute(old, new)
        /\ "lost" \in Faults =>
             [up |-> TRUE, table |-> new, ret |-> 0] \in Execute(old, new)
    BY DEF Execute, Failed
  <2> QED BY <2>1 DEF IInv, UpdateInv, Outcome
<1>5. FindInv'
  BY DEF FindInv
<1> QED BY <1>1, <1>2, <1>3, <1>4, <1>5 DEF IInv

LEMMA ExecuteQueryLemma ==
  ASSUME IInv, ExecuteQuery
  PROVE  IInv'
<1> USE DEF ExecuteQuery, Goto, conns
<1>1. TypeOK'
  <2>1. res' \in {res, "alive"} /\ pc' \in {"fetch", "close", "catch"}
    OBVIOUS
  <2>2. columns' \in {columns, 0} /\ 0 \in -1 .. 5
    OBVIOUS
  <2>3. UNCHANGED <<call, free_list, live, closed, undeleted, connection, pstmt, ret, old,
                    table, new>>
    OBVIOUS
  <2> QED BY <2>1, <2>2, <2>3 DEF IInv, TypeOK, Pointer
<1>2. ConnectionInv'
  BY DEF IInv, ConnectionInv, Borrowed
<1>3. PointerInv'
  BY DEF IInv, PointerInv
<1>4. UpdateInv'
  BY DEF UpdateInv
<1>5. FindInv'
  BY DEF IInv, FindInv, Throws
<1> QED BY <1>1, <1>2, <1>3, <1>4, <1>5 DEF IInv

LEMMA FetchLemma ==
  ASSUME IInv, Fetch
  PROVE  IInv'
<1> USE DEF Fetch, Goto, conns, Selected
<1>1. call = "find" /\ columns \in 0 .. 4 /\ table = "new"
  BY DEF IInv, PointerInv, FindInv
<1>2. TypeOK'
  BY <1>1 DEF IInv, TypeOK
<1>3. ConnectionInv'
  BY DEF IInv, ConnectionInv, Borrowed
<1>4. PointerInv'
  BY <1>1 DEF IInv, PointerInv
<1>5. UpdateInv'
  BY <1>1 DEF UpdateInv
<1>6. FindInv'
  BY <1>1 DEF FindInv, ColumnsRead
<1> QED BY <1>2, <1>3, <1>4, <1>5, <1>6 DEF IInv

LEMMA CloseLemma ==
  ASSUME IInv, Close
  PROVE  IInv'
<1>1. /\ pc = "close" /\ connection # NULL /\ Borrowed /\ TypeOK
      /\ pstmt = "alive"
      /\ res = IF call = "find" THEN "alive" ELSE "uninitialized"
      /\ UNCHANGED <<call, old, new, connection, ret, columns, table>>
  BY DEF IInv, ConnectionInv, PointerInv, Close, Goto
<1>2. /\ call = "update" => Outcome \in Execute(old, new)
      /\ call = "find" => \/ columns = -1 /\ table # "new"
                          \/ columns \in ColumnsRead /\ table = "new"
  <2>1. [up |-> TRUE, table |-> new, ret |-> IF new = old THEN 0 ELSE 1]
           \in Execute(old, new)
    BY DEF Execute
  <2>2. 5 \in ColumnsRead
    BY DEF ColumnsRead
  <2>3. call = "update" => table = new /\ ret = IF new = old THEN 0 ELSE 1
    BY <1>1 DEF IInv, UpdateInv
  <2>4. call = "find" => \/ columns = -1 /\ table # "new"
                         \/ columns = 5 /\ table = "new"
    BY <1>1 DEF IInv, FindInv
  <2>5. call = "update" => Outcome \in Execute(old, new)
    BY <2>1, <2>3 DEF Outcome
  <2> QED BY <2>2, <2>4, <2>5
<1>3. UpdateInv'
  BY <1>1, <1>2 DEF IInv, UpdateInv, Outcome, Close, Goto
<1>4. FindInv'
  BY <1>1, <1>2 DEF FindInv, Close, Goto
<1>5. CASE pc' = "idle"
  <2>1. Release /\ pstmt' = "deleted" /\ res' \in {"deleted", "uninitialized"}
    BY <1>1, <1>5, DeleteLemma DEF Close, Goto
  <2>2. TypeOK'
    BY <1>1, <1>5, <2>1, ReleaseLemma DEF TypeOK, Pointer
  <2>3. ConnectionInv' /\ PointerInv'
    BY <1>1, <1>5, <2>1, ReleaseLemma DEF ConnectionInv, PointerInv
  <2> QED BY <1>3, <1>4, <2>2, <2>3 DEF IInv
<1>6. CASE pc' = "catch"
  <2>1. UNCHANGED <<free_list, live, closed, undeleted, pstmt, res>>
    BY <1>6 DEF Close, Goto, PstmtThrown, conns
  <2>2. TypeOK'
    BY <1>1, <1>6, <2>1 DEF TypeOK
  <2>3. ConnectionInv' /\ PointerInv'
    BY <1>1, <1>6, <2>1 DEF ConnectionInv, PointerInv, Borrowed
  <2> QED BY <1>3, <1>4, <2>2, <2>3 DEF IInv
<1> QED BY <1>5, <1>6 DEF Close, Goto

LEMMA CatchLemma ==
  ASSUME IInv, Catch
  PROVE  IInv'
<1>1. CASE Die
  BY <1>1, DieLemma DEF Catch
<1>2. CASE ~Die
  <2>1. /\ pc = "catch" /\ pc' = "idle" /\ Release
        /\ UNCHANGED <<call, old, new, connection, ret, columns, table>>
        /\ pstmt' = Delete(pstmt)
        /\ res' = IF call = "find" THEN Delete(res) ELSE res
    BY <1>2 DEF Catch, Goto
  <2>2. /\ connection # NULL /\ Borrowed /\ TypeOK
        /\ {pstmt, res} \subseteq {"uninitialized", "alive"}
        /\ call = "update" => res = "uninitialized"
        /\ call \in {"update", "find"}
    BY <2>1 DEF IInv, ConnectionInv, PointerInv, TypeOK
  <2>3. pstmt' = "deleted" /\ res' \in {"deleted", "uninitialized"}
    BY <2>1, <2>2, DeleteLemma
  <2>4. TypeOK'
    BY <2>1, <2>2, <2>3, ReleaseLemma DEF TypeOK, Pointer
  <2>5. ConnectionInv' /\ PointerInv'
    BY <2>1, <2>2, <2>3, ReleaseLemma DEF ConnectionInv, PointerInv
  <2>6. UpdateInv' /\ FindInv'
    BY <2>1 DEF IInv, UpdateInv, FindInv, Outcome
  <2> QED BY <2>4, <2>5, <2>6 DEF IInv
<1> QED BY <1>1, <1>2

LEMMA LoseLemma ==
  ASSUME IInv, Lose
  PROVE  IInv'
<1> USE DEF Lose, locals, tables
<1>1. TypeOK'
  <2>1. Range(free_list) \subseteq live
    BY OneLemma DEF IInv, ConnectionInv, Pooled, Range
  <2> QED BY <2>1 DEF IInv, TypeOK
<1>2. ConnectionInv' /\ PointerInv'
  BY DEF IInv, ConnectionInv, Pooled, PointerInv
<1>3. UpdateInv' /\ FindInv'
  BY DEF IInv, UpdateInv, FindInv, Outcome
<1> QED BY <1>1, <1>2, <1>3 DEF IInv

LEMMA FreshLemma ==
  [up |-> TRUE, table |-> table, ret |-> 0] \in Execute(table, table)
BY DEF Execute

LEMMA RestartLemma ==
  ASSUME IInv, Restart
  PROVE  IInv'
<1> USE DEF Restart
<1>1. TypeOK'
  BY TypeLemma DEF IInv, TypeOK, Pointer
<1>2. ConnectionInv' /\ PointerInv'
  BY DEF ConnectionInv, Pooled, PointerInv
<1>3. UpdateInv' /\ FindInv'
  BY FreshLemma DEF UpdateInv, FindInv, Outcome
<1> QED BY <1>1, <1>2, <1>3 DEF IInv

LEMMA InitLemma == Init => IInv
<1> SUFFICES ASSUME Init PROVE IInv
  OBVIOUS
<1>1. TypeOK
  BY DEF Init, TypeOK, Pointer
<1>2. ConnectionInv /\ PointerInv
  BY DEF Init, ConnectionInv, Pooled, PointerInv
<1>3. UpdateInv /\ FindInv
  BY FreshLemma DEF Init, UpdateInv, FindInv, Outcome
<1> QED BY <1>1, <1>2, <1>3 DEF IInv

LEMMA StepLemma == IInv /\ [Next]_vars => IInv'
<1> SUFFICES ASSUME IInv, [Next]_vars PROVE IInv'
  OBVIOUS
<1>1. CASE Kill
  BY <1>1, DieLemma DEF Kill
<1>2. CASE UNCHANGED vars
  BY <1>2 DEF vars, conns, locals, tables, IInv, TypeOK, ConnectionInv, Borrowed,
              Pooled, PointerInv, UpdateInv, FindInv, Outcome
<1> QED BY <1>1, <1>2, CallLemma, PrepareLemma, ExecuteUpdateLemma, ExecuteQueryLemma,
           FetchLemma, CloseLemma, CatchLemma, LoseLemma, RestartLemma DEF Next

LEMMA Invariance == Spec => []IInv
BY InitLemma, StepLemma, PTL DEF Spec

-----------------------------------------------------------------------------
(* Every variable keeps its type.                                           *)
THEOREM TypeCorrect == Spec => []TypeOK
<1>1. IInv => TypeOK
  BY DEF IInv
<1> QED BY <1>1, Invariance, PTL

(* However often calls fail, the bot has at most one connection open.       *)
THEOREM AtMostOneConnection == Spec => []OneConnection
<1>1. IInv => OneConnection
  <2> SUFFICES ASSUME IInv PROVE OneConnection
    OBVIOUS
  <2>1. PICK c : live \subseteq {c} /\ (free_list = << >> \/ free_list = <<c>>)
    BY DEF IInv, ConnectionInv, Pooled, Borrowed
  <2>2. Cardinality(live) <= 1
    <3>1. live = {} \/ live = {c}
      BY <2>1
    <3>2. Cardinality({}) = 0 /\ Cardinality({c}) = 1
      BY FS_EmptySet, FS_Singleton, Zenon
    <3>3. Cardinality(live) = 0 \/ Cardinality(live) = 1
      BY <3>1, <3>2, Zenon
    <3> QED BY <3>3
  <2>3. Len(free_list) <= 1
    <3>1. Len(<< >>) = 0 /\ Len(<<c>>) = 1
      BY OneLemma
    <3> QED BY <2>1, <3>1
  <2> QED BY <2>2, <2>3 DEF OneConnection
<1> QED BY <1>1, Invariance, PTL

(* Between calls the open connection is in the pool.                        *)
THEOREM NoConnectionLost == Spec => []ConnectionsReturned
<1>1. IInv => ConnectionsReturned
  BY OneLemma DEF IInv, ConnectionInv, Pooled, ConnectionsReturned, Range
<1> QED BY <1>1, Invariance, PTL

(* No statement or result set is deleted twice or left behind.              *)
THEOREM StatementsDeletedOnce == Spec => []DeletedOnce
<1>1. IInv => DeletedOnce
  BY DEF IInv, PointerInv, DeletedOnce
<1> QED BY <1>1, Invariance, PTL

(* A statement with a count has, step by step, the outcomes the other       *)
(* modules give it as one step; being killed has to be one of them, as      *)
(* every process can be.                                                    *)
THEOREM CallRefinesExecute == "kill" \in Faults /\ Spec => []UpdateIsAtomic
<1> SUFFICES ASSUME "kill" \in Faults PROVE Spec => []UpdateIsAtomic
  OBVIOUS
<1>1. [up |-> FALSE, table |-> new, ret |-> 0] \in Execute(old, new)
  BY DEF Execute, Failed
<1>2. IInv => UpdateIsAtomic
  <2> SUFFICES ASSUME IInv, call = "update", pc \in {"idle", "down"}
               PROVE  [up |-> pc = "idle", table |-> table, ret |-> ret] \in
                        Execute(old, new) \cup {[up |-> FALSE, table |-> old, ret |-> 0]}
    BY DEF UpdateIsAtomic
  <2>1. CASE pc = "idle"
    <3>1. (pc = "idle") = TRUE
      BY <2>1
    <3> QED BY <2>1, <3>1 DEF IInv, UpdateInv, Outcome
  <2>2. CASE pc = "down"
    <3>1. (pc = "idle") = FALSE /\ ret = 0 /\ table \in {old, new}
      BY <2>2 DEF IInv, UpdateInv
    <3> QED BY <1>1, <3>1
  <2> QED BY <2>1, <2>2
<1> QED BY <1>2, Invariance, PTL

(* And so has find_friend those of FindFriend.                              *)
THEOREM CallRefinesFindFriend == Spec => []FindIsAtomic
<1>1. IInv => FindIsAtomic
  <2> SUFFICES ASSUME IInv, call = "find", pc \in {"idle", "down"},
                      NEW p \in Users, NEW m \in Members, NEW t \in TokIds,
                      NEW s \in Signatures
               PROVE  LET row   == Record(t, Empty, Empty, s, 0, 0)
                          rows  == [k \in IF table = "new" THEN {p} ELSE {} |-> row]
                          found == IF pc = "down" \/ columns = -1
                                     THEN Found(pc = "idle", NULL, InitMgr)
                                     ELSE Found(TRUE, m, Fill(Allocate(InitMgr, m), m,
                                                              Loaded(p, row, columns)))
                      IN found \in FindFriend(rows, InitMgr, p)
                                     \cup {Found(FALSE, NULL, InitMgr)}
    BY DEF FindIsAtomic
  <2> DEFINE row  == Record(t, Empty, Empty, s, 0, 0)
             rows == [k \in IF table = "new" THEN {p} ELSE {} |-> row]
  <2>1. CASE pc = "down"
    <3>1. (pc = "idle") = FALSE
      BY <2>1
    <3> QED BY <2>1, <3>1
  <2>2. CASE pc = "idle" /\ columns = -1
    <3>1. (pc = "idle") = TRUE
      BY <2>2
    <3>2. Found(TRUE, NULL, InitMgr) \in FindFriend(rows, InitMgr, p)
      <4>1. table # "new" \/ Throws
        BY <2>2 DEF IInv, FindInv, ColumnsRead
      <4>2. CASE table # "new"
        BY <4>2 DEF FindFriend, FoundNothing
      <4>3. CASE Throws
        BY <4>3 DEF FindFriend, FoundNothing, Throws
      <4> QED BY <4>1, <4>2, <4>3
    <3> QED BY <2>2, <3>1, <3>2
  <2>3. CASE pc = "idle" /\ columns # -1
    <3>1. columns \in ColumnsRead /\ table = "new"
      BY <2>3 DEF IInv, FindInv
    <3>2. p \in DOMAIN rows /\ rows[p] = row
      BY <3>1
    <3>3. m \in Allocatable(InitMgr)
      BY DEF Allocatable, InitMgr
    <3> HIDE DEF rows, row
    <3>4. Found(TRUE, m, Fill(Allocate(InitMgr, m), m, Loaded(p, row, columns)))
            \in FoundRow(rows, InitMgr, p, columns)
      BY <3>2, <3>3 DEF FoundRow
    <3>5. Found(TRUE, m, Fill(Allocate(InitMgr, m), m, Loaded(p, row, columns)))
            \in FindFriend(rows, InitMgr, p)
      BY <3>1, <3>2, <3>4 DEF FindFriend
    <3> QED BY <2>3, <3>5 DEF rows, row
  <2> QED BY <2>1, <2>2, <2>3
<1> QED BY <1>1, Invariance, PTL
=============================================================================
