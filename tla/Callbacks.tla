------------------------------ MODULE Callbacks ------------------------------
(***************************************************************************)
(* The callbacks of Assisant taken apart: one step for each call that       *)
(* changes the cache, the table or a file, in the order of Assisant.cpp,    *)
(* and the process killed between any two of them. It composes the parts    *)
(* that Assisant uses in one step each: find_friend and the statements of   *)
(* MemberModel, the cache of MemberMgr and update_savedata_file.            *)
(*                                                                         *)
(* Nothing runs between two steps of a callback but its own next step:      *)
(* main() is one thread, and the clock of toxcore is set once in every      *)
(* tox_iterate. What dying half-way leaves behind is the question; that it  *)
(* is one of the outcomes Assisant allows is ImplementsAssisant.            *)
(*                                                                         *)
(* Callbacks that change one thing only, and those that only answer, are    *)
(* the actions of Assisant. fopen failing, which ends the process, is a     *)
(* Kill; a short write is left to Savedata.                                 *)
(***************************************************************************)
EXTENDS Assisant

(* The variables a callback may change half-way, as they were. *)
Snapshot ==
  [conn : [Users -> Conns \cup {Offline}], profile : [Users -> Profile],
   mgr : MgrType, db : UNION {[D -> Records] : D \in SUBSET Users},
   consent : [Users -> {"none", "on", "stopping", "off"}],
   acked_signature : [Users -> Signatures \cup {Empty}]]

(* A process can be killed at any place, after a statement as well (kill)   *)
(* as with the statement not run (prepare).                                 *)
ASSUME CallbacksAssumption ==
  /\ {"prepare", "kill"} \subseteq Faults
  /\ NULL \notin Snapshot

VARIABLES
  call,    \* the callback in progress
  tmp,     \* save_data_tmp_file: the profiles in it, or NULL
  before   \* history: what the callback in progress found

callVars == <<vars, call, tmp, before>>

(* Which callback it is of, the step it takes next, the friend it was       *)
(* called for, its text, the Member found, and whether it will answer.      *)
Calling(of, step, who, text, member) ==
  [of |-> of, step |-> step, who |-> who, text |-> text, member |-> member,
   answers |-> FALSE]

Idle == Calling("tox_iterate", "wait", NULL, Empty, NULL)

Now == [conn |-> conn, profile |-> profile, mgr |-> mgr, db |-> db,
        consent |-> consent, acked_signature |-> acked_signature]

Ready(p) == up /\ call = Idle /\ conn[p] # Offline

Begin(newCall) == call' = newCall /\ before' = Now /\ UNCHANGED tmp
Goto(step) == call' = [call EXCEPT !.step = step] /\ UNCHANGED before
End == call' = Idle /\ before' = NULL

(* The process dies in a callback. *)
Dies(table) == Die(table) /\ End /\ UNCHANGED tmp

CallInit == Init /\ call = Idle /\ tmp = NULL /\ before = NULL

Kill == call # Idle /\ Dies(db) /\ UNCHANGED <<now, history>>

-----------------------------------------------------------------------------
(* tox_friend_connection_status_callback: find_friend, add_member and the   *)
(* avatar.                                                                  *)
FindFound(p, c) ==
  /\ up /\ call = Idle /\ conn[p] # c
  /\ \E r \in FindFriend(db, mgr, p) :
       \/ ~r.up /\ Dies(db)
       \/ /\ r.up
          /\ conn' = [conn EXCEPT ![p] = c]
          /\ mgr' = r.mgr
          /\ Begin(Calling("online", "add", p, Empty, r.member))
          /\ UNCHANGED <<up, profile, saved, avatar, db, out>>
  /\ UNCHANGED <<now, history>>

AddFound ==
  /\ call.step = "add"
  /\ mgr' = IF call.member = NULL THEN mgr ELSE AddMember(mgr, call.member)
  /\ Goto("avatar")
  /\ UNCHANGED <<up, conn, profile, saved, avatar, db, now, out, history, tmp>>

OfferAvatar ==
  /\ call.step = "avatar"
  /\ SendAvatar(call.who)
  /\ End
  /\ UNCHANGED <<up, conn, profile, saved, mgr, db, now, history, tmp>>

-----------------------------------------------------------------------------
(* friend_request_cb, for a friend who is new: update_savedata_file alone.  *)
RequestAdded ==
  /\ up /\ call = Idle
  /\ Begin(Calling("request", "fopen", NULL, Empty, NULL))
  /\ UNCHANGED vars

(* What toxcore holds once it has stored the new name or status message. *)
Stored(p, field, v) == [profile EXCEPT ![p] = [@ EXCEPT ![field] = v]]

(* friend_name_cb, friend_status_message_cb: the statement, the cache, and  *)
(* the three calls of update_savedata_file.                                 *)
UpdateReported(p, field, v) ==
  /\ Ready(p)
  /\ \E r \in Execute(db, UpdateColumn(db, p, field, v, now)) :
       \/ ~r.up /\ Dies(r.table)
       \/ /\ r.up
          /\ db' = r.table
          /\ profile' = IF NameStoredFirst THEN Stored(p, field, v) ELSE profile
          /\ Begin(Calling(field, "cache", p, v, NULL))
          /\ UNCHANGED <<up, conn, saved, avatar, mgr, out>>
  /\ UNCHANGED <<now, history>>

CacheReported ==
  /\ call.step = "cache"
  /\ mgr' = SetField(mgr, call.who, call.of, call.text)
  /\ Goto("fopen")
  /\ UNCHANGED <<up, conn, profile, saved, avatar, db, now, out, history, tmp>>

Fopen ==
  /\ call.step = "fopen"
  /\ tmp' = NULL
  /\ Goto("fwrite")
  /\ UNCHANGED vars

(* Mutant: the file is renamed before it is written. *)
FwriteNothing == call.step = "fwrite" /\ Goto("rename") /\ UNCHANGED <<vars, tmp>>

Fwrite ==
  /\ call.step = "fwrite"
  /\ tmp' = profile
  /\ Goto("rename")
  /\ UNCHANGED vars

Rename ==
  /\ call.step = "rename"
  /\ \/ saved' = tmp /\ tmp' = NULL
     \/ "rename" \in Faults /\ UNCHANGED <<saved, tmp>>
  /\ profile' = IF call.of = "request" THEN profile
                                       ELSE Stored(call.who, call.of, call.text)
  /\ out' = NoMessage
  /\ End
  /\ UNCHANGED <<up, conn, avatar, mgr, db, now, history>>

-----------------------------------------------------------------------------
(* cmd_start: add_friend, then the cache.                                   *)
StartReplace(p, tok_id) ==
  /\ Ready(p)
  /\ \E r \in Execute(db, ReplaceRow(db, p, tok_id, GetName(p), GetStatusMessage(p), now)) :
       \/ ~r.up /\ Dies(r.table)
       \/ /\ r.up
          /\ db' = r.table
          /\ Begin(Calling("start", "register", p, tok_id, NULL))
          /\ UNCHANGED <<up, conn, profile, saved, avatar, mgr, out>>
  /\ consent' = [consent EXCEPT ![p] = "on"]
  /\ acked_signature' = [acked_signature EXCEPT ![p] = Empty]
  /\ UNCHANGED now

StartRegister ==
  LET p == call.who
  IN
  /\ call.step = "register"
  /\ \E m \in Allocatable(mgr) :
       mgr' = AddMember(Fill(Allocate(mgr, m), m,
                             [Allocate(mgr, m).member[m] EXCEPT
                                !.pk = p, !.tok_id = call.text,
                                !.nick_name = GetName(p),
                                !.bio = GetStatusMessage(p)]), m)
  /\ call' = [call EXCEPT !.step = "answer", !.answers = TRUE]
  /\ UNCHANGED <<up, conn, profile, saved, avatar, db, now, out, history, tmp, before>>

(* cmd_stop: the cache, then del_friend. *)
StopCache(p) ==
  /\ Ready(p)
  /\ mgr' = DelMember(mgr, p)
  /\ Begin(Calling("stop", "statement", p, Empty, NULL))
  /\ UNCHANGED <<up, conn, profile, saved, avatar, db, now, out, history>>

(* cmd_set with a text: the cache, then update_friend_signature. *)
SetCache(p, signature) ==
  /\ Ready(p)
  /\ mgr' = SetField(mgr, p, "signature", signature)
  /\ Begin(Calling("set", "statement", p, signature, NULL))
  /\ UNCHANGED <<up, conn, profile, saved, avatar, db, now, out, history>>

(* The statement of cmd_stop or cmd_set. *)
CommandStatement ==
  LET p == call.who
      table == IF call.of = "stop" THEN DeleteRow(db, p)
                                   ELSE UpdateColumn(db, p, "signature", call.text, now)
  IN
  /\ call.step = "statement"
  /\ \E r \in Execute(db, table) :
       \/ ~r.up /\ Dies(r.table)
       \/ /\ r.up
          /\ db' = r.table
          /\ call' = [call EXCEPT !.step = "answer", !.answers = Answered(r)]
          /\ UNCHANGED <<up, conn, profile, saved, avatar, mgr, out, tmp, before>>
  /\ acked_signature' = [acked_signature EXCEPT ![p] = Empty]
  /\ IF call.of = "stop" THEN Withdrawn(p, FALSE) ELSE UNCHANGED consent
  /\ UNCHANGED now

(* Mutant: the answer is sent whatever the command returned. *)
AnswersAlways == TRUE

Answers == call.answers

(* process_cmd: the command's answer, if it returned true. *)
Answer ==
  LET p == call.who
  IN
  /\ call.step = "answer"
  /\ IF Answers THEN Reply(p, call.of, Blank) ELSE out' = NoMessage
  /\ IF Answers /\ call.of = "stop" THEN Withdrawn(p, TRUE) ELSE UNCHANGED consent
  /\ acked_signature' = [acked_signature EXCEPT ![p] =
                           IF Answers /\ call.of = "set" THEN call.text ELSE @]
  /\ End
  /\ UNCHANGED <<up, conn, profile, saved, avatar, mgr, db, now, tmp>>

-----------------------------------------------------------------------------
(* What Assisant does in one step. *)
Whole ==
  /\ call = Idle
  /\ \/ Crash \/ Restart \/ Tick
     \/ \E p \in Users : FriendOffline(p) \/ Get(p) \/ Info(p) \/ FixedText(p)
  /\ UNCHANGED <<call, tmp, before>>

Begins(p) ==
  \/ \E c \in Conns : FindFound(p, c)
  \/ \E field \in {"nick_name", "bio"} :
       \E v \in Texts[field] : UpdateReported(p, field, v)
  \/ \E t \in TokIds : StartReplace(p, t)
  \/ StopCache(p)
  \/ \E s \in Signatures : SetCache(p, s)

Continues ==
  \/ AddFound \/ OfferAvatar
  \/ CacheReported \/ Fopen \/ Fwrite \/ Rename
  \/ StartRegister \/ CommandStatement \/ Answer

CallNext ==
  Kill \/ Whole \/ RequestAdded \/ Continues \/ \E p \in Users : Begins(p)

CallSpec == CallInit /\ [][CallNext]_callVars

-----------------------------------------------------------------------------
Steps == {"wait", "add", "avatar", "cache", "fopen", "fwrite", "rename",
          "register", "statement", "answer"}

(* The types of Assisant between any two steps as well, and of a callback   *)
(* in progress. The process is up, the friend it was called for connected,  *)
(* and what is about to be renamed over the savedata file is what toxcore   *)
(* holds.                                                                   *)
CallTypeOK ==
  /\ TypeOK
  /\ call \in [of : {"tox_iterate", "online", "request", "nick_name", "bio",
                     "start", "stop", "set"},
               step : Steps, who : Users \cup {NULL},
               text : UNION {TokIds, Names, Bios, Signatures, {Empty}},
               member : Members \cup {NULL}, answers : BOOLEAN]
  /\ tmp \in [Users -> Profile] \cup {NULL}
  /\ before \in Snapshot \cup {NULL}
  /\ before = NULL <=> call = Idle
  /\ call # Idle => up /\ (call.of = "request" \/ conn[call.who] # Offline)
  /\ call.step = "rename" => tmp = profile

(* Until a callback has ended, the friends see what it found. *)
Seen == IF call = Idle THEN Now ELSE before

Atomic == INSTANCE Assisant WITH
  conn <- Seen.conn, profile <- Seen.profile, mgr <- Seen.mgr, db <- Seen.db,
  consent <- Seen.consent, acked_signature <- Seen.acked_signature

(* Every callback is one step of Assisant, however many steps it takes and  *)
(* wherever in it the process is killed: what is then left in the table and *)
(* in the savedata file is what Assisant may leave.                         *)
ImplementsAssisant == Atomic!Spec
=============================================================================
